--------------------------- MODULE RoamingLifecycle ---------------------------
(***************************************************************************)
(* How RoamingSync implements CardLifecycle.  A pending marker is never    *)
(* removed, so the markers of all replicas are the history of what was     *)
(* created and deleted.                                                    *)
(***************************************************************************)
EXTENDS RoamingSync

CreatedCards ==
  {c \in Cards : \E r \in Replicas : \E m \in db[r].pending :
                   m.kind = "card.create" /\ m.entity = c}

IssuedDeletes(c) ==
  UNION {{[clock |-> m.seq, replica |-> r] :
            m \in {m \in db[r].pending : m.kind = "card.delete" /\ m.entity = c}}
         : r \in Replicas}

Deletes   == [c \in Cards |-> IssuedDeletes(c)]
LiveCards == [r \in Replicas |-> {c \in Cards : Present(db[r], c)}]
Tombs     == [r \in Replicas |-> db[r].tomb]

Lifecycle == INSTANCE CardLifecycle WITH
  Clocks  <- 0 .. MaxClock,
  created <- CreatedCards,
  deletes <- Deletes,
  live    <- LiveCards,
  tomb    <- Tombs

\* Every step of the planner and of the sync actor, with all their overlaps,
\* is a step of the card's life cycle or invisible in it.
ImplementsLifecycle == Lifecycle!Spec

=============================================================================
