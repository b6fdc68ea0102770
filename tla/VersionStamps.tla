---------------------------- MODULE VersionStamps ----------------------------
(***************************************************************************)
(* The total order on which every merge decision of the planner rests:    *)
(* VersionStamp in domain/planner.rs, ordered by logical clock, then by   *)
(* replica id, then by event id.                                          *)
(*                                                                         *)
(* Replica ids are UUID strings compared as strings; only their order     *)
(* matters, so they are positive naturals here.  The third component, the *)
(* event id, breaks ties between two events of one replica at one clock;  *)
(* RoamingSync!StampsIdentifyEvents checks that there are none as long as *)
(* a profile is never rolled back, so a stamp is a pair.                  *)
(***************************************************************************)
EXTENDS Naturals

CONSTANT Replicas

ASSUME ReplicasAssumption == Replicas \subseteq Nat \ {0}

Stamp == [clock : Nat, replica : Replicas]

\* The absent stamp (Option::None in the code).  Its clock is below every
\* allocated one: next_local_clock starts counting at 1.
NoStamp == [clock |-> 0, replica |-> 0]

StampOrNone == Stamp \cup {NoStamp}

\* The strict order a > b.  `None` loses against every stamp, which is how
\* is_none_or(|current| candidate > current) treats it.
Newer(a, b) ==
  \/ a.clock > b.clock
  \/ a.clock = b.clock /\ a.replica > b.replica

=============================================================================
