------------------------ MODULE RoamingLifecycleProofs ------------------------
(***************************************************************************)
(* RoamingSync implements CardLifecycle.  The step simulation rests on the *)
(* invariants of RoamingSyncProofs and on one more: whatever a replica     *)
(* shows, publishes or is about to delete goes back to a card.create, and  *)
(* every published delete to a card.delete marker.                         *)
(***************************************************************************)
EXTENDS RoamingLifecycle, RoamingSyncProofs

ShownWereCreated(d) == \A c \in Cards : Present(d, c) => c \in CreatedCards

Grounded(e) ==
  /\ e.op = "card.put" /\ e.mask = {"*"} => e.card \in CreatedCards
  /\ e.op = "card.delete" => e.stamp \in IssuedDeletes(e.card)

GroundInv ==
  /\ \A r \in Replicas :
       /\ ShownWereCreated(db[r])
       /\ \A v \in deleting[r] : v.card \in CreatedCards /\ v.seq <= MaxClock
  /\ \A e \in Published : Grounded(e)
  /\ merge.at # Nobody =>
       /\ ShownWereCreated(merge.work)
       /\ \A c \in Cards :
            Present(db[merge.at], c) =>
              Present(merge.work, c) \/ Buried(merge.work, c)

-----------------------------------------------------------------------------
(* At most one replica's database changes in a step, and markers are never *)
(* removed.                                                                *)

LEMMA OneReplica ==
  ASSUME TypeOK, [Next]_vars
  PROVE  \/ db' = db
         \/ \E r \in Replicas : \A q \in Replicas \ {r} : db'[q] = db[q]
<1>1. ASSUME NEW r \in Replicas, NEW n, db' = [db EXCEPT ![r] = n]
      PROVE  \A q \in Replicas \ {r} : db'[q] = db[q]
  BY <1>1 DEF TypeOK
<1> QED
  BY <1>1, PlannerForms
     DEF Next, Sync, Edits, Commit, FindDoomed, ReserveDelete, DeleteCard, Materialize,
         StageBatch, OpenMerge, MergeEvent, AbortMerge, CommitMerge, Crash, vars

LEMMA PendingGrows ==
  ASSUME TypeOK, MergeInv, [Next]_vars, NEW r \in Replicas
  PROVE  db[r].pending \subseteq db'[r].pending
<1>1. Changes(r, db'[r])
  BY DbForms
<1>2. CASE \E c \in Cards : ReserveDelete(r, c) /\ db'[r] = NextLocalClock(db[r])
  BY <1>2 DEF NextLocalClock, TypeOK, Store
<1>3. CASE merge.at = r /\ db'[r] = merge.work
  BY <1>3, SomebodyIsAReplica DEF MergeInv
<1> QED
  BY <1>1, <1>2, <1>3 DEF Changes, Edits, Edited, BuriedNow, Materialized

LEMMA HistoryGrows ==
  ASSUME TypeOK, MergeInv, [Next]_vars
  PROVE  /\ CreatedCards \subseteq CreatedCards'
         /\ \A c \in Cards : IssuedDeletes(c) \subseteq IssuedDeletes(c)'
<1>1. \A r \in Replicas : db[r].pending \subseteq db'[r].pending
  BY PendingGrows
<1>2. CreatedCards \subseteq CreatedCards'
  BY <1>1 DEF CreatedCards
<1>3. ASSUME NEW c \in Cards, NEW s \in IssuedDeletes(c)
      PROVE  s \in IssuedDeletes(c)'
  <2>1. PICK r \in Replicas :
          s \in {[clock |-> m.seq, replica |-> r] :
                   m \in {m \in db[r].pending :
                            m.kind = "card.delete" /\ m.entity = c}}
    BY DEF IssuedDeletes
  <2>2. PICK m \in db[r].pending :
          /\ m.kind = "card.delete" /\ m.entity = c
          /\ s = [clock |-> m.seq, replica |-> r]
    BY <2>1
  <2>3. m \in db'[r].pending
    BY <1>1
  <2>4. s \in {[clock |-> x.seq, replica |-> r] :
                 x \in {x \in db'[r].pending :
                          x.kind = "card.delete" /\ x.entity = c}}
    BY <2>2, <2>3
  <2> QED
    BY <2>4 DEF IssuedDeletes
<1> QED
  BY <1>2, <1>3

LEMMA IssuedByMarker ==
  ASSUME NEW r \in Replicas, NEW m \in db[r].pending, m.kind = "card.delete"
  PROVE  [clock |-> m.seq, replica |-> r] \in IssuedDeletes(m.entity)
  BY DEF IssuedDeletes

-----------------------------------------------------------------------------

LEMMA GroundInit == Init => GroundInv
<1> SUFFICES ASSUME Init PROVE GroundInv
  OBVIOUS
<1>1. ASSUME NEW r \in Replicas
      PROVE  /\ \A c \in Cards : db[r].row[c] = NoRow
             /\ db[r].outbox = {}
  <2>1. PICK past \in [Replicas -> PastClocks] :
          db = [q \in Replicas |-> EmptyStore(BoardColumns, past[q])]
    BY DEF Init
  <2>2. db[r] = EmptyStore(BoardColumns, past[r])
    BY <2>1
  <2> QED
    BY <2>2 DEF EmptyStore
<1>2. /\ \A r \in Replicas : deleting[r] = {}
      /\ merge.at = Nobody
  BY DEF Init, NoMerge
<1> QED
  BY <1>1, <1>2 DEF GroundInv, ShownWereCreated, Present, Published

LEMMA ShownAfter ==
  ASSUME TypeOK, MergeInv, GroundInv, [Next]_vars, NEW r \in Replicas
  PROVE  \A c \in Cards : Present(db'[r], c) => c \in CreatedCards'
<1> DEFINE d == db[r]
           n == db'[r]
<1>0. /\ d \in Store /\ n \in Store
      /\ ShownWereCreated(d)
      /\ CreatedCards \subseteq CreatedCards'
  BY TypeNext, HistoryGrows DEF TypeOK, GroundInv
<1> SUFFICES ASSUME NEW c \in Cards, Present(n, c)
             PROVE  c \in CreatedCards'
  OBVIOUS
<1>1. Changes(r, n)
  BY DbForms
<1>2. CASE Present(d, c)
  BY <1>0, <1>2 DEF ShownWereCreated
<1>3. ASSUME NEW x \in Cards, Creates(d, n, x)
      PROVE  c \in CreatedCards'
  <2>1. CASE c = x
    <3>1. PICK m \in n.pending : m.kind = "card.create" /\ m.entity = x
      BY <1>3 DEF Creates
    <3> QED
      BY <2>1, <3>1 DEF CreatedCards
  <2> QED
    BY <1>2, <1>3, <2>1 DEF Creates
<1>4. CASE \E x \in Cards : ReserveDelete(r, x) /\ n = NextLocalClock(d)
  <2>1. n.row = d.row
    BY <1>0, <1>4 DEF NextLocalClock, Store
  <2> QED
    BY <1>2, <2>1 DEF Present
<1>5. CASE \E v \in deleting[r] : v \in Delete /\ BuriedNow(d, n, r, v.card, v.seq)
  BY <1>2, <1>5 DEF BuriedNow, Delete, Present
<1>6. CASE merge.at = r /\ n = merge.work
  BY <1>0, <1>6, SomebodyIsAReplica DEF GroundInv, ShownWereCreated
<1> QED
  BY <1>1, <1>2, <1>3, <1>4, <1>5, <1>6
     DEF Changes, Edits, CreatesNothing, SameCards, Materialized, Present

LEMMA PublishedAfter ==
  ASSUME TypeOK, MergeInv, GroundInv, [Next]_vars, NEW e \in Published'
  PROVE  Grounded(e)'
<1>0. /\ CreatedCards \subseteq CreatedCards'
      /\ \A c \in Cards : IssuedDeletes(c) \subseteq IssuedDeletes(c)'
      /\ e \in Event
  BY TypeNext, HistoryGrows DEF TypeOK, Published, Store
<1>1. PICK r \in Replicas : e \in db'[r].outbox
  BY DEF Published
<1> DEFINE d == db[r]
           n == db'[r]
<1>2. CASE e \in d.outbox
  <2>1. Grounded(e)
    BY <1>2 DEF GroundInv, Published
  <2>2. e.card \in Cards
    BY <1>0 DEF Event, PutEvent, DeleteEvent
  <2> QED
    BY <1>0, <2>1, <2>2 DEF Grounded
<1>3. CASE Materialized(d, n, r) /\ e \notin d.outbox
  <2>1. PICK m \in Unmaterialized(d) : e = MarkerEvent(d, r, m)
    BY <1>1, <1>3 DEF Materialized
  <2>2. /\ m \in d.pending /\ m \in n.pending
        /\ m.kind \in CardKind /\ m.entity \in Cards
    BY <1>3, <2>1, UnmaterializedType DEF Materialized, TypeOK
  <2>3. e.card = m.entity
    BY <2>1 DEF MarkerEvent
  <2>4. ASSUME e.op = "card.put", e.mask = {"*"}
        PROVE  m.kind = "card.create"
    <3>1. e.mask = EventMask(m.kind)
      BY <2>1 DEF MarkerEvent
    <3> QED
      BY <2>2, <2>4, <3>1 DEF EventMask, CardKind, EditKind
  <2>5. ASSUME e.op = "card.delete"
        PROVE  /\ m.kind = "card.delete"
               /\ e.stamp = [clock |-> m.seq, replica |-> r]
    BY <2>1, <2>5 DEF MarkerEvent
  <2>6. ASSUME e.op = "card.put", e.mask = {"*"}
        PROVE  e.card \in CreatedCards'
    BY <2>2, <2>3, <2>4, <2>6 DEF CreatedCards
  <2>7. ASSUME e.op = "card.delete"
        PROVE  e.stamp \in IssuedDeletes(e.card)'
    BY <2>2, <2>3, <2>5, <2>7 DEF IssuedDeletes
  <2> QED
    BY <2>6, <2>7 DEF Grounded
<1>4. Changes(r, n)
  BY DbForms
<1>5. CASE \E c \in Cards : ReserveDelete(r, c) /\ n = NextLocalClock(d)
  <2>1. n.outbox = d.outbox
    BY <1>5 DEF NextLocalClock, TypeOK, Store
  <2> QED
    BY <1>1, <1>2, <2>1
<1>6. CASE merge.at = r /\ n = merge.work
  <2>1. n.outbox = d.outbox
    BY <1>6, SomebodyIsAReplica DEF MergeInv
  <2> QED
    BY <1>1, <1>2, <2>1
<1> QED
  BY <1>1, <1>2, <1>3, <1>4, <1>5, <1>6 DEF Changes, Edits, Edited, BuriedNow

LEMMA ReservedAfter ==
  ASSUME TypeOK, MergeInv, GroundInv, [Next]_vars, NEW r \in Replicas,
         NEW v \in deleting'[r]
  PROVE  v.card \in CreatedCards' /\ v.seq <= MaxClock
<1>0. CreatedCards \subseteq CreatedCards'
  BY HistoryGrows
<1>1. CASE v \in deleting[r]
  BY <1>0, <1>1 DEF GroundInv
<1>2. ASSUME NEW c \in Cards, ReserveDelete(r, c)
      PROVE  v.card \in CreatedCards' /\ v.seq <= MaxClock
  <2>1. /\ c \in CreatedCards
        /\ db[r].clock + 1 <= MaxClock
        /\ deleting'[r] = {[card |-> c, seq |-> NextLocalClock(db[r]).clock]}
    BY <1>2 DEF ReserveDelete, ClocksLeft, TypeOK, GroundInv
  <2>2. NextLocalClock(db[r]).clock = db[r].clock + 1
    BY NextLocalClockType DEF TypeOK
  <2>3. v.card = c /\ v.seq = db[r].clock + 1
    BY <2>1, <2>2
  <2> QED
    BY <1>0, <2>1, <2>3
<1>3. ASSUME NEW c \in Cards, FindDoomed(r, c)
      PROVE  v.card \in CreatedCards' /\ v.seq <= MaxClock
  <2>1. Present(db[r], c) /\ deleting'[r] = {[card |-> c, seq |-> NotReserved]}
    BY <1>3 DEF FindDoomed, TypeOK
  <2>2. v.card = c /\ v.seq = 0
    BY <2>1 DEF NotReserved
  <2> QED
    BY <1>0, <2>1, <2>2, SyncAssumption DEF GroundInv, ShownWereCreated
<1> QED
  BY <1>1, <1>2, <1>3, DeletingForms

LEMMA MergeShowsAfter ==
  ASSUME TypeOK, MergeInv, StampInv, GroundInv, [Next]_vars,
         merge'.at # Nobody
  PROVE  /\ \A c \in Cards : Present(merge'.work, c) => c \in CreatedCards'
         /\ \A c \in Cards :
              Present(db'[merge'.at], c) =>
                Present(merge'.work, c) \/ Buried(merge'.work, c)
<1> DEFINE Goal == /\ \A c \in Cards : Present(merge'.work, c) => c \in CreatedCards'
                   /\ \A c \in Cards :
                        Present(db'[merge'.at], c) =>
                          Present(merge'.work, c) \/ Buried(merge'.work, c)
<1>0. CreatedCards \subseteq CreatedCards' /\ TypeOK'
  BY HistoryGrows, TypeNext
<1>1. CASE merge' = merge /\ db' = db
  BY <1>0, <1>1 DEF GroundInv, ShownWereCreated
<1>2. CASE merge' = merge /\ Idle
  BY <1>2, IdleOwner
<1>3. ASSUME NEW r \in Replicas, OpenMerge(r)
      PROVE  Goal
  <2>1. PICK observed \in {e.stamp.clock : e \in staged[r]} :
          merge' = [at   |-> r,
                    todo |-> staged[r],
                    work |-> ObserveRemoteClock(db[r], observed)]
    BY <1>3 DEF OpenMerge
  <2> DEFINE w == ObserveRemoteClock(db[r], observed)
  <2>2. w.row = db[r].row
    BY DEF ObserveRemoteClock, TypeOK, Store
  <2>3. merge'.work = w /\ merge'.at = r /\ db' = db
    BY <1>3, <2>1 DEF OpenMerge
  <2> HIDE DEF w
  <2> QED
    BY <1>0, <2>2, <2>3 DEF GroundInv, ShownWereCreated, Present
<1>4. ASSUME NEW r \in Replicas, NEW e \in merge.todo, MergeEvent(r, e)
      PROVE  Goal
  <2>1. /\ e \in Event
        /\ merge.work \in Store
        /\ merge'.work \in Store
    BY <1>0 DEF TypeOK
  <2>2. /\ merge.at = r /\ merge'.at = r /\ db' = db
        /\ \/ merge'.work = merge.work
           \/ merge'.work = ApplyRemoteEvent(merge.work, e)
    BY <1>4 DEF MergeEvent, Merging, TypeOK
  <2>3. /\ Grounded(e)
        /\ ShownWereCreated(merge.work)
        /\ \A c \in Cards : Present(db[r], c) =>
             Present(merge.work, c) \/ Buried(merge.work, c)
    BY <2>2, SomebodyIsAReplica DEF GroundInv, StampInv
  <2>4. CASE merge'.work = merge.work
    BY <1>0, <2>2, <2>3, <2>4 DEF ShownWereCreated
  <2>5. CASE merge'.work = ApplyRemoteEvent(merge.work, e)
    <3>1. Merged(merge.work, merge'.work, e)
      BY <2>1, <2>5, ApplyRemoteEventMerges
    <3>2. TombsKept(merge.work, merge'.work)
      BY <2>1, <3>1, MergedKeepsTombs
    <3>3. ASSUME NEW c \in Cards, Present(merge'.work, c)
          PROVE  c \in CreatedCards'
      BY <1>0, <2>3, <3>1, <3>3 DEF Merged, ShownWereCreated, Grounded
    <3>4. ASSUME NEW c \in Cards, Present(db[r], c)
          PROVE  Present(merge'.work, c) \/ Buried(merge'.work, c)
      <4>1. CASE Buried(merge.work, c)
        BY <3>2, <4>1 DEF TombsKept
      <4>2. CASE Present(merge.work, c)
        <5>1. \A s \in StampOrNone : Newer(e.stamp, s) => e.stamp # NoStamp
          BY <2>1, StampOrder DEF Event, PutEvent, DeleteEvent, StampOrNone
        <5>2. merge.work.tomb[c] \in StampOrNone
          BY <2>1 DEF Store
        <5> QED
          BY <3>1, <4>2, <5>1, <5>2 DEF Merged, Buried
      <4> QED
        BY <2>3, <3>4, <4>1, <4>2
    <3> QED
      BY <2>2, <3>3, <3>4
  <2> QED
    BY <2>2, <2>4, <2>5
<1>5. CASE merge' = NoMerge
  BY <1>5 DEF NoMerge
<1> QED
  BY <1>1, <1>2, <1>3, <1>4, <1>5, PlannerForms
     DEF Next, Sync, Edits, Commit, FindDoomed, ReserveDelete, PlannerReady, PlannerTurn, DeleteCard,
         Materialize, StageBatch, SyncReady, AbortMerge, CommitMerge, Crash, vars

LEMMA GroundNext ==
  TypeOK /\ MergeInv /\ StampInv /\ GroundInv /\ [Next]_vars => GroundInv'
<1> SUFFICES ASSUME TypeOK, MergeInv, StampInv, GroundInv, [Next]_vars
             PROVE  GroundInv'
  OBVIOUS
<1>1. \A r \in Replicas : ShownWereCreated(db[r])'
  BY ShownAfter DEF ShownWereCreated
<1>2. \A r \in Replicas : \A v \in deleting'[r] :
        v.card \in CreatedCards' /\ v.seq <= MaxClock
  BY ReservedAfter
<1>3. \A e \in Published' : Grounded(e)'
  BY PublishedAfter
<1>4. merge'.at # Nobody =>
        /\ ShownWereCreated(merge.work)'
        /\ \A c \in Cards :
             Present(db'[merge'.at], c) =>
               Present(merge'.work, c) \/ Buried(merge'.work, c)
  BY MergeShowsAfter DEF ShownWereCreated
<1> QED
  BY <1>1, <1>2, <1>3, <1>4 DEF GroundInv

AllInv == LifeOK /\ FloorInv /\ StampInv /\ GroundInv

LEMMA AllInvInvariant == Spec => []AllInv
<1>1. Init => AllInv
  BY TypeInit, MergeInvInit, NewestInit, LifeInit, FloorInit, StampInit,
     GroundInit DEF AllInv, LifeOK
<1>2. AllInv /\ [Next]_vars => AllInv'
  BY TypeNext, MergeInvNext, NewestNext, LifeNext, FloorNext, StampNext,
     GroundNext DEF AllInv, LifeOK
<1> QED
  BY <1>1, <1>2, PTL DEF Spec

-----------------------------------------------------------------------------
(* The step simulation.                                                    *)

\* The mapped state after a step that changed the database of r only.
LEMMA MappedAfter ==
  ASSUME NEW r \in Replicas, \A q \in Replicas \ {r} : db'[q] = db[q]
  PROVE  /\ LiveCards' = [LiveCards EXCEPT ![r] = {c \in Cards : Present(db'[r], c)}]
         /\ Tombs' = [Tombs EXCEPT ![r] = db'[r].tomb]
  BY DEF LiveCards, Tombs

LEMMA CreatedSame ==
  ASSUME NEW r \in Replicas, \A q \in Replicas \ {r} : db'[q] = db[q],
         db[r].pending \subseteq db'[r].pending,
         \A m \in db'[r].pending \ db[r].pending : m.kind # "card.create"
  PROVE  CreatedCards' = CreatedCards
  BY DEF CreatedCards

LEMMA DeletesSame ==
  ASSUME NEW r \in Replicas, \A q \in Replicas \ {r} : db'[q] = db[q],
         db[r].pending \subseteq db'[r].pending,
         \A m \in db'[r].pending \ db[r].pending : m.kind # "card.delete"
  PROVE  Deletes' = Deletes
<1>1. ASSUME NEW c \in Cards
      PROVE  IssuedDeletes(c)' = IssuedDeletes(c)
  <2>1. \A q \in Replicas :
          {m \in db'[q].pending : m.kind = "card.delete" /\ m.entity = c}
            = {m \in db[q].pending : m.kind = "card.delete" /\ m.entity = c}
    OBVIOUS
  <2> QED
    BY <2>1 DEF IssuedDeletes
<1> QED
  BY <1>1 DEF Deletes

\* A step that shows nothing of itself.
LEMMA Invisible ==
  ASSUME NEW r \in Replicas, \A q \in Replicas \ {r} : db'[q] = db[q],
         db[r].pending \subseteq db'[r].pending,
         \A m \in db'[r].pending \ db[r].pending :
           m.kind # "card.create" /\ m.kind # "card.delete",
         SameCards(db[r], db'[r]), db'[r].tomb = db[r].tomb
  PROVE  UNCHANGED Lifecycle!lifeVars
<1>1. LiveCards' = LiveCards
  BY DEF LiveCards, SameCards
<1>2. Tombs' = Tombs
  BY DEF Tombs
<1> QED
  BY <1>1, <1>2, CreatedSame, DeletesSame DEF Lifecycle!lifeVars

LEMMA SameStamps ==
  /\ Lifecycle!NoStamp = NoStamp
  /\ \A a, b : Lifecycle!Newer(a, b) <=> Newer(a, b)
  BY DEF Lifecycle!NoStamp, NoStamp, Lifecycle!Newer, Newer

LEMMA CreateStep ==
  ASSUME NEW r \in Replicas, \A q \in Replicas \ {r} : db'[q] = db[q],
         Edited(db[r], db'[r], EditKind \cup {"column.create"}),
         NEW c \in Cards, Creates(db[r], db'[r], c)
  PROVE  Lifecycle!Create(r, c)
<1>1. c \notin CreatedCards /\ Tombs[r][c] = NoStamp
  BY DEF Creates, FreshId, CreatedCards, Tombs, Buried
<1>2. CreatedCards' = CreatedCards \cup {c}
  BY DEF Creates, CreatedCards, Edited
<1>3. LiveCards' = [LiveCards EXCEPT ![r] = @ \cup {c}]
  BY DEF LiveCards, Creates
<1>4. Deletes' = Deletes
  <2>1. \A m \in db'[r].pending \ db[r].pending : m.kind # "card.delete"
    BY DEF Creates
  <2> QED
    BY <2>1, DeletesSame DEF Edited
<1>5. Tombs' = Tombs
  BY DEF Tombs, Edited
<1> QED
  BY <1>1, <1>2, <1>3, <1>4, <1>5, SameStamps DEF Lifecycle!Create

LEMMA DeleteStep ==
  ASSUME AllInv, TypeOK', NEW r \in Replicas,
         \A q \in Replicas \ {r} : db'[q] = db[q],
         NEW v \in deleting[r], v \in Delete, v.seq # NotReserved,
         BuriedNow(db[r], db'[r], r, v.card, v.seq)
  PROVE  \E c \in Cards, n \in 0 .. MaxClock : Lifecycle!Delete(r, c, n)
<1> DEFINE d == db[r]
           n == db'[r]
           c == v.card
           s == [clock |-> v.seq, replica |-> r]
           m == [seq |-> v.seq, kind |-> "card.delete", entity |-> c]
<1>1. /\ c \in Cards /\ v.seq \in 0 .. MaxClock
      /\ c \in CreatedCards
  BY DEF Delete, AllInv, GroundInv
<1>2. /\ d.tomb \in [Cards -> StampOrNone] /\ n.tomb \in [Cards -> StampOrNone]
      /\ n.pending = d.pending \cup {m}
  BY DEF AllInv, LifeOK, TypeOK, Store, BuriedNow
<1>3. ASSUME NEW x \in Cards
      PROVE  s \notin Deletes[x]
  <2> SUFFICES ASSUME s \in IssuedDeletes(x) PROVE FALSE
    BY DEF Deletes
  <2>1. PICK q \in Replicas :
          s \in {[clock |-> y.seq, replica |-> q] :
                   y \in {y \in db[q].pending :
                            y.kind = "card.delete" /\ y.entity = x}}
    BY DEF IssuedDeletes
  <2>2. PICK y \in db[q].pending : s = [clock |-> y.seq, replica |-> q]
    BY <2>1
  <2>3. q = s.replica /\ y.seq = s.clock
    BY <2>2
  <2>4. q = r /\ y.seq = v.seq
    BY <2>3
  <2> QED
    BY <2>4 DEF AllInv, StampInv, Unused
<1>4. Deletes' = [Deletes EXCEPT ![c] = @ \cup {s}]
  <2>1. ASSUME NEW x \in Cards, x # c
        PROVE  IssuedDeletes(x)' = IssuedDeletes(x)
    <3>1. \A q \in Replicas :
            {y \in db'[q].pending : y.kind = "card.delete" /\ y.entity = x}
              = {y \in db[q].pending : y.kind = "card.delete" /\ y.entity = x}
      BY <1>2, <2>1
    <3> QED
      BY <3>1 DEF IssuedDeletes
  <2>2. IssuedDeletes(c)' = IssuedDeletes(c) \cup {s}
    <3> DEFINE Own(p, q) == {[clock |-> y.seq, replica |-> q] :
                 y \in {y \in p : y.kind = "card.delete" /\ y.entity = c}}
    <3>1. {y \in n.pending : y.kind = "card.delete" /\ y.entity = c}
            = {y \in d.pending : y.kind = "card.delete" /\ y.entity = c} \cup {m}
      BY <1>2
    <3>2. Own(n.pending, r) = Own(d.pending, r) \cup {s}
      <4>1. s = [clock |-> m.seq, replica |-> r]
        OBVIOUS
      <4> HIDE DEF s, m
      <4>2. \A A : {[clock |-> y.seq, replica |-> r] : y \in A \cup {m}}
                    = {[clock |-> y.seq, replica |-> r] : y \in A} \cup {s}
        BY <4>1
      <4> QED
        BY <3>1, <4>2
    <3>3. \A q \in Replicas \ {r} : Own(db'[q].pending, q) = Own(db[q].pending, q)
      OBVIOUS
    <3>4. /\ IssuedDeletes(c) = UNION {Own(db[q].pending, q) : q \in Replicas}
          /\ IssuedDeletes(c)' = UNION {Own(db'[q].pending, q) : q \in Replicas}
      BY DEF IssuedDeletes
    <3> HIDE DEF Own, s
    <3> QED
      BY <3>2, <3>3, <3>4
  <2>3. [Deletes EXCEPT ![c] = @ \cup {s}]
          = [x \in Cards |-> IF x = c THEN IssuedDeletes(x) \cup {s}
                                      ELSE IssuedDeletes(x)]
    BY <1>1 DEF Deletes
  <2> HIDE DEF s, c
  <2>4. \A x \in Cards : IssuedDeletes(x)' = IF x = c THEN IssuedDeletes(x) \cup {s}
                                                      ELSE IssuedDeletes(x)
    BY <2>1, <2>2
  <2> QED
    BY <2>3, <2>4 DEF Deletes
<1>5. LiveCards' = [LiveCards EXCEPT ![r] = @ \ {c}]
  <2>1. \A x \in Cards : Present(n, x) <=> (Present(d, x) /\ x # c)
    BY <1>1 DEF BuriedNow, Present
  <2>2. {x \in Cards : Present(n, x)} = {x \in Cards : Present(d, x)} \ {c}
    BY <2>1
  <2>3. LiveCards[r] = {x \in Cards : Present(d, x)}
    BY DEF LiveCards
  <2> QED
    BY <2>2, <2>3, MappedAfter
<1>6. Tombs' = [Tombs EXCEPT ![r][c] = IF Newer(s, @) THEN s ELSE @]
  <2>1. /\ n.tomb[c] = IF Newer(s, d.tomb[c]) THEN s ELSE d.tomb[c]
        /\ \A x \in Cards \ {c} : n.tomb[x] = d.tomb[x]
    BY DEF BuriedNow
  <2> HIDE DEF s
  <2>2. n.tomb = [d.tomb EXCEPT ![c] = IF Newer(s, @) THEN s ELSE @]
    BY <1>1, <1>2, <2>1
  <2> QED
    BY <2>2 DEF Tombs
<1>7. CreatedCards' = CreatedCards
  <2>1. /\ d.pending \subseteq n.pending
        /\ \A x \in n.pending \ d.pending : x.kind # "card.create"
    BY <1>2
  <2> QED
    BY <2>1, CreatedSame
<1>8. Lifecycle!Delete(r, c, v.seq)
  BY <1>1, <1>3, <1>4, <1>5, <1>6, <1>7, SameStamps DEF Lifecycle!Delete
<1> QED
  BY <1>1, <1>8

\* Two stamps that are not ordered are equal.
LEMMA StampTotal ==
  ASSUME NEW a \in StampOrNone, NEW b \in StampOrNone,
         ~ Newer(a, b), ~ Newer(b, a)
  PROVE  a = b
<1>1. a.clock = b.clock /\ a.replica = b.replica
  BY StampOrder DEF Newer
<1>2. /\ a = [clock |-> a.clock, replica |-> a.replica]
      /\ b = [clock |-> b.clock, replica |-> b.replica]
  BY DEF StampOrNone, Stamp, NoStamp
<1> QED
  BY <1>1, <1>2

\* Whatever deletes a store that is made of published events knows of, some
\* replica has issued.
LEMMA KnownWereIssued ==
  ASSUME GroundInv, NEW r \in Replicas, NEW d, d.seen \subseteq Published,
         d.pending = db[r].pending, NEW c \in Cards
  PROVE  KnownDeletes(d, r, c) \subseteq IssuedDeletes(c)
<1>1. \A e \in d.seen : e.op = "card.delete" => e.stamp \in IssuedDeletes(e.card)
  BY DEF GroundInv, Grounded
<1>2. \A m \in d.pending : m.kind = "card.delete" =>
        [clock |-> m.seq, replica |-> r] \in IssuedDeletes(m.entity)
  BY IssuedByMarker
<1> QED
  BY <1>1, <1>2 DEF KnownDeletes

LEMMA LearnStep ==
  ASSUME AllInv, NEW r \in Replicas, \A q \in Replicas \ {r} : db'[q] = db[q],
         merge.at = r, db'[r] = merge.work
  PROVE  Lifecycle!Learn(r)
<1> DEFINE d == db[r]
           w == merge.work
           L == {c \in Cards : Present(w, c)}
           T == w.tomb
<1>1. /\ d \in Store /\ w \in Store
      /\ w.pending = d.pending
      /\ TombsKept(d, w)
      /\ w.seen \subseteq Published
      /\ TombsAreNewest(w, r)
      /\ NoZombies(w)
      /\ ShownWereCreated(w)
      /\ \A c \in Cards : Present(d, c) => Present(w, c) \/ Buried(w, c)
  BY SomebodyIsAReplica
     DEF AllInv, LifeOK, TypeOK, MergeInv, StampInv, NewestInv, LifeInv, GroundInv
<1>2. /\ d.tomb \in [Cards -> StampOrNone]
      /\ T \in [Cards -> StampOrNone]
  BY <1>1 DEF Store
<1>3. ASSUME NEW c \in Cards
      PROVE  T[c] = NoStamp \/ T[c] \in IssuedDeletes(c)
  <2>1. KnownDeletes(w, r, c) \subseteq IssuedDeletes(c)
    BY <1>1, KnownWereIssued DEF AllInv
  <2> QED
    BY <1>1, <2>1 DEF TombsAreNewest, IsNewest
<1>4. T \in [Cards -> {NoStamp} \cup UNION {Deletes[c] : c \in Cards}]
  BY <1>2, <1>3 DEF Deletes
<1>5. ASSUME NEW c \in Cards
      PROVE  \/ T[c] = Tombs[r][c]
             \/ T[c] \in Deletes[c] /\ Newer(T[c], Tombs[r][c])
  <2>1. Tombs[r][c] = d.tomb[c]
    BY DEF Tombs
  <2>2. CASE T[c] = NoStamp
    BY <1>1, <2>1, <2>2 DEF TombsKept, Buried
  <2>3. CASE T[c] # NoStamp
    <3>1. T[c] \in Deletes[c]
      BY <1>3, <2>3 DEF Deletes
    <3>2. ~ Newer(d.tomb[c], T[c])
      <4>1. CASE Buried(d, c)
        BY <1>1, <4>1 DEF TombsKept
      <4>2. CASE ~ Buried(d, c)
        BY <1>2, <4>2, StampOrder DEF Buried
      <4> QED
        BY <4>1, <4>2
    <3> QED
      BY <1>2, <2>1, <3>1, <3>2, StampTotal
  <2> QED
    BY <2>2, <2>3
<1>6. /\ L \subseteq CreatedCards
      /\ \A c \in L : T[c] = NoStamp
      /\ \A c \in LiveCards[r] \ L : T[c] # NoStamp
  BY <1>1 DEF ShownWereCreated, NoZombies, Buried, LiveCards
<1>7. /\ LiveCards' = [LiveCards EXCEPT ![r] = L]
      /\ Tombs' = [Tombs EXCEPT ![r] = T]
  BY MappedAfter
<1>8. CreatedCards' = CreatedCards /\ Deletes' = Deletes
  BY <1>1, CreatedSame, DeletesSame
<1>9. L \in SUBSET Cards
  OBVIOUS
<1> HIDE DEF L, T
<1>10. Lifecycle!MayLearn(r, L, T)
  BY <1>5, <1>6, SameStamps DEF Lifecycle!MayLearn
<1> QED
  BY <1>4, <1>7, <1>8, <1>9, <1>10, SameStamps DEF Lifecycle!Learn

LEMMA StepImplements ==
  ASSUME AllInv, [Next]_vars
  PROVE  [Lifecycle!Next]_(Lifecycle!lifeVars)
<1>0. TypeOK /\ MergeInv /\ TypeOK'
  BY TypeNext DEF AllInv, LifeOK
<1>1. CASE db' = db
  BY <1>1 DEF Lifecycle!lifeVars, CreatedCards, Deletes, IssuedDeletes,
              LiveCards, Tombs, Present
<1>2. ASSUME NEW r \in Replicas, \A q \in Replicas \ {r} : db'[q] = db[q]
      PROVE  [Lifecycle!Next]_(Lifecycle!lifeVars)
  <2> DEFINE d == db[r]
             n == db'[r]
  <2>1. Changes(r, n)
    BY <1>0, DbForms
  <2>2. d.pending \subseteq n.pending
    BY <1>0, PendingGrows
  <2>3. CASE n = d
    BY <1>2, <2>3, Invisible DEF SameCards
  <2>4. CASE Edits(r, n)
    <3>1. Edited(d, n, EditKind \cup {"column.create"})
      BY <2>4 DEF Edits
    <3>2. CASE CreatesNothing(d, n)
      <4>1. /\ SameCards(d, n) /\ n.tomb = d.tomb
            /\ \A m \in n.pending \ d.pending :
                 m.kind # "card.create" /\ m.kind # "card.delete"
        BY <3>1, <3>2 DEF CreatesNothing, Edited, EditKind
      <4> QED
        BY <1>2, <2>2, <4>1, Invisible
    <3>3. ASSUME NEW c \in Cards, Creates(d, n, c)
          PROVE  Lifecycle!Next
      BY <1>2, <3>1, <3>3, CreateStep DEF Lifecycle!Next
    <3> QED
      BY <2>4, <3>2, <3>3 DEF Edits
  <2>5. CASE \E c \in Cards : ReserveDelete(r, c) /\ n = NextLocalClock(d)
    <3>1. n.pending = d.pending /\ n.row = d.row /\ n.tomb = d.tomb
      BY <1>0, <2>5 DEF NextLocalClock, TypeOK, Store
    <3> QED
      BY <1>2, <3>1, Invisible DEF SameCards, Present
  <2>6. ASSUME NEW v \in deleting[r], v \in Delete, v.seq # NotReserved,
               BuriedNow(d, n, r, v.card, v.seq)
        PROVE  Lifecycle!Next
    BY <1>0, <1>2, <2>6, DeleteStep DEF Lifecycle!Next
  <2>7. CASE Materialized(d, n, r)
    <3>1. n.tomb = d.tomb
      <4>1. \A c \in Cards : n.tomb[c] = d.tomb[c]
        BY <1>0, <2>7, MaterializeKeepsTombs
           DEF AllInv, LifeOK, TypeOK, NewestInv, TombstoneIsNewestDelete
      <4>2. d.tomb \in [Cards -> StampOrNone] /\ n.tomb \in [Cards -> StampOrNone]
        BY <1>0 DEF TypeOK, Store
      <4> QED
        BY <4>1, <4>2
    <3> QED
      BY <1>2, <2>7, <3>1, Invisible DEF Materialized, SameCards, Present
  <2>8. CASE merge.at = r /\ n = merge.work
    BY <1>2, <2>8, LearnStep DEF Lifecycle!Next
  <2> QED
    BY <2>1, <2>3, <2>4, <2>5, <2>6, <2>7, <2>8 DEF Changes
<1> QED
  BY <1>0, <1>1, <1>2, OneReplica

LEMMA InitImplements == Init => Lifecycle!Init
<1> SUFFICES ASSUME Init PROVE Lifecycle!Init
  OBVIOUS
<1>1. PICK past \in [Replicas -> PastClocks] :
        db = [q \in Replicas |-> EmptyStore(BoardColumns, past[q])]
  BY DEF Init
<1>2. ASSUME NEW r \in Replicas
      PROVE  /\ db[r].pending = {}
             /\ \A c \in Cards : db[r].row[c] = NoRow
             /\ db[r].tomb = [c \in Cards |-> NoStamp]
  <2>1. db[r] = EmptyStore(BoardColumns, past[r])
    BY <1>1
  <2> QED
    BY <2>1 DEF EmptyStore
<1>3. CreatedCards = {}
  BY <1>2 DEF CreatedCards
<1>4. Deletes = [c \in Cards |-> {}]
  BY <1>2 DEF Deletes, IssuedDeletes
<1>5. LiveCards = [r \in Replicas |-> {}]
  BY <1>2 DEF LiveCards, Present
<1>6. Tombs = [r \in Replicas |-> [c \in Cards |-> NoStamp]]
  BY <1>2 DEF Tombs
<1> QED
  BY <1>3, <1>4, <1>5, <1>6, SameStamps DEF Lifecycle!Init

\* RoamingSync implements CardLifecycle: whatever the interleaving of planner,
\* sync actor, relay and crashes, cards are created once, deletes are recorded
\* newest first, and a card disappears from a replica only because a delete of
\* it was issued.
THEOREM RoamingImplementsLifecycle == Spec => ImplementsLifecycle
<1>1. Init => Lifecycle!Init
  BY InitImplements
<1>2. AllInv /\ [Next]_vars => [Lifecycle!Next]_(Lifecycle!lifeVars)
  BY StepImplements
<1> QED
  BY <1>1, <1>2, AllInvInvariant, PTL DEF Spec, ImplementsLifecycle, Lifecycle!Spec

=============================================================================
