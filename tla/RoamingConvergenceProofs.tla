----------------------- MODULE RoamingConvergenceProofs -----------------------
(***************************************************************************)
(* Merging, for any set of replicas, cards and columns, any clock limit    *)
(* and batch size: the newest write of every register wins, replicas that  *)
(* know the same events show the same cards, a merge never replaces a      *)
(* newer local edit, and a replica's own events change nothing when they   *)
(* come back.  All but the last need the two assumptions on the            *)
(* environment, that planner and sync actor take turns and that the relay  *)
(* is causal.                                                              *)
(***************************************************************************)
EXTENDS RoamingLifecycleProofs

-----------------------------------------------------------------------------
(* The shape of a step while a merge is open, and of one that opens it.    *)

\* The copy a merge starts from: only the clock may have moved.
Opened(d, w) ==
  /\ d.clock <= w.clock
  /\ w.row = d.row
  /\ w.tomb = d.tomb
  /\ w.ver = d.ver
  /\ w.pending = d.pending
  /\ w.outbox = d.outbox
  /\ w.seen = d.seen

MergesOne(e) ==
  /\ e \in merge.todo
  /\ IsOldest(e, merge.todo)
  /\ merge'.at = merge.at
  /\ merge'.todo = merge.todo \ {e}
  /\ \/ e \in merge.work.seen /\ merge'.work = merge.work
     \/ e \notin merge.work.seen /\ merge'.work = ApplyRemoteEvent(merge.work, e)

MergeStep ==
  \/ merge' = merge
  \/ /\ merge'.at \in Replicas
     /\ staged[merge'.at] # {}
     /\ merge'.todo = staged[merge'.at]
     /\ Opened(db[merge'.at], merge'.work)
  \/ \E e \in merge.todo : MergesOne(e)

LEMMA MergeForms ==
  ASSUME TypeOK, [Next]_vars, merge'.at # Nobody
  PROVE  MergeStep /\ db' = db
<1>1. ASSUME merge' = merge, Idle
      PROVE  FALSE
  BY <1>1, IdleOwner
<1>2. CASE UNCHANGED vars
  BY <1>2 DEF vars, MergeStep
<1>3. ASSUME NEW r \in Replicas, Planner(r)
      PROVE  FALSE
  BY <1>1, <1>3, PlannerForms
     DEF Edits, Commit, FindDoomed, ReserveDelete, PlannerReady, PlannerTurn,
         DeleteCard
<1>4. ASSUME NEW r \in Replicas,
             Materialize(r) \/ \E batch \in SmallBatch : StageBatch(r, batch)
      PROVE  FALSE
  BY <1>1, <1>4 DEF Materialize, StageBatch, SyncReady, Commit
<1>5. ASSUME NEW r \in Replicas, OpenMerge(r)
      PROVE  MergeStep /\ db' = db
  <2>1. PICK observed \in {e.stamp.clock : e \in staged[r]} :
          merge' = [at   |-> r,
                    todo |-> staged[r],
                    work |-> ObserveRemoteClock(db[r], observed)]
    BY <1>5 DEF OpenMerge
  <2>2. observed \in Nat
    BY <2>1 DEF TypeOK, Event, PutEvent, DeleteEvent, Stamp
  <2>3. Opened(db[r], ObserveRemoteClock(db[r], observed))
    BY <2>2 DEF Opened, ObserveRemoteClock, TypeOK, Store
  <2>4. /\ merge'.at = r
        /\ merge'.todo = staged[r]
        /\ merge'.work = ObserveRemoteClock(db[r], observed)
    BY <2>1
  <2> QED
    BY <1>5, <2>3, <2>4 DEF MergeStep, OpenMerge
<1>6. ASSUME NEW r \in Replicas, NEW e \in merge.todo, MergeEvent(r, e)
      PROVE  MergeStep /\ db' = db
  <2>1. /\ merge'.at = merge.at
        /\ merge'.todo = merge.todo \ {e}
        /\ merge'.work = IF e \in merge.work.seen THEN merge.work
                         ELSE ApplyRemoteEvent(merge.work, e)
    BY <1>6 DEF MergeEvent, TypeOK
  <2>2. MergesOne(e)
    BY <1>6, <2>1 DEF MergesOne, MergeEvent
  <2> QED
    BY <1>6, <2>2 DEF MergeStep, MergeEvent
<1>7. ASSUME NEW r \in Replicas, AbortMerge(r) \/ CommitMerge(r) \/ Crash(r)
      PROVE  FALSE
  BY <1>7 DEF AbortMerge, CommitMerge, Crash, NoMerge
<1> QED
  BY <1>2, <1>3, <1>4, <1>5, <1>6, <1>7 DEF Next, Sync

\* While a merge is open its commit is the only step that changes a database.
LEMMA MergingForms ==
  ASSUME TypeOK, [Next]_vars, merge.at # Nobody
  PROVE  \/ db' = db
         \/ /\ merge.todo = {}
            /\ db' = [db EXCEPT ![merge.at] = merge.work]
<1>1. ~ Idle
  BY IdleOwner
<1> QED
  BY <1>1, PlannerForms
     DEF Next, Sync, Edits, FindDoomed, ReserveDelete, PlannerReady, PlannerTurn,
         DeleteCard, Materialize, StageBatch, SyncReady, OpenMerge, MergeEvent,
         AbortMerge, CommitMerge, Merging, Crash, vars

-----------------------------------------------------------------------------
(* The outbox is made of markers.                                          *)

MadeFrom(e, m) ==
  /\ m.seq = e.stamp.clock
  /\ m.entity = e.card
  /\ m.kind \in CardKind
  /\ e.mask = EventMask(m.kind)
  /\ e.op = "card.delete" <=> m.kind = "card.delete"

MadeOfMarkers(d) == \A e \in d.outbox : \E m \in d.pending : MadeFrom(e, m)

MadeInv == \A r \in Replicas : MadeOfMarkers(db[r])

LEMMA MarkerEventIsMade ==
  ASSUME NEW d \in Store, NEW r \in Replicas, NEW m \in Unmaterialized(d)
  PROVE  /\ MadeFrom(MarkerEvent(d, r, m), m)
         /\ MarkerEvent(d, r, m).stamp = [clock |-> m.seq, replica |-> r]
         /\ m.kind # "card.delete" =>
              MarkerEvent(d, r, m).row = d.row[m.entity]
  BY UnmaterializedType DEF MadeFrom, MarkerEvent

LEMMA MadeInit == Init => MadeInv
<1> SUFFICES ASSUME Init, NEW r \in Replicas PROVE db[r].outbox = {}
  BY DEF MadeInv, MadeOfMarkers
<1>1. PICK past \in [Replicas -> PastClocks] :
        db = [q \in Replicas |-> EmptyStore(BoardColumns, past[q])]
  BY DEF Init
<1>2. db[r] = EmptyStore(BoardColumns, past[r])
  BY <1>1
<1> QED
  BY <1>2 DEF EmptyStore

LEMMA MadeNext == TypeOK /\ MergeInv /\ MadeInv /\ [Next]_vars => MadeInv'
<1> SUFFICES ASSUME TypeOK, MergeInv, MadeInv, [Next]_vars, NEW r \in Replicas,
                    NEW e \in db'[r].outbox
             PROVE  \E m \in db'[r].pending : MadeFrom(e, m)
  BY DEF MadeInv, MadeOfMarkers
<1> DEFINE d == db[r]
           n == db'[r]
<1>0. d \in Store /\ d.pending \subseteq n.pending
  BY PendingGrows DEF TypeOK
<1>1. CASE e \in d.outbox
  BY <1>0, <1>1 DEF MadeInv, MadeOfMarkers
<1>2. CASE Materialized(d, n, r) /\ e \notin d.outbox
  <2>1. PICK m \in Unmaterialized(d) : e = MarkerEvent(d, r, m)
    BY <1>2 DEF Materialized
  <2> QED
    BY <1>0, <2>1, MarkerEventIsMade, UnmaterializedType
<1>3. CASE ~ Materialized(d, n, r)
  <2>1. Changes(r, n)
    BY DbForms
  <2>2. CASE \E c \in Cards : ReserveDelete(r, c) /\ n = NextLocalClock(d)
    <3>1. n.outbox = d.outbox
      BY <1>0, <2>2 DEF NextLocalClock, Store
    <3> QED
      BY <1>1, <3>1
  <2>3. CASE merge.at = r /\ n = merge.work
    BY <1>1, <2>3, SomebodyIsAReplica DEF MergeInv
  <2> QED
    BY <1>1, <1>3, <2>1, <2>2, <2>3 DEF Changes, Edits, Edited, BuriedNow
<1> QED
  BY <1>1, <1>2, <1>3

-----------------------------------------------------------------------------
(* A card's creation is older than whatever else happens to it.            *)

IsEdit(m, c) == m.kind \in EditKind /\ m.entity = c

\* The edits of a card are younger than the marker of its creation, and so is
\* the clock of every store that shows it.
FirstOfCard(r0, m0) ==
  /\ \A r \in Replicas : \A m \in db[r].pending :
       IsEdit(m, m0.entity) => (r = r0 /\ m = m0) \/ m0.seq < m.seq
  /\ \A r \in Replicas :
       Present(db[r], m0.entity) => m0.seq <= db[r].clock
  /\ merge.at # Nobody /\ Present(merge.work, m0.entity) =>
       m0.seq <= merge.work.clock

CreationInv ==
  /\ \A r \in Replicas : \A m \in db[r].pending :
       m.kind \in EditKind => m.entity \in CreatedCards
  /\ \A r \in Replicas : \A m \in db[r].pending :
       m.kind = "card.create" => FirstOfCard(r, m)

LEMMA CreationInit == Init => CreationInv
<1> SUFFICES ASSUME Init, NEW r \in Replicas PROVE db[r].pending = {}
  BY DEF CreationInv
<1>1. PICK past \in [Replicas -> PastClocks] :
        db = [q \in Replicas |-> EmptyStore(BoardColumns, past[q])]
  BY DEF Init
<1>2. db[r] = EmptyStore(BoardColumns, past[r])
  BY <1>1
<1> QED
  BY <1>2 DEF EmptyStore

\* Where a new marker of an edit comes from.
LEMMA NewMarkers ==
  ASSUME TypeOK, MergeInv, [Next]_vars, NEW r \in Replicas,
         NEW m \in db'[r].pending, m \notin db[r].pending, m.kind \in EditKind
  PROVE  /\ Edits(r, db'[r])
         /\ db[r].clock < m.seq
         /\ m.seq <= db'[r].clock
         /\ \/ m.kind # "card.create" /\ Present(db[r], m.entity)
            \/ /\ m.kind = "card.create"
               /\ Creates(db[r], db'[r], m.entity)
               /\ db'[r].pending \ db[r].pending = {m}
<1> DEFINE d == db[r]
           n == db'[r]
<1>1. Edits(r, n)
  <2>1. Changes(r, n)
    BY DbForms
  <2>2. CASE \E c \in Cards : ReserveDelete(r, c) /\ n = NextLocalClock(d)
    <3>1. n.pending = d.pending
      BY <2>2 DEF NextLocalClock, TypeOK, Store
    <3> QED
      BY <3>1
  <2>3. CASE \E v \in deleting[r] : BuriedNow(d, n, r, v.card, v.seq)
    <3>1. m.kind = "card.delete"
      BY <2>3 DEF BuriedNow
    <3> QED
      BY <3>1 DEF EditKind
  <2>4. CASE merge.at = r /\ n = merge.work
    BY <2>4, SomebodyIsAReplica DEF MergeInv
  <2> QED
    BY <2>1, <2>2, <2>3, <2>4 DEF Changes, Materialized
<1>2. d.clock < m.seq /\ m.seq <= n.clock
  BY <1>1 DEF Edits, Edited
<1>3. ASSUME NEW c \in Cards, Creates(d, n, c)
      PROVE  /\ m.kind = "card.create"
             /\ Creates(d, n, m.entity)
             /\ n.pending \ d.pending = {m}
  <2>1. PICK x : n.pending \ d.pending = {x} /\ x.kind = "card.create" /\ x.entity = c
    BY <1>3 DEF Creates
  <2>2. m = x
    BY <2>1
  <2> QED
    BY <1>3, <2>1, <2>2
<1> QED
  BY <1>1, <1>2, <1>3 DEF Edits, CreatesNothing

LEMMA ClockGrows ==
  ASSUME TypeOK, MergeInv, [Next]_vars, NEW r \in Replicas
  PROVE  db[r].clock <= db'[r].clock
<1> DEFINE d == db[r]
           n == db'[r]
<1>0. d \in Store /\ n \in Store /\ d.clock \in Nat /\ n.clock \in Nat
  BY TypeNext, ClocksAreNumbers DEF TypeOK
<1>1. Changes(r, n)
  BY DbForms
<1>2. CASE \E c \in Cards : ReserveDelete(r, c) /\ n = NextLocalClock(d)
  BY <1>0, <1>2, NextLocalClockType
<1>3. CASE merge.at = r /\ n = merge.work
  BY <1>3, SomebodyIsAReplica DEF MergeInv
<1>4. CASE n = d
  BY <1>0, <1>4
<1>5. CASE Edits(r, n)
  BY <1>0, <1>5 DEF Edits, Edited
<1>6. CASE \E v \in deleting[r] : BuriedNow(d, n, r, v.card, v.seq)
  BY <1>0, <1>6 DEF BuriedNow
<1>7. CASE Materialized(d, n, r)
  BY <1>0, <1>7 DEF Materialized
<1> QED
  BY <1>1, <1>2, <1>3, <1>4, <1>5, <1>6, <1>7 DEF Changes

\* How a card comes to be shown.
LEMMA ShownForms ==
  ASSUME TypeOK, [Next]_vars, NEW r \in Replicas, NEW c \in Cards,
         Present(db'[r], c)
  PROVE  \/ Present(db[r], c)
         \/ Edits(r, db'[r]) /\ Creates(db[r], db'[r], c)
         \/ merge.at = r /\ db'[r] = merge.work
<1> DEFINE d == db[r]
           n == db'[r]
<1>1. Changes(r, n)
  BY DbForms
<1>2. CASE \E x \in Cards : ReserveDelete(r, x) /\ n = NextLocalClock(d)
  <2>1. n.row = d.row
    BY <1>2 DEF NextLocalClock, TypeOK, Store
  <2> QED
    BY <2>1 DEF Present
<1>3. CASE Edits(r, n)
  <2>1. ASSUME NEW x \in Cards, Creates(d, n, x)
        PROVE  Present(d, c) \/ Creates(d, n, c)
    BY <2>1 DEF Creates
  <2> QED
    BY <1>3, <2>1 DEF Edits, CreatesNothing, SameCards
<1>4. CASE \E v \in deleting[r] : v \in Delete /\ BuriedNow(d, n, r, v.card, v.seq)
  BY <1>4 DEF BuriedNow, Delete, Present
<1>5. CASE Materialized(d, n, r)
  BY <1>5 DEF Materialized, Present
<1> QED
  BY <1>1, <1>2, <1>3, <1>4, <1>5 DEF Changes

\* Two markers of a card's creation are the same marker.
LEMMA OneCreation ==
  ASSUME TypeOK, CreationInv,
         NEW r1 \in Replicas, NEW m1 \in db[r1].pending,
         NEW r2 \in Replicas, NEW m2 \in db[r2].pending,
         m1.kind = "card.create", IsEdit(m2, m1.entity)
  PROVE  /\ (r2 = r1 /\ m2 = m1) \/ m1.seq < m2.seq
         /\ m2.kind = "card.create" => r2 = r1 /\ m2 = m1
<1>0. m1.seq \in Nat /\ m2.seq \in Nat
  BY ClocksAreNumbers DEF TypeOK
<1>1. (r2 = r1 /\ m2 = m1) \/ m1.seq < m2.seq
  BY DEF CreationInv, FirstOfCard
<1>2. m2.kind = "card.create" => (r2 = r1 /\ m2 = m1) \/ m2.seq < m1.seq
  BY DEF CreationInv, FirstOfCard, IsEdit, EditKind
<1> QED
  BY <1>0, <1>1, <1>2

\* A published creation was made from the one marker of the card's creation.
LEMMA CreationFromMarker ==
  ASSUME TypeOK, MadeInv, NEW r \in Replicas, NEW e \in db[r].outbox,
         e.mask = {"*"}
  PROVE  \E m \in db[r].pending : m.kind = "card.create" /\ MadeFrom(e, m)
<1>1. PICK m \in db[r].pending : MadeFrom(e, m)
  BY DEF MadeInv, MadeOfMarkers
<1>2. m.kind = "card.create"
  BY <1>1 DEF MadeFrom, EventMask, CardKind, EditKind
<1> QED
  BY <1>1, <1>2

\* The open merge shows a card only if its clock has passed the creation.
LEMMA MergeAfterCreation ==
  ASSUME TypeOK, FloorInv, StampInv, MadeInv, CreationInv, [Next]_vars,
         merge'.at # Nobody,
         NEW r0 \in Replicas, NEW m0 \in db[r0].pending,
         m0.kind = "card.create", Present(merge'.work, m0.entity)
  PROVE  m0.seq <= merge'.work.clock
<1> DEFINE c == m0.entity
<1>0. /\ TypeOK'
      /\ c \in Cards
      /\ FirstOfCard(r0, m0)
      /\ m0.seq \in Nat
      /\ merge'.work.clock \in Nat /\ merge.work.clock \in Nat
      /\ \A r \in Replicas : db[r].clock \in Nat
  BY TypeNext, ClocksAreNumbers DEF TypeOK, Store, Marker, CreationInv
<1>1. MergeStep
  BY MergeForms
<1>2. CASE merge' = merge
  BY <1>0, <1>2 DEF FirstOfCard
<1>3. CASE merge'.at \in Replicas /\ Opened(db[merge'.at], merge'.work)
  BY <1>0, <1>3 DEF FirstOfCard, Opened, Present
<1>4. ASSUME NEW e \in merge.todo, MergesOne(e)
      PROVE  m0.seq <= merge'.work.clock
  <2>0. /\ e \in Event /\ merge.work \in Store /\ merge'.work \in Store
        /\ merge.at # Nobody
    BY <1>0, <1>4 DEF TypeOK, MergesOne
  <2>1. CASE merge'.work = merge.work
    BY <1>0, <2>0, <2>1 DEF FirstOfCard
  <2>2. CASE merge'.work = ApplyRemoteEvent(merge.work, e)
    <3>1. Merged(merge.work, merge'.work, e)
      BY <2>0, <2>2, ApplyRemoteEventMerges
    <3>2. CASE Present(merge.work, c)
      BY <1>0, <2>0, <3>1, <3>2 DEF FirstOfCard, Merged
    <3>3. CASE ~ Present(merge.work, c)
      <4>1. c = e.card /\ e.mask = {"*"}
        BY <1>0, <3>1, <3>3 DEF Merged
      <4>2. PICK r \in Replicas : e \in db[r].outbox
        BY <2>0 DEF StampInv, Published
      <4>3. PICK m \in db[r].pending : m.kind = "card.create" /\ MadeFrom(e, m)
        BY <4>1, <4>2, CreationFromMarker
      <4>4. IsEdit(m, m0.entity) /\ m.seq = e.stamp.clock
        BY <4>1, <4>3 DEF IsEdit, EditKind, MadeFrom
      <4>5. m = m0
        BY <4>3, <4>4, OneCreation
      <4>6. e.stamp.clock <= merge.work.clock
        BY <2>0 DEF FloorInv
      <4> QED
        BY <3>1, <4>4, <4>5, <4>6 DEF Merged
    <3> QED
      BY <3>2, <3>3
  <2> QED
    BY <1>4, <2>1, <2>2 DEF MergesOne
<1> QED
  BY <1>1, <1>2, <1>3, <1>4 DEF MergeStep

LEMMA CreationNext ==
  TypeOK /\ MergeInv /\ FloorInv /\ StampInv /\ GroundInv /\ MadeInv
    /\ CreationInv /\ [Next]_vars => CreationInv'
<1> SUFFICES ASSUME TypeOK, MergeInv, FloorInv, StampInv, GroundInv, MadeInv,
                    CreationInv, [Next]_vars
             PROVE  CreationInv'
  OBVIOUS
<1>0. /\ TypeOK'
      /\ CreatedCards \subseteq CreatedCards'
      /\ \A r \in Replicas : db[r].pending \subseteq db'[r].pending
  BY TypeNext, HistoryGrows, PendingGrows
<1>1. ASSUME NEW r \in Replicas, NEW m \in db'[r].pending, m.kind \in EditKind
      PROVE  m.entity \in CreatedCards'
  <2>1. m.entity \in Cards
    BY <1>0, <1>1 DEF TypeOK, Store, Marker, EditKind
  <2>2. CASE m \in db[r].pending
    BY <1>0, <1>1, <2>2 DEF CreationInv
  <2>3. CASE m \notin db[r].pending
    <3>1. Present(db[r], m.entity) \/ m.kind = "card.create"
      BY <1>1, <2>3, NewMarkers
    <3>2. CASE Present(db[r], m.entity)
      BY <1>0, <2>1, <3>2 DEF GroundInv, ShownWereCreated
    <3>3. CASE m.kind = "card.create"
      BY <2>1, <3>3 DEF CreatedCards
    <3> QED
      BY <3>1, <3>2, <3>3
  <2> QED
    BY <2>2, <2>3
<1>2. ASSUME NEW r0 \in Replicas, NEW m0 \in db'[r0].pending,
             m0.kind = "card.create"
      PROVE  FirstOfCard(r0, m0)'
  <2> DEFINE c == m0.entity
  <2>0. /\ c \in Cards /\ m0.seq \in Nat /\ m0.kind \in EditKind
        /\ \A r \in Replicas : db[r].clock \in Nat /\ db'[r].clock \in Nat
        /\ \A r \in Replicas : \A m \in db'[r].pending : m.seq \in Nat
    BY <1>0, <1>2, ClocksAreNumbers DEF TypeOK, Store, Marker, EditKind
  <2>1. CASE m0 \in db[r0].pending
    <3>1. FirstOfCard(r0, m0)
      BY <1>2, <2>1 DEF CreationInv
    <3>2. ~ FreshId(c, "card.create")
      BY <1>2, <2>1 DEF FreshId
    <3>3. ASSUME NEW r \in Replicas, NEW m \in db'[r].pending, IsEdit(m, c)
          PROVE  (r = r0 /\ m = m0) \/ m0.seq < m.seq
      <4>1. CASE m \in db[r].pending
        BY <3>1, <3>3, <4>1 DEF FirstOfCard
      <4>2. CASE m \notin db[r].pending
        <5>1. Present(db[r], c) /\ db[r].clock < m.seq
          BY <3>2, <3>3, <4>2, NewMarkers DEF IsEdit, Creates
        <5>2. m0.seq <= db[r].clock
          BY <3>1, <5>1 DEF FirstOfCard
        <5> QED
          BY <2>0, <5>1, <5>2
      <4> QED
        BY <4>1, <4>2
    <3>4. ASSUME NEW r \in Replicas, Present(db'[r], c)
          PROVE  m0.seq <= db'[r].clock
      <4>1. CASE Present(db[r], c)
        <5>1. m0.seq <= db[r].clock /\ db[r].clock <= db'[r].clock
          BY <3>1, <4>1, ClockGrows DEF FirstOfCard
        <5> QED
          BY <2>0, <5>1
      <4>2. CASE merge.at = r /\ db'[r] = merge.work
        BY <3>1, <3>4, <4>2, SomebodyIsAReplica DEF FirstOfCard
      <4> QED
        BY <2>0, <3>2, <3>4, <4>1, <4>2, ShownForms DEF Creates
    <3>5. ASSUME merge'.at # Nobody, Present(merge'.work, c)
          PROVE  m0.seq <= merge'.work.clock
      BY <1>2, <2>1, <3>5, MergeAfterCreation
    <3> QED
      BY <3>3, <3>4, <3>5 DEF FirstOfCard
  <2>2. CASE m0 \notin db[r0].pending
    <3>1. /\ Edits(r0, db'[r0])
          /\ m0.seq <= db'[r0].clock
          /\ Creates(db[r0], db'[r0], c)
          /\ db'[r0].pending \ db[r0].pending = {m0}
      BY <1>2, <2>0, <2>2, NewMarkers
    <3>2. c \notin CreatedCards
      BY <3>1 DEF Creates, FreshId, CreatedCards
    <3>3. \A r \in Replicas \ {r0} : db'[r] = db[r]
      BY <2>2, OneReplica
    <3>4. ASSUME NEW r \in Replicas, NEW m \in db'[r].pending, IsEdit(m, c)
          PROVE  r = r0 /\ m = m0
      <4>1. m \notin db[r].pending
        BY <3>2, <3>4 DEF CreationInv, IsEdit
      <4> QED
        BY <3>1, <3>3, <4>1
    <3>5. ASSUME NEW r \in Replicas, Present(db'[r], c)
          PROVE  m0.seq <= db'[r].clock
      <4>1. CASE r = r0
        BY <3>1, <4>1
      <4>2. CASE r # r0
        BY <2>0, <3>2, <3>3, <3>5, <4>2 DEF GroundInv, ShownWereCreated
      <4> QED
        BY <4>1, <4>2
    <3>6. merge'.at = Nobody
      BY <1>2, <2>2, MergeForms
    <3> QED
      BY <3>4, <3>5, <3>6 DEF FirstOfCard
  <2> QED
    BY <2>1, <2>2
<1> QED
  BY <1>1, <1>2 DEF CreationInv

\* The event of a card's creation is older than every other put of the card.
LEMMA CreationIsOldest ==
  ASSUME TypeOK, StampInv, MadeInv, CreationInv,
         NEW e1 \in Published, NEW e2 \in Published,
         e1.mask = {"*"}, e2.op = "card.put", e2.card = e1.card
  PROVE  e2 = e1 \/ Newer(e2.stamp, e1.stamp)
<1>1. PICK r1 \in Replicas : e1 \in db[r1].outbox
  BY DEF Published
<1>2. PICK r2 \in Replicas : e2 \in db[r2].outbox
  BY DEF Published
<1>3. PICK m1 \in db[r1].pending : m1.kind = "card.create" /\ MadeFrom(e1, m1)
  BY <1>1, CreationFromMarker
<1>4. PICK m2 \in db[r2].pending : MadeFrom(e2, m2)
  BY <1>2 DEF MadeInv, MadeOfMarkers
<1>5. /\ m1.seq = e1.stamp.clock
      /\ m2.seq = e2.stamp.clock
      /\ IsEdit(m2, m1.entity)
  BY <1>3, <1>4 DEF MadeFrom, IsEdit, CardKind
<1>6. (r2 = r1 /\ m2 = m1) \/ m1.seq < m2.seq
  BY <1>3, <1>5, OneCreation
<1>7. CASE r2 = r1 /\ m2 = m1
  <2>1. e1.stamp.replica = r1 /\ e2.stamp.replica = r1
    BY <1>1, <1>2, <1>7 DEF StampInv, OutboxFromMarkers
  <2>2. e1.stamp \in Stamp /\ e2.stamp \in Stamp
    BY <1>1, <1>2 DEF TypeOK, Store, Event, PutEvent, DeleteEvent
  <2>3. e1.stamp = e2.stamp
    BY <1>5, <1>7, <2>1, <2>2 DEF Stamp
  <2> QED
    BY <1>1, <1>2, <1>7, <2>3 DEF StampInv, UniqueOutbox
<1>8. CASE m1.seq < m2.seq
  <2>1. m1.seq \in Nat /\ m2.seq \in Nat
    BY ClocksAreNumbers DEF TypeOK
  <2> QED
    BY <1>5, <1>8, <2>1 DEF Newer
<1> QED
  BY <1>6, <1>7, <1>8

-----------------------------------------------------------------------------
(* The two assumptions on the environment, and what they give: nothing is  *)
(* unmaterialized from the staging of a batch to the end of its merge, and *)
(* a batch never brings an edit of a card without the card's creation.     *)

Orderly == ~ PlannerOverlapsSync /\ RelayIsCausal

KnownBy(d) == d.outbox \cup d.seen

\* An edit that has not been materialized is newer than all the store knows.
BacklogIsNewer(d) ==
  \A m \in Unmaterialized(d) : m.kind \in EditKind =>
    \A e \in KnownBy(d) : e.stamp.clock < m.seq

\* Every marker has its event.
Quiet(d) == Unmaterialized(d) = {} /\ Blocked(d) = {}

QuietInv ==
  /\ \A r \in Replicas : /\ staged[r] # {} => Quiet(db[r])
                         /\ BacklogIsNewer(db[r])
  /\ merge.at # Nobody => Quiet(merge.work)

IsCreation(e, c) == e.card = c /\ "*" \in e.mask

CausalInv ==
  /\ \A r \in Replicas : \A e \in staged[r] : e.op = "card.put" =>
       CreateKnown(r, staged[r], e.card)
  /\ merge.at # Nobody =>
       \A e \in merge.todo : e.op = "card.put" =>
         \E o \in merge.todo \cup KnownBy(merge.work) : IsCreation(o, e.card)

LEMMA QuietInit == Init => QuietInv /\ CausalInv
<1> SUFFICES ASSUME Init PROVE QuietInv /\ CausalInv
  OBVIOUS
<1>1. ASSUME NEW r \in Replicas PROVE Unmaterialized(db[r]) = {}
  <2>1. PICK past \in [Replicas -> PastClocks] :
          db = [q \in Replicas |-> EmptyStore(BoardColumns, past[q])]
    BY DEF Init
  <2>2. db[r] = EmptyStore(BoardColumns, past[r])
    BY <2>1
  <2> QED
    BY <2>2 DEF EmptyStore, Unmaterialized
<1> QED
  BY <1>1 DEF Init, QuietInv, CausalInv, BacklogIsNewer, NoMerge

LEMMA MaterializeSettles ==
  ASSUME NEW d, NEW n, NEW r, Materialized(d, n, r)
  PROVE  Unmaterialized(n) = {}
<1> SUFFICES ASSUME NEW m \in Unmaterialized(n) PROVE FALSE
  OBVIOUS
<1>1. /\ m \in d.pending /\ ~ Unsupported(m)
      /\ ~ \E e \in n.outbox : e.stamp.clock = m.seq
      /\ d.outbox \subseteq n.outbox
  BY DEF Unmaterialized, Blocked, Materialized
<1>2. m \in Unmaterialized(d)
  BY <1>1 DEF Unmaterialized, Blocked
<1>3. MarkerEvent(d, r, m) \in n.outbox
  BY <1>2 DEF Materialized
<1>4. MarkerEvent(d, r, m).stamp.clock = m.seq
  BY DEF MarkerEvent
<1> QED
  BY <1>1, <1>3, <1>4

\* The backlog depends on the markers and the outbox alone.
LEMMA SameBacklog ==
  ASSUME NEW d, NEW n, n.pending = d.pending, n.outbox = d.outbox
  PROVE  /\ Unmaterialized(n) = Unmaterialized(d)
         /\ Blocked(n) = Blocked(d)
  BY DEF Unmaterialized, Blocked

LEMMA MergeKeepsBooks ==
  ASSUME TypeOK, NEW e \in merge.todo, MergesOne(e)
  PROVE  /\ merge'.work.pending = merge.work.pending
         /\ merge'.work.outbox = merge.work.outbox
         /\ merge'.work.seen = merge.work.seen \cup {e}
         /\ merge'.work.clock = merge.work.clock
<1>1. merge.work \in Store /\ e \in Event
  BY DEF TypeOK
<1>2. CASE e \notin merge.work.seen
  <2>1. Merged(merge.work, merge'.work, e)
    BY <1>1, <1>2, ApplyRemoteEventMerges DEF MergesOne
  <2> QED
    BY <2>1 DEF Merged
<1>3. CASE e \in merge.work.seen
  BY <1>3 DEF MergesOne
<1> QED
  BY <1>2, <1>3

\* While a batch is staged no command of the planner commits.
LEMMA StagedForms ==
  ASSUME TypeOK, ~ PlannerOverlapsSync, [Next]_vars, NEW r \in Replicas,
         staged'[r] # {}
  PROVE  \/ \E batch \in SmallBatch : StageBatch(r, batch) /\ staged'[r] = batch
         \/ /\ staged'[r] = staged[r]
            /\ db'[r] = db[r] \/ (merge.at = r /\ db'[r] = merge.work)
<1> DEFINE Same == /\ staged'[r] = staged[r]
                   /\ db'[r] = db[r] \/ (merge.at = r /\ db'[r] = merge.work)
<1>1. CASE UNCHANGED vars
  BY <1>1 DEF vars
<1>2. ASSUME NEW q \in Replicas, Planner(q)
      PROVE  Same
  <2>1. PlannerTurn(q) /\ staged' = staged
    BY <1>2, PlannerForms
       DEF Planner, Edits, Commit, CreateColumn, CreateCard, MoveCard,
           SetCardArchived, SwapCardOrder, FindDoomed, ReserveDelete,
           DeleteCard, PlannerReady
  <2>2. q # r
    BY <2>1 DEF PlannerTurn
  <2>3. db' = db \/ \E n : db' = [db EXCEPT ![q] = n]
    BY <1>2, PlannerForms, Zenon
       DEF Edits, Commit, FindDoomed, ReserveDelete, DeleteCard
  <2>4. db'[r] = db[r]
    BY <2>2, <2>3 DEF TypeOK
  <2> QED
    BY <2>1, <2>4
<1>3. ASSUME NEW q \in Replicas, Materialize(q)
      PROVE  Same
  BY <1>3 DEF Materialize, SyncReady, Commit, TypeOK
<1>4. ASSUME NEW q \in Replicas, NEW batch \in SmallBatch, StageBatch(q, batch)
      PROVE  Same \/ (StageBatch(r, batch) /\ staged'[r] = batch)
  BY <1>4 DEF StageBatch, TypeOK
<1>5. ASSUME NEW q \in Replicas,
             OpenMerge(q) \/ AbortMerge(q) \/ Crash(q) \/
               \E e \in merge.todo : MergeEvent(q, e)
      PROVE  Same
  BY <1>5 DEF OpenMerge, MergeEvent, AbortMerge, Crash, TypeOK
<1>6. ASSUME NEW q \in Replicas, CommitMerge(q)
      PROVE  Same
  BY <1>6 DEF CommitMerge, Merging, TypeOK
<1> QED
  BY <1>1, <1>2, <1>3, <1>4, <1>5, <1>6 DEF Next, Sync

LEMMA BacklogIsNewerAfter ==
  ASSUME TypeOK, MergeInv, FloorInv, QuietInv, [Next]_vars, NEW r \in Replicas
  PROVE  BacklogIsNewer(db'[r])
<1> DEFINE d == db[r]
           n == db'[r]
<1>0. /\ d \in Store /\ n \in Store
      /\ AtOrBelow(d)
      /\ BacklogIsNewer(d)
      /\ d.clock \in Nat
      /\ \A m \in n.pending : m.seq \in Nat
      /\ \A e \in KnownBy(d) : e.stamp.clock \in Nat
  BY TypeNext, ClocksAreNumbers
     DEF TypeOK, FloorInv, LamportFloor, QuietInv, KnownBy
<1>1. Changes(r, n)
  BY DbForms
<1>2. CASE n = d
  BY <1>0, <1>2
<1>3. CASE Edits(r, n)
  <2>1. KnownBy(n) = KnownBy(d) /\ n.outbox = d.outbox
    BY <1>3 DEF Edits, Edited, KnownBy
  <2> SUFFICES ASSUME NEW m \in Unmaterialized(n), m.kind \in EditKind,
                      NEW e \in KnownBy(d)
               PROVE  e.stamp.clock < m.seq
    BY <2>1 DEF BacklogIsNewer
  <2>2. m \in n.pending /\ (m \in d.pending => m \in Unmaterialized(d))
    BY <2>1 DEF Unmaterialized, Blocked
  <2>3. CASE m \in d.pending
    BY <1>0, <2>2, <2>3 DEF BacklogIsNewer
  <2>4. CASE m \notin d.pending
    <3>1. d.clock < m.seq
      BY <1>3, <2>2, <2>4 DEF Edits, Edited
    <3>2. e.stamp.clock <= d.clock
      BY <1>0 DEF AtOrBelow, KnownBy
    <3> QED
      BY <1>0, <2>2, <3>1, <3>2
  <2> QED
    BY <2>3, <2>4
<1>4. CASE \E c \in Cards : ReserveDelete(r, c) /\ n = NextLocalClock(d)
  <2>1. n.pending = d.pending /\ n.outbox = d.outbox /\ n.seen = d.seen
    BY <1>0, <1>4 DEF NextLocalClock, Store
  <2>2. Unmaterialized(n) = Unmaterialized(d)
    BY <2>1, SameBacklog
  <2> QED
    BY <1>0, <2>1, <2>2 DEF BacklogIsNewer, KnownBy
<1>5. ASSUME NEW v \in deleting[r], BuriedNow(d, n, r, v.card, v.seq)
      PROVE  BacklogIsNewer(n)
  <2>1. /\ n.outbox = d.outbox
        /\ KnownBy(n) = KnownBy(d)
        /\ \A m \in n.pending \ d.pending : m.kind \notin EditKind
    BY <1>5 DEF BuriedNow, KnownBy, EditKind
  <2>2. \A m \in Unmaterialized(n) : m.kind \in EditKind => m \in Unmaterialized(d)
    BY <2>1 DEF Unmaterialized, Blocked
  <2> QED
    BY <1>0, <2>1, <2>2 DEF BacklogIsNewer
<1>6. CASE Materialized(d, n, r)
  BY <1>6, MaterializeSettles DEF BacklogIsNewer
<1>7. CASE merge.at = r /\ n = merge.work
  BY <1>7, SomebodyIsAReplica DEF QuietInv, Quiet, BacklogIsNewer
<1> QED
  BY <1>1, <1>2, <1>3, <1>4, <1>5, <1>6, <1>7 DEF Changes

LEMMA QuietNext ==
  ASSUME ~ PlannerOverlapsSync
  PROVE  TypeOK /\ MergeInv /\ FloorInv /\ QuietInv /\ [Next]_vars => QuietInv'
<1> SUFFICES ASSUME TypeOK, MergeInv, FloorInv, QuietInv, [Next]_vars
             PROVE  QuietInv'
  OBVIOUS
<1>1. ASSUME NEW r \in Replicas, staged'[r] # {}
      PROVE  Quiet(db'[r])
  <2>1. ASSUME NEW batch \in SmallBatch, StageBatch(r, batch)
        PROVE  Quiet(db'[r])
    <3>1. db'[r] = MaterializePending(db[r], r) /\ Blocked(db[r]) = {}
      BY <2>1 DEF StageBatch, TypeOK
    <3>2. Materialized(db[r], db'[r], r)
      BY <3>1, MaterializePendingMaterializes DEF TypeOK
    <3>3. Unmaterialized(db'[r]) = {}
      BY <3>2, MaterializeSettles
    <3> QED
      BY <3>1, <3>2, <3>3 DEF Materialized, Blocked, Quiet
  <2> QED
    BY <1>1, <2>1, StagedForms, SomebodyIsAReplica DEF QuietInv
<1>2. \A r \in Replicas : BacklogIsNewer(db'[r])
  BY BacklogIsNewerAfter
<1>3. ASSUME merge'.at # Nobody
      PROVE  Quiet(merge'.work)
  <2>1. MergeStep
    BY <1>3, MergeForms
  <2>2. CASE merge' = merge
    BY <1>3, <2>2 DEF QuietInv
  <2>3. CASE /\ merge'.at \in Replicas /\ staged[merge'.at] # {}
             /\ Opened(db[merge'.at], merge'.work)
    BY <2>3, SameBacklog DEF QuietInv, Quiet, Opened
  <2>4. ASSUME NEW e \in merge.todo, MergesOne(e)
        PROVE  Quiet(merge'.work)
    BY <1>3, <2>4, MergeKeepsBooks, SameBacklog DEF QuietInv, Quiet, MergesOne
  <2> QED
    BY <2>1, <2>2, <2>3, <2>4 DEF MergeStep
<1> QED
  BY <1>1, <1>2, <1>3 DEF QuietInv

LEMMA KnownGrows ==
  ASSUME TypeOK, MergeInv, [Next]_vars, NEW r \in Replicas
  PROVE  KnownBy(db[r]) \subseteq KnownBy(db'[r])
<1> DEFINE d == db[r]
           n == db'[r]
<1>1. Changes(r, n)
  BY DbForms
<1>2. CASE \E c \in Cards : ReserveDelete(r, c) /\ n = NextLocalClock(d)
  BY <1>2 DEF NextLocalClock, TypeOK, Store, KnownBy
<1>3. CASE merge.at = r /\ n = merge.work
  BY <1>3, SomebodyIsAReplica DEF MergeInv, KnownBy
<1> QED
  BY <1>1, <1>2, <1>3
     DEF Changes, Edits, Edited, BuriedNow, Materialized, KnownBy

LEMMA CausalNext ==
  ASSUME Orderly
  PROVE  TypeOK /\ MergeInv /\ CausalInv /\ [Next]_vars => CausalInv'
<1> SUFFICES ASSUME TypeOK, MergeInv, CausalInv, [Next]_vars
             PROVE  CausalInv'
  OBVIOUS
<1>1. ASSUME NEW r \in Replicas, NEW e \in staged'[r], e.op = "card.put"
      PROVE  CreateKnown(r, staged[r], e.card)'
  <2>1. KnownBy(db[r]) \subseteq KnownBy(db'[r])
    BY KnownGrows
  <2>2. \E o \in staged'[r] \cup KnownBy(db[r]) : IsCreation(o, e.card)
    <3>1. ASSUME NEW batch \in SmallBatch, StageBatch(r, batch), staged'[r] = batch
          PROVE  \E o \in staged'[r] \cup KnownBy(db[r]) : IsCreation(o, e.card)
      BY <1>1, <3>1 DEF StageBatch, Deliverable, CreateKnown, Orderly, KnownBy, IsCreation
    <3>2. CASE staged'[r] = staged[r]
      BY <1>1, <3>2 DEF CausalInv, CreateKnown, KnownBy, IsCreation
    <3> QED
      BY <1>1, <3>1, <3>2, StagedForms DEF Orderly
  <2> QED
    BY <2>1, <2>2 DEF CreateKnown, KnownBy, IsCreation
<1>2. ASSUME merge'.at # Nobody, NEW e \in merge'.todo, e.op = "card.put"
      PROVE  \E o \in merge'.todo \cup KnownBy(merge'.work) : IsCreation(o, e.card)
  <2>1. MergeStep
    BY <1>2, MergeForms
  <2>2. CASE merge' = merge
    BY <1>2, <2>2 DEF CausalInv
  <2>3. CASE /\ merge'.at \in Replicas
             /\ merge'.todo = staged[merge'.at]
             /\ Opened(db[merge'.at], merge'.work)
    BY <1>2, <2>3 DEF CausalInv, CreateKnown, Opened, KnownBy, IsCreation
  <2>4. ASSUME NEW x \in merge.todo, MergesOne(x)
        PROVE  \E o \in merge'.todo \cup KnownBy(merge'.work) : IsCreation(o, e.card)
    <3>1. PICK o \in merge.todo \cup KnownBy(merge.work) : IsCreation(o, e.card)
      BY <1>2, <2>4 DEF CausalInv, MergesOne
    <3>2. o \in merge'.todo \cup KnownBy(merge'.work)
      BY <2>4, MergeKeepsBooks DEF MergesOne, KnownBy
    <3> QED
      BY <3>1, <3>2
  <2> QED
    BY <2>1, <2>2, <2>3, <2>4 DEF MergeStep
<1> QED
  BY <1>1, <1>2 DEF CausalInv

-----------------------------------------------------------------------------
(* The newest write of every register.                                     *)

Writes(d, c, f) == {e \in KnownBy(d) : e.card = c /\ Touches(e.mask, f)}

\* The register holds the value and the version of its newest known write.
Holds(d, c, f) ==
  \E e \in Writes(d, c, f) :
    /\ \A o \in Writes(d, c, f) : ~ Newer(o.stamp, e.stamp)
    /\ d.ver[c][f] = e.stamp
    /\ d.row[c][f] = e.row[f]

\* A store knows no write of a card that it neither shows nor has a tombstone
\* of: no edit that came before the card's creation has been dropped.
UntouchedIsUnknown(d) ==
  \A c \in Cards : ~ Present(d, c) /\ ~ Buried(d, c) =>
    \A e \in KnownBy(d) : e.card = c => e.op # "card.put"

FieldsHold(d) ==
  \A c \in Cards, f \in Field :
    Present(d, c) /\ Backlog(d, c, f) = {} => Holds(d, c, f)

Current(d) == UntouchedIsUnknown(d) /\ FieldsHold(d)

LEMMA EventFacts ==
  ASSUME NEW e \in Event
  PROVE  /\ e.stamp \in Stamp /\ e.stamp \in StampOrNone /\ e.card \in Cards
         /\ e.op \in {"card.put", "card.delete"}
         /\ \A f \in Field : Touches(e.mask, f) => e.op = "card.put"
         /\ "*" \in e.mask => e.mask = {"*"}
         /\ e.mask = {"*"} => e.op = "card.put" /\ \A f \in Field : Touches(e.mask, f)
         /\ e.op = "card.put" => e.row \in Row
  BY DEF Event, PutEvent, DeleteEvent, Touches, Field, StampOrNone

LEMMA KnownAreEvents ==
  ASSUME NEW d \in Store, NEW e \in KnownBy(d)
  PROVE  e \in Event
  BY DEF Store, KnownBy

\* What Current looks at.
LEMMA CurrentSame ==
  ASSUME NEW d, NEW n, Current(d),
         n.row = d.row, n.tomb = d.tomb, n.ver = d.ver,
         n.pending = d.pending, n.outbox = d.outbox, n.seen = d.seen
  PROVE  Current(n)
<1>1. KnownBy(n) = KnownBy(d) /\ Unmaterialized(n) = Unmaterialized(d)
  BY SameBacklog DEF KnownBy
<1>2. \A c \in Cards, f \in Field :
        Backlog(n, c, f) = Backlog(d, c, f) /\ Writes(n, c, f) = Writes(d, c, f)
  BY <1>1 DEF Backlog, Writes
<1> QED
  BY <1>1, <1>2
     DEF Current, UntouchedIsUnknown, FieldsHold, Holds, Present, Buried

LEMMA CurrentOfEdit ==
  ASSUME NEW d \in Store, NEW n \in Store, NEW kinds,
         Edited(d, n, kinds), WritesAreMarked(d, n), AtOrBelow(d),
         \A c \in Cards : Present(d, c) => Present(n, c),
         Current(d)
  PROVE  Current(n)
<1>1. /\ KnownBy(n) = KnownBy(d)
      /\ n.tomb = d.tomb /\ n.ver = d.ver
      /\ n.outbox = d.outbox /\ d.pending \subseteq n.pending
      /\ d.clock \in Nat
      /\ \A m \in n.pending : m.seq \in Nat
      /\ \A e \in n.outbox : e.stamp.clock \in Nat /\ e.stamp.clock <= d.clock
  BY ClocksAreNumbers DEF Edited, KnownBy, AtOrBelow
<1>2. UntouchedIsUnknown(n)
  BY <1>1 DEF Current, UntouchedIsUnknown, Buried
<1>3. ASSUME NEW c \in Cards, NEW f \in Field, Present(n, c),
             Backlog(n, c, f) = {}
      PROVE  Holds(n, c, f)
  <2>1. ~ \E m \in n.pending : d.clock < m.seq /\ Writer(m, c, f)
    <3> SUFFICES ASSUME NEW m \in n.pending, d.clock < m.seq, Writer(m, c, f)
                 PROVE  FALSE
      OBVIOUS
    <3>1. \A e \in n.outbox : e.stamp.clock # m.seq
      BY <1>1
    <3>2. ~ Unsupported(m)
      BY DEF Writer, EditKind, Unsupported
    <3>3. m \in Backlog(n, c, f)
      BY <3>1, <3>2 DEF Backlog, Unmaterialized, Blocked, Writer
    <3> QED
      BY <1>3, <3>3
  <2>2. Present(d, c) /\ n.row[c][f] = d.row[c][f]
    BY <1>3, <2>1 DEF WritesAreMarked
  <2>3. Backlog(d, c, f) = {}
    <3>1. Unmaterialized(d) \subseteq Unmaterialized(n)
      BY <1>1 DEF Unmaterialized, Blocked
    <3> QED
      BY <1>3, <3>1 DEF Backlog
  <2>4. Holds(d, c, f)
    BY <2>2, <2>3 DEF Current, FieldsHold
  <2>5. Writes(n, c, f) = Writes(d, c, f)
    BY <1>1 DEF Writes
  <2> QED
    BY <1>1, <2>2, <2>4, <2>5 DEF Holds
<1> QED
  BY <1>2, <1>3 DEF Current, FieldsHold

LEMMA BuryLeavesATombstone ==
  ASSUME NEW d \in Store, NEW n \in Store, NEW r \in Replicas, NEW c \in Cards,
         NEW seq \in Nat, BuriedNow(d, n, r, c, seq)
  PROVE  Buried(n, c)
<1>1. d.tomb[c] \in StampOrNone /\ n.tomb[c] \in StampOrNone
  BY DEF Store
<1>2. [clock |-> seq, replica |-> r].replica > 0
  BY ReplicasAssumption
<1>3. ~ Newer([clock |-> seq, replica |-> r], d.tomb[c]) => d.tomb[c] # NoStamp
  BY <1>2 DEF Newer, NoStamp
<1> QED
  BY <1>1, <1>3, StampOrder DEF BuriedNow, Buried

LEMMA CurrentOfBury ==
  ASSUME NEW d \in Store, NEW n \in Store, NEW r \in Replicas, NEW c \in Cards,
         NEW seq \in Nat, BuriedNow(d, n, r, c, seq), Current(d)
  PROVE  Current(n)
<1>1. /\ KnownBy(n) = KnownBy(d)
      /\ n.ver = d.ver /\ n.outbox = d.outbox /\ d.pending \subseteq n.pending
      /\ \A x \in Cards \ {c} : n.row[x] = d.row[x] /\ n.tomb[x] = d.tomb[x]
      /\ ~ Present(n, c)
  BY DEF BuriedNow, KnownBy
<1>2. Buried(n, c)
  BY BuryLeavesATombstone
<1>3. UntouchedIsUnknown(n)
  BY <1>1, <1>2 DEF Current, UntouchedIsUnknown, Present, Buried
<1>4. ASSUME NEW x \in Cards, NEW f \in Field, Present(n, x),
             Backlog(n, x, f) = {}
      PROVE  Holds(n, x, f)
  <2>1. x # c /\ Present(d, x) /\ n.row[x] = d.row[x]
    BY <1>1, <1>4 DEF Present
  <2>2. Unmaterialized(d) \subseteq Unmaterialized(n)
    BY <1>1 DEF Unmaterialized, Blocked
  <2>3. Backlog(d, x, f) = {}
    BY <1>4, <2>2 DEF Backlog
  <2>4. Holds(d, x, f)
    BY <2>1, <2>3 DEF Current, FieldsHold
  <2>5. Writes(n, x, f) = Writes(d, x, f)
    BY <1>1 DEF Writes
  <2> QED
    BY <1>1, <2>1, <2>4, <2>5 DEF Holds
<1> QED
  BY <1>3, <1>4 DEF Current, FieldsHold

LEMMA CurrentOfMaterialize ==
  ASSUME NEW d \in Store, NEW n \in Store, NEW r \in Replicas,
         Materialized(d, n, r), VersionsRecorded(d, n, r), Materializable(d),
         BacklogIsNewer(d), \A c \in Cards : Buried(d, c) => Buried(n, c),
         Current(d)
  PROVE  Current(n)
<1> DEFINE new == {MarkerEvent(d, r, m) : m \in Unmaterialized(d)}
<1>1. /\ n.row = d.row
      /\ KnownBy(n) = KnownBy(d) \cup new
  BY DEF Materialized, KnownBy
<1>2. \A m \in Unmaterialized(d) :
        /\ m.entity \in Cards /\ m.kind \in CardKind /\ m.seq \in Nat
        /\ m.kind # "card.delete" => Present(d, m.entity)
  BY UnmaterializedType DEF Materializable, Poisoned, CardKind
<1>3. UntouchedIsUnknown(n)
  <2> SUFFICES ASSUME NEW c \in Cards, ~ Present(n, c), ~ Buried(n, c),
                      NEW e \in KnownBy(n), e.card = c
               PROVE  e.op # "card.put"
    BY DEF UntouchedIsUnknown
  <2>1. ~ Present(d, c) /\ ~ Buried(d, c)
    BY <1>1 DEF Present
  <2>2. CASE e \in KnownBy(d)
    BY <2>1, <2>2 DEF Current, UntouchedIsUnknown
  <2>3. CASE e \in new
    <3>1. PICK m \in Unmaterialized(d) : e = MarkerEvent(d, r, m)
      BY <2>3
    <3>2. MadeFrom(e, m)
      BY <3>1, MarkerEventIsMade
    <3>3. m.kind = "card.delete"
      BY <1>2, <2>1, <3>2 DEF MadeFrom
    <3> QED
      BY <3>2, <3>3 DEF MadeFrom
  <2> QED
    BY <1>1, <2>2, <2>3
<1>4. ASSUME NEW c \in Cards, NEW f \in Field, Present(n, c)
      PROVE  Holds(n, c, f)
  <2>0. Present(d, c)
    BY <1>1, <1>4 DEF Present
  <2>1. ASSUME NEW e \in new, e.card = c, Touches(e.mask, f)
        PROVE  \E m \in Backlog(d, c, f) : e = MarkerEvent(d, r, m)
    <3>1. PICK m \in Unmaterialized(d) : e = MarkerEvent(d, r, m)
      OBVIOUS
    <3>2. MadeFrom(e, m)
      BY <3>1, MarkerEventIsMade
    <3> QED
      BY <2>1, <3>1, <3>2 DEF MadeFrom, Backlog
  <2>2. CASE Backlog(d, c, f) = {}
    <3>1. Writes(n, c, f) = Writes(d, c, f)
      BY <1>1, <2>1, <2>2 DEF Writes
    <3>2. Holds(d, c, f)
      BY <2>0, <2>2 DEF Current, FieldsHold
    <3>3. n.ver[c][f] = d.ver[c][f]
      BY <2>2 DEF VersionsRecorded
    <3> QED
      BY <1>1, <3>1, <3>2, <3>3 DEF Holds
  <2>3. CASE Backlog(d, c, f) # {}
    <3>1. PICK m \in Backlog(d, c, f) :
            /\ IsLast(m, Backlog(d, c, f))
            /\ n.ver[c][f] = [clock |-> m.seq, replica |-> r]
      BY <2>3 DEF VersionsRecorded
    <3> DEFINE e == MarkerEvent(d, r, m)
    <3>2. /\ m \in Unmaterialized(d) /\ m.entity = c
          /\ Touches(EventMask(m.kind), f)
      BY <3>1 DEF Backlog
    <3>3. m.kind \in EditKind
      BY <1>2, <3>2, KindsTouch
    <3>4. /\ MadeFrom(e, m)
          /\ e.stamp = [clock |-> m.seq, replica |-> r]
          /\ e.row = d.row[c]
      BY <3>2, <3>3, MarkerEventIsMade DEF EditKind
    <3>5. e \in new
      BY <3>2
    <3> HIDE DEF e
    <3>6. e \in Writes(n, c, f)
      BY <1>1, <3>2, <3>4, <3>5 DEF Writes, MadeFrom
    <3>7. ASSUME NEW o \in Writes(n, c, f)
          PROVE  ~ Newer(o.stamp, e.stamp)
      <4>1. CASE o \in new
        <5>1. PICK x \in Backlog(d, c, f) : o = MarkerEvent(d, r, x)
          BY <2>1, <4>1 DEF Writes
        <5>2. x \in Unmaterialized(d) /\ x.seq \in Nat /\ m.seq \in Nat
          BY <1>2, <3>2, <5>1 DEF Backlog
        <5>3. o.stamp = [clock |-> x.seq, replica |-> r]
          BY <5>1, <5>2, MarkerEventIsMade
        <5>4. x.seq <= m.seq
          BY <3>1, <5>1 DEF IsLast
        <5> QED
          BY <3>4, <5>2, <5>3, <5>4, ReplicasAssumption DEF Newer
      <4>2. CASE o \notin new
        <5>1. o \in KnownBy(d)
          BY <1>1, <4>2 DEF Writes
        <5>2. o.stamp.clock < m.seq
          BY <3>2, <3>3, <5>1 DEF BacklogIsNewer
        <5>3. o.stamp.clock \in Nat /\ m.seq \in Nat
          BY <1>2, <3>2, <5>1, ClocksAreNumbers DEF KnownBy
        <5> QED
          BY <3>4, <5>2, <5>3 DEF Newer
      <4> QED
        BY <4>1, <4>2
    <3> QED
      BY <1>1, <3>1, <3>4, <3>6, <3>7 DEF Holds
  <2> QED
    BY <2>2, <2>3
<1> QED
  BY <1>3, <1>4 DEF Current, FieldsHold

\* One remote event.  An edit whose card is not there must come from a card
\* that has been deleted, else it would be lost.
LEMMA CurrentOfMerge ==
  ASSUME NEW d \in Store, NEW n \in Store, NEW e \in Event,
         n = ApplyRemoteEvent(d, e),
         NoZombies(n), TombsKept(d, n), Current(d),
         e.op = "card.put" /\ e.mask # {"*"} =>
           Present(d, e.card) \/ Buried(d, e.card)
  PROVE  Current(n)
<1>1. /\ Merged(d, n, e)
      /\ KnownBy(n) = KnownBy(d) \cup {e}
      /\ \A c \in Cards, f \in Field : Backlog(n, c, f) = Backlog(d, c, f)
  <2>1. Merged(d, n, e)
    BY ApplyRemoteEventMerges
  <2> QED
    BY <2>1, SameBacklog DEF Merged, KnownBy, Backlog
<1>2. ASSUME NEW c \in Cards, NEW f \in Field
      PROVE  Writes(n, c, f) = IF c = e.card /\ Touches(e.mask, f)
                               THEN Writes(d, c, f) \cup {e}
                               ELSE Writes(d, c, f)
  BY <1>1 DEF Writes
<1>3. ASSUME NEW c \in Cards, ~ Present(n, c), ~ Buried(n, c)
      PROVE  ~ Present(d, c) /\ ~ Buried(d, c)
  <2>1. ~ Buried(d, c)
    BY <1>3 DEF TombsKept
  <2>2. d.tomb[c] \in StampOrNone /\ e.stamp \in StampOrNone
    BY EventFacts DEF Store
  <2>3. ~ Present(d, c)
    BY <1>1, <1>3, <2>2, StampOrder DEF Merged, Buried
  <2> QED
    BY <2>1, <2>3
<1>4. CASE e.op = "card.delete"
  <2>1. /\ n.ver = d.ver
        /\ \A x \in Cards : n.row[x] = d.row[x] \/ (x = e.card /\ ~ Present(n, x))
        /\ \A f \in Field : ~ Touches(e.mask, f)
    BY <1>4, ApplyDeleteWrites, EventFacts
  <2>2. UntouchedIsUnknown(n)
    BY <1>1, <1>3, <1>4 DEF Current, UntouchedIsUnknown
  <2>3. ASSUME NEW c \in Cards, NEW f \in Field, Present(n, c),
               Backlog(n, c, f) = {}
        PROVE  Holds(n, c, f)
    <3>1. n.row[c] = d.row[c] /\ Present(d, c)
      BY <2>1, <2>3 DEF Present
    <3>2. Holds(d, c, f)
      BY <1>1, <2>3, <3>1 DEF Current, FieldsHold
    <3>3. Writes(n, c, f) = Writes(d, c, f)
      BY <1>2, <2>1
    <3> QED
      BY <2>1, <3>1, <3>2, <3>3 DEF Holds
  <2> QED
    BY <2>2, <2>3 DEF Current, FieldsHold
<1>5. CASE e.op = "card.put"
  <2>1. PutInto(d, n, e) /\ e.row \in Row /\ e.card \in Cards
    BY <1>5, ApplyPutWrites, EventFacts
  <2>2. ~ Present(d, e.card) /\ ~ Buried(d, e.card) => Present(n, e.card)
    BY <1>5, <2>1, NoRowAssumption DEF PutInto, Present
  <2>3. UntouchedIsUnknown(n)
    BY <1>1, <1>3, <2>2 DEF Current, UntouchedIsUnknown
  <2>4. ASSUME NEW c \in Cards, NEW f \in Field, Present(n, c),
               Backlog(n, c, f) = {}
        PROVE  Holds(n, c, f)
    <3>0. Backlog(d, c, f) = {} /\ ~ Buried(n, c) /\ ~ Buried(d, c)
      BY <1>1, <2>4 DEF NoZombies, TombsKept
    <3>1. CASE c # e.card
      <4>1. n.row[c] = d.row[c] /\ n.ver[c] = d.ver[c]
        BY <2>1, <3>1 DEF PutInto
      <4>2. Holds(d, c, f)
        BY <2>4, <3>0, <4>1 DEF Current, FieldsHold, Present
      <4>3. Writes(n, c, f) = Writes(d, c, f)
        BY <1>2, <3>1
      <4> QED
        BY <4>1, <4>2, <4>3 DEF Holds
    <3>2. CASE c = e.card /\ Present(d, c)
      <4>1. PICK w \in Writes(d, c, f) :
              /\ \A o \in Writes(d, c, f) : ~ Newer(o.stamp, w.stamp)
              /\ d.ver[c][f] = w.stamp
              /\ d.row[c][f] = w.row[f]
        BY <3>0, <3>2 DEF Current, FieldsHold, Holds
      <4>2. \A o \in Writes(d, c, f) \cup {e} : o.stamp \in StampOrNone
        BY KnownAreEvents, EventFacts DEF Writes
      <4>3. IF Touches(e.mask, f) /\ Newer(e.stamp, w.stamp)
            THEN n.row[c][f] = e.row[f] /\ n.ver[c][f] = e.stamp
            ELSE n.row[c][f] = w.row[f] /\ n.ver[c][f] = w.stamp
        BY <2>1, <3>0, <3>2, <4>1 DEF PutInto
      <4>4. CASE Touches(e.mask, f) /\ Newer(e.stamp, w.stamp)
        <5>1. \A o \in Writes(d, c, f) \cup {e} : ~ Newer(o.stamp, e.stamp)
          BY <4>1, <4>2, <4>4, StampOrder
        <5> QED
          BY <1>2, <3>2, <4>3, <4>4, <5>1 DEF Holds
      <4>5. CASE ~ (Touches(e.mask, f) /\ Newer(e.stamp, w.stamp))
        BY <1>2, <3>2, <4>1, <4>3, <4>5 DEF Holds
      <4> QED
        BY <4>4, <4>5
    <3>3. CASE c = e.card /\ ~ Present(d, c)
      <4>1. e.mask = {"*"}
        BY <1>5, <3>0, <3>3
      <4>2. n.row[c] = e.row /\ n.ver[c][f] = e.stamp /\ Touches(e.mask, f)
        BY <2>1, <3>0, <3>3, <4>1, EventFacts DEF PutInto
      <4>3. Writes(d, c, f) = {}
        <5> SUFFICES ASSUME NEW o \in Writes(d, c, f) PROVE FALSE
          OBVIOUS
        <5>1. o \in KnownBy(d) /\ o.card = c /\ Touches(o.mask, f)
          BY DEF Writes
        <5>2. o.op = "card.put"
          BY <5>1, KnownAreEvents, EventFacts
        <5> QED
          BY <3>0, <3>3, <5>1, <5>2 DEF Current, UntouchedIsUnknown
      <4>4. Writes(n, c, f) = {e}
        BY <1>2, <3>3, <4>2, <4>3
      <4>5. ~ Newer(e.stamp, e.stamp)
        BY EventFacts, StampOrder
      <4> QED
        BY <4>2, <4>4, <4>5 DEF Holds
    <3> QED
      BY <3>1, <3>2, <3>3
  <2> QED
    BY <2>3, <2>4 DEF Current, FieldsHold
<1> QED
  BY <1>4, <1>5, EventFacts

CurrentInv ==
  /\ \A r \in Replicas : Current(db[r])
  /\ merge.at # Nobody => Current(merge.work)

LEMMA CurrentInit == Init => CurrentInv
<1> SUFFICES ASSUME Init, NEW r \in Replicas PROVE Current(db[r])
  BY DEF CurrentInv, Init, NoMerge
<1>1. PICK past \in [Replicas -> PastClocks] :
        db = [q \in Replicas |-> EmptyStore(BoardColumns, past[q])]
  BY DEF Init
<1>2. db[r] = EmptyStore(BoardColumns, past[r])
  BY <1>1
<1>3. KnownBy(db[r]) = {} /\ \A c \in Cards : ~ Present(db[r], c)
  BY <1>2 DEF EmptyStore, KnownBy, Present
<1> QED
  BY <1>3 DEF Current, UntouchedIsUnknown, FieldsHold


\* The event that a merge takes next finds its card there, or deleted, unless
\* it is the card's creation.
LEMMA NextEditHasItsCard ==
  ASSUME TypeOK, StampInv, MadeInv, CreationInv, CausalInv,
         NEW e \in merge.todo, IsOldest(e, merge.todo),
         UntouchedIsUnknown(merge.work),
         merge.at # Nobody, e.op = "card.put", e.mask # {"*"}
  PROVE  Present(merge.work, e.card) \/ Buried(merge.work, e.card)
<1>1. PICK o \in merge.todo \cup KnownBy(merge.work) : IsCreation(o, e.card)
  BY DEF CausalInv
<1>2. /\ e \in Event /\ o \in Event /\ e.card \in Cards
      /\ o.card = e.card /\ o.mask = {"*"} /\ o.op = "card.put"
      /\ e.stamp \in StampOrNone /\ o.stamp \in StampOrNone
  <2>1. o \in Event /\ e \in Event
    BY KnownAreEvents DEF TypeOK
  <2> QED
    BY <1>1, <2>1, EventFacts DEF IsCreation
<1>3. CASE o \in KnownBy(merge.work)
  BY <1>2, <1>3 DEF UntouchedIsUnknown
<1>4. CASE o \in merge.todo
  <2>1. o \in Published /\ e \in Published
    BY <1>4 DEF StampInv
  <2>2. Newer(e.stamp, o.stamp)
    BY <1>2, <2>1, CreationIsOldest
  <2>3. Newer(o.stamp, e.stamp)
    BY <1>2, <1>4 DEF IsOldest
  <2> QED
    BY <1>2, <2>2, <2>3, StampOrder
<1> QED
  BY <1>1, <1>3, <1>4

LEMMA CurrentNext ==
  ASSUME Orderly
  PROVE  LifeOK /\ FloorInv /\ StampInv /\ MadeInv /\ CreationInv /\ QuietInv
           /\ CausalInv /\ CurrentInv /\ [Next]_vars => CurrentInv'
<1> SUFFICES ASSUME TypeOK, MergeInv, NewestInv, LifeInv, FloorInv, StampInv,
                    MadeInv, CreationInv, QuietInv, CausalInv, CurrentInv,
                    [Next]_vars
             PROVE  CurrentInv'
  BY DEF LifeOK
<1>0. TypeOK' /\ LifeInv'
  BY TypeNext, LifeNext
<1>1. ASSUME NEW r \in Replicas PROVE Current(db'[r])
  <2> DEFINE d == db[r]
             n == db'[r]
  <2>0. /\ d \in Store /\ n \in Store /\ Current(d) /\ AtOrBelow(d)
        /\ BacklogIsNewer(d)
    BY <1>0 DEF TypeOK, CurrentInv, FloorInv, LamportFloor, QuietInv
  <2>1. Changes(r, n)
    BY DbForms
  <2>2. CASE Edits(r, n)
    <3>1. \A c \in Cards : Present(d, c) => Present(n, c)
      BY <2>2 DEF Edits, CreatesNothing, SameCards, Creates
    <3> QED
      BY <2>0, <2>2, <3>1, CurrentOfEdit DEF Edits
  <2>3. CASE \E c \in Cards : ReserveDelete(r, c) /\ n = NextLocalClock(d)
    <3>1. /\ n.row = d.row /\ n.tomb = d.tomb /\ n.ver = d.ver
          /\ n.pending = d.pending /\ n.outbox = d.outbox /\ n.seen = d.seen
      BY <2>0, <2>3 DEF NextLocalClock, Store
    <3> QED
      BY <2>0, <3>1, CurrentSame
  <2>4. ASSUME NEW v \in deleting[r], v \in Delete,
               BuriedNow(d, n, r, v.card, v.seq)
        PROVE  Current(n)
    BY <2>0, <2>4, CurrentOfBury DEF Delete
  <2>5. CASE /\ Materializable(d)
             /\ n = MaterializePending(d, r)
             /\ Materialized(d, n, r)
    <3>1. VersionsRecorded(d, n, r)
      BY <2>0, <2>5, MaterializeRecordsVersions DEF AtOrBelow
    <3>2. \A c \in Cards : Buried(d, c) => Buried(n, c)
      BY DbKeepsTombs DEF TombsKept
    <3> QED
      BY <2>0, <2>5, <3>1, <3>2, CurrentOfMaterialize
  <2>6. CASE merge.at = r /\ n = merge.work
    BY <2>6, SomebodyIsAReplica DEF CurrentInv
  <2> QED
    BY <2>0, <2>1, <2>2, <2>3, <2>4, <2>5, <2>6 DEF Changes
<1>2. ASSUME merge'.at # Nobody PROVE Current(merge'.work)
  <2>1. MergeStep
    BY <1>2, MergeForms
  <2>2. CASE merge' = merge
    BY <1>2, <2>2 DEF CurrentInv
  <2>3. CASE merge'.at \in Replicas /\ Opened(db[merge'.at], merge'.work)
    BY <2>3, CurrentSame DEF CurrentInv, Opened
  <2>4. ASSUME NEW e \in merge.todo, MergesOne(e)
        PROVE  Current(merge'.work)
    <3>0. /\ merge.at # Nobody /\ e \in Event
          /\ merge.work \in Store /\ merge'.work \in Store
          /\ Current(merge.work)
      BY <1>0, <1>2, <2>4 DEF MergesOne, TypeOK, CurrentInv
    <3>1. CASE merge'.work = merge.work
      BY <3>0, <3>1
    <3>2. CASE merge'.work = ApplyRemoteEvent(merge.work, e)
      <4>1. NoZombies(merge'.work)
        BY <1>0, <1>2 DEF LifeInv
      <4>2. TombsKept(merge.work, merge'.work)
        BY <3>0, <3>2, ApplyRemoteEventMerges, MergedKeepsTombs
      <4>3. e.op = "card.put" /\ e.mask # {"*"} =>
              Present(merge.work, e.card) \/ Buried(merge.work, e.card)
        BY <2>4, <3>0, NextEditHasItsCard DEF MergesOne, Current
      <4> QED
        BY <3>0, <3>2, <4>1, <4>2, <4>3, CurrentOfMerge
    <3> QED
      BY <2>4, <3>1, <3>2 DEF MergesOne
  <2> QED
    BY <2>1, <2>2, <2>3, <2>4 DEF MergeStep
<1> QED
  BY <1>1, <1>2 DEF CurrentInv

-----------------------------------------------------------------------------
(* The theorems about merging in an orderly environment.                   *)

OrderlyInv ==
  AllInv /\ MadeInv /\ CreationInv /\ QuietInv /\ CausalInv /\ CurrentInv

LEMMA OrderlyInvariant ==
  ASSUME Orderly
  PROVE  Spec => []OrderlyInv
<1>1. Init => OrderlyInv
  BY TypeInit, MergeInvInit, NewestInit, LifeInit, FloorInit, StampInit,
     GroundInit, MadeInit, CreationInit, QuietInit, CurrentInit
     DEF OrderlyInv, AllInv, LifeOK
<1>2. OrderlyInv /\ [Next]_vars => OrderlyInv'
  <2> SUFFICES ASSUME OrderlyInv, [Next]_vars PROVE OrderlyInv'
    OBVIOUS
  <2>1. LifeOK' /\ FloorInv' /\ StampInv' /\ GroundInv'
    BY TypeNext, MergeInvNext, NewestNext, LifeNext, FloorNext, StampNext,
       GroundNext DEF OrderlyInv, AllInv, LifeOK
  <2>2. MadeInv' /\ CreationInv'
    BY MadeNext, CreationNext DEF OrderlyInv, AllInv, LifeOK
  <2>3. QuietInv' /\ CausalInv'
    BY QuietNext, CausalNext DEF OrderlyInv, AllInv, LifeOK, Orderly
  <2>4. CurrentInv'
    BY CurrentNext DEF OrderlyInv, AllInv
  <2> QED
    BY <2>1, <2>2, <2>3, <2>4 DEF OrderlyInv, AllInv
<1> QED
  BY <1>1, <1>2, PTL DEF Spec

\* When planner and sync actor take turns and no edit comes without its card's
\* creation, every register of a live card holds the value and the version of
\* the newest known event that writes it, in whatever order and batches the
\* events came (apply_card_put, save_version).
THEOREM NewestWriteWins ==
  ASSUME ~ PlannerOverlapsSync, RelayIsCausal
  PROVE  Spec => []LastWriterWins
<1>1. Orderly
  BY DEF Orderly
<1>2. OrderlyInv => LastWriterWins
  <2> SUFFICES ASSUME OrderlyInv, NEW r \in Replicas, NEW c \in Cards,
                      NEW f \in Field, Settled(r), Present(db[r], c)
               PROVE  Holds(db[r], c, f)
    BY DEF LastWriterWins, Holds, Writes, KnownBy, Known
  <2>1. Backlog(db[r], c, f) = {}
    BY DEF Backlog, Settled
  <2> QED
    BY <2>1 DEF OrderlyInv, CurrentInv, Current, FieldsHold
<1>3. Spec => []OrderlyInv
  BY <1>1, OrderlyInvariant
<1> QED
  BY <1>2, <1>3, PTL

\* A settled replica has a tombstone of the cards it knows a delete of.
LEMMA BuriedByKnownDeletes ==
  ASSUME TypeOK, NewestInv, StampInv, MadeInv, NEW r \in Replicas, Settled(r),
         NEW c \in Cards
  PROVE  Buried(db[r], c) <=>
           \E e \in KnownBy(db[r]) : e.card = c /\ e.op = "card.delete"
<1> DEFINE d == db[r]
           deletes == KnownDeletes(d, r, c)
<1>0. d \in Store /\ IsNewest(d.tomb[c], deletes) /\ deletes \subseteq Stamp
  BY KnownDeletesAreStamps
     DEF TypeOK, NewestInv, TombstoneIsNewestDelete, TombsAreNewest
<1>1. Buried(d, c) <=> deletes # {}
  <2>1. NoStamp \notin Stamp
    BY ReplicasAssumption DEF NoStamp, Stamp
  <2> QED
    BY <1>0, <2>1 DEF IsNewest, Buried
<1>2. ASSUME NEW e \in KnownBy(d), e.card = c, e.op = "card.delete"
      PROVE  deletes # {}
  <2>1. CASE e \in d.seen
    BY <1>2, <2>1 DEF KnownDeletes
  <2>2. CASE e \in d.outbox
    <3>1. PICK m \in d.pending : MadeFrom(e, m)
      BY <2>2 DEF MadeInv, MadeOfMarkers
    <3> QED
      BY <1>2, <3>1 DEF KnownDeletes, MadeFrom
  <2> QED
    BY <2>1, <2>2 DEF KnownBy
<1>3. ASSUME deletes # {}
      PROVE  \E e \in KnownBy(d) : e.card = c /\ e.op = "card.delete"
  <2>1. CASE \E e \in d.seen : e.card = c /\ e.op = "card.delete"
    BY <2>1 DEF KnownBy
  <2>2. ASSUME NEW m \in d.pending, m.entity = c, m.kind = "card.delete"
        PROVE  \E e \in KnownBy(d) : e.card = c /\ e.op = "card.delete"
    <3>1. PICK e \in d.outbox : e.stamp.clock = m.seq
      BY <2>2 DEF Settled, Unmaterialized, Blocked, Unsupported
    <3>2. PICK x \in d.pending : MadeFrom(e, x)
      BY DEF MadeInv, MadeOfMarkers
    <3>3. x = m
      BY <3>1, <3>2 DEF MadeFrom, StampInv, UniqueMarkers
    <3> QED
      BY <2>2, <3>2, <3>3 DEF MadeFrom, KnownBy
  <2> QED
    BY <1>3, <2>1, <2>2 DEF KnownDeletes
<1> QED
  BY <1>1, <1>2, <1>3

\* The newest write of a register is one event.
LEMMA NewestIsOne ==
  ASSUME StampsIdentifyEvents, NEW E \in SUBSET Event, E \subseteq KnownEvents,
         NEW e1 \in E, NEW e2 \in E,
         ~ Newer(e1.stamp, e2.stamp), ~ Newer(e2.stamp, e1.stamp)
  PROVE  e1 = e2
<1>1. e1.stamp = e2.stamp
  BY EventFacts, StampTotal
<1> QED
  BY <1>1 DEF StampsIdentifyEvents

LEMMA SameKnownSameRow ==
  ASSUME OrderlyInv, NEW r1 \in Replicas, NEW r2 \in Replicas,
         Settled(r1), Settled(r2), KnownBy(db[r1]) = KnownBy(db[r2]),
         NEW c \in Cards, Present(db[r1], c)
  PROVE  db[r2].row[c] = db[r1].row[c]
<1> DEFINE d1 == db[r1]
           d2 == db[r2]
<1>0. /\ d1 \in Store /\ d2 \in Store
      /\ Current(d1) /\ Current(d2)
      /\ NoZombies(d1) /\ NoZombies(d2)
      /\ TypeOK /\ NewestInv /\ StampInv /\ MadeInv
  BY DEF OrderlyInv, AllInv, LifeOK, TypeOK, CurrentInv, LifeInv
<1>1. ASSUME NEW f \in Field
      PROVE  Holds(d1, c, f)
  <2>1. Backlog(d1, c, f) = {}
    BY DEF Backlog, Settled
  <2> QED
    BY <1>0, <2>1 DEF Current, FieldsHold
<1>2. Present(d2, c)
  <2>1. ~ Buried(d1, c)
    BY <1>0 DEF NoZombies
  <2>2. ~ Buried(d2, c)
    BY <1>0, <2>1, BuriedByKnownDeletes
  <2>3. PICK e \in Writes(d1, c, "place") : TRUE
    BY <1>1 DEF Holds, Field
  <2>4. e \in KnownBy(d2) /\ e.card = c /\ e.op = "card.put"
    BY <1>0, <2>3, KnownAreEvents, EventFacts DEF Writes, Field
  <2> QED
    BY <1>0, <2>2, <2>4 DEF Current, UntouchedIsUnknown
<1>3. ASSUME NEW f \in Field
      PROVE  d2.row[c][f] = d1.row[c][f]
  <2>1. Backlog(d2, c, f) = {}
    BY DEF Backlog, Settled
  <2>2. Holds(d2, c, f)
    BY <1>0, <1>2, <2>1 DEF Current, FieldsHold
  <2>3. Writes(d2, c, f) = Writes(d1, c, f)
    BY DEF Writes
  <2> DEFINE W == Writes(d1, c, f)
  <2>4. W \in SUBSET Event /\ W \subseteq KnownEvents /\ StampsIdentifyEvents
    BY <1>0, KnownAreEvents, StampInvSuffices
       DEF Writes, KnownBy, KnownEvents, Published
  <2>5. PICK e1 \in W : /\ \A o \in W : ~ Newer(o.stamp, e1.stamp)
                        /\ d1.row[c][f] = e1.row[f]
    BY <1>1 DEF Holds
  <2>6. PICK e2 \in W : /\ \A o \in W : ~ Newer(o.stamp, e2.stamp)
                        /\ d2.row[c][f] = e2.row[f]
    BY <2>2, <2>3 DEF Holds
  <2>7. e1 = e2
    <3> HIDE DEF W
    <3> QED
      BY <2>4, <2>5, <2>6, NewestIsOne
  <2> QED
    BY <2>5, <2>6, <2>7
<1>4. d1.row[c] \in Row /\ d2.row[c] \in Row
  BY <1>0, <1>2 DEF Store, Present
<1> QED
  BY <1>3, <1>4 DEF Row, Field

\* In the same environment, two replicas without a backlog that know the same
\* events show the same cards with the same contents: merging is strongly
\* convergent, whatever was lost, duplicated, delayed, reordered or retried on
\* the way (apply_remote_batch).
THEOREM ReplicasConverge ==
  ASSUME ~ PlannerOverlapsSync, RelayIsCausal
  PROVE  Spec => []Convergence
<1>1. Orderly
  BY DEF Orderly
<1>2. OrderlyInv => Convergence
  <2> SUFFICES ASSUME OrderlyInv, NEW r1 \in Replicas, NEW r2 \in Replicas,
                      Settled(r1), Settled(r2), Known(r1) = Known(r2)
               PROVE  db[r1].row = db[r2].row
    BY DEF Convergence
  <2>1. KnownBy(db[r1]) = KnownBy(db[r2])
    BY DEF Known, KnownBy
  <2>2. \A c \in Cards : db[r1].row[c] = db[r2].row[c]
    BY <2>1, SameKnownSameRow DEF Present
  <2>3. db[r1].row \in [Cards -> Row \cup {NoRow}]
        /\ db[r2].row \in [Cards -> Row \cup {NoRow}]
    BY DEF OrderlyInv, AllInv, LifeOK, TypeOK, Store
  <2> QED
    BY <2>2, <2>3
<1>3. Spec => []OrderlyInv
  BY <1>1, OrderlyInvariant
<1> QED
  BY <1>2, <1>3, PTL

\* A merge that commits replaces the value of a register only by that of an
\* event newer than every local edit of the register.
LEMMA CommitSparesNewerEdits ==
  ASSUME OrderlyInv, merge.at # Nobody,
         NEW c \in Cards, NEW f \in Field,
         Present(db[merge.at], c), Present(merge.work, c),
         merge.work.row[c][f] # db[merge.at].row[c][f],
         NEW m \in merge.work.pending,
         m.entity = c, Touches(EventMask(m.kind), f)
  PROVE  Newer(merge.work.ver[c][f], [clock |-> m.seq, replica |-> merge.at])
<1> DEFINE r == merge.at
           d == db[r]
           n == merge.work
<1>0. /\ r \in Replicas /\ d \in Store /\ n \in Store
      /\ Current(d) /\ Current(n)
      /\ n.pending = d.pending /\ n.outbox = d.outbox /\ d.seen \subseteq n.seen
      /\ n.seen \subseteq Published
      /\ Quiet(n)
      /\ TypeOK /\ StampInv /\ MadeInv
  BY SomebodyIsAReplica
     DEF OrderlyInv, AllInv, LifeOK, TypeOK, CurrentInv, MergeInv, StampInv,
         QuietInv
<1>1. Unmaterialized(d) = {}
  BY <1>0, SameBacklog DEF Quiet
<1>2. PICK e0 \in Writes(d, c, f) :
        /\ \A o \in Writes(d, c, f) : ~ Newer(o.stamp, e0.stamp)
        /\ d.row[c][f] = e0.row[f]
  BY <1>0, <1>1 DEF Current, FieldsHold, Holds, Backlog
<1>3. PICK e1 \in Writes(n, c, f) :
        /\ \A o \in Writes(n, c, f) : ~ Newer(o.stamp, e1.stamp)
        /\ n.ver[c][f] = e1.stamp
        /\ n.row[c][f] = e1.row[f]
  BY <1>0 DEF Current, FieldsHold, Holds, Backlog, Quiet
\* The marker has its event.
<1>4. PICK e \in d.outbox : e.stamp.clock = m.seq
  BY <1>0 DEF Quiet, Unmaterialized, Blocked
<1>5. MadeFrom(e, m) /\ e.stamp = [clock |-> m.seq, replica |-> r]
  <2>1. PICK x \in d.pending : MadeFrom(e, x)
    BY <1>0 DEF MadeInv, MadeOfMarkers
  <2>2. x = m
    BY <1>0, <1>4, <2>1 DEF MadeFrom, StampInv, UniqueMarkers
  <2>3. e.stamp \in Stamp /\ e.stamp.replica = r
    BY <1>0, EventFacts DEF Store, StampInv, OutboxFromMarkers
  <2> QED
    BY <1>4, <2>1, <2>2, <2>3 DEF Stamp
<1>6. e \in Writes(d, c, f) /\ Writes(d, c, f) \subseteq Writes(n, c, f)
  BY <1>0, <1>5 DEF Writes, KnownBy, MadeFrom
<1>7. /\ Writes(n, c, f) \in SUBSET Event
      /\ Writes(n, c, f) \subseteq KnownEvents
      /\ StampsIdentifyEvents
  <2>1. Writes(n, c, f) \in SUBSET Event
    BY <1>0, KnownAreEvents DEF Writes
  <2>2. KnownBy(n) \subseteq Published
    BY <1>0 DEF KnownBy, Published
  <2> QED
    BY <1>0, <2>1, <2>2, StampInvSuffices DEF Writes, KnownEvents
<1>8. e1 \notin Writes(d, c, f)
  <2> SUFFICES ASSUME e1 \in Writes(d, c, f) PROVE FALSE
    OBVIOUS
  <2>1. ~ Newer(e1.stamp, e0.stamp) /\ ~ Newer(e0.stamp, e1.stamp)
    BY <1>2, <1>3, <1>6
  <2>2. e0 = e1
    BY <1>6, <1>7, <2>1, NewestIsOne
  <2> QED
    BY <1>2, <1>3, <2>2
<1>9. Newer(e1.stamp, e.stamp)
  <2> SUFFICES ASSUME ~ Newer(e1.stamp, e.stamp) PROVE FALSE
    OBVIOUS
  <2>1. ~ Newer(e.stamp, e1.stamp)
    BY <1>3, <1>6
  <2>2. e = e1
    BY <1>6, <1>7, <2>1, NewestIsOne
  <2> QED
    BY <1>6, <1>8, <2>2
<1> QED
  BY <1>3, <1>5, <1>9

\* In the same environment a merge never replaces the value of a register that
\* a local edit with a newer version has written: what the user typed last is
\* only overwritten by what somebody wrote later.
THEOREM LocalEditsAreKept ==
  ASSUME ~ PlannerOverlapsSync, RelayIsCausal
  PROVE  Spec => LocalEditsSurviveMerge
<1> DEFINE A == \A r \in Replicas, c \in Cards, f \in Field :
                  (/\ db'[r].pending = db[r].pending
                   /\ Present(db[r], c)
                   /\ Present(db'[r], c)
                   /\ db'[r].row[c][f] # db[r].row[c][f]) =>
                     \A m \in db[r].pending :
                       (m.entity = c /\ Touches(EventMask(m.kind), f)) =>
                         Newer(db'[r].ver[c][f], [clock |-> m.seq, replica |-> r])
<1>1. Orderly
  BY DEF Orderly
<1>2. OrderlyInv /\ [Next]_vars => A
  <2> SUFFICES ASSUME OrderlyInv, [Next]_vars,
                      NEW r \in Replicas, NEW c \in Cards, NEW f \in Field,
                      db'[r].pending = db[r].pending,
                      Present(db[r], c), Present(db'[r], c),
                      db'[r].row[c][f] # db[r].row[c][f],
                      NEW m \in db[r].pending,
                      m.entity = c, Touches(EventMask(m.kind), f)
               PROVE  Newer(db'[r].ver[c][f], [clock |-> m.seq, replica |-> r])
    OBVIOUS
  <2> DEFINE d == db[r]
             n == db'[r]
  <2>0. /\ TypeOK /\ d \in Store /\ AtOrBelow(d) /\ d.clock \in Nat
        /\ \A x \in d.pending : x.seq \in Nat
    BY ClocksAreNumbers
       DEF OrderlyInv, AllInv, LifeOK, TypeOK, FloorInv, LamportFloor
  <2>1. Changes(r, n)
    BY <2>0, DbForms
  <2>2. ASSUME Edits(r, n) PROVE FALSE
    <3>1. PICK x \in d.pending : d.clock < x.seq
      BY <2>2 DEF Edits, WritesAreMarked
    <3> QED
      BY <2>0, <3>1 DEF AtOrBelow
  <2>3. ASSUME \E x \in Cards : ReserveDelete(r, x) /\ n = NextLocalClock(d)
        PROVE  FALSE
    BY <2>0, <2>3 DEF NextLocalClock, Store
  <2>4. ASSUME \E v \in deleting[r] : v \in Delete /\ BuriedNow(d, n, r, v.card, v.seq)
        PROVE  FALSE
    BY <2>4 DEF BuriedNow, Delete
  <2>5. ASSUME Materialized(d, n, r) PROVE FALSE
    BY <2>5 DEF Materialized
  <2>6. merge.at = r /\ n = merge.work
    BY <2>1, <2>2, <2>3, <2>4, <2>5 DEF Changes
  <2>7. merge.at # Nobody
    BY <2>0, <2>6, SomebodyIsAReplica
  <2> QED
    BY <2>6, <2>7, CommitSparesNewerEdits
<1>3. OrderlyInv /\ [Next]_vars => [A]_vars
  BY <1>2
<1>4. Spec => []OrderlyInv
  BY <1>1, OrderlyInvariant
<1> HIDE DEF A
<1>5. Spec => [][A]_vars
  BY <1>3, <1>4, PTL DEF Spec
<1> QED
  BY <1>5 DEF A, LocalEditsSurviveMerge

-----------------------------------------------------------------------------
(* EchoChangesNothing, in every environment.  A replica's own events are   *)
(* made of its own markers: its versions and tombstones are already as new *)
(* as they are, and what is not materialized yet is newer.                 *)

\* A store still has what it has published, or has buried it; no register's
\* version is older than an own event that writes it.
OwnKept(d) ==
  \A e \in d.outbox : e.op = "card.put" =>
    /\ Present(d, e.card) \/ Buried(d, e.card)
    /\ Present(d, e.card) =>
         \A f \in Field : Touches(e.mask, f) => ~ Newer(e.stamp, d.ver[e.card][f])

BacklogFollowsOutbox(d) ==
  \A m \in Unmaterialized(d) : m.kind \in EditKind =>
    \A e \in d.outbox : e.op = "card.put" => e.stamp.clock < m.seq

OwnInv ==
  /\ \A r \in Replicas : OwnKept(db[r]) /\ BacklogFollowsOutbox(db[r])
  /\ merge.at # Nobody => OwnKept(merge.work)

AllBy(r, events) == \A e \in events : e.stamp.replica = r

EchoInv ==
  merge.at # Nobody =>
    (AllBy(merge.at, merge.work.seen \ db[merge.at].seen)
       => merge.work.row = db[merge.at].row)

LEMMA OwnInit == Init => OwnInv /\ EchoInv
<1> SUFFICES ASSUME Init, NEW r \in Replicas
             PROVE  db[r].outbox = {}
  BY DEF OwnInv, EchoInv, OwnKept, BacklogFollowsOutbox, Init, NoMerge
<1>1. PICK past \in [Replicas -> PastClocks] :
        db = [q \in Replicas |-> EmptyStore(BoardColumns, past[q])]
  BY DEF Init
<1>2. db[r] = EmptyStore(BoardColumns, past[r])
  BY <1>1
<1> QED
  BY <1>2 DEF EmptyStore

\* What OwnKept looks at.
LEMMA OwnSame ==
  ASSUME NEW d, NEW n, OwnKept(d), BacklogFollowsOutbox(d),
         n.row = d.row, n.tomb = d.tomb, n.ver = d.ver,
         n.pending = d.pending, n.outbox = d.outbox
  PROVE  OwnKept(n) /\ BacklogFollowsOutbox(n)
<1>1. Unmaterialized(n) = Unmaterialized(d)
  BY SameBacklog
<1> QED
  BY <1>1 DEF OwnKept, BacklogFollowsOutbox, Present, Buried

LEMMA OwnOfEdit ==
  ASSUME TypeOK, FloorInv, NEW r \in Replicas, NEW n \in Store, Edits(r, n),
         OwnKept(db[r]), BacklogFollowsOutbox(db[r])
  PROVE  OwnKept(n) /\ BacklogFollowsOutbox(n)
<1> DEFINE d == db[r]
<1>0. /\ d \in Store /\ AtOrBelow(d) /\ d.clock \in Nat
      /\ n.ver = d.ver /\ n.tomb = d.tomb /\ n.outbox = d.outbox
      /\ \A m \in n.pending : m.seq \in Nat
      /\ \A e \in n.outbox : e.stamp.clock \in Nat /\ e.card \in Cards
  BY ClocksAreNumbers, EventFacts
     DEF TypeOK, FloorInv, LamportFloor, Edits, Edited, Store
<1>1. ASSUME NEW e \in d.outbox, e.op = "card.put"
      PROVE  /\ Present(n, e.card) <=> Present(d, e.card)
             /\ Buried(n, e.card) <=> Buried(d, e.card)
  <2>1. Buried(n, e.card) <=> Buried(d, e.card)
    BY <1>0 DEF Buried
  <2>2. Present(d, e.card) \/ Buried(d, e.card)
    BY <1>1 DEF OwnKept
  <2>3. CASE CreatesNothing(d, n)
    BY <1>0, <2>1, <2>3 DEF CreatesNothing, SameCards
  <2>4. ASSUME NEW c \in Cards, Creates(d, n, c)
        PROVE  Present(n, e.card) <=> Present(d, e.card)
    BY <1>0, <2>2, <2>4 DEF Creates
  <2> QED
    BY <2>1, <2>3, <2>4 DEF Edits
<1>2. OwnKept(n)
  BY <1>0, <1>1 DEF OwnKept
<1>3. ASSUME NEW m \in Unmaterialized(n), m.kind \in EditKind,
             NEW e \in d.outbox, e.op = "card.put"
      PROVE  e.stamp.clock < m.seq
  <2>1. m \in n.pending /\ (m \in d.pending => m \in Unmaterialized(d))
    BY <1>0 DEF Unmaterialized, Blocked
  <2>2. CASE m \in d.pending
    BY <1>3, <2>1, <2>2 DEF BacklogFollowsOutbox
  <2>3. CASE m \notin d.pending
    <3>1. d.clock < m.seq
      BY <2>1, <2>3 DEF Edits, Edited
    <3>2. e.stamp.clock <= d.clock
      BY <1>0 DEF AtOrBelow
    <3> QED
      BY <1>0, <2>1, <3>1, <3>2
  <2> QED
    BY <2>2, <2>3
<1> QED
  BY <1>0, <1>2, <1>3 DEF BacklogFollowsOutbox

LEMMA OwnOfBury ==
  ASSUME NEW d \in Store, NEW n \in Store, NEW r \in Replicas, NEW c \in Cards,
         NEW seq \in Nat, BuriedNow(d, n, r, c, seq),
         OwnKept(d), BacklogFollowsOutbox(d)
  PROVE  OwnKept(n) /\ BacklogFollowsOutbox(n)
<1>1. Buried(n, c)
  BY BuryLeavesATombstone
<1>2. \A e \in d.outbox : e.card \in Cards
  BY EventFacts DEF Store
<1>3. OwnKept(n)
  BY <1>1, <1>2 DEF OwnKept, BuriedNow, Present, Buried
<1>4. /\ n.outbox = d.outbox
      /\ \A m \in n.pending \ d.pending : m.kind \notin EditKind
  BY DEF BuriedNow, EditKind
<1>5. \A m \in Unmaterialized(n) : m.kind \in EditKind => m \in Unmaterialized(d)
  BY <1>4 DEF Unmaterialized, Blocked
<1> QED
  BY <1>3, <1>4, <1>5 DEF BacklogFollowsOutbox

LEMMA OwnOfMaterialize ==
  ASSUME NEW d \in Store, NEW n \in Store, NEW r \in Replicas,
         Materialized(d, n, r), VersionsRecorded(d, n, r), Materializable(d),
         OutboxFromMarkers(d, r),
         \A c \in Cards : Buried(d, c) => Buried(n, c),
         OwnKept(d), BacklogFollowsOutbox(d)
  PROVE  OwnKept(n) /\ BacklogFollowsOutbox(n)
<1> DEFINE new == {MarkerEvent(d, r, m) : m \in Unmaterialized(d)}
<1>0. n.row = d.row /\ n.outbox = d.outbox \cup new
  BY DEF Materialized
<1>1. BacklogFollowsOutbox(n)
  BY MaterializeSettles DEF BacklogFollowsOutbox
<1>2. \A m \in Unmaterialized(d) :
        /\ m.entity \in Cards /\ m.kind \in CardKind /\ m.seq \in Nat
        /\ m.kind # "card.delete" => Present(d, m.entity)
  BY UnmaterializedType DEF Materializable, Poisoned, CardKind
<1>3. ASSUME NEW e \in new
      PROVE  \E m \in Unmaterialized(d) :
               /\ MadeFrom(e, m)
               /\ e.stamp = [clock |-> m.seq, replica |-> r]
  BY MarkerEventIsMade
<1> SUFFICES ASSUME NEW e \in n.outbox, e.op = "card.put"
             PROVE  /\ Present(n, e.card) \/ Buried(n, e.card)
                    /\ Present(n, e.card) =>
                         \A f \in Field : Touches(e.mask, f) =>
                           ~ Newer(e.stamp, n.ver[e.card][f])
  BY <1>1 DEF OwnKept
<1> HIDE DEF new
<1>4. e.card \in Cards /\ e.stamp.clock \in Nat /\ e.stamp.replica = r
  <2>1. CASE e \in d.outbox
    BY <2>1, EventFacts, ClocksAreNumbers DEF Store, OutboxFromMarkers
  <2>2. CASE e \in new
    <3>1. PICK m \in Unmaterialized(d) :
            MadeFrom(e, m) /\ e.stamp = [clock |-> m.seq, replica |-> r]
      BY <1>3, <2>2
    <3>2. e.card = m.entity /\ m.entity \in Cards /\ m.seq \in Nat
      BY <1>2, <3>1 DEF MadeFrom
    <3> QED
      BY <3>1, <3>2
  <2> QED
    BY <1>0, <2>1, <2>2
<1>5. Present(n, e.card) \/ Buried(n, e.card)
  <2>1. CASE e \in d.outbox
    BY <1>0, <1>4, <2>1 DEF OwnKept, Present
  <2>2. CASE e \in new
    <3>1. PICK m \in Unmaterialized(d) : MadeFrom(e, m)
      BY <1>3, <2>2
    <3>2. Present(d, e.card)
      BY <1>2, <3>1 DEF MadeFrom
    <3> QED
      BY <1>0, <3>2 DEF Present
  <2> QED
    BY <1>0, <2>1, <2>2
<1>6. ASSUME Present(n, e.card), NEW f \in Field, Touches(e.mask, f)
      PROVE  ~ Newer(e.stamp, n.ver[e.card][f])
  <2> DEFINE c == e.card
             B == Backlog(d, c, f)
  <2>1. ASSUME e \in new
        PROVE  \E m \in B : e.stamp = [clock |-> m.seq, replica |-> r]
    BY <1>3, <1>6, <2>1 DEF MadeFrom, Backlog
  <2>2. ASSUME e \in d.outbox PROVE ~ Newer(e.stamp, d.ver[c][f])
    BY <1>0, <1>6, <2>2 DEF OwnKept, Present
  <2> HIDE DEF B
  <2>3. CASE B = {}
    <3>1. n.ver[c][f] = d.ver[c][f]
      BY <1>4, <2>3 DEF VersionsRecorded, B
    <3> QED
      BY <1>0, <2>1, <2>2, <2>3, <3>1
  <2>4. CASE B # {}
    <3>1. PICK m \in B : /\ IsLast(m, B)
                         /\ n.ver[c][f] = [clock |-> m.seq, replica |-> r]
      BY <1>4, <2>4 DEF VersionsRecorded, B
    <3>2. /\ \A x \in B : x.seq \in Nat
          /\ m \in Unmaterialized(d) /\ m.kind \in EditKind
      BY <1>2, KindsTouch DEF B, Backlog
    <3>3. e.stamp.clock <= m.seq
      <4>1. CASE e \in new
        <5>1. PICK x \in B : e.stamp = [clock |-> x.seq, replica |-> r]
          BY <2>1, <4>1
        <5> QED
          BY <3>1, <5>1 DEF IsLast
      <4>2. CASE e \in d.outbox
        <5>1. e.stamp.clock < m.seq
          BY <3>2, <4>2 DEF BacklogFollowsOutbox
        <5> QED
          BY <1>4, <3>2, <5>1
      <4> QED
        BY <1>0, <4>1, <4>2
    <3> QED
      BY <1>4, <3>1, <3>2, <3>3, ReplicasAssumption DEF Newer
  <2> QED
    BY <2>3, <2>4
<1> QED
  BY <1>5, <1>6

LEMMA OwnOfMerge ==
  ASSUME NEW d \in Store, NEW n \in Store, NEW e \in Event,
         n = ApplyRemoteEvent(d, e),
         NoZombies(n), TombsKept(d, n), OwnKept(d)
  PROVE  OwnKept(n)
<1>1. Merged(d, n, e)
  BY ApplyRemoteEventMerges
<1> SUFFICES ASSUME NEW o \in d.outbox, o.op = "card.put"
             PROVE  /\ Present(n, o.card) \/ Buried(n, o.card)
                    /\ Present(n, o.card) =>
                         \A f \in Field : Touches(o.mask, f) =>
                           ~ Newer(o.stamp, n.ver[o.card][f])
  BY <1>1 DEF OwnKept, Merged
<1> DEFINE c == o.card
<1>2. /\ c \in Cards /\ o.stamp \in StampOrNone /\ e.stamp \in StampOrNone
      /\ d.tomb[c] \in StampOrNone
      /\ \A f \in Field : d.ver[c][f] \in StampOrNone
  BY EventFacts DEF Store
<1>3. Present(n, c) \/ Buried(n, c)
  <2>1. CASE Buried(d, c)
    BY <1>2, <2>1 DEF TombsKept
  <2>2. CASE Present(d, c)
    BY <1>1, <1>2, <2>2, StampOrder DEF Merged, Buried
  <2> QED
    BY <2>1, <2>2 DEF OwnKept
<1>4. ASSUME Present(n, c), NEW f \in Field, Touches(o.mask, f)
      PROVE  ~ Newer(o.stamp, n.ver[c][f])
  <2>1. Present(d, c) /\ ~ Buried(d, c)
    BY <1>2, <1>4 DEF NoZombies, TombsKept, OwnKept
  <2>2. ~ Newer(o.stamp, d.ver[c][f])
    BY <1>4, <2>1 DEF OwnKept
  <2>3. \/ n.ver[c][f] = d.ver[c][f]
        \/ n.ver[c][f] = e.stamp /\ Newer(e.stamp, d.ver[c][f])
    <3>1. CASE e.op = "card.delete"
      BY <3>1, ApplyDeleteWrites
    <3>2. CASE e.op = "card.put"
      <4>1. PutInto(d, n, e)
        BY <3>2, ApplyPutWrites
      <4> QED
        BY <1>2, <2>1, <4>1 DEF PutInto
    <3> QED
      BY <3>1, <3>2, EventFacts
  <2> QED
    BY <1>2, <2>2, <2>3, StampOrder
<1> QED
  BY <1>3, <1>4

LEMMA OwnNext ==
  LifeOK /\ FloorInv /\ StampInv /\ OwnInv /\ [Next]_vars => OwnInv'
<1> SUFFICES ASSUME TypeOK, MergeInv, NewestInv, LifeInv, FloorInv, StampInv,
                    OwnInv, [Next]_vars
             PROVE  OwnInv'
  BY DEF LifeOK
<1>0. TypeOK' /\ LifeInv'
  BY TypeNext, LifeNext
<1>1. ASSUME NEW r \in Replicas
      PROVE  OwnKept(db'[r]) /\ BacklogFollowsOutbox(db'[r])
  <2> DEFINE d == db[r]
             n == db'[r]
  <2>0. /\ d \in Store /\ n \in Store /\ AtOrBelow(d)
        /\ OwnKept(d) /\ BacklogFollowsOutbox(d)
    BY <1>0 DEF TypeOK, OwnInv, FloorInv, LamportFloor
  <2>1. Changes(r, n)
    BY DbForms
  <2>2. CASE Edits(r, n)
    BY <2>0, <2>2, OwnOfEdit
  <2>3. CASE \E c \in Cards : ReserveDelete(r, c) /\ n = NextLocalClock(d)
    <3>1. /\ n.row = d.row /\ n.tomb = d.tomb /\ n.ver = d.ver
          /\ n.pending = d.pending /\ n.outbox = d.outbox
      BY <2>0, <2>3 DEF NextLocalClock, Store
    <3> QED
      BY <2>0, <3>1, OwnSame
  <2>4. ASSUME NEW v \in deleting[r], v \in Delete,
               BuriedNow(d, n, r, v.card, v.seq)
        PROVE  OwnKept(n) /\ BacklogFollowsOutbox(n)
    BY <2>0, <2>4, OwnOfBury DEF Delete
  <2>5. CASE /\ Materializable(d)
             /\ n = MaterializePending(d, r)
             /\ Materialized(d, n, r)
    <3>1. VersionsRecorded(d, n, r) /\ OutboxFromMarkers(d, r)
      BY <2>0, <2>5, MaterializeRecordsVersions DEF AtOrBelow, StampInv
    <3>2. \A c \in Cards : Buried(d, c) => Buried(n, c)
      BY DbKeepsTombs DEF TombsKept
    <3> QED
      BY <2>0, <2>5, <3>1, <3>2, OwnOfMaterialize
  <2>6. CASE merge.at = r /\ n = merge.work
    <3>1. OwnKept(n) /\ n.pending = d.pending /\ n.outbox = d.outbox
      BY <2>6, SomebodyIsAReplica DEF OwnInv, MergeInv
    <3> QED
      BY <2>0, <3>1, SameBacklog DEF BacklogFollowsOutbox
  <2> QED
    BY <2>0, <2>1, <2>2, <2>3, <2>4, <2>5, <2>6 DEF Changes
<1>2. ASSUME merge'.at # Nobody PROVE OwnKept(merge'.work)
  <2>1. MergeStep
    BY <1>2, MergeForms
  <2>2. CASE merge' = merge
    BY <1>2, <2>2 DEF OwnInv
  <2>3. CASE merge'.at \in Replicas /\ Opened(db[merge'.at], merge'.work)
    BY <2>3, OwnSame DEF OwnInv, Opened
  <2>4. ASSUME NEW e \in merge.todo, MergesOne(e)
        PROVE  OwnKept(merge'.work)
    <3>0. /\ merge.at # Nobody /\ e \in Event
          /\ merge.work \in Store /\ merge'.work \in Store
          /\ OwnKept(merge.work)
      BY <1>0, <1>2, <2>4 DEF MergesOne, TypeOK, OwnInv
    <3>1. CASE merge'.work = merge.work
      BY <3>0, <3>1
    <3>2. CASE merge'.work = ApplyRemoteEvent(merge.work, e)
      <4>1. NoZombies(merge'.work)
        BY <1>0, <1>2 DEF LifeInv
      <4>2. TombsKept(merge.work, merge'.work)
        BY <3>0, <3>2, ApplyRemoteEventMerges, MergedKeepsTombs
      <4> QED
        BY <3>0, <3>2, <4>1, <4>2, OwnOfMerge
    <3> QED
      BY <2>4, <3>1, <3>2 DEF MergesOne
  <2> QED
    BY <2>1, <2>2, <2>3, <2>4 DEF MergeStep
<1> QED
  BY <1>1, <1>2 DEF OwnInv

\* An own event that comes back changes no row.
LEMMA EchoOfOwnEvent ==
  ASSUME NEW d \in Store, NEW r \in Replicas, NEW e \in d.outbox,
         e.stamp.replica = r, ApplyRemoteEvent(d, e) \in Store,
         OwnKept(d), MadeOfMarkers(d), TombsAreNewest(d, r)
  PROVE  ApplyRemoteEvent(d, e).row = d.row
<1> DEFINE n == ApplyRemoteEvent(d, e)
           c == e.card
<1>0. e \in Event /\ c \in Cards /\ e.stamp \in Stamp
  BY EventFacts DEF Store
<1>1. CASE e.op = "card.delete"
  <2>1. PICK m \in d.pending : MadeFrom(e, m)
    BY DEF MadeOfMarkers
  <2>2. e.stamp = [clock |-> m.seq, replica |-> r]
    BY <1>0, <2>1 DEF MadeFrom, Stamp
  <2>3. e.stamp \in KnownDeletes(d, r, c)
    BY <1>1, <2>1, <2>2 DEF MadeFrom, KnownDeletes
  <2>4. ~ Newer(e.stamp, d.tomb[c])
    BY <1>0, <2>3 DEF TombsAreNewest, IsNewest
  <2> QED
    BY <1>0, <1>1, <2>4, ApplyDeleteWrites
<1>2. CASE e.op = "card.put"
  <2>1. PutInto(d, n, e)
    BY <1>0, <1>2, ApplyPutWrites
  <2>2. n.row[c] = d.row[c]
    <3>1. CASE Buried(d, c)
      BY <2>1, <3>1 DEF PutInto
    <3>2. CASE ~ Buried(d, c)
      <4>1. Present(d, c) /\ \A f \in Field : Touches(e.mask, f) =>
              ~ Newer(e.stamp, d.ver[c][f])
        BY <1>2, <3>2 DEF OwnKept
      <4>2. Present(n, c) /\ \A f \in Field : n.row[c][f] = d.row[c][f]
        BY <2>1, <3>2, <4>1 DEF PutInto
      <4>3. n.row[c] \in Row /\ d.row[c] \in Row
        BY <1>0, <4>1, <4>2 DEF Store, Present
      <4> QED
        BY <4>2, <4>3 DEF Row, Field
    <3> QED
      BY <3>1, <3>2
  <2>3. \A x \in Cards : n.row[x] = d.row[x]
    BY <2>1, <2>2 DEF PutInto
  <2> HIDE DEF n
  <2>4. n.row \in [Cards -> Row \cup {NoRow}] /\ d.row \in [Cards -> Row \cup {NoRow}]
    BY DEF Store, n
  <2> QED
    BY <2>3, <2>4 DEF n
<1> QED
  BY <1>0, <1>1, <1>2, EventFacts

LEMMA EchoNext ==
  LifeOK /\ StampInv /\ MadeInv /\ OwnInv /\ EchoInv /\ [Next]_vars => EchoInv'
<1> SUFFICES ASSUME TypeOK, MergeInv, NewestInv, StampInv, MadeInv, OwnInv,
                    EchoInv, [Next]_vars, merge'.at # Nobody,
                    AllBy(merge'.at, merge'.work.seen \ db'[merge'.at].seen)
             PROVE  merge'.work.row = db'[merge'.at].row
  BY DEF EchoInv, LifeOK, AllBy
<1>0. TypeOK' /\ MergeStep /\ db' = db
  BY TypeNext, MergeForms
<1>1. CASE merge' = merge
  BY <1>0, <1>1 DEF EchoInv
<1>2. CASE Opened(db[merge'.at], merge'.work)
  BY <1>0, <1>2 DEF Opened
<1>3. ASSUME NEW e \in merge.todo, MergesOne(e)
      PROVE  merge'.work.row = db'[merge'.at].row
  <2> DEFINE r == merge.at
             d == merge.work
  <2>0. /\ r # Nobody /\ r \in Replicas /\ merge'.at = r
        /\ d \in Store /\ merge'.work \in Store
        /\ merge'.work.seen = d.seen \cup {e}
        /\ db[r].seen \subseteq d.seen
        /\ d.pending = db[r].pending /\ d.outbox = db[r].outbox
    BY <1>0, <1>3, SomebodyIsAReplica, MergeKeepsBooks
       DEF MergesOne, TypeOK, MergeInv
  <2>1. AllBy(r, d.seen \ db[r].seen)
    BY <1>0, <2>0 DEF AllBy
  <2>2. d.row = db[r].row
    BY <2>0, <2>1 DEF EchoInv
  <2>3. CASE merge'.work = d
    BY <1>0, <2>0, <2>2, <2>3
  <2>4. CASE e \notin d.seen /\ merge'.work = ApplyRemoteEvent(d, e)
    <3>1. e.stamp.replica = r
      BY <1>0, <2>0, <2>4 DEF AllBy
    <3>2. PICK q \in Replicas : e \in db[q].outbox
      BY <2>0 DEF StampInv, Published
    <3>3. e \in d.outbox
      BY <2>0, <3>1, <3>2 DEF StampInv, OutboxFromMarkers
    <3>4. OwnKept(d) /\ MadeOfMarkers(d) /\ TombsAreNewest(d, r)
      BY <2>0 DEF OwnInv, MadeInv, MadeOfMarkers, NewestInv
    <3>5. ApplyRemoteEvent(d, e).row = d.row
      BY <2>0, <2>4, <3>1, <3>3, <3>4, EchoOfOwnEvent
    <3> QED
      BY <1>0, <2>0, <2>2, <2>4, <3>5
  <2> QED
    BY <1>3, <2>3, <2>4 DEF MergesOne
<1> QED
  BY <1>0, <1>1, <1>2, <1>3 DEF MergeStep

\* A batch that holds nothing but the replica's own events, as any relay that
\* broadcasts hands back, changes no card of it, whatever the planner does in
\* the meantime and however much of it has not been materialized yet.
THEOREM EchoIsHarmless == Spec => EchoChangesNothing
<1> DEFINE Inv == AllInv /\ MadeInv /\ OwnInv /\ EchoInv
           A == \A r \in Replicas :
                  (/\ merge.at = r
                   /\ \A e \in db'[r].seen \ db[r].seen : e.stamp.replica = r)
                     => db'[r].row = db[r].row
<1>1. Init => Inv
  BY TypeInit, MergeInvInit, NewestInit, LifeInit, FloorInit, StampInit,
     GroundInit, MadeInit, OwnInit DEF AllInv, LifeOK
<1>2. Inv /\ [Next]_vars => Inv'
  <2> SUFFICES ASSUME Inv, [Next]_vars PROVE Inv'
    OBVIOUS
  <2>1. LifeOK' /\ FloorInv' /\ StampInv' /\ GroundInv'
    BY TypeNext, MergeInvNext, NewestNext, LifeNext, FloorNext, StampNext,
       GroundNext DEF AllInv, LifeOK
  <2>2. MadeInv'
    BY MadeNext DEF AllInv, LifeOK
  <2>3. OwnInv' /\ EchoInv'
    BY OwnNext, EchoNext DEF AllInv
  <2> QED
    BY <2>1, <2>2, <2>3 DEF AllInv
<1>3. Inv /\ [Next]_vars => A
  <2> SUFFICES ASSUME Inv, [Next]_vars, merge.at \in Replicas,
                      AllBy(merge.at, db'[merge.at].seen \ db[merge.at].seen)
               PROVE  db'[merge.at].row = db[merge.at].row
    BY DEF AllBy
  <2>1. TypeOK /\ merge.at # Nobody
    BY SomebodyIsAReplica DEF AllInv, LifeOK
  <2>2. CASE db' = db
    BY <2>2
  <2>3. CASE db' = [db EXCEPT ![merge.at] = merge.work]
    <3>1. db'[merge.at] = merge.work
      BY <2>1, <2>3 DEF TypeOK
    <3> QED
      BY <2>1, <3>1 DEF EchoInv
  <2> QED
    BY <2>1, <2>2, <2>3, MergingForms
<1>4. Inv /\ [Next]_vars => [A]_vars
  BY <1>3
<1> HIDE DEF A, Inv
<1>5. Spec => [][A]_vars
  BY <1>1, <1>2, <1>4, PTL DEF Spec
<1> QED
  BY <1>5 DEF A, EchoChangesNothing
=============================================================================
