--------------------------- MODULE RoamingSyncProofs ---------------------------
(***************************************************************************)
(* Theorems of RoamingSync, for any set of replicas, cards, columns and    *)
(* ranks, any clock limit and batch size, and both values of the two       *)
(* assumptions on the environment.                                         *)
(***************************************************************************)
EXTENDS RoamingSync, RoamingStoreLemmas

USE ReplicasAssumption, SyncAssumption

\* Committing a store to one replica keeps the type.
LEMMA CommitType ==
  ASSUME TypeOK, NEW r \in Replicas, NEW d \in Store, Commit(r, d)
  PROVE  TypeOK'
  BY DEF TypeOK, Commit

LEMMA TypeInit == Init => TypeOK
<1> SUFFICES ASSUME Init PROVE TypeOK
  OBVIOUS
<1>1. db \in [Replicas -> Store]
  <2>1. PICK past \in [Replicas -> PastClocks] :
          db = [r \in Replicas |-> EmptyStore(BoardColumns, past[r])]
    BY DEF Init
  <2>2. \A r \in Replicas : EmptyStore(BoardColumns, past[r]) \in Store
    BY EmptyStoreType
  <2> QED
    BY <2>1, <2>2
<1>2. EmptyStore({}, 0) \in Store
  BY EmptyStoreType
<1> QED
  BY <1>1, <1>2 DEF Init, TypeOK, NoMerge

LEMMA TypePlanner ==
  ASSUME TypeOK, NEW r \in Replicas, Planner(r)
  PROVE  TypeOK'
<1>0. db[r] \in Store
  BY DEF TypeOK
<1>1. ASSUME NEW k \in Columns, CreateColumn(r, k)
      PROVE  TypeOK'
  BY <1>0, <1>1, InsertColumnType, CommitType DEF CreateColumn
<1>2. ASSUME NEW c \in Cards, NEW slot \in Slot, CreateCard(r, c, slot)
      PROVE  TypeOK'
  BY <1>0, <1>2, InsertCardType, CommitType DEF CreateCard
<1>3. ASSUME NEW c \in Cards, NEW slot \in Slot, MoveCard(r, c, slot)
      PROVE  TypeOK'
  BY <1>0, <1>3, PlaceCardType, CommitType DEF MoveCard
<1>4. ASSUME NEW c \in Cards, NEW archived \in BOOLEAN,
             SetCardArchived(r, c, archived)
      PROVE  TypeOK'
  BY <1>0, <1>4, ArchiveCardType, CommitType DEF SetCardArchived
<1>5. ASSUME NEW c1 \in Cards, NEW c2 \in Cards,
             NEW rank1 \in Ranks, NEW rank2 \in Ranks,
             SwapCardOrder(r, c1, rank1, c2, rank2)
      PROVE  TypeOK'
  BY <1>0, <1>5, ReorderCardsType, CommitType DEF SwapCardOrder
<1>6. ASSUME NEW c \in Cards, ReserveDelete(r, c)
      PROVE  TypeOK'
  <2> DEFINE n == NextLocalClock(db[r])
  <2>1. n \in Store
    BY <1>0, NextLocalClockType
  <2>2. {[card |-> c, seq |-> n.clock]} \in SUBSET Delete
    BY <2>1 DEF Delete, Store
  <2> QED
    BY <1>6, <2>1, <2>2 DEF ReserveDelete, TypeOK
<1>8. ASSUME NEW c \in Cards, FindDoomed(r, c)
      PROVE  TypeOK'
  <2>1. {[card |-> c, seq |-> NotReserved]} \in SUBSET Delete
    BY DEF Delete, NotReserved
  <2> QED
    BY <1>8, <2>1 DEF FindDoomed, TypeOK
<1>7. ASSUME DeleteCard(r)
      PROVE  TypeOK'
  <2>1. PICK v \in deleting[r] :
          db' = [db EXCEPT ![r] = BuryCard(@, r, v.card, v.seq)]
    BY <1>7 DEF DeleteCard
  <2>2. v \in Delete
    BY <2>1 DEF TypeOK
  <2>3. BuryCard(db[r], r, v.card, v.seq) \in Store
    BY <1>0, <2>2, BuryCardType DEF Delete
  <2> QED
    BY <1>7, <2>1, <2>3 DEF DeleteCard, TypeOK
<1> QED
  BY <1>1, <1>2, <1>3, <1>4, <1>5, <1>6, <1>7, <1>8 DEF Planner

LEMMA TypeSync ==
  ASSUME TypeOK, NEW r \in Replicas, Sync(r)
  PROVE  TypeOK'
<1>0. db[r] \in Store
  BY DEF TypeOK
<1>1. ASSUME Materialize(r)
      PROVE  TypeOK'
  BY <1>0, <1>1, MaterializePendingType, CommitType DEF Materialize
<1>2. ASSUME NEW batch \in SmallBatch, StageBatch(r, batch)
      PROVE  TypeOK'
  <2>1. MaterializePending(db[r], r) \in Store
    BY <1>0, <1>2, MaterializePendingType DEF StageBatch
  <2>2. batch \in SUBSET Event
    BY DEF SmallBatch, Published, TypeOK, Store
  <2> QED
    BY <1>2, <2>1, <2>2 DEF StageBatch, TypeOK
<1>3. ASSUME OpenMerge(r)
      PROVE  TypeOK'
  <2>1. PICK observed \in {e.stamp.clock : e \in staged[r]} :
          merge' = [at   |-> r,
                    todo |-> staged[r],
                    work |-> ObserveRemoteClock(db[r], observed)]
    BY <1>3 DEF OpenMerge
  <2>2. observed \in Nat
    BY <2>1 DEF TypeOK, Event, PutEvent, DeleteEvent, Stamp
  <2>3. ObserveRemoteClock(db[r], observed) \in Store
    BY <1>0, <2>2, ObserveRemoteClockType
  <2> QED
    BY <1>3, <2>1, <2>3 DEF OpenMerge, TypeOK
<1>4. ASSUME NEW e \in merge.todo, MergeEvent(r, e)
      PROVE  TypeOK'
  <2>1. e \in Event /\ merge.work \in Store
    BY DEF TypeOK
  <2>2. ApplyRemoteEvent(merge.work, e) \in Store
    BY <2>1, ApplyRemoteEventType
  <2> QED
    BY <1>4, <2>1, <2>2 DEF MergeEvent, TypeOK
<1>5. NoMerge \in [at : Replicas \cup {Nobody}, todo : SUBSET Event, work : Store]
  BY EmptyStoreType DEF NoMerge
<1>6. ASSUME AbortMerge(r)
      PROVE  TypeOK'
  BY <1>5, <1>6 DEF AbortMerge, TypeOK
<1>7. ASSUME CommitMerge(r)
      PROVE  TypeOK'
  BY <1>5, <1>7 DEF CommitMerge, TypeOK
<1> QED
  BY <1>1, <1>2, <1>3, <1>4, <1>6, <1>7 DEF Sync

LEMMA TypeCrash ==
  ASSUME TypeOK, NEW r \in Replicas, Crash(r)
  PROVE  TypeOK'
<1>1. NoMerge \in [at : Replicas \cup {Nobody}, todo : SUBSET Event, work : Store]
  BY EmptyStoreType DEF NoMerge
<1> QED
  BY <1>1 DEF Crash, TypeOK

LEMMA TypeNext == TypeOK /\ [Next]_vars => TypeOK'
<1> SUFFICES ASSUME TypeOK, [Next]_vars PROVE TypeOK'
  OBVIOUS
<1>1. CASE UNCHANGED vars
  BY <1>1 DEF vars, TypeOK
<1>2. CASE Next
  BY <1>2, TypePlanner, TypeSync, TypeCrash DEF Next
<1> QED
  BY <1>1, <1>2

\* The database of every replica, a reserved delete, a staged batch and an open
\* merge always have the shape the schema and the code give them; above all,
\* a card.put that has been published always carries a row.
THEOREM TypeCorrect == Spec => []TypeOK
  BY TypeInit, TypeNext, PTL DEF Spec

-----------------------------------------------------------------------------
(* The shape of a step.  Five of the planner's actions are edits: they     *)
(* differ only in what they do to the rows.                                *)

CreatesNothing(d, n) ==
  /\ SameCards(d, n)
  /\ \A m \in n.pending \ d.pending :
       m.kind # "card.create" /\ (m.kind \in EditKind => Present(d, m.entity))

Creates(d, n, c) ==
  /\ ~ Buried(d, c)
  /\ FreshId(c, "card.create")
  /\ \A x \in Cards : Present(n, x) <=> (Present(d, x) \/ x = c)
  /\ \E m : /\ n.pending \ d.pending = {m}
            /\ m.kind = "card.create" /\ m.entity = c

Edits(r, n) ==
  /\ Idle
  /\ deleting[r] = {}
  /\ Commit(r, n)
  /\ Edited(db[r], n, EditKind \cup {"column.create"})
  /\ WritesAreMarked(db[r], n)
  /\ \/ CreatesNothing(db[r], n)
     \/ \E c \in Cards : Creates(db[r], n, c)

LEMMA PlannerForms ==
  ASSUME TypeOK, NEW r \in Replicas, Planner(r)
  PROVE  \/ \E n \in Store : Edits(r, n)
         \/ \E c \in Cards : FindDoomed(r, c) \/ ReserveDelete(r, c)
         \/ DeleteCard(r)
<1>0. db[r] \in Store
  BY DEF TypeOK
<1>1. ASSUME NEW k \in Columns, CreateColumn(r, k)
      PROVE  \E n \in Store : Edits(r, n)
  <2> DEFINE n == InsertColumn(db[r], k)
  <2>1. n \in Store
    BY <1>0, InsertColumnType
  <2>2. Edited(db[r], n, {"column.create"}) /\ n.row = db[r].row
    BY <1>0, InsertColumnEdits
  <2>3. Idle /\ deleting[r] = {} /\ Commit(r, n)
    BY <1>1 DEF CreateColumn, PlannerReady, PlannerTurn
  <2>6. WritesAreMarked(db[r], n)
    BY <1>0, InsertColumnMarks
  <2> HIDE DEF n
  <2>4. Edited(db[r], n, EditKind \cup {"column.create"})
    BY <2>2 DEF Edited
  <2>5. CreatesNothing(db[r], n)
    BY <2>2 DEF CreatesNothing, SameCards, Present, Edited, EditKind
  <2> QED
    BY <2>1, <2>3, <2>4, <2>5, <2>6 DEF Edits
<1>2. ASSUME NEW c \in Cards, NEW slot \in Slot, CreateCard(r, c, slot)
      PROVE  \E n \in Store : Edits(r, n)
  <2> DEFINE row == [place |-> slot, archived |-> FALSE]
             n == InsertCard(db[r], c, slot)
  <2>1. n \in Store
    BY <1>0, InsertCardType
  <2>2. /\ Edited(db[r], n, {"card.create"})
        /\ n.row = [db[r].row EXCEPT ![c] = row]
        /\ \A m \in n.pending \ db[r].pending : m.entity = c
    BY <1>0, InsertCardEdits
  <2>3. Idle /\ deleting[r] = {} /\ Commit(r, n)
    BY <1>2 DEF CreateCard, PlannerReady, PlannerTurn
  <2>4. row # NoRow
    <3>1. row \in Row
      BY DEF Row
    <3> QED
      BY <3>1, NoRowAssumption
  <2>5. ~ Buried(db[r], c) /\ FreshId(c, "card.create")
    BY <1>2 DEF CreateCard
  <2>6. /\ WritesAreMarked(db[r], n)
        /\ n.pending = db[r].pending \cup
             {[seq |-> db[r].clock + 1, kind |-> "card.create", entity |-> c]}
    BY <1>0, InsertCardMarks
  <2>10. \E m : /\ n.pending \ db[r].pending = {m}
                /\ m.kind = "card.create" /\ m.entity = c
    <3> DEFINE m == [seq |-> db[r].clock + 1, kind |-> "card.create", entity |-> c]
    <3>1. m.kind = "card.create" /\ m.entity = c
      OBVIOUS
    <3>2. m \notin db[r].pending
      BY <2>5, <3>1 DEF FreshId
    <3> HIDE DEF m, n
    <3>3. n.pending \ db[r].pending = {m}
      BY <2>6, <3>2 DEF m
    <3> QED
      BY <3>1, <3>3
  <2> HIDE DEF n, row
  <2>7. \A x \in Cards : Present(n, x) <=> (Present(db[r], x) \/ x = c)
    BY <1>0, <2>2, <2>4 DEF Present, Store
  <2>8. Creates(db[r], n, c)
    BY <2>2, <2>5, <2>7, <2>10 DEF Creates, Edited
  <2>9. Edited(db[r], n, EditKind \cup {"column.create"})
    BY <2>2 DEF Edited, EditKind
  <2> QED
    BY <2>1, <2>3, <2>6, <2>8, <2>9 DEF Edits
<1>3. ASSUME NEW c \in Cards, NEW slot \in Slot, MoveCard(r, c, slot)
      PROVE  \E n \in Store : Edits(r, n)
  <2> DEFINE n == PlaceCard(db[r], c, slot)
  <2>0. Present(db[r], c) /\ Idle /\ deleting[r] = {} /\ Commit(r, n)
    BY <1>3 DEF MoveCard, PlannerReady, PlannerTurn
  <2>1. n \in Store
    BY <1>0, <2>0, PlaceCardType
  <2>2. /\ Edited(db[r], n, {"card.move"})
        /\ SameCards(db[r], n)
        /\ \A m \in n.pending \ db[r].pending : m.entity = c
    BY <1>0, <2>0, PlaceCardEdits
  <2>5. WritesAreMarked(db[r], n)
    BY <1>0, <2>0, PlaceCardMarks
  <2> HIDE DEF n
  <2>3. Edited(db[r], n, EditKind \cup {"column.create"})
    BY <2>2 DEF Edited, EditKind
  <2>4. CreatesNothing(db[r], n)
    BY <2>0, <2>2 DEF CreatesNothing, Edited
  <2> QED
    BY <2>0, <2>1, <2>3, <2>4, <2>5 DEF Edits
<1>4. ASSUME NEW c \in Cards, NEW archived \in BOOLEAN,
             SetCardArchived(r, c, archived)
      PROVE  \E n \in Store : Edits(r, n)
  <2> DEFINE n == ArchiveCard(db[r], c, archived)
  <2>0. Present(db[r], c) /\ Idle /\ deleting[r] = {} /\ Commit(r, n)
    BY <1>4 DEF SetCardArchived, PlannerReady, PlannerTurn
  <2>1. n \in Store
    BY <1>0, <2>0, ArchiveCardType
  <2>2. /\ Edited(db[r], n, {"card.archive", "card.unarchive"})
        /\ SameCards(db[r], n)
        /\ \A m \in n.pending \ db[r].pending : m.entity = c
    BY <1>0, <2>0, ArchiveCardEdits
  <2>5. WritesAreMarked(db[r], n)
    BY <1>0, <2>0, ArchiveCardMarks
  <2> HIDE DEF n
  <2>3. Edited(db[r], n, EditKind \cup {"column.create"})
    BY <2>2 DEF Edited, EditKind
  <2>4. CreatesNothing(db[r], n)
    BY <2>0, <2>2 DEF CreatesNothing, Edited
  <2> QED
    BY <2>0, <2>1, <2>3, <2>4, <2>5 DEF Edits
<1>5. ASSUME NEW c1 \in Cards, NEW c2 \in Cards,
             NEW rank1 \in Ranks, NEW rank2 \in Ranks,
             SwapCardOrder(r, c1, rank1, c2, rank2)
      PROVE  \E n \in Store : Edits(r, n)
  <2> DEFINE n == ReorderCards(db[r], c1, rank1, c2, rank2)
  <2>0. /\ c1 # c2 /\ Present(db[r], c1) /\ Present(db[r], c2)
        /\ Idle /\ deleting[r] = {} /\ Commit(r, n)
    BY <1>5 DEF SwapCardOrder, PlannerReady, PlannerTurn
  <2>1. n \in Store
    BY <1>0, <2>0, ReorderCardsType
  <2>2. /\ Edited(db[r], n, {"card.move"})
        /\ SameCards(db[r], n)
        /\ \A m \in n.pending \ db[r].pending : m.entity \in {c1, c2}
    BY <1>0, <2>0, ReorderCardsEdits
  <2>5. WritesAreMarked(db[r], n)
    BY <1>0, <2>0, ReorderCardsMarks
  <2> HIDE DEF n
  <2>3. Edited(db[r], n, EditKind \cup {"column.create"})
    BY <2>2 DEF Edited, EditKind
  <2>4. CreatesNothing(db[r], n)
    BY <2>0, <2>2 DEF CreatesNothing, Edited
  <2> QED
    BY <2>0, <2>1, <2>3, <2>4, <2>5 DEF Edits
<1> QED
  BY <1>1, <1>2, <1>3, <1>4, <1>5 DEF Planner

-----------------------------------------------------------------------------
(* The open merge.  What it works on started as its replica's database,    *)
(* which nobody else can change until it ends.                             *)

TombsKept(d, n) ==
  \A c \in Cards :
    Buried(d, c) => Buried(n, c) /\ ~ Newer(d.tomb[c], n.tomb[c])

MergeInv ==
  /\ merge.at = Nobody => merge = NoMerge
  /\ merge.at # Nobody =>
       LET d == db[merge.at]
           w == merge.work
       IN  /\ d.clock <= w.clock
           /\ w.pending = d.pending
           /\ w.outbox = d.outbox
           /\ d.seen \subseteq w.seen
           /\ TombsKept(d, w)

\* A replica is not the owner of a merge that is not open.
LEMMA IdleOwner == Idle => merge.at = Nobody
  BY DEF Idle, NoMerge

LEMMA SomebodyIsAReplica ==
  ASSUME TypeOK
  PROVE  /\ merge.at # Nobody => merge.at \in Replicas
         /\ \A r \in Replicas : r # Nobody
  BY DEF TypeOK, Nobody

LEMMA MergeInvInit == Init => MergeInv
  BY DEF Init, MergeInv, NoMerge

\* A step taken while no merge is open, and that opens none.
LEMMA MergeInvIdle ==
  ASSUME MergeInv, Idle, merge' = merge
  PROVE  MergeInv'
  BY IdleOwner DEF MergeInv

LEMMA MergedKeepsTombs ==
  ASSUME NEW d \in Store, NEW n \in Store, NEW e \in Event, Merged(d, n, e)
  PROVE  TombsKept(d, n)
<1>1. \A c \in Cards : d.tomb[c] \in StampOrNone /\ n.tomb[c] \in StampOrNone
  BY DEF Store
<1> QED
  BY <1>1, StampOrder DEF Merged, TombsKept, Buried

LEMMA TombsKeptTrans ==
  ASSUME NEW d \in Store, NEW e \in Store, NEW n \in Store,
         TombsKept(d, e), TombsKept(e, n)
  PROVE  TombsKept(d, n)
<1>1. \A c \in Cards : /\ d.tomb[c] \in StampOrNone
                       /\ e.tomb[c] \in StampOrNone
                       /\ n.tomb[c] \in StampOrNone
  BY DEF Store
<1> SUFFICES ASSUME NEW c \in Cards, Buried(d, c)
             PROVE  Buried(n, c) /\ ~ Newer(d.tomb[c], n.tomb[c])
  BY DEF TombsKept
<1>2. /\ Buried(e, c) /\ ~ Newer(d.tomb[c], e.tomb[c])
      /\ Buried(n, c) /\ ~ Newer(e.tomb[c], n.tomb[c])
  BY DEF TombsKept
<1>3. \A a \in StampOrNone : a.clock \in Nat /\ a.replica \in Nat
  BY StampOrder
<1> QED
  BY <1>1, <1>2, <1>3 DEF Newer

LEMMA MergeInvNext == TypeOK /\ MergeInv /\ [Next]_vars => MergeInv'
<1> SUFFICES ASSUME TypeOK, MergeInv, [Next]_vars PROVE MergeInv'
  OBVIOUS
<1>0. TypeOK'
  BY TypeNext
<1>1. CASE UNCHANGED vars
  BY <1>1 DEF vars, MergeInv
<1>2. ASSUME NEW r \in Replicas, Planner(r) \/ Materialize(r) \/
             \E batch \in SmallBatch : StageBatch(r, batch)
      PROVE  MergeInv'
  <2>1. Idle /\ merge' = merge
    BY <1>2, PlannerForms
       DEF Edits, FindDoomed, ReserveDelete, PlannerReady, PlannerTurn,
           DeleteCard, Materialize, StageBatch, SyncReady, Commit
  <2> QED
    BY <2>1, MergeInvIdle
<1>3. ASSUME NEW r \in Replicas, OpenMerge(r)
      PROVE  MergeInv'
  <2>1. PICK observed \in {e.stamp.clock : e \in staged[r]} :
          merge' = [at   |-> r,
                    todo |-> staged[r],
                    work |-> ObserveRemoteClock(db[r], observed)]
    BY <1>3 DEF OpenMerge
  <2>2. observed \in Nat
    BY <2>1 DEF TypeOK, Event, PutEvent, DeleteEvent, Stamp
  <2>3. db[r] \in Store /\ db' = db
    BY <1>3 DEF TypeOK, OpenMerge
  <2> DEFINE w == ObserveRemoteClock(db[r], observed)
  <2>4. /\ db[r].clock <= w.clock
        /\ w.pending = db[r].pending
        /\ w.outbox = db[r].outbox
        /\ w.seen = db[r].seen
        /\ w.tomb = db[r].tomb
    BY <2>2, <2>3 DEF ObserveRemoteClock, Store
  <2> HIDE DEF w
  <2>5. TombsKept(db[r], w)
    <3>1. \A c \in Cards : db[r].tomb[c] \in StampOrNone
      BY <2>3 DEF Store
    <3> QED
      BY <2>4, <3>1, StampOrder DEF TombsKept, Buried
  <2>6. merge'.at = r /\ merge'.work = w
    BY <2>1 DEF w
  <2> QED
    BY <2>3, <2>4, <2>5, <2>6, SomebodyIsAReplica DEF MergeInv
<1>4. ASSUME NEW r \in Replicas, NEW e \in merge.todo, MergeEvent(r, e)
      PROVE  MergeInv'
  <2>1. /\ e \in Event
        /\ merge.work \in Store
        /\ merge'.work \in Store
        /\ db[r] \in Store
    BY <1>0 DEF TypeOK
  <2>2. /\ merge.at = r
        /\ merge'.at = r
        /\ db' = db
        /\ \/ merge'.work = merge.work
           \/ merge'.work = ApplyRemoteEvent(merge.work, e)
    BY <1>4 DEF MergeEvent, Merging, TypeOK
  <2>3. CASE merge'.work = merge.work
    BY <2>2, <2>3, SomebodyIsAReplica DEF MergeInv
  <2>4. CASE merge'.work = ApplyRemoteEvent(merge.work, e)
    <3>1. Merged(merge.work, merge'.work, e)
      BY <2>1, <2>4, ApplyRemoteEventMerges
    <3>2. TombsKept(merge.work, merge'.work)
      BY <2>1, <3>1, MergedKeepsTombs
    <3>3. TombsKept(db[r], merge.work)
      BY <2>2, SomebodyIsAReplica DEF MergeInv
    <3>4. TombsKept(db[r], merge'.work)
      BY <2>1, <3>2, <3>3, TombsKeptTrans
    <3> QED
      BY <2>2, <3>1, <3>4, SomebodyIsAReplica DEF MergeInv, Merged
  <2> QED
    BY <2>2, <2>3, <2>4
<1>5. ASSUME NEW r \in Replicas, AbortMerge(r) \/ CommitMerge(r) \/ Crash(r)
      PROVE  MergeInv'
  <2>1. merge' = NoMerge
    BY <1>5 DEF AbortMerge, CommitMerge, Crash
  <2> QED
    BY <2>1 DEF MergeInv, NoMerge
<1> QED
  BY <1>1, <1>2, <1>3, <1>4, <1>5 DEF Next, Sync

-----------------------------------------------------------------------------
(* LamportFloor.  Of itself it is not inductive: a reserved delete becomes *)
(* a tombstone and a marker, and an open merge becomes the database.       *)

FloorInv ==
  /\ LamportFloor
  /\ \A r \in Replicas : \A v \in deleting[r] : v.seq <= db[r].clock
  /\ merge.at # Nobody =>
       /\ AtOrBelow(merge.work)
       /\ \A e \in merge.todo : e.stamp.clock <= merge.work.clock

\* The clocks a store mentions are numbers.
LEMMA ClocksAreNumbers ==
  ASSUME NEW d \in Store
  PROVE  /\ d.clock \in Nat
         /\ \A c \in Cards : d.tomb[c].clock \in Nat
         /\ \A c \in Cards, f \in Field : d.ver[c][f].clock \in Nat
         /\ \A m \in d.pending : m.seq \in Nat
         /\ \A e \in d.outbox \cup d.seen : e.stamp.clock \in Nat
<1>1. /\ d.clock \in Nat
      /\ \A c \in Cards : d.tomb[c] \in StampOrNone
      /\ \A c \in Cards, f \in Field : d.ver[c][f] \in StampOrNone
  BY DEF Store
<1>2. \A m \in d.pending : m.seq \in Nat
  BY DEF Store, Marker
<1>3. \A e \in d.outbox \cup d.seen : e.stamp.clock \in Nat
  BY DEF Store, Event, PutEvent, DeleteEvent, Stamp
<1> QED
  BY <1>1, <1>2, <1>3, StampOrder

LEMMA FloorOfEdit ==
  ASSUME NEW d \in Store, NEW n \in Store, NEW kinds,
         Edited(d, n, kinds), AtOrBelow(d)
  PROVE  AtOrBelow(n)
  BY ClocksAreNumbers DEF Edited, AtOrBelow

LEMMA FloorOfBury ==
  ASSUME NEW d \in Store, NEW n \in Store, NEW r \in Replicas, NEW c \in Cards,
         NEW seq \in Nat, BuriedNow(d, n, r, c, seq), AtOrBelow(d),
         seq <= d.clock
  PROVE  AtOrBelow(n)
<1>1. \A x \in Cards : n.tomb[x].clock <= n.clock
  BY DEF BuriedNow, AtOrBelow
<1> QED
  BY <1>1 DEF BuriedNow, AtOrBelow

LEMMA FloorOfMaterialize ==
  ASSUME NEW d \in Store, NEW n \in Store, NEW r \in Replicas,
         Materialized(d, n, r), AtOrBelow(d)
  PROVE  AtOrBelow(n)
<1>0. \A m \in d.pending : [clock |-> m.seq, replica |-> r].clock <= n.clock
  BY DEF Materialized, AtOrBelow
<1>1. \A c \in Cards : n.tomb[c].clock <= n.clock
  BY <1>0 DEF Materialized, AtOrBelow
<1>2. ASSUME NEW c \in Cards, NEW f \in Field
      PROVE  n.ver[c][f].clock <= n.clock
  <2>1. CASE n.ver[c][f] = d.ver[c][f]
    BY <2>1 DEF Materialized, AtOrBelow
  <2>2. CASE n.ver[c][f] # d.ver[c][f]
    <3>1. PICK m \in d.pending : n.ver[c][f] = [clock |-> m.seq, replica |-> r]
      BY <2>2 DEF Materialized
    <3> QED
      BY <1>0, <3>1
  <2> QED
    BY <2>1, <2>2
<1>3. \A m \in n.pending : m.seq <= n.clock
  BY DEF Materialized, AtOrBelow
<1>4. ASSUME NEW e \in n.outbox \cup n.seen
      PROVE  e.stamp.clock <= n.clock
  <2>1. CASE e \in d.outbox \cup d.seen
    BY <2>1 DEF Materialized, AtOrBelow
  <2>2. CASE e \notin d.outbox \cup d.seen
    <3>1. PICK m \in Unmaterialized(d) : e = MarkerEvent(d, r, m)
      BY <2>2 DEF Materialized
    <3>2. e.stamp.clock = m.seq
      BY <3>1 DEF MarkerEvent
    <3> QED
      BY <3>2, UnmaterializedType DEF Materialized, AtOrBelow
  <2> QED
    BY <2>1, <2>2
<1> QED
  BY <1>1, <1>2, <1>3, <1>4 DEF AtOrBelow

LEMMA FloorOfObserve ==
  ASSUME NEW d \in Store, NEW observed \in Nat, AtOrBelow(d)
  PROVE  AtOrBelow(ObserveRemoteClock(d, observed))
<1> DEFINE w == ObserveRemoteClock(d, observed)
<1>0. w \in Store
  BY ObserveRemoteClockType
<1>1. /\ d.clock <= w.clock
      /\ w.tomb = d.tomb
      /\ w.ver = d.ver
      /\ w.pending = d.pending
      /\ w.outbox = d.outbox
      /\ w.seen = d.seen
  BY DEF ObserveRemoteClock, Store
<1> HIDE DEF w
<1>2. AtOrBelow(w)
  BY <1>0, <1>1, ClocksAreNumbers DEF AtOrBelow
<1> QED
  BY <1>2 DEF w

LEMMA FloorOfMerge ==
  ASSUME NEW d \in Store, NEW n \in Store, NEW e \in Event,
         Merged(d, n, e), AtOrBelow(d), e.stamp.clock <= d.clock
  PROVE  AtOrBelow(n)
<1>1. \A c \in Cards : n.tomb[c].clock <= n.clock
  BY DEF Merged, AtOrBelow
<1>2. \A c \in Cards, f \in Field : n.ver[c][f].clock <= n.clock
  BY DEF Merged, AtOrBelow
<1> QED
  BY <1>1, <1>2 DEF Merged, AtOrBelow

LEMMA FloorInit == Init => FloorInv
<1> SUFFICES ASSUME Init PROVE FloorInv
  OBVIOUS
<1>1. PICK past \in [Replicas -> PastClocks] :
        db = [r \in Replicas |-> EmptyStore(BoardColumns, past[r])]
  BY DEF Init
<1>2. ASSUME NEW r \in Replicas
      PROVE  AtOrBelow(db[r])
  <2>1. db[r] = EmptyStore(BoardColumns, past[r]) /\ past[r] \in Nat
    BY <1>1
  <2> QED
    BY <2>1 DEF EmptyStore, AtOrBelow, NoStamp
<1> QED
  BY <1>2 DEF Init, FloorInv, LamportFloor, NoMerge

\* One replica's database changes while no merge is open.
LEMMA FloorIdle ==
  ASSUME TypeOK, FloorInv, Idle, merge' = merge,
         NEW r \in Replicas, NEW n \in Store,
         db' = [db EXCEPT ![r] = n],
         AtOrBelow(n),
         \A v \in deleting'[r] : v.seq <= n.clock,
         \A q \in Replicas \ {r} : deleting'[q] = deleting[q]
  PROVE  FloorInv'
<1>1. \A q \in Replicas : db'[q] = IF q = r THEN n ELSE db[q]
  BY DEF TypeOK
<1>2. \A q \in Replicas : AtOrBelow(db'[q])
  BY <1>1 DEF FloorInv, LamportFloor
<1>3. \A q \in Replicas : \A v \in deleting'[q] : v.seq <= db'[q].clock
  BY <1>1 DEF FloorInv
<1> QED
  BY <1>2, <1>3, IdleOwner DEF FloorInv, LamportFloor

LEMMA FloorNext == TypeOK /\ MergeInv /\ FloorInv /\ [Next]_vars => FloorInv'
<1> SUFFICES ASSUME TypeOK, MergeInv, FloorInv, [Next]_vars PROVE FloorInv'
  OBVIOUS
<1>0. /\ TypeOK'
      /\ \A r \in Replicas : db[r] \in Store /\ AtOrBelow(db[r])
      /\ \A r \in Replicas : db'[r] \in Store
  BY TypeNext DEF TypeOK, FloorInv, LamportFloor
<1>1. CASE UNCHANGED vars
  BY <1>1 DEF vars, FloorInv, LamportFloor
<1>2. ASSUME NEW r \in Replicas, NEW n \in Store, Edits(r, n)
      PROVE  FloorInv'
  <2>1. AtOrBelow(n)
    BY <1>0, <1>2, FloorOfEdit DEF Edits
  <2>2. /\ Idle /\ merge' = merge
        /\ db' = [db EXCEPT ![r] = n]
        /\ deleting' = deleting /\ deleting[r] = {}
    BY <1>2 DEF Edits, Commit
  <2> QED
    BY <2>1, <2>2, FloorIdle
<1>3. ASSUME NEW r \in Replicas, NEW c \in Cards, ReserveDelete(r, c)
      PROVE  FloorInv'
  <2> DEFINE n == NextLocalClock(db[r])
  <2>1. /\ n \in Store
        /\ n.clock = db[r].clock + 1
    BY <1>0, NextLocalClockType
  <2>2. /\ n.tomb = db[r].tomb
        /\ n.ver = db[r].ver
        /\ n.pending = db[r].pending
        /\ n.outbox = db[r].outbox
        /\ n.seen = db[r].seen
    BY <1>0 DEF NextLocalClock, Store
  <2>3. /\ Idle /\ merge' = merge
        /\ db' = [db EXCEPT ![r] = n]
        /\ deleting' = [deleting EXCEPT ![r] = {[card |-> c, seq |-> n.clock]}]
    BY <1>3 DEF ReserveDelete, PlannerTurn
  <2> HIDE DEF n
  <2>4. AtOrBelow(n)
    BY <1>0, <2>1, <2>2, ClocksAreNumbers DEF AtOrBelow
  <2>5. /\ deleting'[r] = {[card |-> c, seq |-> n.clock]}
        /\ \A q \in Replicas \ {r} : deleting'[q] = deleting[q]
    BY <2>3 DEF TypeOK
  <2>6. \A v \in deleting'[r] : v.seq <= n.clock
    BY <2>1, <2>5, ClocksAreNumbers
  <2> QED
    BY <2>1, <2>3, <2>4, <2>5, <2>6, FloorIdle
<1>4. ASSUME NEW r \in Replicas, DeleteCard(r)
      PROVE  FloorInv'
  <2>1. PICK v \in deleting[r] :
          db' = [db EXCEPT ![r] = BuryCard(@, r, v.card, v.seq)]
    BY <1>4 DEF DeleteCard
  <2>2. v.card \in Cards /\ v.seq \in Nat /\ v.seq <= db[r].clock
    <3>1. v \in Delete
      BY <2>1 DEF TypeOK
    <3> QED
      BY <2>1, <3>1 DEF Delete, FloorInv
  <2> DEFINE n == BuryCard(db[r], r, v.card, v.seq)
  <2>3. n \in Store /\ BuriedNow(db[r], n, r, v.card, v.seq)
    BY <1>0, <2>2, BuryCardType, BuryCardBuries
  <2>4. db' = [db EXCEPT ![r] = n]
    BY <2>1
  <2> HIDE DEF n
  <2>5. AtOrBelow(n)
    BY <1>0, <2>2, <2>3, FloorOfBury
  <2>6. /\ Idle /\ merge' = merge
        /\ deleting'[r] = {}
        /\ \A q \in Replicas \ {r} : deleting'[q] = deleting[q]
    BY <1>4 DEF DeleteCard, PlannerTurn, TypeOK
  <2> QED
    BY <2>3, <2>4, <2>5, <2>6, FloorIdle
<1>10. ASSUME NEW r \in Replicas, NEW c \in Cards, FindDoomed(r, c)
       PROVE  FloorInv'
  <2>1. /\ Idle /\ merge' = merge /\ db' = db
        /\ deleting'[r] = {[card |-> c, seq |-> NotReserved]}
        /\ \A q \in Replicas \ {r} : deleting'[q] = deleting[q]
    BY <1>10 DEF FindDoomed, PlannerReady, PlannerTurn, TypeOK
  <2>2. \A v \in deleting'[r] : v.seq <= db[r].clock
    BY <1>0, <2>1, ClocksAreNumbers DEF NotReserved
  <2> QED
    BY <2>1, <2>2 DEF FloorInv, LamportFloor
<1>5. ASSUME NEW r \in Replicas,
             Materialize(r) \/ \E batch \in SmallBatch : StageBatch(r, batch)
      PROVE  FloorInv'
  <2> DEFINE n == MaterializePending(db[r], r)
  <2>1. /\ Idle /\ merge' = merge
        /\ deleting' = deleting
        /\ db' = [db EXCEPT ![r] = n]
        /\ Materializable(db[r])
    BY <1>5 DEF Materialize, StageBatch, SyncReady, Commit
  <2>2. n \in Store /\ Materialized(db[r], n, r)
    BY <1>0, <2>1, MaterializePendingType, MaterializePendingMaterializes
  <2> HIDE DEF n
  <2>3. AtOrBelow(n)
    BY <1>0, <2>2, FloorOfMaterialize
  <2>4. \A v \in deleting'[r] : v.seq <= n.clock
    BY <2>1, <2>2 DEF FloorInv, Materialized
  <2> QED
    BY <2>1, <2>2, <2>3, <2>4, FloorIdle
<1>6. ASSUME NEW r \in Replicas, OpenMerge(r)
      PROVE  FloorInv'
  <2>1. PICK observed \in {e.stamp.clock : e \in staged[r]} :
          /\ \A e \in staged[r] : e.stamp.clock <= observed
          /\ merge' = [at   |-> r,
                       todo |-> staged[r],
                       work |-> ObserveRemoteClock(db[r], observed)]
    BY <1>6 DEF OpenMerge
  <2>2. /\ observed \in Nat
        /\ \A e \in staged[r] : e.stamp.clock \in Nat
    BY <2>1 DEF TypeOK, Event, PutEvent, DeleteEvent, Stamp
  <2> DEFINE w == ObserveRemoteClock(db[r], observed)
  <2>3. w \in Store /\ AtOrBelow(w)
    BY <1>0, <2>2, ObserveRemoteClockType, FloorOfObserve
  <2>4. observed <= w.clock
    BY <1>0, <2>2 DEF ObserveRemoteClock, Store
  <2>5. merge'.work = w /\ merge'.todo = staged[r]
    BY <2>1
  <2> HIDE DEF w
  <2>6. \A e \in staged[r] : e.stamp.clock <= w.clock
    BY <2>1, <2>2, <2>3, <2>4, ClocksAreNumbers
  <2>7. db' = db /\ deleting' = deleting
    BY <1>6 DEF OpenMerge
  <2> QED
    BY <2>3, <2>5, <2>6, <2>7 DEF FloorInv, LamportFloor
<1>7. ASSUME NEW r \in Replicas, NEW e \in merge.todo, MergeEvent(r, e)
      PROVE  FloorInv'
  <2>1. /\ e \in Event
        /\ merge.work \in Store
        /\ merge'.work \in Store
        /\ e.stamp.clock <= merge.work.clock
        /\ AtOrBelow(merge.work)
    BY <1>0, <1>7, SomebodyIsAReplica
       DEF TypeOK, FloorInv, MergeEvent, Merging
  <2>2. /\ merge'.todo \subseteq merge.todo
        /\ \A x \in merge.todo : x.stamp.clock <= merge.work.clock
        /\ UNCHANGED <<db, deleting>>
        /\ \/ merge'.work = merge.work
           \/ merge'.work = ApplyRemoteEvent(merge.work, e)
    BY <1>7, SomebodyIsAReplica DEF MergeEvent, Merging, TypeOK, FloorInv
  <2>3. AtOrBelow(merge'.work) /\ merge'.work.clock = merge.work.clock
    <3>1. CASE merge'.work = merge.work
      BY <2>1, <3>1
    <3>2. CASE merge'.work = ApplyRemoteEvent(merge.work, e)
      <4>1. Merged(merge.work, merge'.work, e)
        BY <2>1, <3>2, ApplyRemoteEventMerges
      <4> QED
        BY <2>1, <4>1, FloorOfMerge DEF Merged
    <3> QED
      BY <2>2, <3>1, <3>2
  <2> QED
    BY <2>2, <2>3 DEF FloorInv, LamportFloor
<1>8. ASSUME NEW r \in Replicas, CommitMerge(r)
      PROVE  FloorInv'
  <2>1. /\ merge.at = r
        /\ db' = [db EXCEPT ![r] = merge.work]
        /\ deleting' = deleting
        /\ merge' = NoMerge
    BY <1>8 DEF CommitMerge, Merging
  <2>2. /\ merge.work \in Store
        /\ AtOrBelow(merge.work)
        /\ db[r].clock <= merge.work.clock
    BY <2>1, SomebodyIsAReplica DEF TypeOK, FloorInv, MergeInv
  <2>3. \A q \in Replicas : db'[q] = IF q = r THEN merge.work ELSE db[q]
    BY <2>1 DEF TypeOK
  <2>4. \A v \in deleting[r] : v.seq <= merge.work.clock
    <3>1. \A v \in deleting[r] : v.seq \in Nat /\ v.seq <= db[r].clock
      BY DEF TypeOK, Delete, FloorInv
    <3> QED
      BY <1>0, <2>2, <3>1, ClocksAreNumbers
  <2> QED
    BY <1>0, <2>1, <2>2, <2>3, <2>4 DEF FloorInv, LamportFloor, NoMerge
<1>9. ASSUME NEW r \in Replicas, AbortMerge(r) \/ Crash(r)
      PROVE  FloorInv'
  <2>1. /\ db' = db
        /\ merge' = NoMerge
        /\ \A q \in Replicas : deleting'[q] \subseteq deleting[q]
    BY <1>9 DEF AbortMerge, Crash, TypeOK
  <2> QED
    BY <2>1 DEF FloorInv, LamportFloor, NoMerge
<1> QED
  BY <1>1, <1>2, <1>3, <1>4, <1>5, <1>6, <1>7, <1>8, <1>9, <1>10,
     PlannerForms
     DEF Next, Sync

\* The clock is a floor under everything the replica knows: no tombstone,
\* field version, marker or event it holds is ahead of its Lamport clock, so
\* next_local_clock always allocates a version that beats all of them, also
\* after a merge, a crash or a delete whose version was reserved before one.
THEOREM LamportFloorHolds == Spec => []LamportFloor
<1>1. Init => TypeOK /\ MergeInv /\ FloorInv
  BY TypeInit, MergeInvInit, FloorInit
<1>2. TypeOK /\ MergeInv /\ FloorInv /\ [Next]_vars
        => (TypeOK /\ MergeInv /\ FloorInv)'
  BY TypeNext, MergeInvNext, FloorNext
<1>3. FloorInv => LamportFloor
  BY DEF FloorInv
<1> QED
  BY <1>1, <1>2, <1>3, PTL DEF Spec

-----------------------------------------------------------------------------
(* DeletedStaysDeleted.  Two facts: no step lowers a tombstone, and no     *)
(* store shows a card it has a tombstone of.                               *)

\* A step changes a replica's database in one of four ways, if at all.
Changes(r, n) ==
  \/ n = db[r]
  \/ Edits(r, n)
  \/ \E c \in Cards : ReserveDelete(r, c) /\ n = NextLocalClock(db[r])
  \/ \E v \in deleting[r] :
       /\ v \in Delete
       /\ v.seq # NotReserved
       /\ deleting'[r] = {}
       /\ BuriedNow(db[r], n, r, v.card, v.seq)
  \/ /\ deleting'[r] = deleting[r]
     /\ Materializable(db[r])
     /\ n = MaterializePending(db[r], r)
     /\ Materialized(db[r], n, r)
  \/ merge.at = r /\ merge.todo = {} /\ n = merge.work

LEMMA DbForms ==
  ASSUME TypeOK, [Next]_vars, NEW q \in Replicas
  PROVE  Changes(q, db'[q])
<1>0. \A r \in Replicas : db[r] \in Store
  BY DEF TypeOK
<1>1. CASE UNCHANGED vars
  BY <1>1 DEF vars, Changes
<1>2. ASSUME NEW r \in Replicas, NEW n \in Store, Edits(r, n)
      PROVE  Changes(q, db'[q])
  BY <1>2 DEF Edits, Commit, Changes, TypeOK
<1>3. ASSUME NEW r \in Replicas, NEW c \in Cards, ReserveDelete(r, c)
      PROVE  Changes(q, db'[q])
  BY <1>3 DEF ReserveDelete, Changes, TypeOK
<1>4. ASSUME NEW r \in Replicas, DeleteCard(r)
      PROVE  Changes(q, db'[q])
  <2>1. PICK v \in deleting[r] :
          /\ v.seq # NotReserved
          /\ db' = [db EXCEPT ![r] = BuryCard(@, r, v.card, v.seq)]
    BY <1>4 DEF DeleteCard
  <2>2. v \in Delete
    BY <2>1 DEF TypeOK
  <2>3. BuriedNow(db[r], BuryCard(db[r], r, v.card, v.seq), r, v.card, v.seq)
    BY <1>0, <2>2, BuryCardBuries DEF Delete
  <2>4. deleting'[r] = {}
    BY <1>4 DEF DeleteCard, TypeOK
  <2> QED
    BY <2>1, <2>2, <2>3, <2>4 DEF Changes, TypeOK
<1>5. ASSUME NEW r \in Replicas,
             Materialize(r) \/ \E batch \in SmallBatch : StageBatch(r, batch)
      PROVE  Changes(q, db'[q])
  <2>1. /\ db' = [db EXCEPT ![r] = MaterializePending(@, r)]
        /\ deleting' = deleting
        /\ Materializable(db[r])
    BY <1>5 DEF Materialize, StageBatch, Commit
  <2>2. Materialized(db[r], MaterializePending(db[r], r), r)
    BY <1>0, MaterializePendingMaterializes
  <2> QED
    BY <2>1, <2>2 DEF Changes, TypeOK
<1>6. ASSUME NEW r \in Replicas, CommitMerge(r)
      PROVE  Changes(q, db'[q])
  BY <1>6 DEF CommitMerge, Merging, Changes, TypeOK
<1>7. CASE db' = db
  BY <1>7 DEF Changes
<1> QED
  BY <1>1, <1>2, <1>3, <1>4, <1>5, <1>6, <1>7, PlannerForms
     DEF Next, Sync, FindDoomed, OpenMerge, MergeEvent, AbortMerge, Crash

LEMMA DbKeepsTombs ==
  ASSUME TypeOK, MergeInv, [Next]_vars, NEW r \in Replicas
  PROVE  TombsKept(db[r], db'[r])
<1> DEFINE d == db[r]
           n == db'[r]
<1>0. d \in Store /\ n \in Store
  BY TypeNext DEF TypeOK
<1>1. Changes(r, n)
  BY DbForms
<1>2. \A c \in Cards : d.tomb[c] \in StampOrNone /\ n.tomb[c] \in StampOrNone
  BY <1>0 DEF Store
<1>3. CASE n.tomb = d.tomb
  BY <1>2, <1>3, StampOrder DEF TombsKept, Buried
<1>4. CASE \E c \in Cards : ReserveDelete(r, c) /\ n = NextLocalClock(d)
  <2>1. n.tomb = d.tomb
    BY <1>0, <1>4 DEF NextLocalClock, Store
  <2> QED
    BY <1>3, <2>1
<1>5. CASE \E v \in deleting[r] : v \in Delete /\ BuriedNow(d, n, r, v.card, v.seq)
  <2>1. \A c \in Cards : n.tomb[c] = d.tomb[c] \/ Newer(n.tomb[c], d.tomb[c])
    BY <1>5 DEF BuriedNow, Delete
  <2> QED
    BY <1>2, <2>1, StampOrder DEF TombsKept, Buried
<1>6. CASE Materialized(d, n, r)
  <2>1. \A c \in Cards : n.tomb[c] = d.tomb[c] \/ Newer(n.tomb[c], d.tomb[c])
    BY <1>6 DEF Materialized
  <2> QED
    BY <1>2, <2>1, StampOrder DEF TombsKept, Buried
<1>7. CASE merge.at = r /\ n = merge.work
  BY <1>7, SomebodyIsAReplica DEF MergeInv
<1>8. n = d \/ Edits(r, n) => n.tomb = d.tomb
  BY DEF Edits, Edited
<1> QED
  BY <1>1, <1>3, <1>4, <1>5, <1>6, <1>7, <1>8 DEF Changes

-----------------------------------------------------------------------------
(* TombstoneIsNewestDelete.                                                *)

NewestInv ==
  /\ TombstoneIsNewestDelete
  /\ merge.at # Nobody => TombsAreNewest(merge.work, merge.at)

LEMMA KnownDeletesAreStamps ==
  ASSUME NEW d \in Store, NEW r \in Replicas, NEW c \in Cards
  PROVE  KnownDeletes(d, r, c) \in SUBSET Stamp
<1>1. \A e \in d.seen : e.stamp \in Stamp
  BY DEF Store, Event, PutEvent, DeleteEvent
<1>2. \A m \in d.pending : [clock |-> m.seq, replica |-> r] \in Stamp
  BY DEF Store, Marker, Stamp
<1> QED
  BY <1>1, <1>2 DEF KnownDeletes

\* The newest of some stamps and one more.
LEMMA NewestOfMore ==
  ASSUME NEW tomb \in StampOrNone, NEW deletes \in SUBSET Stamp,
         NEW s \in Stamp, IsNewest(tomb, deletes)
  PROVE  /\ Newer(s, tomb) => IsNewest(s, deletes \cup {s})
         /\ ~ Newer(s, tomb) => IsNewest(tomb, deletes \cup {s})
<1>1. /\ s \in StampOrNone
      /\ \A x \in deletes : x \in StampOrNone
  BY DEF StampOrNone
<1>2. Newer(s, NoStamp)
  <2>1. s.clock \in Nat /\ s.replica \in Nat \ {0}
    BY ReplicasAssumption DEF Stamp
  <2> QED
    BY <2>1 DEF Newer, NoStamp
<1>3. CASE deletes = {}
  BY <1>1, <1>2, <1>3, StampOrder DEF IsNewest
<1>4. CASE deletes # {}
  <2>1. tomb \in deletes /\ \A x \in deletes : ~ Newer(x, tomb)
    BY <1>4 DEF IsNewest
  <2>2. Newer(s, tomb) => \A x \in deletes : ~ Newer(x, s)
    BY <1>1, <2>1, StampOrder
  <2>3. ~ Newer(s, s)
    BY <1>1, StampOrder
  <2> QED
    BY <2>1, <2>2, <2>3 DEF IsNewest
<1> QED
  BY <1>3, <1>4

\* A change that adds no delete and touches no tombstone.
LEMMA NewestSame ==
  ASSUME NEW d, NEW n, NEW r,
         TombsAreNewest(d, r), n.tomb = d.tomb, n.seen = d.seen,
         d.pending \subseteq n.pending,
         \A m \in n.pending \ d.pending : m.kind # "card.delete"
  PROVE  TombsAreNewest(n, r)
<1>1. ASSUME NEW c \in Cards
      PROVE  KnownDeletes(n, r, c) = KnownDeletes(d, r, c)
  <2>1. {m \in n.pending : m.entity = c /\ m.kind = "card.delete"}
          = {m \in d.pending : m.entity = c /\ m.kind = "card.delete"}
    OBVIOUS
  <2> QED
    BY <2>1 DEF KnownDeletes
<1> QED
  BY <1>1 DEF TombsAreNewest

LEMMA NewestOfEdit ==
  ASSUME NEW d, NEW n, NEW r, Edited(d, n, EditKind \cup {"column.create"}),
         TombsAreNewest(d, r)
  PROVE  TombsAreNewest(n, r)
<1>1. \A m \in n.pending \ d.pending : m.kind # "card.delete"
  BY DEF Edited, EditKind
<1> QED
  BY <1>1, NewestSame DEF Edited

LEMMA NewestOfBury ==
  ASSUME NEW d \in Store, NEW n \in Store, NEW r \in Replicas, NEW c \in Cards,
         NEW seq \in Nat, BuriedNow(d, n, r, c, seq), TombsAreNewest(d, r)
  PROVE  TombsAreNewest(n, r)
<1> DEFINE s == [clock |-> seq, replica |-> r]
           m == [seq |-> seq, kind |-> "card.delete", entity |-> c]
<1>1. n.seen = d.seen /\ n.pending = d.pending \cup {m}
  BY DEF BuriedNow
<1>2. KnownDeletes(n, r, c) = KnownDeletes(d, r, c) \cup {s}
  <2>1. {x \in n.pending : x.entity = c /\ x.kind = "card.delete"}
          = {x \in d.pending : x.entity = c /\ x.kind = "card.delete"} \cup {m}
    BY <1>1
  <2>2. s = [clock |-> m.seq, replica |-> r]
    OBVIOUS
  <2> HIDE DEF m, s
  <2> QED
    BY <1>1, <2>1, <2>2 DEF KnownDeletes
<1>3. ASSUME NEW x \in Cards, x # c
      PROVE  KnownDeletes(n, r, x) = KnownDeletes(d, r, x)
  <2>1. {y \in n.pending : y.entity = x /\ y.kind = "card.delete"}
          = {y \in d.pending : y.entity = x /\ y.kind = "card.delete"}
    BY <1>1, <1>3
  <2> QED
    BY <1>1, <2>1 DEF KnownDeletes
<1>4. s \in Stamp /\ d.tomb[c] \in StampOrNone
  BY DEF Stamp, Store
<1>5. IsNewest(n.tomb[c], KnownDeletes(n, r, c))
  <2>1. IsNewest(d.tomb[c], KnownDeletes(d, r, c))
    BY DEF TombsAreNewest
  <2>2. /\ Newer(s, d.tomb[c]) => IsNewest(s, KnownDeletes(d, r, c) \cup {s})
        /\ ~ Newer(s, d.tomb[c])
             => IsNewest(d.tomb[c], KnownDeletes(d, r, c) \cup {s})
    BY <1>4, <2>1, NewestOfMore, KnownDeletesAreStamps
  <2>3. \/ n.tomb[c] = d.tomb[c] /\ ~ Newer(s, d.tomb[c])
        \/ n.tomb[c] = s /\ Newer(s, d.tomb[c])
    BY DEF BuriedNow
  <2> QED
    BY <1>2, <2>2, <2>3
<1>6. \A x \in Cards \ {c} : n.tomb[x] = d.tomb[x]
  BY DEF BuriedNow
<1> QED
  BY <1>3, <1>5, <1>6 DEF TombsAreNewest

\* The tombstone is at least as new as every local delete, so materializing
\* one does not change it.
LEMMA MaterializeKeepsTombs ==
  ASSUME NEW d, NEW n, NEW r, Materialized(d, n, r), TombsAreNewest(d, r),
         NEW c \in Cards
  PROVE  n.tomb[c] = d.tomb[c]
<1> SUFFICES ASSUME NEW m \in d.pending,
                    m.kind = "card.delete", m.entity = c,
                    n.tomb[c] = [clock |-> m.seq, replica |-> r],
                    Newer(n.tomb[c], d.tomb[c])
             PROVE  FALSE
  BY DEF Materialized
<1>1. n.tomb[c] \in KnownDeletes(d, r, c)
  BY DEF KnownDeletes
<1> QED
  BY <1>1 DEF TombsAreNewest, IsNewest

LEMMA NewestOfMaterialize ==
  ASSUME NEW d, NEW n, NEW r, Materialized(d, n, r), TombsAreNewest(d, r)
  PROVE  TombsAreNewest(n, r)
<1>1. n.pending = d.pending /\ n.seen = d.seen
  BY DEF Materialized
<1>2. \A c \in Cards : KnownDeletes(n, r, c) = KnownDeletes(d, r, c)
  BY <1>1 DEF KnownDeletes
<1> QED
  BY <1>2, MaterializeKeepsTombs DEF TombsAreNewest

LEMMA NewestOfMerge ==
  ASSUME NEW d \in Store, NEW n \in Store, NEW r \in Replicas, NEW e \in Event,
         Merged(d, n, e), TombsAreNewest(d, r)
  PROVE  TombsAreNewest(n, r)
<1>1. n.pending = d.pending /\ n.seen = d.seen \cup {e}
  BY DEF Merged
<1>2. ASSUME NEW c \in Cards, ~ (c = e.card /\ e.op = "card.delete")
      PROVE  IsNewest(n.tomb[c], KnownDeletes(n, r, c))
  <2>1. {x \in n.seen : x.card = c /\ x.op = "card.delete"}
          = {x \in d.seen : x.card = c /\ x.op = "card.delete"}
    BY <1>1, <1>2
  <2>2. KnownDeletes(n, r, c) = KnownDeletes(d, r, c)
    BY <1>1, <2>1 DEF KnownDeletes
  <2>3. n.tomb[c] = d.tomb[c]
    BY <1>2 DEF Merged
  <2> QED
    BY <2>2, <2>3 DEF TombsAreNewest
<1>3. ASSUME NEW c \in Cards, c = e.card, e.op = "card.delete"
      PROVE  IsNewest(n.tomb[c], KnownDeletes(n, r, c))
  <2>1. {x \in n.seen : x.card = c /\ x.op = "card.delete"}
          = {x \in d.seen : x.card = c /\ x.op = "card.delete"} \cup {e}
    BY <1>1, <1>3
  <2>2. KnownDeletes(n, r, c) = KnownDeletes(d, r, c) \cup {e.stamp}
    BY <1>1, <2>1 DEF KnownDeletes
  <2>3. e.stamp \in Stamp /\ d.tomb[c] \in StampOrNone
    BY DEF Event, PutEvent, DeleteEvent, Store
  <2>4. IsNewest(d.tomb[c], KnownDeletes(d, r, c))
    BY DEF TombsAreNewest
  <2>5. /\ Newer(e.stamp, d.tomb[c])
             => IsNewest(e.stamp, KnownDeletes(d, r, c) \cup {e.stamp})
        /\ ~ Newer(e.stamp, d.tomb[c])
             => IsNewest(d.tomb[c], KnownDeletes(d, r, c) \cup {e.stamp})
    BY <2>3, <2>4, NewestOfMore, KnownDeletesAreStamps
  <2>6. \/ n.tomb[c] = d.tomb[c] /\ ~ Newer(e.stamp, d.tomb[c])
        \/ n.tomb[c] = e.stamp /\ Newer(e.stamp, d.tomb[c])
    BY <1>3 DEF Merged
  <2> QED
    BY <2>2, <2>5, <2>6
<1> QED
  BY <1>2, <1>3 DEF TombsAreNewest

LEMMA NewestInit == Init => NewestInv
<1> SUFFICES ASSUME Init PROVE NewestInv
  OBVIOUS
<1>1. ASSUME NEW r \in Replicas
      PROVE  /\ db[r].seen = {}
             /\ db[r].pending = {}
             /\ \A c \in Cards : db[r].tomb[c] = NoStamp
  <2>1. PICK past \in [Replicas -> PastClocks] :
          db = [q \in Replicas |-> EmptyStore(BoardColumns, past[q])]
    BY DEF Init
  <2>2. db[r] = EmptyStore(BoardColumns, past[r])
    BY <2>1
  <2> QED
    BY <2>2 DEF EmptyStore
<1>2. \A r \in Replicas, c \in Cards : KnownDeletes(db[r], r, c) = {}
  BY <1>1 DEF KnownDeletes
<1> QED
  BY <1>1, <1>2
     DEF Init, NewestInv, TombstoneIsNewestDelete, TombsAreNewest, IsNewest, NoMerge

LEMMA NewestNext == TypeOK /\ MergeInv /\ NewestInv /\ [Next]_vars => NewestInv'
<1> SUFFICES ASSUME TypeOK, MergeInv, NewestInv, [Next]_vars PROVE NewestInv'
  OBVIOUS
<1>0. TypeOK'
  BY TypeNext
<1>1. ASSUME NEW r \in Replicas
      PROVE  TombsAreNewest(db'[r], r)
  <2> DEFINE d == db[r]
             n == db'[r]
  <2>0. d \in Store /\ n \in Store /\ TombsAreNewest(d, r)
    BY <1>0 DEF TypeOK, NewestInv, TombstoneIsNewestDelete
  <2>1. Changes(r, n)
    BY DbForms
  <2>2. CASE n = d
    BY <2>0, <2>2
  <2>3. CASE Edits(r, n)
    BY <2>0, <2>3, NewestOfEdit DEF Edits
  <2>4. CASE \E c \in Cards : ReserveDelete(r, c) /\ n = NextLocalClock(d)
    <3>1. n.tomb = d.tomb /\ n.seen = d.seen /\ n.pending = d.pending
      BY <2>0, <2>4 DEF NextLocalClock, Store
    <3> QED
      BY <2>0, <3>1, NewestSame
  <2>5. CASE \E v \in deleting[r] : v \in Delete /\ BuriedNow(d, n, r, v.card, v.seq)
    BY <2>0, <2>5, NewestOfBury DEF Delete
  <2>6. CASE Materialized(d, n, r)
    BY <2>0, <2>6, NewestOfMaterialize
  <2>7. CASE merge.at = r /\ n = merge.work
    BY <2>7, SomebodyIsAReplica DEF NewestInv
  <2> QED
    BY <2>1, <2>2, <2>3, <2>4, <2>5, <2>6, <2>7 DEF Changes
<1>2. ASSUME merge'.at # Nobody
      PROVE  TombsAreNewest(merge'.work, merge'.at)
  <2>1. CASE merge' = merge
    BY <1>2, <2>1 DEF NewestInv
  <2>2. ASSUME NEW r \in Replicas, OpenMerge(r)
        PROVE  TombsAreNewest(merge'.work, merge'.at)
    <3>1. PICK observed \in {e.stamp.clock : e \in staged[r]} :
            merge' = [at   |-> r,
                      todo |-> staged[r],
                      work |-> ObserveRemoteClock(db[r], observed)]
      BY <2>2 DEF OpenMerge
    <3> DEFINE w == ObserveRemoteClock(db[r], observed)
    <3>2. w.tomb = db[r].tomb /\ w.seen = db[r].seen /\ w.pending = db[r].pending
      BY DEF ObserveRemoteClock, TypeOK, Store
    <3>3. merge'.at = r /\ merge'.work = w
      BY <3>1
    <3> HIDE DEF w
    <3> QED
      BY <3>2, <3>3, NewestSame DEF NewestInv, TombstoneIsNewestDelete
  <2>3. ASSUME NEW r \in Replicas, NEW e \in merge.todo, MergeEvent(r, e)
        PROVE  TombsAreNewest(merge'.work, merge'.at)
    <3>1. /\ e \in Event
          /\ merge.work \in Store
          /\ merge'.work \in Store
      BY <1>0 DEF TypeOK
    <3>2. /\ merge.at = r
          /\ merge'.at = r
          /\ \/ merge'.work = merge.work
             \/ merge'.work = ApplyRemoteEvent(merge.work, e)
      BY <2>3 DEF MergeEvent, Merging, TypeOK
    <3>3. TombsAreNewest(merge.work, r)
      BY <3>2, SomebodyIsAReplica DEF NewestInv
    <3>4. CASE merge'.work = ApplyRemoteEvent(merge.work, e)
      <4>1. Merged(merge.work, merge'.work, e)
        BY <3>1, <3>4, ApplyRemoteEventMerges
      <4> QED
        BY <3>1, <3>2, <3>3, <4>1, NewestOfMerge
    <3> QED
      BY <3>2, <3>3, <3>4
  <2>4. CASE merge' = NoMerge
    BY <1>2, <2>4 DEF NoMerge
  <2>5. CASE UNCHANGED vars
    BY <2>1, <2>5 DEF vars
  <2> QED
    BY <2>1, <2>2, <2>3, <2>4, <2>5, PlannerForms
       DEF Next, Sync, Edits, Commit, FindDoomed, ReserveDelete, DeleteCard, Materialize,
           StageBatch, AbortMerge, CommitMerge, Crash
<1> QED
  BY <1>1, <1>2 DEF NewestInv, TombstoneIsNewestDelete

\* The tombstone of a card is at all times the newest delete of it that the
\* replica has committed or merged, though three places of the code decide on
\* their own whether to replace it.
THEOREM TombstoneIsNewest == Spec => []TombstoneIsNewestDelete
<1>1. Init => TypeOK /\ MergeInv /\ NewestInv
  BY TypeInit, MergeInvInit, NewestInit
<1>2. TypeOK /\ MergeInv /\ NewestInv /\ [Next]_vars
        => (TypeOK /\ MergeInv /\ NewestInv)'
  BY TypeNext, MergeInvNext, NewestNext
<1>3. NewestInv => TombstoneIsNewestDelete
  BY DEF NewestInv
<1> QED
  BY <1>1, <1>2, <1>3, PTL DEF Spec

-----------------------------------------------------------------------------
(* No store shows a card it has a tombstone of.                            *)

NoZombies(d) == \A c \in Cards : Present(d, c) => ~ Buried(d, c)

LifeInv ==
  /\ \A r \in Replicas : NoZombies(db[r])
  /\ merge.at # Nobody => NoZombies(merge.work)

LEMMA LifeInit == Init => LifeInv
<1> SUFFICES ASSUME Init PROVE LifeInv
  OBVIOUS
<1>1. ASSUME NEW r \in Replicas
      PROVE  NoZombies(db[r])
  <2>1. PICK past \in [Replicas -> PastClocks] :
          db = [q \in Replicas |-> EmptyStore(BoardColumns, past[q])]
    BY DEF Init
  <2>2. db[r] = EmptyStore(BoardColumns, past[r])
    BY <2>1
  <2> QED
    BY <2>2 DEF EmptyStore, NoZombies, Present
<1> QED
  BY <1>1 DEF Init, LifeInv, NoMerge

\* The states the invariants describe, together: what a step may rely on.
LEMMA LifeNext ==
  TypeOK /\ MergeInv /\ NewestInv /\ LifeInv /\ [Next]_vars => LifeInv'
<1> SUFFICES ASSUME TypeOK, MergeInv, NewestInv, LifeInv, [Next]_vars
             PROVE  LifeInv'
  OBVIOUS
<1>0. TypeOK'
  BY TypeNext
<1>1. ASSUME NEW r \in Replicas
      PROVE  NoZombies(db'[r])
  <2> DEFINE d == db[r]
             n == db'[r]
  <2>0. /\ d \in Store /\ n \in Store
        /\ NoZombies(d) /\ TombsAreNewest(d, r)
    BY <1>0 DEF TypeOK, LifeInv, NewestInv, TombstoneIsNewestDelete
  <2>1. Changes(r, n)
    BY DbForms
  <2>2. CASE n = d
    BY <2>0, <2>2
  <2>3. CASE Edits(r, n)
    BY <2>0, <2>3
       DEF Edits, Edited, CreatesNothing, Creates, SameCards, NoZombies, Buried
  <2>4. CASE \E c \in Cards : ReserveDelete(r, c) /\ n = NextLocalClock(d)
    <3>1. n.tomb = d.tomb /\ n.row = d.row
      BY <2>0, <2>4 DEF NextLocalClock, Store
    <3> QED
      BY <2>0, <3>1 DEF NoZombies, Present, Buried
  <2>5. CASE \E v \in deleting[r] : v \in Delete /\ BuriedNow(d, n, r, v.card, v.seq)
    BY <2>0, <2>5 DEF BuriedNow, Delete, NoZombies, Present, Buried
  <2>6. CASE Materialized(d, n, r)
    <3>1. \A c \in Cards : n.tomb[c] = d.tomb[c]
      BY <2>0, <2>6, MaterializeKeepsTombs
    <3>2. n.row = d.row
      BY <2>6 DEF Materialized
    <3> QED
      BY <2>0, <3>1, <3>2 DEF NoZombies, Present, Buried
  <2>7. CASE merge.at = r /\ n = merge.work
    BY <2>7, SomebodyIsAReplica DEF LifeInv
  <2> QED
    BY <2>1, <2>2, <2>3, <2>4, <2>5, <2>6, <2>7 DEF Changes
<1>2. ASSUME merge'.at # Nobody
      PROVE  NoZombies(merge'.work)
  <2>1. CASE merge' = merge
    BY <1>2, <2>1 DEF LifeInv
  <2>2. ASSUME NEW r \in Replicas, OpenMerge(r)
        PROVE  NoZombies(merge'.work)
    <3>1. PICK observed \in {e.stamp.clock : e \in staged[r]} :
            merge' = [at   |-> r,
                      todo |-> staged[r],
                      work |-> ObserveRemoteClock(db[r], observed)]
      BY <2>2 DEF OpenMerge
    <3> DEFINE w == ObserveRemoteClock(db[r], observed)
    <3>2. w.tomb = db[r].tomb /\ w.row = db[r].row
      BY DEF ObserveRemoteClock, TypeOK, Store
    <3>3. merge'.work = w
      BY <3>1
    <3> HIDE DEF w
    <3> QED
      BY <3>2, <3>3 DEF LifeInv, NoZombies, Present, Buried
  <2>3. ASSUME NEW r \in Replicas, NEW e \in merge.todo, MergeEvent(r, e)
        PROVE  NoZombies(merge'.work)
    <3>1. /\ e \in Event
          /\ merge.work \in Store
          /\ merge'.work \in Store
      BY <1>0 DEF TypeOK
    <3>2. /\ merge.at = r
          /\ \/ merge'.work = merge.work
             \/ merge'.work = ApplyRemoteEvent(merge.work, e)
      BY <2>3 DEF MergeEvent, Merging, TypeOK
    <3>3. NoZombies(merge.work)
      BY <3>2, SomebodyIsAReplica DEF LifeInv
    <3>4. CASE merge'.work = ApplyRemoteEvent(merge.work, e)
      <4>1. Merged(merge.work, merge'.work, e)
        BY <3>1, <3>4, ApplyRemoteEventMerges
      <4> QED
        BY <3>3, <4>1 DEF Merged, NoZombies, Buried
    <3> QED
      BY <3>2, <3>3, <3>4
  <2>4. CASE merge' = NoMerge
    BY <1>2, <2>4 DEF NoMerge
  <2>5. CASE UNCHANGED vars
    BY <2>1, <2>5 DEF vars
  <2> QED
    BY <2>1, <2>2, <2>3, <2>4, <2>5, PlannerForms
       DEF Next, Sync, Edits, Commit, FindDoomed, ReserveDelete, DeleteCard, Materialize,
           StageBatch, AbortMerge, CommitMerge, Crash
<1> QED
  BY <1>1, <1>2 DEF LifeInv

LifeOK == TypeOK /\ MergeInv /\ NewestInv /\ LifeInv

LEMMA LifeOKInvariant == Spec => []LifeOK
<1>1. Init => LifeOK
  BY TypeInit, MergeInvInit, NewestInit, LifeInit DEF LifeOK
<1>2. LifeOK /\ [Next]_vars => LifeOK'
  BY TypeNext, MergeInvNext, NewestNext, LifeNext DEF LifeOK
<1> QED
  BY <1>1, <1>2, PTL DEF Spec

\* A card whose delete a replica has committed or merged is never shown again
\* on it, and its tombstone never moves back, whatever edits, batches, retries
\* and crashes follow.
THEOREM DeletedForGood == Spec => DeletedStaysDeleted
<1> DEFINE A == \A r \in Replicas, c \in Cards :
                  Buried(db[r], c) =>
                    /\ ~ Present(db'[r], c)
                    /\ Buried(db'[r], c)
                    /\ ~ Newer(db[r].tomb[c], db'[r].tomb[c])
<1>1. LifeOK /\ LifeOK' /\ [Next]_vars => A
  <2> SUFFICES ASSUME LifeOK, LifeOK', [Next]_vars,
                      NEW r \in Replicas, NEW c \in Cards, Buried(db[r], c)
               PROVE  /\ ~ Present(db'[r], c)
                      /\ Buried(db'[r], c)
                      /\ ~ Newer(db[r].tomb[c], db'[r].tomb[c])
    OBVIOUS
  <2>1. TombsKept(db[r], db'[r])
    BY DbKeepsTombs DEF LifeOK
  <2>2. NoZombies(db'[r])
    BY DEF LifeOK, LifeInv
  <2> QED
    BY <2>1, <2>2 DEF TombsKept, NoZombies
<1>2. LifeOK /\ LifeOK' /\ [Next]_vars => [A]_vars
  BY <1>1
<1> HIDE DEF A
<1>3. Spec => [][A]_vars
  BY <1>2, LifeOKInvariant, PTL DEF Spec
<1> QED
  BY <1>3 DEF A, DeletedStaysDeleted

-----------------------------------------------------------------------------
(* StampsIdentifyEvents.  Every event anybody holds is in the outbox of    *)
(* the replica its stamp names, and was made there from the one marker     *)
(* with its clock.                                                         *)

UniqueMarkers(d) == \A m1, m2 \in d.pending : m1.seq = m2.seq => m1 = m2

OutboxFromMarkers(d, r) ==
  \A e \in d.outbox :
    /\ e.stamp.replica = r
    /\ \E m \in d.pending : m.seq = e.stamp.clock

\* No marker has taken the clock that a delete on its way has reserved.
Unused(seq, d) == seq # NotReserved => \A m \in d.pending : m.seq # seq

UniqueOutbox(d) == \A e1, e2 \in d.outbox : e1.stamp = e2.stamp => e1 = e2

StampInv ==
  /\ \A r \in Replicas : /\ UniqueMarkers(db[r])
                         /\ OutboxFromMarkers(db[r], r)
                         /\ UniqueOutbox(db[r])
                         /\ \A v \in deleting[r] : Unused(v.seq, db[r])
                         /\ db[r].seen \cup staged[r] \subseteq Published
  /\ merge.at # Nobody => merge.todo \cup merge.work.seen \subseteq Published

LEMMA StampInit == Init => StampInv
<1> SUFFICES ASSUME Init PROVE StampInv
  OBVIOUS
<1>1. ASSUME NEW r \in Replicas
      PROVE  /\ db[r].pending = {}
             /\ db[r].outbox = {}
             /\ db[r].seen = {}
  <2>1. PICK past \in [Replicas -> PastClocks] :
          db = [q \in Replicas |-> EmptyStore(BoardColumns, past[q])]
    BY DEF Init
  <2>2. db[r] = EmptyStore(BoardColumns, past[r])
    BY <2>1
  <2> QED
    BY <2>2 DEF EmptyStore
<1>2. /\ \A r \in Replicas : staged[r] = {} /\ deleting[r] = {}
      /\ merge.at = Nobody
  BY DEF Init, NoMerge
<1> QED
  BY <1>1, <1>2 DEF StampInv, UniqueMarkers, OutboxFromMarkers, UniqueOutbox

LEMMA DeletingForms ==
  ASSUME TypeOK, [Next]_vars, NEW r \in Replicas
  PROVE  \/ deleting'[r] \subseteq deleting[r]
         \/ \E c \in Cards : FindDoomed(r, c) \/ ReserveDelete(r, c)
<1>3. ASSUME NEW q \in Replicas, NEW c \in Cards, FindDoomed(q, c)
      PROVE  q = r \/ deleting'[r] = deleting[r]
  BY <1>3 DEF FindDoomed, TypeOK
<1>1. ASSUME NEW q \in Replicas, NEW c \in Cards, ReserveDelete(q, c)
      PROVE  q = r \/ deleting'[r] = deleting[r]
  BY <1>1 DEF ReserveDelete, TypeOK
<1>2. ASSUME NEW q \in Replicas, DeleteCard(q) \/ Crash(q)
      PROVE  deleting'[r] \subseteq deleting[r]
  BY <1>2 DEF DeleteCard, Crash, TypeOK
<1> QED
  BY <1>1, <1>2, <1>3, PlannerForms
     DEF Next, Sync, Edits, Commit, Materialize, StageBatch, OpenMerge,
         MergeEvent, AbortMerge, CommitMerge, vars

\* What has been published stays published.
LEMMA OutboxGrows ==
  ASSUME TypeOK, MergeInv, [Next]_vars, NEW r \in Replicas
  PROVE  db[r].outbox \subseteq db'[r].outbox
<1> DEFINE d == db[r]
           n == db'[r]
<1>1. Changes(r, n)
  BY DbForms
<1>2. CASE \E c \in Cards : ReserveDelete(r, c) /\ n = NextLocalClock(d)
  BY <1>2 DEF NextLocalClock, TypeOK, Store
<1>3. CASE merge.at = r /\ n = merge.work
  BY <1>3, SomebodyIsAReplica DEF MergeInv
<1> QED
  BY <1>1, <1>2, <1>3 DEF Changes, Edits, Edited, BuriedNow, Materialized

LEMMA PublishedGrows ==
  ASSUME TypeOK, MergeInv, [Next]_vars
  PROVE  Published \subseteq Published'
<1> SUFFICES ASSUME NEW r \in Replicas, NEW e \in db[r].outbox
             PROVE  e \in Published'
  BY DEF Published
<1>1. e \in db'[r].outbox
  BY OutboxGrows
<1> QED
  BY <1>1 DEF Published

\* The markers and the outbox of one replica after a step.
LEMMA StampBooks ==
  ASSUME TypeOK, MergeInv, FloorInv, StampInv, [Next]_vars, NEW r \in Replicas
  PROVE  /\ UniqueMarkers(db'[r])
         /\ OutboxFromMarkers(db'[r], r)
         /\ UniqueOutbox(db'[r])
         /\ \A v \in deleting'[r] : Unused(v.seq, db'[r])
<1> DEFINE d == db[r]
           n == db'[r]
           Goal == /\ UniqueMarkers(n)
                   /\ OutboxFromMarkers(n, r)
                   /\ UniqueOutbox(n)
                   /\ \A v \in deleting'[r] : Unused(v.seq, n)
<1>0. /\ d \in Store /\ n \in Store
      /\ AtOrBelow(d)
      /\ UniqueMarkers(d)
      /\ OutboxFromMarkers(d, r)
      /\ UniqueOutbox(d)
      /\ \A v \in deleting[r] : Unused(v.seq, d)
  BY TypeNext DEF TypeOK, FloorInv, LamportFloor, StampInv
<1>1. Changes(r, n)
  BY DbForms
<1>2. \/ deleting'[r] \subseteq deleting[r]
      \/ \E c \in Cards : FindDoomed(r, c) \/ ReserveDelete(r, c)
  BY DeletingForms
<1>3. \A m \in d.pending \cup n.pending : m.seq \in Nat
  BY <1>0, ClocksAreNumbers
<1>4. CASE n.pending = d.pending /\ n.outbox = d.outbox
            /\ deleting'[r] \subseteq deleting[r]
  BY <1>0, <1>4 DEF UniqueMarkers, OutboxFromMarkers, UniqueOutbox, Unused
<1>11. ASSUME NEW c \in Cards, FindDoomed(r, c)
       PROVE  Goal
  <2>1. n = d /\ deleting'[r] = {[card |-> c, seq |-> NotReserved]}
    BY <1>11 DEF FindDoomed, TypeOK
  <2>2. \A v \in deleting'[r] : Unused(v.seq, n)
    BY <2>1 DEF Unused
  <2> QED
    BY <1>0, <2>1, <2>2
<1>5. CASE Edits(r, n)
  <2>1. /\ deleting'[r] = {}
        /\ n.outbox = d.outbox
        /\ d.pending \subseteq n.pending
    BY <1>5 DEF Edits, Edited, Commit
  <2>2. UniqueMarkers(n)
    <3> SUFFICES ASSUME NEW m1 \in n.pending, NEW m2 \in n.pending,
                        m1.seq = m2.seq
                 PROVE  m1 = m2
      BY DEF UniqueMarkers
    <3>1. \A m \in d.pending : m.seq <= d.clock
      BY <1>0 DEF AtOrBelow
    <3>2. \A m \in n.pending \ d.pending : d.clock < m.seq
      BY <1>5 DEF Edits, Edited
    <3>3. d.clock \in Nat
      BY <1>0, ClocksAreNumbers
    <3>4. m1 \in d.pending <=> m2 \in d.pending
      BY <1>3, <3>1, <3>2, <3>3
    <3> QED
      BY <1>0, <1>5, <3>4 DEF Edits, Edited, UniqueMarkers
  <2> QED
    BY <1>0, <2>1, <2>2 DEF OutboxFromMarkers, UniqueOutbox
<1>6. ASSUME NEW c \in Cards, ReserveDelete(r, c)
      PROVE  Goal
  <2>1. n = NextLocalClock(d)
    BY <1>6 DEF ReserveDelete, TypeOK
  <2>2. n.pending = d.pending /\ n.outbox = d.outbox
    BY <1>0, <2>1 DEF NextLocalClock, Store
  <2>3. deleting'[r] = {[card |-> c, seq |-> NextLocalClock(d).clock]}
    BY <1>6 DEF ReserveDelete, TypeOK
  <2>4. NextLocalClock(d).clock = d.clock + 1
    BY <1>0, NextLocalClockType
  <2>5. \A m \in d.pending : m.seq # d.clock + 1
    BY <1>0, <1>3, ClocksAreNumbers DEF AtOrBelow
  <2>6. \A v \in deleting'[r] : Unused(v.seq, n)
    BY <2>2, <2>3, <2>4, <2>5 DEF Unused
  <2> QED
    BY <1>0, <2>2, <2>6 DEF UniqueMarkers, OutboxFromMarkers, UniqueOutbox
<1>7. ASSUME NEW v \in deleting[r], v.seq # NotReserved, deleting'[r] = {},
             BuriedNow(d, n, r, v.card, v.seq)
      PROVE  Goal
  <2> DEFINE marker == [seq |-> v.seq, kind |-> "card.delete", entity |-> v.card]
  <2>1. n.pending = d.pending \cup {marker} /\ n.outbox = d.outbox
    BY <1>7 DEF BuriedNow
  <2>2. marker.seq = v.seq
    OBVIOUS
  <2>3. \A m \in d.pending : m.seq # v.seq
    BY <1>0, <1>7 DEF Unused
  <2> HIDE DEF marker
  <2>4. UniqueMarkers(n)
    BY <1>0, <2>1, <2>2, <2>3 DEF UniqueMarkers
  <2> QED
    BY <1>0, <1>7, <2>1, <2>4 DEF OutboxFromMarkers, UniqueOutbox
<1>8. CASE Materialized(d, n, r) /\ deleting'[r] = deleting[r]
  <2>1. /\ n.pending = d.pending
        /\ n.outbox = d.outbox \cup {MarkerEvent(d, r, m) : m \in Unmaterialized(d)}
    BY <1>8 DEF Materialized
  <2>2. \A m \in Unmaterialized(d) :
          /\ MarkerEvent(d, r, m).stamp.clock = m.seq
          /\ MarkerEvent(d, r, m).stamp.replica = r
    BY DEF MarkerEvent
  <2>3. \A m \in Unmaterialized(d) :
          m \in d.pending /\ \A e \in d.outbox : e.stamp.clock # m.seq
    BY DEF Unmaterialized
  <2>4. OutboxFromMarkers(n, r)
    <3> SUFFICES ASSUME NEW e \in n.outbox
                 PROVE  /\ e.stamp.replica = r
                        /\ \E m \in n.pending : m.seq = e.stamp.clock
      BY DEF OutboxFromMarkers
    <3>1. CASE e \in d.outbox
      BY <1>0, <2>1, <3>1 DEF OutboxFromMarkers
    <3>2. CASE e \notin d.outbox
      <4>1. PICK m \in Unmaterialized(d) : e = MarkerEvent(d, r, m)
        BY <2>1, <3>2
      <4> QED
        BY <2>1, <2>2, <2>3, <4>1
    <3> QED
      BY <3>1, <3>2
  <2>5. UniqueOutbox(n)
    <3> SUFFICES ASSUME NEW e1 \in n.outbox, NEW e2 \in n.outbox,
                        e1.stamp = e2.stamp
                 PROVE  e1 = e2
      BY DEF UniqueOutbox
    <3>1. CASE e1 \in d.outbox /\ e2 \in d.outbox
      BY <1>0, <3>1 DEF UniqueOutbox
    <3>2. CASE e1 \in d.outbox /\ e2 \notin d.outbox
      <4>1. PICK m \in Unmaterialized(d) : e2 = MarkerEvent(d, r, m)
        BY <2>1, <3>2
      <4> QED
        BY <2>2, <2>3, <3>2, <4>1
    <3>3. CASE e1 \notin d.outbox /\ e2 \in d.outbox
      <4>1. PICK m \in Unmaterialized(d) : e1 = MarkerEvent(d, r, m)
        BY <2>1, <3>3
      <4> QED
        BY <2>2, <2>3, <3>3, <4>1
    <3>4. CASE e1 \notin d.outbox /\ e2 \notin d.outbox
      <4>1. PICK m1 \in Unmaterialized(d) : e1 = MarkerEvent(d, r, m1)
        BY <2>1, <3>4
      <4>2. PICK m2 \in Unmaterialized(d) : e2 = MarkerEvent(d, r, m2)
        BY <2>1, <3>4
      <4>3. m1.seq = m2.seq
        BY <2>2, <4>1, <4>2
      <4>4. m1 = m2
        BY <1>0, <2>3, <4>3 DEF UniqueMarkers
      <4> QED
        BY <4>1, <4>2, <4>4
    <3> QED
      BY <3>1, <3>2, <3>3, <3>4
  <2> QED
    BY <1>0, <1>8, <2>1, <2>4, <2>5 DEF UniqueMarkers, Unused
<1>9. CASE merge.at = r /\ n = merge.work /\ merge.todo = {}
  <2>1. n.pending = d.pending /\ n.outbox = d.outbox
    BY <1>9, SomebodyIsAReplica DEF MergeInv
  <2>2. ~ \E c \in Cards : FindDoomed(r, c) \/ ReserveDelete(r, c)
    BY <1>9, IdleOwner, SomebodyIsAReplica
       DEF FindDoomed, ReserveDelete, PlannerReady, PlannerTurn
  <2> QED
    BY <1>2, <1>4, <2>1, <2>2
<1>10. CASE n = d
  BY <1>2, <1>4, <1>6, <1>10, <1>11
<1> QED
  BY <1>1, <1>5, <1>6, <1>7, <1>8, <1>9, <1>10 DEF Changes

\* Nobody holds an event that has not been published.
LEMMA StampHeld ==
  ASSUME TypeOK, MergeInv, StampInv, [Next]_vars
  PROVE  /\ \A r \in Replicas : db'[r].seen \cup staged'[r] \subseteq Published'
         /\ merge'.at # Nobody =>
              merge'.todo \cup merge'.work.seen \subseteq Published'
<1>0. Published \subseteq Published'
  BY PublishedGrows
<1>1. ASSUME NEW r \in Replicas
      PROVE  db'[r].seen \subseteq Published'
  <2>1. Changes(r, db'[r])
    BY DbForms
  <2>2. db'[r].seen = db[r].seen \/ (merge.at = r /\ db'[r] = merge.work)
    <3>1. CASE \E c \in Cards : ReserveDelete(r, c) /\ db'[r] = NextLocalClock(db[r])
      BY <3>1 DEF NextLocalClock, TypeOK, Store
    <3> QED
      BY <2>1, <3>1 DEF Changes, Edits, Edited, BuriedNow, Materialized
  <2> QED
    BY <1>0, <2>2, SomebodyIsAReplica DEF StampInv
<1>2. ASSUME NEW r \in Replicas
      PROVE  staged'[r] \subseteq Published'
  <2>1. ASSUME NEW q \in Replicas, NEW batch \in SmallBatch, StageBatch(q, batch)
        PROVE  staged'[r] \subseteq Published
    <3>1. batch \subseteq Published
      BY DEF SmallBatch
    <3> QED
      BY <2>1, <3>1 DEF StageBatch, StampInv, TypeOK
  <2>2. ASSUME NEW q \in Replicas, OpenMerge(q) \/ Crash(q)
        PROVE  staged'[r] \subseteq staged[r]
    BY <2>2 DEF OpenMerge, Crash, TypeOK
  <2>3. \/ staged'[r] \subseteq staged[r]
        \/ \E q \in Replicas : \E batch \in SmallBatch : StageBatch(q, batch)
    BY <2>2, PlannerForms
       DEF Next, Sync, Edits, Commit, FindDoomed, ReserveDelete, DeleteCard, Materialize,
           MergeEvent, AbortMerge, CommitMerge, vars
  <2> QED
    BY <1>0, <2>1, <2>3 DEF StampInv
<1>3. ASSUME merge'.at # Nobody
      PROVE  merge'.todo \cup merge'.work.seen \subseteq Published
  <2>1. CASE merge' = merge
    BY <1>3, <2>1 DEF StampInv
  <2>2. ASSUME NEW r \in Replicas, OpenMerge(r)
        PROVE  merge'.todo \cup merge'.work.seen \subseteq Published
    <3>1. PICK observed \in {e.stamp.clock : e \in staged[r]} :
            merge' = [at   |-> r,
                      todo |-> staged[r],
                      work |-> ObserveRemoteClock(db[r], observed)]
      BY <2>2 DEF OpenMerge
    <3>2. ObserveRemoteClock(db[r], observed).seen = db[r].seen
      BY DEF ObserveRemoteClock, TypeOK, Store
    <3> QED
      BY <3>1, <3>2 DEF StampInv
  <2>3. ASSUME NEW r \in Replicas, NEW e \in merge.todo, MergeEvent(r, e)
        PROVE  merge'.todo \cup merge'.work.seen \subseteq Published
    <3>1. /\ e \in Event
          /\ merge.work \in Store
      BY DEF TypeOK
    <3>2. /\ merge.at = r
          /\ merge'.todo \subseteq merge.todo
          /\ \/ merge'.work = merge.work
             \/ merge'.work = ApplyRemoteEvent(merge.work, e)
      BY <2>3 DEF MergeEvent, Merging, TypeOK
    <3>3. merge'.work.seen \subseteq merge.work.seen \cup {e}
      BY <3>1, <3>2, ApplyRemoteEventMerges DEF Merged
    <3> QED
      BY <3>2, <3>3, SomebodyIsAReplica DEF StampInv
  <2>4. CASE merge' = NoMerge
    BY <1>3, <2>4 DEF NoMerge
  <2>5. CASE UNCHANGED vars
    BY <2>1, <2>5 DEF vars
  <2> QED
    BY <2>1, <2>2, <2>3, <2>4, <2>5, PlannerForms
       DEF Next, Sync, Edits, Commit, FindDoomed, ReserveDelete, DeleteCard, Materialize,
           StageBatch, AbortMerge, CommitMerge, Crash
<1> QED
  BY <1>0, <1>1, <1>2, <1>3

LEMMA StampNext ==
  TypeOK /\ MergeInv /\ FloorInv /\ StampInv /\ [Next]_vars => StampInv'
  BY StampBooks, StampHeld DEF StampInv

LEMMA StampInvSuffices ==
  ASSUME StampInv
  PROVE  StampsIdentifyEvents
<1>1. KnownEvents \subseteq Published
  BY DEF KnownEvents, StampInv
<1>2. ASSUME NEW e1 \in Published, NEW e2 \in Published, e1.stamp = e2.stamp
      PROVE  e1 = e2
  <2>1. PICK r1 \in Replicas : e1 \in db[r1].outbox
    BY DEF Published
  <2>2. PICK r2 \in Replicas : e2 \in db[r2].outbox
    BY DEF Published
  <2>3. r1 = r2
    BY <1>2, <2>1, <2>2 DEF StampInv, OutboxFromMarkers
  <2> QED
    BY <1>2, <2>1, <2>2, <2>3 DEF StampInv, UniqueOutbox
<1> QED
  BY <1>1, <1>2 DEF StampsIdentifyEvents, StampInv, UniqueMarkers

\* One stamp, one event, everywhere and for good: no interleaving of edits,
\* two-transaction deletes, materializations and merges, crashes included, lets
\* a replica give one version to two markers or publish two bodies under it.
THEOREM StampsAreUnique == Spec => []StampsIdentifyEvents
<1> DEFINE Inv == TypeOK /\ MergeInv /\ FloorInv /\ StampInv
<1>1. Init => Inv
  BY TypeInit, MergeInvInit, FloorInit, StampInit
<1>2. Inv /\ [Next]_vars => Inv'
  BY TypeNext, MergeInvNext, FloorNext, StampNext
<1>3. Inv => StampsIdentifyEvents
  BY StampInvSuffices
<1> QED
  BY <1>1, <1>2, <1>3, PTL DEF Spec

-----------------------------------------------------------------------------
(* CardsSitInBoardColumns.  Merges work on a copy, which has to keep the   *)
(* reference too.                                                          *)

Sits(d) == \A c \in Cards : Present(d, c) => d.row[c].place.column \in d.columns

SitInv ==
  /\ \A r \in Replicas : Sits(db[r])
  /\ merge.at # Nobody => Sits(merge.work)

\* A marker concerns neither rows nor columns.
LEMMA EnqueueSits ==
  ASSUME NEW d \in Store, Sits(d), NEW kind, NEW entity
  PROVE  Sits(EnqueuePending(d, kind, entity))
<1>1. NextLocalClock(d).row = d.row /\ NextLocalClock(d).columns = d.columns
  BY DEF NextLocalClock, Store
<1>2. NextLocalClock(d) \in Store
  BY NextLocalClockType
<1> DEFINE n == EnqueuePending(d, kind, entity)
<1>3. n.row = d.row /\ n.columns = d.columns
  BY <1>1, <1>2 DEF EnqueuePending, Store
<1> QED
  BY <1>3 DEF Sits, Present

\* A batch with an event that names a foreign column is rolled back, so what
\* is merged sits; an edit that loses its place register keeps the old one.
LEMMA MergeSits ==
  ASSUME NEW d \in Store, Sits(d), NEW e \in Event, ~ Rejects(d, e)
  PROVE  Sits(ApplyRemoteEvent(d, e))
<1> DEFINE c == e.card
           put == ApplyCardPut(d, e)
           merged == IF e.op = "card.delete" THEN ApplyCardDelete(d, e) ELSE put
<1>1. c \in Cards
  BY DEF Event, PutEvent, DeleteEvent
<1>2. ASSUME e.op = "card.delete"
      PROVE  merged \in Store /\ Sits(merged)
  <2>1. e.stamp \in StampOrNone
    BY DEF Event, PutEvent, DeleteEvent, StampOrNone
  <2> QED
    BY <1>1, <1>2, <2>1 DEF ApplyCardDelete, Sits, Present, Store
<1>3. ASSUME e.op # "card.delete"
      PROVE  merged \in Store /\ Sits(merged)
  <2>1. /\ e.op = "card.put" /\ e.row \in Row /\ e.stamp \in StampOrNone
        /\ e.row # NoRow
    BY <1>3, NoRowAssumption DEF Event, PutEvent, DeleteEvent, StampOrNone
  <2>2. CASE Buried(d, c) \/ (~ Present(d, c) /\ "*" \notin e.mask)
    BY <1>3, <2>2 DEF ApplyCardPut
  <2>3. CASE ~ Buried(d, c) /\ (Present(d, c) \/ "*" \in e.mask)
    <3> DEFINE W == WinningFields(d, e)
               row == IF ~ Present(d, c) THEN e.row
                      ELSE [place    |-> IF "place" \in W
                                         THEN e.row.place ELSE d.row[c].place,
                            archived |-> IF "archived" \in W
                                         THEN e.row.archived ELSE d.row[c].archived]
               ver == [f \in Field |-> IF f \in W THEN e.stamp ELSE d.ver[c][f]]
    <3>1. "place" \in W => e.row.place.column \in d.columns
      BY <2>1, <2>3 DEF Rejects
    <3>2. ~ Present(d, c) => "place" \in W
      BY <2>3 DEF WinningFields, Touches, Field
    <3>3. row.place.column \in d.columns
      BY <1>1, <3>1, <3>2 DEF Sits
    <3>4. merged = [d EXCEPT !.row[c] = row, !.ver[c] = ver]
      BY <1>3, <2>3 DEF ApplyCardPut
    <3>5. row \in Row
      BY <1>1, <2>1 DEF Present, Store, Row
    <3>6. ver \in [Field -> StampOrNone]
      BY <1>1, <2>1 DEF Store
    <3> HIDE DEF row, ver, merged
    <3>7. merged \in Store
      BY <1>1, <3>4, <3>5, <3>6 DEF Store
    <3>8. /\ merged.row = [d.row EXCEPT ![c] = row]
          /\ merged.columns = d.columns
      BY <3>4 DEF Store
    <3>9. d.row \in [Cards -> Row \cup {NoRow}]
      BY DEF Store
    <3> HIDE DEF c
    <3>10. ASSUME NEW k \in Cards, Present(merged, k)
           PROVE  merged.row[k].place.column \in merged.columns
      <4>1. CASE k = c
        BY <1>1, <3>3, <3>8, <3>9, <4>1
      <4>2. CASE k # c
        BY <1>1, <3>8, <3>9, <3>10, <4>2 DEF Sits, Present
      <4> QED
        BY <4>1, <4>2
    <3> QED
      BY <3>7, <3>10 DEF Sits
  <2> QED
    BY <2>2, <2>3
<1>4. merged \in Store /\ Sits(merged)
  BY <1>2, <1>3
<1>5. ApplyRemoteEvent(d, e) = [merged EXCEPT !.seen = @ \cup {e}]
  BY DEF ApplyRemoteEvent
<1> HIDE DEF merged
<1> QED
  BY <1>4, <1>5 DEF Sits, Present, Store

LEMMA SitInit == Init => SitInv
<1> SUFFICES ASSUME Init PROVE SitInv
  OBVIOUS
<1>1. ASSUME NEW r \in Replicas
      PROVE  Sits(db[r])
  <2>1. PICK past \in [Replicas -> PastClocks] :
          db = [q \in Replicas |-> EmptyStore(BoardColumns, past[q])]
    BY DEF Init
  <2>2. db[r] = EmptyStore(BoardColumns, past[r])
    BY <2>1
  <2> QED
    BY <2>2 DEF EmptyStore, Sits, Present
<1> QED
  BY <1>1 DEF Init, SitInv, NoMerge

LEMMA SitCommit ==
  ASSUME TypeOK, SitInv, NEW r \in Replicas, NEW d, Sits(d), Commit(r, d)
  PROVE  SitInv'
  BY DEF TypeOK, SitInv, Commit, Sits, Present

\* The planner looks the column up before it writes it into a row.
LEMMA SitPlanner ==
  ASSUME TypeOK, SitInv, NEW r \in Replicas, Planner(r)
  PROVE  SitInv'
<1> DEFINE d == db[r]
<1>0. d \in Store /\ Sits(d)
  BY DEF TypeOK, SitInv
<1>1. ASSUME NEW k \in Columns, CreateColumn(r, k)
      PROVE  SitInv'
  <2> DEFINE e == [d EXCEPT !.columns = @ \cup {k}]
  <2>1. e \in Store /\ Sits(e)
    BY <1>0 DEF Store, Sits, Present
  <2>2. Commit(r, EnqueuePending(e, "column.create", k))
    BY <1>1 DEF CreateColumn, InsertColumn
  <2> QED
    BY <2>1, <2>2, EnqueueSits, SitCommit
<1>2. ASSUME NEW c \in Cards, NEW slot \in Slot, CreateCard(r, c, slot)
      PROVE  SitInv'
  <2> DEFINE e == [d EXCEPT !.row[c] = [place |-> slot, archived |-> FALSE]]
  <2>1. slot.column \in d.columns
    BY <1>2 DEF CreateCard
  <2>2. e \in Store /\ Sits(e)
    BY <1>0, <2>1 DEF Store, Row, Sits, Present
  <2>3. Commit(r, EnqueuePending(e, "card.create", c))
    BY <1>2 DEF CreateCard, InsertCard
  <2> QED
    BY <2>2, <2>3, EnqueueSits, SitCommit
<1>3. ASSUME NEW c \in Cards, NEW slot \in Slot, MoveCard(r, c, slot)
      PROVE  SitInv'
  <2> DEFINE e == [d EXCEPT !.row[c].place = slot]
  <2>1. slot.column \in d.columns /\ d.row[c] \in Row
    BY <1>0, <1>3 DEF MoveCard, Present, Store
  <2>2. e \in Store /\ Sits(e)
    BY <1>0, <2>1 DEF Store, Row, Sits, Present
  <2>3. Commit(r, EnqueuePending(e, "card.move", c))
    BY <1>3 DEF MoveCard, PlaceCard
  <2> QED
    BY <2>2, <2>3, EnqueueSits, SitCommit
<1>4. ASSUME NEW c \in Cards, NEW archived \in BOOLEAN, SetCardArchived(r, c, archived)
      PROVE  SitInv'
  <2> DEFINE e == [d EXCEPT !.row[c].archived = archived]
             kind == IF archived THEN "card.archive" ELSE "card.unarchive"
  <2>1. d.row[c] \in Row /\ Present(d, c)
    BY <1>0, <1>4 DEF SetCardArchived, Present, Store
  <2>2. e \in Store /\ Sits(e)
    BY <1>0, <2>1 DEF Store, Row, Sits, Present
  <2>3. Commit(r, EnqueuePending(e, kind, c))
    BY <1>4 DEF SetCardArchived, ArchiveCard
  <2> QED
    BY <2>2, <2>3, EnqueueSits, SitCommit
<1>5. ASSUME NEW c1 \in Cards, NEW c2 \in Cards, NEW rank1 \in Ranks,
             NEW rank2 \in Ranks, SwapCardOrder(r, c1, rank1, c2, rank2)
      PROVE  SitInv'
  <2> DEFINE e1 == [d EXCEPT !.row[c1].place.rank = rank1]
             e2 == [d EXCEPT !.row[c1].place.rank = rank1,
                             !.row[c2].place.rank = rank2]
             n1 == EnqueuePending(e2, "card.move", c1)
  <2>1. /\ d.row[c1] \in Row /\ d.row[c2] \in Row /\ c1 # c2
        /\ Present(d, c1) /\ Present(d, c2)
    BY <1>0, <1>5 DEF SwapCardOrder, Present, Store
  <2>2. e1 \in Store /\ Sits(e1) /\ e1.row[c2] = d.row[c2]
    BY <1>0, <2>1 DEF Store, Row, Slot, Sits, Present
  <2>3. e2 = [e1 EXCEPT !.row[c2].place.rank = rank2]
    OBVIOUS
  <2>4. e2 \in Store /\ Sits(e2)
    <3> HIDE DEF e1, e2
    <3> QED
      BY <2>1, <2>2, <2>3 DEF Store, Row, Slot, Sits, Present
  <2>5. Commit(r, EnqueuePending(n1, "card.move", c2))
    BY <1>5 DEF SwapCardOrder, ReorderCards
  <2> HIDE DEF e2
  <2>6. n1 \in Store /\ Sits(n1)
    BY <2>4, EnqueuePendingType, EnqueueSits DEF CardKind, EditKind
  <2> QED
    BY <2>5, <2>6, EnqueueSits, SitCommit
<1>6. ASSUME NEW c \in Cards, FindDoomed(r, c) \/ ReserveDelete(r, c)
      PROVE  SitInv'
  <2>1. CASE FindDoomed(r, c)
    BY <2>1 DEF FindDoomed, SitInv, Sits, Present
  <2>2. CASE ReserveDelete(r, c)
    <3>1. Sits(NextLocalClock(d))
      BY <1>0 DEF NextLocalClock, Store, Sits, Present
    <3>2. db' = [db EXCEPT ![r] = NextLocalClock(d)] /\ merge' = merge
      BY <2>2 DEF ReserveDelete
    <3> QED
      BY <3>1, <3>2 DEF TypeOK, SitInv, Sits, Present
  <2> QED
    BY <1>6, <2>1, <2>2
<1>7. ASSUME DeleteCard(r)
      PROVE  SitInv'
  <2>1. PICK v \in deleting[r] :
          db' = [db EXCEPT ![r] = BuryCard(d, r, v.card, v.seq)] /\ merge' = merge
    BY <1>7 DEF DeleteCard
  <2>2. v.card \in Cards
    BY DEF TypeOK, Delete
  <2>3. Sits(BuryCard(d, r, v.card, v.seq))
    BY <1>0, <2>2 DEF BuryCard, Store, Sits, Present
  <2> QED
    BY <2>1, <2>3 DEF TypeOK, SitInv, Sits, Present
<1> QED
  BY <1>1, <1>2, <1>3, <1>4, <1>5, <1>6, <1>7 DEF Planner

LEMMA SitSync ==
  ASSUME TypeOK, SitInv, NEW r \in Replicas, Sync(r)
  PROVE  SitInv'
<1> DEFINE d == db[r]
<1>0. d \in Store /\ Sits(d)
  BY DEF TypeOK, SitInv
<1>1. Sits(MaterializePending(d, r))
  BY <1>0 DEF MaterializePending, Store, Sits, Present
<1>2. CASE Materialize(r)
  BY <1>1, <1>2, SitCommit DEF Materialize
<1>3. ASSUME NEW batch \in SmallBatch, StageBatch(r, batch)
      PROVE  SitInv'
  <2>1. db' = [db EXCEPT ![r] = MaterializePending(d, r)] /\ merge' = merge
    BY <1>3 DEF StageBatch
  <2> QED
    BY <1>1, <2>1 DEF TypeOK, SitInv, Sits, Present
<1>4. CASE OpenMerge(r)
  <2>1. PICK observed : merge' = [at   |-> r,
                                  todo |-> staged[r],
                                  work |-> ObserveRemoteClock(d, observed)]
    BY <1>4 DEF OpenMerge
  <2>2. Sits(ObserveRemoteClock(d, observed))
    BY <1>0 DEF ObserveRemoteClock, Store, Sits, Present
  <2>3. db' = db
    BY <1>4 DEF OpenMerge
  <2> QED
    BY <2>1, <2>2, <2>3 DEF SitInv, Sits, Present
<1>5. ASSUME NEW e \in merge.todo, MergeEvent(r, e)
      PROVE  SitInv'
  <2>1. e \in Event /\ merge.work \in Store /\ Sits(merge.work)
    BY <1>5, SomebodyIsAReplica DEF MergeEvent, Merging, TypeOK, SitInv
  <2>2. \/ merge'.work = merge.work
        \/ /\ merge'.work = ApplyRemoteEvent(merge.work, e)
           /\ ~ Rejects(merge.work, e)
    BY <1>5 DEF MergeEvent, TypeOK
  <2>3. Sits(merge'.work)
    BY <2>1, <2>2, MergeSits
  <2>4. db' = db
    BY <1>5 DEF MergeEvent
  <2> QED
    BY <2>3, <2>4 DEF SitInv, Sits, Present
<1>6. CASE AbortMerge(r)
  BY <1>6 DEF AbortMerge, NoMerge, SitInv, Sits, Present
<1>7. CASE CommitMerge(r)
  <2>1. Sits(merge.work)
    BY <1>7, SomebodyIsAReplica DEF CommitMerge, Merging, SitInv
  <2>2. db' = [db EXCEPT ![r] = merge.work] /\ merge' = NoMerge
    BY <1>7 DEF CommitMerge
  <2> QED
    BY <2>1, <2>2 DEF TypeOK, NoMerge, SitInv, Sits, Present
<1> QED
  BY <1>2, <1>3, <1>4, <1>5, <1>6, <1>7 DEF Sync

LEMMA SitNext == TypeOK /\ SitInv /\ [Next]_vars => SitInv'
<1> SUFFICES ASSUME TypeOK, SitInv, [Next]_vars PROVE SitInv'
  OBVIOUS
<1>1. ASSUME NEW r \in Replicas, Crash(r)
      PROVE  SitInv'
  BY <1>1 DEF Crash, NoMerge, SitInv, Sits, Present
<1>2. CASE UNCHANGED vars
  BY <1>2 DEF vars, SitInv, Sits, Present
<1> QED
  BY <1>1, <1>2, SitPlanner, SitSync DEF Next

\* Cards only ever sit in columns of their board, though events name columns the
\* replica never had and a batch may be rolled back half way (sync.rs,
\* column_in_board).
THEOREM ColumnsHoldCards == Spec => []CardsSitInBoardColumns
<1> DEFINE Inv == TypeOK /\ SitInv
<1>1. Init => Inv
  BY TypeInit, SitInit
<1>2. Inv /\ [Next]_vars => Inv'
  BY TypeNext, SitNext
<1>3. Inv => CardsSitInBoardColumns
  BY DEF SitInv, Sits, CardsSitInBoardColumns
<1> QED
  BY <1>1, <1>2, <1>3, PTL DEF Spec

=============================================================================
