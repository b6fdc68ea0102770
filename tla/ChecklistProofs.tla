---------------------------- MODULE ChecklistProofs ----------------------------
(***************************************************************************)
(* Theorems of ChecklistSync, for any set of devices, cards, checklists    *)
(* and items, any worlds, any clock limit and batch size.                  *)
(***************************************************************************)
EXTENDS ChecklistSync, WellFoundedInduction, TLAPS

\* Newer is a strict order, total but for ties, with NoStamp at the bottom.
LEMMA StampOrder ==
  /\ \A a \in StampOrNone : a.clock \in Nat /\ a.replica \in Nat
  /\ \A a \in Stamp : a.replica > 0 /\ a # NoStamp /\ a \in StampOrNone
  /\ NoStamp \in StampOrNone /\ NoStamp.clock = 0
  /\ \A a \in Stamp : Newer(a, NoStamp)
<1>1. ASSUME NEW a \in StampOrNone
      PROVE  a.clock \in Nat /\ a.replica \in Nat
  <2>1. CASE a \in Stamp
    BY <2>1, ReplicasAssumption DEF Stamp
  <2>2. CASE a = NoStamp
    BY <2>2 DEF NoStamp
  <2> QED
    BY <2>1, <2>2 DEF StampOrNone
<1>2. ASSUME NEW a \in Stamp
      PROVE  a.replica > 0 /\ a # NoStamp /\ a \in StampOrNone
  <2>1. a.replica \in Nat \ {0}
    BY ReplicasAssumption DEF Stamp
  <2> QED
    BY <2>1 DEF NoStamp, StampOrNone
<1>3. NoStamp \in StampOrNone /\ NoStamp.clock = 0
  BY DEF NoStamp, StampOrNone
<1>4. \A a \in Stamp : Newer(a, NoStamp)
  BY <1>1, <1>2 DEF NoStamp, Newer
<1> QED
  BY <1>1, <1>2, <1>3, <1>4

\* What lies above a part.
LEMMA AncestorFacts ==
  /\ \A p \in Part : Ancestors(p) \subseteq Part /\ p \notin Ancestors(p)
  /\ \A p \in Part : \A q \in Ancestors(p) : Ancestors(q) \subseteq Ancestors(p)
  /\ \A c \in Cards : Ancestors(c) = {}
  /\ \A l \in Lists : /\ Parent[l] \in Cards /\ Ancestors(l) = {Parent[l]}
  /\ \A i \in Items : /\ Parent[i] \in Lists /\ Parent[Parent[i]] \in Cards
                      /\ Ancestors(i) = {Parent[i]} \cup Ancestors(Parent[i])
<1>1. \A c \in Cards : Ancestors(c) = {}
  BY PartsAssumption DEF Ancestors
<1>2. \A l \in Lists : Parent[l] \in Cards /\ Ancestors(l) = {Parent[l]}
  BY PartsAssumption DEF Ancestors
<1>3. \A i \in Items : /\ Parent[i] \in Lists /\ Parent[Parent[i]] \in Cards
                       /\ Ancestors(i) = {Parent[i], Parent[Parent[i]]}
  BY PartsAssumption DEF Ancestors
<1>4. \A i \in Items : Ancestors(i) = {Parent[i]} \cup Ancestors(Parent[i])
  BY <1>2, <1>3
<1>5. \A p \in Part : Ancestors(p) \subseteq Part /\ p \notin Ancestors(p)
  BY <1>1, <1>2, <1>3, PartsAssumption DEF Part
<1>6. \A p \in Part : \A q \in Ancestors(p) : Ancestors(q) \subseteq Ancestors(p)
  BY <1>1, <1>2, <1>3, <1>4 DEF Part
<1> QED
  BY <1>1, <1>2, <1>3, <1>4, <1>5, <1>6

LEMMA SnapshotPartsClosed ==
  \A p \in SnapshotParts : p \in Part /\ Ancestors(p) \subseteq SnapshotParts
<1> SUFFICES ASSUME NEW p \in SnapshotParts
             PROVE  p \in Part /\ Ancestors(p) \subseteq SnapshotParts
  OBVIOUS
<1>1. p \in Part
  BY PartsAssumption
<1>2. CASE p \in Cards
  BY <1>1, <1>2, AncestorFacts
<1>3. CASE p \in Lists
  BY <1>3, AncestorFacts, PartsAssumption
<1>4. CASE p \in Items
  <2>1. Parent[p] \in Lists \cap SnapshotParts
    BY <1>4, AncestorFacts, PartsAssumption
  <2>2. Parent[Parent[p]] \in SnapshotParts
    BY <2>1, PartsAssumption
  <2> QED
    BY <1>1, <1>4, <2>1, <2>2, AncestorFacts
<1> QED
  BY <1>1, <1>2, <1>3, <1>4 DEF Part

-----------------------------------------------------------------------------
(* What the transactions do to a store.                                    *)

LEMMA BoardStoreType ==
  ASSUME NEW columns \in BOOLEAN, NEW rows \in SUBSET Part,
         NEW minted \in BOOLEAN
  PROVE  BoardStore(columns, rows, minted) \in Store
  BY DEF BoardStore, Store, StampOrNone

LEMMA StoreFields ==
  ASSUME NEW d \in Store
  PROVE  /\ d.clock \in Nat /\ d.minted \in BOOLEAN /\ d.columns \in BOOLEAN
         /\ d.rows \in SUBSET Part /\ d.done \in SUBSET Items
         /\ d.tomb \in [Part -> StampOrNone]
         /\ d.ver \in [Part \cup {Board} -> [Field -> StampOrNone]]
         /\ d.appearance \in StampOrNone
         /\ d.pending \in SUBSET Marker /\ d.outbox \in SUBSET Event
         /\ d.seen \in SUBSET Event
  BY DEF Store

LEMMA StoreUpdates ==
  ASSUME NEW d \in Store
  PROVE  /\ \A x \in Nat : [d EXCEPT !.clock = x] \in Store
         /\ \A x \in BOOLEAN : [d EXCEPT !.minted = x] \in Store
         /\ \A x \in BOOLEAN : [d EXCEPT !.columns = x] \in Store
         /\ \A x \in SUBSET Part : [d EXCEPT !.rows = x] \in Store
         /\ \A x \in SUBSET Items : [d EXCEPT !.done = x] \in Store
         /\ \A x \in [Part -> StampOrNone] : [d EXCEPT !.tomb = x] \in Store
         /\ \A x \in [Part \cup {Board} -> [Field -> StampOrNone]] :
              [d EXCEPT !.ver = x] \in Store
         /\ \A x \in StampOrNone : [d EXCEPT !.appearance = x] \in Store
         /\ \A x \in SUBSET Marker : [d EXCEPT !.pending = x] \in Store
         /\ \A x \in SUBSET Event : [d EXCEPT !.outbox = x] \in Store
         /\ \A x \in SUBSET Event : [d EXCEPT !.seen = x] \in Store
  BY DEF Store
\* Everything but the rows, the marks and the appearance after an edit.
Ticked(d, n, kind, p) ==
  /\ n.clock = d.clock + 1
  /\ n.columns = d.columns /\ n.tomb = d.tomb /\ n.ver = d.ver
  /\ n.outbox = d.outbox /\ n.seen = d.seen
  /\ n.pending = d.pending \cup
       {[seq |-> d.clock + 1, kind |-> kind, entity |-> p]}

LEMMA TickedType ==
  ASSUME NEW d \in Store, NEW kind \in MarkerKind,
         NEW p \in Part \cup {Board}
  PROVE  /\ d.clock + 1 \in Nat
         /\ d.pending \cup {[seq |-> d.clock + 1, kind |-> kind, entity |-> p]}
              \in SUBSET Marker
<1>1. d.clock + 1 \in Nat
  BY StoreFields
<1>2. [seq |-> d.clock + 1, kind |-> kind, entity |-> p] \in Marker
  BY <1>1 DEF Marker
<1> QED
  BY <1>1, <1>2, StoreFields

LEMMA InsertPartEffect ==
  ASSUME NEW d \in Store, NEW p \in Part, NEW kind \in MarkerKind
  PROVE  LET n == InsertPart(d, kind, p)
         IN  /\ n \in Store
             /\ Ticked(d, n, kind, p)
             /\ n.minted
             /\ n.rows = d.rows \cup {p} /\ n.done = d.done
             /\ n.appearance = d.appearance
<1> DEFINE n == InsertPart(d, kind, p)
           pending == d.pending \cup
                        {[seq |-> d.clock + 1, kind |-> kind, entity |-> p]}
           d1 == [d EXCEPT !.rows = @ \cup {p}]
           d2 == [d1 EXCEPT !.clock = d.clock + 1]
           d3 == [d2 EXCEPT !.minted = TRUE]
           d4 == [d3 EXCEPT !.pending = pending]
<1>1. d.rows \cup {p} \in SUBSET Part /\ d.clock + 1 \in Nat
  BY StoreFields
<1>2. pending \in SUBSET Marker
  BY TickedType
<1>3. n = d4
  BY DEF InsertPart, Mark, NextLocalClock, Store
<1>4. Ticked(d, n, kind, p) /\ n.rows = d.rows \cup {p} /\ n.done = d.done
  BY <1>3 DEF Ticked, Store
<1>5. n.minted /\ n.appearance = d.appearance
  BY <1>3 DEF Store
<1>6. d3 \in Store
  BY <1>1, StoreUpdates
<1> HIDE DEF d3, pending
<1>7. d4 \in Store
  BY <1>2, <1>6, StoreUpdates
<1> QED
  BY <1>3, <1>4, <1>5, <1>7

LEMMA UpdateDoneEffect ==
  ASSUME NEW d \in Store, NEW i \in Items, NEW done \in BOOLEAN
  PROVE  LET n == UpdateDone(d, i, done)
         IN  /\ n \in Store
             /\ Ticked(d, n, "checklist.item.update", i)
             /\ n.minted
             /\ n.rows = d.rows
             /\ done => n.done = d.done \cup {i}
             /\ ~ done => n.done = d.done \ {i}
             /\ n.appearance = d.appearance
<1> DEFINE n == UpdateDone(d, i, done)
           pending == d.pending \cup {[seq |-> d.clock + 1,
                        kind |-> "checklist.item.update", entity |-> i]}
           marked == IF done THEN d.done \cup {i} ELSE d.done \ {i}
           d1 == [d EXCEPT !.done = marked]
           d2 == [d1 EXCEPT !.clock = d.clock + 1]
           d3 == [d2 EXCEPT !.minted = TRUE]
           d4 == [d3 EXCEPT !.pending = pending]
<1>1. marked \in SUBSET Items /\ d.clock + 1 \in Nat
  BY StoreFields
<1>2. pending \in SUBSET Marker
  BY TickedType DEF MarkerKind, Part
<1>3. n = d4
  BY DEF UpdateDone, Mark, NextLocalClock, Store
<1> HIDE DEF marked
<1>4. Ticked(d, n, "checklist.item.update", i) /\ n.done = marked
  BY <1>3 DEF Ticked, Store
<1>5. n.minted /\ n.appearance = d.appearance /\ n.rows = d.rows
  BY <1>3 DEF Store
<1>6. d3 \in Store
  BY <1>1, StoreUpdates
<1> HIDE DEF d3, pending
<1>7. d4 \in Store
  BY <1>2, <1>6, StoreUpdates
<1> QED
  BY <1>4, <1>5, <1>7, <1>3 DEF marked, n

LEMMA ChooseAppearanceEffect ==
  ASSUME NEW d \in Store, NEW r \in Replicas
  PROVE  LET n == ChooseAppearance(d, r)
         IN  /\ n \in Store
             /\ Ticked(d, n, "board.appearance.put", Board)
             /\ n.minted = d.minted
             /\ n.rows = d.rows /\ n.done = d.done
             /\ n.appearance = [clock |-> d.clock + 1, replica |-> r]
<1> DEFINE n == ChooseAppearance(d, r)
           pending == d.pending \cup {[seq |-> d.clock + 1,
                        kind |-> "board.appearance.put", entity |-> Board]}
           s == [clock |-> d.clock + 1, replica |-> r]
           d1 == [d EXCEPT !.clock = d.clock + 1]
           d2 == [d1 EXCEPT !.appearance = s]
           d3 == [d2 EXCEPT !.pending = pending]
<1>1. s \in StampOrNone /\ d.clock + 1 \in Nat
  BY StoreFields DEF Stamp, StampOrNone
<1>2. pending \in SUBSET Marker
  BY TickedType DEF MarkerKind
<1>3. n = d3
  BY DEF ChooseAppearance, Mark, Store
<1>4. /\ Ticked(d, n, "board.appearance.put", Board)
      /\ n.appearance = s
  BY <1>3 DEF Ticked, Store
<1>5. n.minted = d.minted /\ n.rows = d.rows /\ n.done = d.done
  BY <1>3 DEF Store
<1> HIDE DEF s, d1
<1>8. d1 \in Store
  BY <1>1, StoreUpdates DEF d1
<1>6. d2 \in Store
  BY <1>1, <1>8, StoreUpdates
<1> HIDE DEF d2, pending
<1>7. d3 \in Store
  BY <1>2, <1>6, StoreUpdates
<1> QED
  BY <1>3, <1>4, <1>5, <1>7 DEF s

\* A tick or an observed clock leaves the rest of the store alone.
SameBut(d, n) ==
  /\ n.columns = d.columns /\ n.tomb = d.tomb /\ n.ver = d.ver
  /\ n.outbox = d.outbox /\ n.seen = d.seen
  /\ n.pending = d.pending /\ n.rows = d.rows /\ n.done = d.done
  /\ n.appearance = d.appearance

LEMMA NextLocalClockEffect ==
  ASSUME NEW d \in Store
  PROVE  LET n == NextLocalClock(d)
         IN  n \in Store /\ n.clock = d.clock + 1 /\ n.minted /\ SameBut(d, n)
<1> DEFINE n == NextLocalClock(d)
           d1 == [d EXCEPT !.clock = d.clock + 1]
           d2 == [d1 EXCEPT !.minted = TRUE]
<1>1. n = d2
  BY DEF NextLocalClock, Store
<1>5. d.clock + 1 \in Nat
  BY StoreFields
<1>2. d1 \in Store
  BY <1>5, StoreUpdates
<1>3. d2 \in Store
  BY <1>2, StoreUpdates
<1>4. n.clock = d.clock + 1 /\ n.minted /\ SameBut(d, n)
  BY DEF NextLocalClock, Store, SameBut
<1> QED
  BY <1>1, <1>3, <1>4

LEMMA ObserveEffect ==
  ASSUME NEW d \in Store, NEW observed \in Nat
  PROVE  LET n == ObserveRemoteClock(d, observed)
         IN  /\ n \in Store
             /\ n.clock >= d.clock /\ n.clock >= observed
             /\ n.minted = d.minted /\ SameBut(d, n)
<1>1. ObserveRemoteClock(d, observed) \in Store
  BY StoreFields, StoreUpdates DEF ObserveRemoteClock
<1>2. LET n == ObserveRemoteClock(d, observed)
      IN  /\ n.clock >= d.clock /\ n.clock >= observed
          /\ n.minted = d.minted /\ SameBut(d, n)
  BY StoreFields DEF ObserveRemoteClock, Store, SameBut
<1> QED
  BY <1>1, <1>2

\* Rows that go, with their marks.
LEMMA RemoveRowsType ==
  ASSUME NEW d \in Store, NEW gone
  PROVE  LET n == RemoveRows(d, gone)
         IN  /\ n \in Store
             /\ n.clock = d.clock /\ n.minted = d.minted
             /\ n.columns = d.columns /\ n.tomb = d.tomb /\ n.ver = d.ver
             /\ n.outbox = d.outbox /\ n.seen = d.seen
             /\ n.pending = d.pending /\ n.appearance = d.appearance
             /\ n.rows = d.rows \ gone /\ n.done = d.done \ gone
<1> DEFINE d1 == [d EXCEPT !.rows = d.rows \ gone]
           d2 == [d1 EXCEPT !.done = d.done \ gone]
           n == RemoveRows(d, gone)
<1>1. n = d2
  BY DEF RemoveRows, Store
<1>2. d1 \in Store
  BY StoreFields, StoreUpdates
<1>3. d2 \in Store
  BY <1>2, StoreFields, StoreUpdates
<1>4. /\ n.clock = d.clock /\ n.minted = d.minted
      /\ n.columns = d.columns /\ n.tomb = d.tomb /\ n.ver = d.ver
      /\ n.outbox = d.outbox /\ n.seen = d.seen
      /\ n.pending = d.pending /\ n.appearance = d.appearance
      /\ n.rows = d.rows \ gone /\ n.done = d.done \ gone
  BY DEF RemoveRows, Store
<1> QED
  BY <1>1, <1>3, <1>4

LEMMA BuryPartEffect ==
  ASSUME NEW d \in Store, NEW r \in Replicas, NEW p \in Part, NEW seq \in Nat
  PROVE  LET n == BuryPart(d, r, p, seq)
             version == [clock |-> seq, replica |-> r]
         IN  /\ n \in Store
             /\ n.clock = d.clock /\ n.minted = d.minted
             /\ n.columns = d.columns /\ n.ver = d.ver
             /\ n.outbox = d.outbox /\ n.seen = d.seen
             /\ n.appearance = d.appearance
             /\ n.pending = d.pending \cup
                  {[seq |-> seq, kind |-> DeleteKind(p), entity |-> p]}
             /\ n.rows = d.rows \ Subtree(p) /\ n.done = d.done \ Subtree(p)
             /\ n.tomb = [d.tomb EXCEPT ![p] = IF Newer(version, @) THEN version
                                                                     ELSE @]
<1> DEFINE n == BuryPart(d, r, p, seq)
           version == [clock |-> seq, replica |-> r]
           m == [seq |-> seq, kind |-> DeleteKind(p), entity |-> p]
           tomb == [d.tomb EXCEPT ![p] = IF Newer(version, @) THEN version ELSE @]
           d1 == RemoveRows(d, Subtree(p))
           d2 == [d1 EXCEPT !.tomb = tomb]
           d3 == [d2 EXCEPT !.pending = d.pending \cup {m}]
<1>1. m \in Marker
  BY DEF Marker, MarkerKind, DeleteKind, Part
<1>2. tomb \in [Part -> StampOrNone]
  BY StoreFields DEF Stamp, StampOrNone
<1>3. /\ d1 \in Store
      /\ d1.clock = d.clock /\ d1.minted = d.minted
      /\ d1.columns = d.columns /\ d1.tomb = d.tomb /\ d1.ver = d.ver
      /\ d1.outbox = d.outbox /\ d1.seen = d.seen
      /\ d1.pending = d.pending /\ d1.appearance = d.appearance
      /\ d1.rows = d.rows \ Subtree(p) /\ d1.done = d.done \ Subtree(p)
  BY RemoveRowsType
<1> HIDE DEF d1
<1>4. n = d3
  BY <1>3 DEF BuryPart, Store, d1
<1> HIDE DEF m, tomb
<1>5. d2 \in Store
  BY <1>2, <1>3, StoreUpdates
<1>6. d3 \in Store
  BY <1>1, <1>5, StoreFields, StoreUpdates
<1>7. /\ d3.clock = d1.clock /\ d3.minted = d1.minted
      /\ d3.columns = d1.columns /\ d3.ver = d1.ver
      /\ d3.outbox = d1.outbox /\ d3.seen = d1.seen
      /\ d3.appearance = d1.appearance
      /\ d3.pending = d.pending \cup {m}
      /\ d3.rows = d1.rows /\ d3.done = d1.done
      /\ d3.tomb = tomb
  BY <1>3 DEF Store
<1> HIDE DEF d3, n
<1>8. /\ n \in Store
      /\ n.clock = d.clock /\ n.minted = d.minted
      /\ n.columns = d.columns /\ n.ver = d.ver
      /\ n.outbox = d.outbox /\ n.seen = d.seen
      /\ n.appearance = d.appearance
      /\ n.pending = d.pending \cup {m}
      /\ n.rows = d.rows \ Subtree(p) /\ n.done = d.done \ Subtree(p)
      /\ n.tomb = tomb
  BY <1>3, <1>4, <1>6, <1>7
<1> QED
  BY <1>8 DEF m, tomb, n

-----------------------------------------------------------------------------
(* Materialization.                                                        *)

\* Markers in sequence order: some marker of a bounded set is the last one.
LEMMA LastMarkerExists ==
  ASSUME NEW M \in SUBSET Marker, M # {}, NEW bound \in Nat,
         \A m \in M : m.seq <= bound
  PROVE  \E m \in M : \A n \in M : n.seq <= m.seq
<1> DEFINE R == OpToRel(<, Nat)
           T == {bound - m.seq : m \in M}
<1>1. \A m \in M : m.seq \in Nat
  BY DEF Marker
<1>2. T \in SUBSET Nat /\ T # {}
  BY <1>1
<1>3. IsWellFoundedOn(R, Nat)
  BY NatLessThanWellFounded
<1>4. \A x, y \in Nat : <<x, y>> \in R <=> x < y
  BY DEF OpToRel
<1> HIDE DEF R, T
<1>5. PICK x \in T : \A y \in T : ~ (<<y, x>> \in R)
  BY <1>2, <1>3, WFMin
<1>6. ASSUME NEW y \in T
      PROVE  x <= y
  <2>1. ~ (<<y, x>> \in R)
    BY <1>5
  <2>2. y \in Nat /\ x \in Nat
    BY <1>2
  <2>3. <<y, x>> \in R <=> y < x
    BY <1>4, <2>2, Zenon
  <2> QED
    BY <2>1, <2>2, <2>3
<1>7. PICK m \in M : x = bound - m.seq
  BY DEF T
<1>8. \A n \in M : bound - m.seq <= bound - n.seq
  BY <1>6, <1>7 DEF T
<1> QED
  BY <1>1, <1>8

MarkersBelow(d) == \A m \in d.pending : 0 < m.seq /\ m.seq <= d.clock

Writers(d, r, p, f) ==
  {m \in Unmaterialized(d, r) : m.entity = p /\ f \in WrittenFields(m.kind)}

\* A version that materializing writes is that of the last marker that writes
\* the register.
LEMMA RecordedVersionIsLast ==
  ASSUME NEW d \in Store, NEW r \in Replicas, MarkersBelow(d), NEW p, NEW f
  PROVE  /\ Writers(d, r, p, f) = {} => RecordedVersion(d, r, p, f) = d.ver[p][f]
         /\ Writers(d, r, p, f) # {} =>
              \E m \in Writers(d, r, p, f) :
                /\ \A n \in Writers(d, r, p, f) : n.seq <= m.seq
                /\ RecordedVersion(d, r, p, f) = [clock |-> m.seq, replica |-> r]
<1> DEFINE W == Writers(d, r, p, f)
           last == CHOOSE m \in W : \A n \in W : n.seq <= m.seq
<1>1. W \subseteq d.pending /\ W \in SUBSET Marker
  BY StoreFields DEF Writers, Unmaterialized
<1>2. d.clock \in Nat
  BY StoreFields
<1>3. RecordedVersion(d, r, p, f) =
        IF W = {} THEN d.ver[p][f] ELSE [clock |-> last.seq, replica |-> r]
  BY DEF RecordedVersion, Writers
<1>4. ASSUME W # {}
      PROVE  last \in W /\ \A n \in W : n.seq <= last.seq
  <2>1. \E m \in W : \A n \in W : n.seq <= m.seq
    BY <1>1, <1>2, <1>4, LastMarkerExists DEF MarkersBelow
  <2> HIDE DEF W
  <2> QED
    BY <2>1
<1> HIDE DEF W, last
<1> QED
  BY <1>3, <1>4 DEF W

OpOf(kind) == CASE kind \in {"card.delete", "board.appearance.put"} -> kind
                [] kind = "card.create" -> "card.put"
                [] kind \in {"checklist.delete", "checklist.item.delete"}
                     -> "delta.delete"
                [] OTHER -> "delta.put"

CreationKind == {"card.create", "checklist.create", "checklist.item.create"}

\* Event e reports marker m of device r.
Reports(e, r, m) ==
  /\ e.stamp = [clock |-> m.seq, replica |-> r]
  /\ e.op = OpOf(m.kind) /\ e.entity = m.entity
  /\ e.all <=> m.kind \in CreationKind

LEMMA MarkerEventReports ==
  ASSUME NEW d \in Store, NEW r \in Replicas, NEW m \in Marker
  PROVE  /\ MarkerEvent(d, r, m) \in Event
         /\ Reports(MarkerEvent(d, r, m), r, m)
<1> DEFINE e == MarkerEvent(d, r, m)
<1>1. m.seq \in Nat /\ m.kind \in MarkerKind /\ m.entity \in Part \cup {Board}
  BY DEF Marker
<1>2. e = [stamp |-> [clock |-> m.seq, replica |-> r], op |-> OpOf(m.kind),
           entity |-> m.entity, all |-> m.kind \in CreationKind,
           isDone |-> m.entity \in d.done,
           settings |-> IF m.entity = Board THEN d.appearance ELSE NoStamp]
  BY DEF MarkerEvent, OpOf, CreationKind
<1>3. OpOf(m.kind) \in {"card.put", "card.delete", "delta.put", "delta.delete",
                        "board.appearance.put", "board.snapshot"}
  BY <1>1 DEF OpOf, MarkerKind
<1>4. (IF m.entity = Board THEN d.appearance ELSE NoStamp) \in StampOrNone
  BY StoreFields, StampOrder
<1>5. [clock |-> m.seq, replica |-> r] \in Stamp
  BY <1>1 DEF Stamp
<1> DEFINE settings == IF m.entity = Board THEN d.appearance ELSE NoStamp
           all == m.kind \in CreationKind
           isDone == m.entity \in d.done
           op == OpOf(m.kind)
           stamp == [clock |-> m.seq, replica |-> r]
<1>6. all \in BOOLEAN /\ isDone \in BOOLEAN
  OBVIOUS
<1>7. e = [stamp |-> stamp, op |-> op, entity |-> m.entity, all |-> all,
           isDone |-> isDone, settings |-> settings]
  BY <1>2
<1>8. /\ settings \in StampOrNone /\ stamp \in Stamp
      /\ op \in {"card.put", "card.delete", "delta.put", "delta.delete",
                 "board.appearance.put", "board.snapshot"}
  BY <1>3, <1>4, <1>5
<1> HIDE DEF settings, all, isDone, op, stamp, e
<1>9. e \in Event
  BY <1>1, <1>6, <1>7, <1>8 DEF Event
<1>10. /\ e.stamp = stamp /\ e.op = op /\ e.entity = m.entity
       /\ e.all = all
  BY <1>7
<1>11. Reports(e, r, m)
  BY <1>10 DEF Reports, stamp, op, all
<1> QED
  BY <1>9, <1>11 DEF e

LEMMA MaterializeEffect ==
  ASSUME NEW d \in Store, NEW r \in Replicas, MarkersBelow(d)
  PROVE  LET n == MaterializePending(d, r)
         IN  /\ n \in Store
             /\ n.clock = d.clock /\ n.minted = d.minted
             /\ n.columns = d.columns /\ n.tomb = d.tomb
             /\ n.seen = d.seen /\ n.pending = d.pending
             /\ n.rows = d.rows /\ n.done = d.done
             /\ n.appearance = d.appearance
             /\ n.outbox = d.outbox \cup
                  {MarkerEvent(d, r, m) : m \in Unmaterialized(d, r)}
             /\ \A p \in Part \cup {Board}, f \in Field :
                  n.ver[p][f] = RecordedVersion(d, r, p, f)
<1> DEFINE n == MaterializePending(d, r)
           events == {MarkerEvent(d, r, m) : m \in Unmaterialized(d, r)}
           ver == [p \in Part \cup {Board} |->
                    [f \in Field |-> RecordedVersion(d, r, p, f)]]
           d1 == [d EXCEPT !.outbox = d.outbox \cup events]
           d2 == [d1 EXCEPT !.ver = ver]
<1>1. d.outbox \cup events \in SUBSET Event
  <2>1. \A m \in Unmaterialized(d, r) : m \in Marker
    BY StoreFields DEF Unmaterialized
  <2>2. \A m \in Unmaterialized(d, r) : MarkerEvent(d, r, m) \in Event
    BY <2>1, MarkerEventReports
  <2> QED
    BY <2>2, StoreFields
<1>2. ASSUME NEW p \in Part \cup {Board}, NEW f \in Field
      PROVE  RecordedVersion(d, r, p, f) \in StampOrNone
  <2>1. CASE Writers(d, r, p, f) = {}
    BY <2>1, RecordedVersionIsLast, StoreFields
  <2>2. CASE Writers(d, r, p, f) # {}
    <3>1. PICK m \in Writers(d, r, p, f) :
            RecordedVersion(d, r, p, f) = [clock |-> m.seq, replica |-> r]
      BY <2>2, RecordedVersionIsLast
    <3>2. m.seq \in Nat
      BY StoreFields DEF Writers, Unmaterialized, Marker
    <3> QED
      BY <3>1, <3>2 DEF Stamp, StampOrNone
  <2> QED
    BY <2>1, <2>2
<1>3. ver \in [Part \cup {Board} -> [Field -> StampOrNone]]
  BY <1>2
<1>4. n = d2
  BY DEF MaterializePending, Store
<1> HIDE DEF events, ver
<1>5. d1 \in Store
  BY <1>1, StoreUpdates
<1>6. d2 \in Store
  BY <1>3, <1>5, StoreUpdates
<1>7. /\ d2.clock = d.clock /\ d2.minted = d.minted
      /\ d2.columns = d.columns /\ d2.tomb = d.tomb
      /\ d2.seen = d.seen /\ d2.pending = d.pending
      /\ d2.rows = d.rows /\ d2.done = d.done
      /\ d2.appearance = d.appearance
      /\ d2.outbox = d.outbox \cup events
      /\ d2.ver = ver
  BY DEF Store
<1>8. \A p \in Part \cup {Board}, f \in Field :
        ver[p][f] = RecordedVersion(d, r, p, f)
  BY DEF ver
<1> HIDE DEF d2
<1> QED
  BY <1>4, <1>6, <1>7, <1>8 DEF events

-----------------------------------------------------------------------------
(* Merging.                                                                *)

\* An event is about an entity of its kind.
EventFits(e) ==
  /\ e.op \in {"card.put", "card.delete"} => e.entity \in Cards
  /\ e.op \in {"delta.put", "delta.delete"} => e.entity \in Lists \cup Items
  /\ e.op \in {"board.appearance.put", "board.snapshot"} => e.entity = Board

\* What no merge touches.
Kept(d, n) ==
  n.clock = d.clock /\ n.minted = d.minted /\ n.outbox = d.outbox
    /\ n.pending = d.pending

\* The versions of the registers F of p become s, all others stay.
Stamped(d, n, p, F, s) ==
  \A q \in Part \cup {Board}, f \in Field :
    n.ver[q][f] = IF q = p /\ f \in F THEN s ELSE d.ver[q][f]

LEMMA EventFacts ==
  ASSUME NEW e \in Event
  PROVE  /\ e.stamp \in Stamp /\ e.stamp \in StampOrNone /\ e.stamp # NoStamp
         /\ e.stamp.clock \in Nat
         /\ e.entity \in Part \cup {Board}
         /\ e.all \in BOOLEAN /\ e.isDone \in BOOLEAN
         /\ e.settings \in StampOrNone
  BY StampOrder DEF Event, Stamp

LEMMA MergeCardPutEffect ==
  ASSUME NEW d \in Store, NEW e \in Event, e.entity \in Cards
  PROVE  LET n == MergeCardPut(d, e)
         IN  /\ n \in Store /\ Kept(d, n)
             /\ n.columns = d.columns /\ n.appearance = d.appearance
             /\ n.tomb = d.tomb /\ n.ver = d.ver /\ n.done = d.done
             /\ n.seen = d.seen
             /\ n.rows = IF Buried(d, e.entity) THEN d.rows
                                                ELSE d.rows \cup {e.entity}
<1> DEFINE n == MergeCardPut(d, e)
           d1 == [d EXCEPT !.rows = d.rows \cup {e.entity}]
<1>1. d1 \in Store
  <2>1. d.rows \cup {e.entity} \in SUBSET Part
    BY StoreFields DEF Part
  <2> QED
    BY <2>1, StoreUpdates
<1>2. n = IF Buried(d, e.entity) THEN d ELSE d1
  BY DEF MergeCardPut
<1>3. /\ Kept(d, d1)
      /\ d1.columns = d.columns /\ d1.appearance = d.appearance
      /\ d1.tomb = d.tomb /\ d1.ver = d.ver /\ d1.done = d.done
      /\ d1.seen = d.seen /\ d1.rows = d.rows \cup {e.entity}
  BY DEF Kept, Store
<1> HIDE DEF d1
<1> QED
  BY <1>1, <1>2, <1>3 DEF Kept

LEMMA MergeCardDeleteEffect ==
  ASSUME NEW d \in Store, NEW e \in Event, e.entity \in Cards,
         Newer(e.stamp, d.tomb[e.entity])
  PROVE  LET n == MergeCardDelete(d, e)
         IN  /\ n \in Store /\ Kept(d, n)
             /\ n.columns = d.columns /\ n.appearance = d.appearance
             /\ n.tomb = [d.tomb EXCEPT ![e.entity] = e.stamp]
             /\ n.ver = d.ver /\ n.seen = d.seen
             /\ n.rows = d.rows \ Subtree(e.entity)
             /\ n.done = d.done \ Subtree(e.entity)
<1> DEFINE d1 == RemoveRows(d, Subtree(e.entity))
           tomb == [d.tomb EXCEPT ![e.entity] = e.stamp]
           d2 == [d1 EXCEPT !.tomb = tomb]
<1>1. /\ d1 \in Store /\ Kept(d, d1)
      /\ d1.columns = d.columns /\ d1.tomb = d.tomb /\ d1.ver = d.ver
      /\ d1.seen = d.seen /\ d1.appearance = d.appearance
      /\ d1.rows = d.rows \ Subtree(e.entity)
      /\ d1.done = d.done \ Subtree(e.entity)
  BY RemoveRowsType DEF Kept
<1> HIDE DEF d1
<1>2. MergeCardDelete(d, e) = d2
  BY <1>1 DEF MergeCardDelete, Store, d1
<1>3. tomb \in [Part -> StampOrNone]
  BY EventFacts, StoreFields
<1> HIDE DEF tomb
<1>4. d2 \in Store
  BY <1>1, <1>3, StoreUpdates
<1>5. /\ Kept(d1, d2) /\ d2.columns = d1.columns
      /\ d2.appearance = d1.appearance /\ d2.tomb = tomb
      /\ d2.ver = d1.ver /\ d2.seen = d1.seen
      /\ d2.rows = d1.rows /\ d2.done = d1.done
  BY <1>1 DEF Kept, Store
<1> HIDE DEF d2
<1> QED
  BY <1>1, <1>2, <1>4, <1>5 DEF Kept, tomb

LEMMA MergeDeleteEffect ==
  ASSUME NEW d \in Store, NEW e \in Event, e.entity \in Part,
         Wins(d, e, "lifecycle")
  PROVE  LET n == MergeDelete(d, e)
         IN  /\ n \in Store /\ Kept(d, n)
             /\ n.columns = d.columns /\ n.appearance = d.appearance
             /\ n.tomb = [d.tomb EXCEPT ![e.entity] = e.stamp]
             /\ Stamped(d, n, e.entity, {"lifecycle"}, e.stamp)
             /\ n.seen = d.seen
             /\ n.rows = d.rows \ Subtree(e.entity)
             /\ n.done = d.done \ Subtree(e.entity)
<1> DEFINE d1 == RemoveRows(d, Subtree(e.entity))
           tomb == [d.tomb EXCEPT ![e.entity] = e.stamp]
           ver == [d.ver EXCEPT ![e.entity]["lifecycle"] = e.stamp]
           d2 == [d1 EXCEPT !.tomb = tomb]
           d3 == [d2 EXCEPT !.ver = ver]
<1>1. /\ d1 \in Store /\ Kept(d, d1)
      /\ d1.columns = d.columns /\ d1.tomb = d.tomb /\ d1.ver = d.ver
      /\ d1.seen = d.seen /\ d1.appearance = d.appearance
      /\ d1.rows = d.rows \ Subtree(e.entity)
      /\ d1.done = d.done \ Subtree(e.entity)
  BY RemoveRowsType DEF Kept
<1> HIDE DEF d1
<1>2. MergeDelete(d, e) = d3
  BY <1>1 DEF MergeDelete, Store, d1
<1>3. tomb \in [Part -> StampOrNone]
  BY EventFacts, StoreFields
<1>6. /\ ver \in [Part \cup {Board} -> [Field -> StampOrNone]]
      /\ \A q \in Part \cup {Board}, f \in Field :
           ver[q][f] = IF q = e.entity /\ f \in {"lifecycle"} THEN e.stamp
                                                         ELSE d.ver[q][f]
  BY EventFacts, StoreFields DEF Field
<1> HIDE DEF tomb, ver
<1>4. d2 \in Store
  BY <1>1, <1>3, StoreUpdates
<1>7. d3 \in Store
  BY <1>4, <1>6, StoreUpdates
<1>5. /\ Kept(d1, d3) /\ d3.columns = d1.columns
      /\ d3.appearance = d1.appearance /\ d3.tomb = tomb
      /\ d3.ver = ver /\ d3.seen = d1.seen
      /\ d3.rows = d1.rows /\ d3.done = d1.done
  BY <1>1 DEF Kept, Store
<1> HIDE DEF d2, d3
<1> QED
  BY <1>1, <1>2, <1>5, <1>6, <1>7 DEF Kept, tomb, Stamped

LEMMA CreateFromPutEffect ==
  ASSUME NEW d \in Store, NEW e \in Event, e.entity \in Part
  PROVE  LET n == CreateFromPut(d, e)
         IN  /\ n \in Store /\ Kept(d, n)
             /\ n.columns = d.columns /\ n.appearance = d.appearance
             /\ n.tomb = [d.tomb EXCEPT ![e.entity] = NoStamp]
             /\ Stamped(d, n, e.entity, Registers(e.entity), e.stamp)
             /\ n.seen = d.seen
             /\ n.rows = d.rows \cup {e.entity}
             /\ n.done = WriteDone(d.done, e)
<1> DEFINE tomb == [d.tomb EXCEPT ![e.entity] = NoStamp]
           ver == [d.ver EXCEPT ![e.entity] =
                     [f \in Field |-> IF f \in Registers(e.entity)
                                     THEN e.stamp ELSE @[f]]]
           done == WriteDone(d.done, e)
           d1 == [d EXCEPT !.rows = d.rows \cup {e.entity}]
           d2 == [d1 EXCEPT !.done = done]
           d3 == [d2 EXCEPT !.tomb = tomb]
           d4 == [d3 EXCEPT !.ver = ver]
           n == CreateFromPut(d, e)
<1>1. d.rows \cup {e.entity} \in SUBSET Part /\ done \in SUBSET Items
  BY StoreFields DEF WriteDone
<1>3. tomb \in [Part -> StampOrNone]
  BY StampOrder, StoreFields
<1>6. /\ ver \in [Part \cup {Board} -> [Field -> StampOrNone]]
      /\ \A q \in Part \cup {Board}, f \in Field :
           ver[q][f] = IF q = e.entity /\ f \in Registers(e.entity) THEN e.stamp
                                                        ELSE d.ver[q][f]
  BY EventFacts, StoreFields
<1>2. n = d4
  BY DEF CreateFromPut, Store
<1> HIDE DEF tomb, ver, done
<1>4. d1 \in Store /\ d2 \in Store
  BY <1>1, StoreUpdates
<1>7. d3 \in Store /\ d4 \in Store
  <2> HIDE DEF d2
  <2>1. d3 \in Store
    BY <1>3, <1>4, StoreUpdates
  <2> HIDE DEF d3
  <2> QED
    BY <1>6, <2>1, StoreUpdates
<1>8. /\ Kept(d, d4) /\ d4.columns = d.columns
      /\ d4.appearance = d.appearance /\ d4.tomb = tomb
      /\ d4.ver = ver /\ d4.seen = d.seen
      /\ d4.rows = d.rows \cup {e.entity} /\ d4.done = done
  BY DEF Kept, Store
<1> HIDE DEF d4
<1> QED
  BY <1>2, <1>6, <1>7, <1>8 DEF Kept, tomb, Stamped, done

UpdatedFields(d, e) == {f \in Registers(e.entity) : (f = "lifecycle" => e.all)
                                                     /\ Wins(d, e, f)}

LEMMA UpdateFromPutEffect ==
  ASSUME NEW d \in Store, NEW e \in Event, e.entity \in Part
  PROVE  LET n == UpdateFromPut(d, e)
             F == UpdatedFields(d, e)
         IN  /\ n \in Store /\ Kept(d, n)
             /\ n.columns = d.columns /\ n.appearance = d.appearance
             /\ n.tomb = [d.tomb EXCEPT ![e.entity] =
                            IF "lifecycle" \in F THEN NoStamp ELSE @]
             /\ Stamped(d, n, e.entity, F, e.stamp)
             /\ n.seen = d.seen
             /\ n.rows = d.rows
             /\ n.done = IF "isDone" \in F THEN WriteDone(d.done, e) ELSE d.done
<1> DEFINE F == UpdatedFields(d, e)
           tomb == [d.tomb EXCEPT ![e.entity] =
                      IF "lifecycle" \in F THEN NoStamp ELSE @]
           ver == [d.ver EXCEPT ![e.entity] =
                     [f \in Field |-> IF f \in F THEN e.stamp ELSE @[f]]]
           done == IF "isDone" \in F THEN WriteDone(d.done, e) ELSE d.done
           d2 == [d EXCEPT !.done = done]
           d3 == [d2 EXCEPT !.tomb = tomb]
           d4 == [d3 EXCEPT !.ver = ver]
           n == UpdateFromPut(d, e)
<1>1. done \in SUBSET Items
  BY StoreFields DEF WriteDone
<1>3. tomb \in [Part -> StampOrNone]
  BY StampOrder, StoreFields
<1>2. n = d4
  BY DEF UpdateFromPut, Store, UpdatedFields
<1> HIDE DEF F
<1>6. /\ ver \in [Part \cup {Board} -> [Field -> StampOrNone]]
      /\ \A q \in Part \cup {Board}, f \in Field :
           ver[q][f] = IF q = e.entity /\ f \in F THEN e.stamp ELSE d.ver[q][f]
  BY EventFacts, StoreFields
<1> HIDE DEF tomb, ver, done
<1>4. d2 \in Store
  BY <1>1, StoreUpdates
<1>7. d3 \in Store /\ d4 \in Store
  <2> HIDE DEF d2
  <2>1. d3 \in Store
    BY <1>3, <1>4, StoreUpdates
  <2> HIDE DEF d3
  <2> QED
    BY <1>6, <2>1, StoreUpdates
<1>8. /\ Kept(d, d4) /\ d4.columns = d.columns
      /\ d4.appearance = d.appearance /\ d4.tomb = tomb
      /\ d4.ver = ver /\ d4.seen = d.seen
      /\ d4.rows = d.rows /\ d4.done = done
  BY DEF Kept, Store
<1> HIDE DEF d4
<1> QED
  BY <1>2, <1>6, <1>7, <1>8 DEF Kept, tomb, Stamped, done, F

LEMMA MergeAppearanceEffect ==
  ASSUME NEW d \in Store, NEW e \in Event, e.entity = Board,
         Wins(d, e, "appearance")
  PROVE  LET n == MergeAppearance(d, e)
         IN  /\ n \in Store /\ Kept(d, n)
             /\ n.columns = d.columns /\ n.appearance = e.settings
             /\ n.tomb = d.tomb
             /\ Stamped(d, n, Board, {"appearance"}, e.stamp)
             /\ n.seen = d.seen /\ n.rows = d.rows /\ n.done = d.done
<1> DEFINE ver == [d.ver EXCEPT ![Board]["appearance"] = e.stamp]
           d1 == [d EXCEPT !.appearance = e.settings]
           d2 == [d1 EXCEPT !.ver = ver]
           n == MergeAppearance(d, e)
<1>1. n = d2
  BY DEF MergeAppearance, Store
<1>2. /\ ver \in [Part \cup {Board} -> [Field -> StampOrNone]]
      /\ \A q \in Part \cup {Board}, f \in Field :
           ver[q][f] = IF q = Board /\ f \in {"appearance"} THEN e.stamp
                                                       ELSE d.ver[q][f]
  BY EventFacts, StoreFields DEF Field
<1> HIDE DEF ver
<1>3. d1 \in Store
  BY EventFacts, StoreUpdates
<1>4. d2 \in Store
  BY <1>2, <1>3, StoreUpdates
<1>5. /\ Kept(d, d2) /\ d2.columns = d.columns
      /\ d2.appearance = e.settings /\ d2.tomb = d.tomb
      /\ d2.ver = ver /\ d2.seen = d.seen
      /\ d2.rows = d.rows /\ d2.done = d.done
  BY DEF Kept, Store
<1> HIDE DEF d2
<1> QED
  BY <1>1, <1>2, <1>4, <1>5 DEF Kept, Stamped

LEMMA MergeSnapshotEffect ==
  ASSUME NEW d \in Store, NEW e \in Event,
         ~ (d.columns \/ d.rows \cap Cards # {})
  PROVE  LET n == MergeSnapshot(d, e)
         IN  /\ n \in Store /\ Kept(d, n)
             /\ n.tomb = d.tomb /\ n.seen = d.seen
             /\ n.rows = d.rows \cup Seeded(d) /\ n.done = d.done
<1> DEFINE ver == [p \in Part \cup {Board} |->
                    CASE p = Board -> [d.ver[p] EXCEPT !["appearance"] = e.stamp]
                      [] p \in Seeded(d) \cap Lists ->
                           [d.ver[p] EXCEPT !["lifecycle"] = e.stamp]
                      [] p \in Seeded(d) \cap Items ->
                           [d.ver[p] EXCEPT !["lifecycle"] = e.stamp,
                                            !["isDone"] = e.stamp]
                      [] OTHER -> d.ver[p]]
           d1 == [d EXCEPT !.columns = TRUE]
           d2 == [d1 EXCEPT !.rows = d.rows \cup Seeded(d)]
           d3 == [d2 EXCEPT !.appearance = e.stamp]
           d4 == [d3 EXCEPT !.ver = ver]
           n == MergeSnapshot(d, e)
<1>1. n = d4
  BY DEF MergeSnapshot, Store
<1>2. ver \in [Part \cup {Board} -> [Field -> StampOrNone]]
  <2> SUFFICES ASSUME NEW p \in Part \cup {Board}
               PROVE  ver[p] \in [Field -> StampOrNone]
    OBVIOUS
  <2>1. d.ver[p] \in [Field -> StampOrNone] /\ e.stamp \in StampOrNone
    BY EventFacts, StoreFields
  <2>2. CASE p = Board
    BY <2>1, <2>2, PartsAssumption DEF Part
  <2>3. CASE p \in Seeded(d) \cap Lists /\ p # Board
    BY <2>1, <2>3, PartsAssumption
  <2>4. CASE p \in Seeded(d) \cap Items /\ p # Board
    BY <2>1, <2>4, PartsAssumption
  <2>5. CASE p \notin Seeded(d) \cap (Lists \cup Items) /\ p # Board
    BY <2>1, <2>5
  <2> QED
    BY <2>2, <2>3, <2>4, <2>5
<1>3. d.rows \cup Seeded(d) \in SUBSET Part
  BY StoreFields, PartsAssumption DEF Seeded
<1> HIDE DEF ver
<1>4. d1 \in Store /\ d2 \in Store
  <2>1. d1 \in Store
    BY StoreUpdates
  <2> HIDE DEF d1
  <2> QED
    BY <1>3, <2>1, StoreUpdates
<1>5. d3 \in Store /\ d4 \in Store
  <2> HIDE DEF d2
  <2>1. d3 \in Store
    BY <1>4, EventFacts, StoreUpdates
  <2> HIDE DEF d3
  <2> QED
    BY <1>2, <2>1, StoreUpdates
<1>6. /\ Kept(d, d4) /\ d4.tomb = d.tomb /\ d4.seen = d.seen
      /\ d4.rows = d.rows \cup Seeded(d) /\ d4.done = d.done
  BY DEF Kept, Store
<1> HIDE DEF d4
<1> QED
  BY <1>1, <1>5, <1>6 DEF Kept

-----------------------------------------------------------------------------
(* Sound stores.  B holds the births, the clock at which each part was     *)
(* created; G the parts that have ever been there.                         *)

Birth == [part : Part, seq : Nat]

Sound(d, B, G) ==
  /\ \A p \in d.rows : /\ p \in G /\ ~ Buried(d, p)
                       /\ Ancestors(p) \subseteq d.rows
                       /\ \A b \in B : b.part = p => b.seq <= d.clock
  /\ \A p \in Part : Buried(d, p) =>
       p \in G /\ \A b \in B : b.part = p => b.seq < d.tomb[p].clock
  /\ d.done \subseteq d.rows

\* At clock k: p has been there, and all that p hangs below is older.
Rooted(p, k, B, G) ==
  /\ p \in G /\ Ancestors(p) \subseteq G
  /\ \A b \in B : b.part \in Ancestors(p) => b.seq < k

EventSound(e, B, G) ==
  /\ EventFits(e)
  /\ e.entity \in Part => Rooted(e.entity, e.stamp.clock, B, G)
  /\ e.op \in {"card.delete", "delta.delete"} => ~ e.all
  /\ e.all => [part |-> e.entity, seq |-> e.stamp.clock] \in B
  /\ \A b \in B : b.part = e.entity =>
       b.seq <= e.stamp.clock /\ (~ e.all => b.seq < e.stamp.clock)
  /\ e.op = "board.snapshot" =>
       SnapshotParts \subseteq G /\ \A b \in B : b.part \notin SnapshotParts

\* A part that is born later has never been there.
LEMMA SoundGrows ==
  ASSUME NEW d \in Store, NEW B \in SUBSET Birth, NEW C \in SUBSET Birth,
         NEW G, NEW H, B \subseteq C, G \subseteq H,
         \A b \in C \ B : b.part \notin G,
         Sound(d, B, G)
  PROVE  Sound(d, C, H)
  BY DEF Sound, Birth

LEMMA RootedGrows ==
  ASSUME NEW p, NEW k, NEW B, NEW C, NEW G, NEW H,
         B \subseteq C, G \subseteq H, \A b \in C \ B : b.part \notin G,
         Rooted(p, k, B, G)
  PROVE  Rooted(p, k, C, H)
  BY DEF Rooted

LEMMA EventSoundGrows ==
  ASSUME NEW e \in Event, NEW B \in SUBSET Birth, NEW C \in SUBSET Birth,
         NEW G, NEW H, B \subseteq C, G \subseteq H,
         \A b \in C \ B : b.part \notin G,
         EventSound(e, B, G)
  PROVE  EventSound(e, C, H)
<1>2. e.entity \in Part => Rooted(e.entity, e.stamp.clock, C, H)
  BY RootedGrows DEF EventSound
<1>1. \A b \in C \ B : b.part # e.entity /\ (e.op = "board.snapshot" =>
                                               b.part \notin SnapshotParts)
  BY PartsAssumption DEF EventSound, Birth, Rooted
<1> QED
  BY <1>1, <1>2 DEF EventSound

\* A clock that moves on.
LEMMA SoundSame ==
  ASSUME NEW d \in Store, NEW n \in Store, NEW B \in SUBSET Birth, NEW G,
         Sound(d, B, G),
         n.rows = d.rows, n.tomb = d.tomb, n.clock >= d.clock,
         n.done \subseteq n.rows
  PROVE  Sound(n, B, G)
<1>1. d.clock \in Nat /\ n.clock \in Nat
  BY StoreFields
<1>2. \A b \in B : b.seq \in Nat
  BY DEF Birth
<1> QED
  BY <1>1, <1>2 DEF Sound, Buried

\* A new row.
LEMMA SoundInsert ==
  ASSUME NEW d \in Store, NEW n \in Store, NEW B \in SUBSET Birth, NEW G,
         NEW p \in G, Sound(d, B, G),
         n.rows = d.rows \cup {p}, n.tomb = d.tomb, n.done \subseteq n.rows,
         n.clock >= d.clock, ~ Buried(d, p), Ancestors(p) \subseteq d.rows,
         \A b \in B : b.part = p => b.seq <= n.clock
  PROVE  Sound(n, B, G)
<1>1. d.clock \in Nat /\ n.clock \in Nat
  BY StoreFields
<1>2. \A b \in B : b.seq \in Nat
  BY DEF Birth
<1> QED
  BY <1>1, <1>2 DEF Sound, Buried

\* A subtree that goes, and the tombstone of its root.
LEMMA SoundRemove ==
  ASSUME NEW d \in Store, NEW n \in Store, NEW B \in SUBSET Birth, NEW G,
         NEW p \in Part, NEW s \in StampOrNone, Sound(d, B, G),
         n.rows = d.rows \ Subtree(p), n.done = d.done \ Subtree(p),
         n.clock = d.clock, n.tomb = [d.tomb EXCEPT ![p] = s],
         p \in G, s = d.tomb[p] \/ \A b \in B : b.part = p => b.seq < s.clock
  PROVE  Sound(n, B, G)
<1>1. ASSUME NEW q \in n.rows
      PROVE  /\ q \in G /\ ~ Buried(n, q) /\ Ancestors(q) \subseteq n.rows
             /\ \A b \in B : b.part = q => b.seq <= n.clock
  <2>1. q \in d.rows /\ q \notin Subtree(p) /\ q \in Part /\ q # p
    BY StoreFields DEF Subtree
  <2>2. /\ q \in G /\ ~ Buried(d, q) /\ Ancestors(q) \subseteq d.rows
        /\ \A b \in B : b.part = q => b.seq <= d.clock
    BY <2>1 DEF Sound
  <2>3. ~ Buried(n, q)
    BY <2>1, <2>2, StoreFields DEF Buried
  <2>4. ASSUME NEW a \in Ancestors(q)
        PROVE  a \notin Subtree(p)
    BY <2>1, AncestorFacts DEF Subtree
  <2> QED
    BY <2>2, <2>3, <2>4
<1>2. ASSUME NEW q \in Part, Buried(n, q)
      PROVE  q \in G /\ \A b \in B : b.part = q => b.seq < n.tomb[q].clock
  <2>1. CASE q = p /\ s # d.tomb[p]
    BY <2>1, StoreFields
  <2>2. CASE q # p \/ s = d.tomb[p]
    <3>1. n.tomb[q] = d.tomb[q]
      BY <2>2, StoreFields
    <3> QED
      BY <1>2, <3>1 DEF Sound, Buried
  <2> QED
    BY <2>1, <2>2
<1> QED
  BY <1>1, <1>2 DEF Sound

\* No part that is buried comes back.
StaysBuried(d, n) == \A p \in Part : Buried(d, p) => Buried(n, p)

LEMMA MergeDeleteSound ==
  ASSUME NEW d \in Store, NEW e \in Event, NEW B \in SUBSET Birth, NEW G,
         Sound(d, B, G), EventSound(e, B, G),
         e.op \in {"card.delete", "delta.delete"}, NEW n \in Store,
         n.rows = d.rows \ Subtree(e.entity),
         n.done = d.done \ Subtree(e.entity),
         n.clock = d.clock, n.tomb = [d.tomb EXCEPT ![e.entity] = e.stamp]
  PROVE  Sound(n, B, G) /\ StaysBuried(d, n)
<1>1. e.entity \in Part /\ e.entity \in G
  BY DEF EventSound, EventFits, Part, Rooted
<1>2. \A b \in B : b.part = e.entity => b.seq < e.stamp.clock
  BY DEF EventSound
<1>3. Sound(n, B, G)
  BY <1>1, <1>2, EventFacts, SoundRemove
<1>4. StaysBuried(d, n)
  BY <1>1, EventFacts, StoreFields DEF StaysBuried, Buried
<1> QED
  BY <1>3, <1>4

\* A creation is older than every tombstone of its part.
LEMMA CreationIsOlder ==
  ASSUME NEW d \in Store, NEW e \in Event, NEW B \in SUBSET Birth, NEW G,
         Sound(d, B, G), EventSound(e, B, G), e.entity \in Part, e.all,
         Buried(d, e.entity)
  PROVE  ~ Newer(e.stamp, d.tomb[e.entity])
<1> DEFINE t == d.tomb[e.entity]
<1>1. e.stamp.clock < t.clock
  BY DEF EventSound, Sound
<1>2. e.stamp.clock \in Nat /\ t.clock \in Nat
  BY StoreFields, StampOrder, EventFacts
<1> QED
  BY <1>1, <1>2 DEF Newer

LEMMA MergePutSound ==
  ASSUME NEW d \in Store, NEW e \in Event, NEW B \in SUBSET Birth, NEW G,
         Sound(d, B, G), EventSound(e, B, G), e.stamp.clock <= d.clock,
         e.op = "delta.put",
         Ancestors(e.entity) \cap Cards \subseteq d.rows
  PROVE  LET n == MergePut(d, e)
         IN  /\ n \in Store /\ Kept(d, n) /\ n.seen = d.seen
             /\ Sound(n, B, G) /\ StaysBuried(d, n)
<1> DEFINE p == e.entity
           n == MergePut(d, e)
<1>1. p \in Lists \cup Items /\ p \in Part /\ p \in G
  BY DEF EventSound, EventFits, Part, Rooted
<1>2. CASE ~ PutAllowed(d, e)
  BY <1>2 DEF MergePut, Kept, StaysBuried
<1>3. CASE PutAllowed(d, e) /\ Present(d, p)
  <2>1. n = UpdateFromPut(d, e)
    BY <1>3 DEF MergePut
  <2>2. /\ n \in Store /\ Kept(d, n) /\ n.seen = d.seen /\ n.rows = d.rows
        /\ n.tomb = [d.tomb EXCEPT ![p] =
                       IF "lifecycle" \in UpdatedFields(d, e) THEN NoStamp ELSE @]
        /\ n.done \subseteq d.done \cup {p}
    <3>1. WriteDone(d.done, e) \subseteq d.done \cup {p}
      BY DEF WriteDone
    <3> QED
      BY <1>1, <2>1, <3>1, UpdateFromPutEffect
  <2> HIDE DEF n
  <2>3. ~ Buried(d, p) /\ d.tomb[p] = NoStamp
    BY <1>3 DEF Sound, Present, Buried
  <2>4. n.tomb = d.tomb
    BY <1>1, <2>2, <2>3, StoreFields
  <2>5. Sound(n, B, G)
    <3>1. n.clock >= d.clock
      BY <2>2, StoreFields DEF Kept
    <3>2. n.done \subseteq n.rows
      BY <1>3, <2>2 DEF Sound, Present
    <3> QED
      BY <2>2, <2>4, <3>1, <3>2, SoundSame
  <2> QED
    BY <2>2, <2>4, <2>5 DEF StaysBuried, Buried, n
<1>4. CASE PutAllowed(d, e) /\ ~ Present(d, p)
  <2>1. n = CreateFromPut(d, e)
    BY <1>4 DEF MergePut
  <2>2. /\ n \in Store /\ Kept(d, n) /\ n.seen = d.seen
        /\ n.rows = d.rows \cup {p}
        /\ n.tomb = [d.tomb EXCEPT ![p] = NoStamp]
        /\ n.done \subseteq d.done \cup {p}
    <3>1. WriteDone(d.done, e) \subseteq d.done \cup {p}
      BY DEF WriteDone
    <3> QED
      BY <1>1, <2>1, <3>1, CreateFromPutEffect
  <2> HIDE DEF n
  <2>3. ~ Buried(d, p) /\ d.tomb[p] = NoStamp
    BY <1>1, <1>4, CreationIsOlder DEF PutAllowed, Buried
  <2>4. n.tomb = d.tomb
    BY <1>1, <2>2, <2>3, StoreFields
  <2>6. Ancestors(p) \subseteq d.rows
    <3>1. CASE p \in Lists
      BY <3>1, AncestorFacts
    <3>2. CASE p \in Items
      <4>1. Parent[p] \in d.rows
        BY <1>4, <3>2 DEF PutAllowed, Present
      <4>2. Ancestors(Parent[p]) \subseteq d.rows
        BY <4>1 DEF Sound
      <4> QED
        BY <3>2, <4>1, <4>2, AncestorFacts
    <3> QED
      BY <1>1, <3>1, <3>2
  <2>5. Sound(n, B, G)
    <3>1. n.clock = d.clock /\ n.clock >= d.clock
      BY <2>2, StoreFields DEF Kept
    <3>2. n.done \subseteq n.rows
      BY <2>2 DEF Sound
    <3>3. \A b \in B : b.part = p => b.seq <= n.clock
      <4>1. \A b \in B : b.part = p => b.seq <= e.stamp.clock /\ b.seq \in Nat
        BY DEF EventSound, Birth
      <4> QED
        BY <3>1, <4>1, StoreFields, EventFacts
    <3> QED
      BY <1>1, <2>2, <2>3, <2>4, <2>6, <3>1, <3>2, <3>3, SoundInsert
  <2> QED
    BY <2>2, <2>4, <2>5 DEF StaysBuried, Buried, n
<1> QED
  BY <1>2, <1>3, <1>4

LEMMA SnapshotSound ==
  ASSUME NEW d \in Store, NEW e \in Event, NEW B \in SUBSET Birth, NEW G,
         Sound(d, B, G), EventSound(e, B, G), e.op = "board.snapshot"
  PROVE  LET n == MergeSnapshot(d, e)
         IN  /\ n \in Store /\ Kept(d, n) /\ n.seen = d.seen
             /\ Sound(n, B, G) /\ StaysBuried(d, n)
<1> DEFINE n == MergeSnapshot(d, e)
<1>1. CASE d.columns \/ d.rows \cap Cards # {}
  BY <1>1 DEF MergeSnapshot, Kept, StaysBuried
<1>2. CASE ~ (d.columns \/ d.rows \cap Cards # {})
  <2>1. /\ n \in Store /\ Kept(d, n)
        /\ n.tomb = d.tomb /\ n.seen = d.seen
        /\ n.rows = d.rows \cup Seeded(d) /\ n.done = d.done
    BY <1>2, MergeSnapshotEffect
  <2> HIDE DEF n
  <2>2. ASSUME NEW q \in n.rows
        PROVE  /\ q \in G /\ ~ Buried(n, q) /\ Ancestors(q) \subseteq n.rows
               /\ \A b \in B : b.part = q => b.seq <= n.clock
    <3>1. CASE q \in d.rows
      BY <2>1, <3>1 DEF Sound, Buried, Kept
    <3>2. CASE q \in Seeded(d)
      <4>1. q \in SnapshotParts /\ \A a \in {q} \cup Ancestors(q) : ~ Buried(d, a)
        BY <3>2 DEF Seeded
      <4>2. q \in Part /\ Ancestors(q) \subseteq SnapshotParts
        BY <4>1, SnapshotPartsClosed
      <4>3. ASSUME NEW a \in Ancestors(q)
            PROVE  a \in Seeded(d)
        BY <4>1, <4>2, AncestorFacts DEF Seeded
      <4>4. q \in G /\ \A b \in B : b.part # q
        BY <4>1 DEF EventSound
      <4> QED
        BY <2>1, <4>1, <4>3, <4>4 DEF Buried
    <3> QED
      BY <2>1, <3>1, <3>2
  <2>3. \A q \in Part : Buried(n, q) =>
          q \in G /\ \A b \in B : b.part = q => b.seq < n.tomb[q].clock
    BY <2>1 DEF Sound, Buried
  <2>4. n.done \subseteq n.rows
    BY <2>1 DEF Sound
  <2>5. Sound(n, B, G)
    BY <2>2, <2>3, <2>4 DEF Sound
  <2> QED
    BY <2>1, <2>5 DEF StaysBuried, Buried, n
<1> QED
  BY <1>1, <1>2

LEMMA CardPutSound ==
  ASSUME NEW d \in Store, NEW e \in Event, NEW B \in SUBSET Birth, NEW G,
         Sound(d, B, G), EventSound(e, B, G), e.stamp.clock <= d.clock,
         e.op = "card.put"
  PROVE  LET n == MergeCardPut(d, e)
         IN  /\ n \in Store /\ Kept(d, n) /\ n.seen = d.seen
             /\ Sound(n, B, G) /\ StaysBuried(d, n)
<1> DEFINE n == MergeCardPut(d, e)
           p == e.entity
<1>1. p \in Cards /\ p \in G /\ Ancestors(p) = {}
  BY AncestorFacts DEF EventSound, EventFits, Part, Rooted
<1>2. /\ n \in Store /\ Kept(d, n)
      /\ n.tomb = d.tomb /\ n.done = d.done /\ n.seen = d.seen
      /\ n.rows = IF Buried(d, p) THEN d.rows ELSE d.rows \cup {p}
  BY <1>1, MergeCardPutEffect
<1> HIDE DEF n
<1>3. n.clock = d.clock /\ n.clock >= d.clock /\ n.done \subseteq n.rows
  BY <1>2, StoreFields DEF Kept, Sound
<1>4. CASE Buried(d, p)
  BY <1>2, <1>3, <1>4, SoundSame DEF StaysBuried, Buried, n
<1>5. CASE ~ Buried(d, p)
  <2>1. \A b \in B : b.part = p => b.seq <= n.clock
    <3>1. \A b \in B : b.part = p => b.seq <= e.stamp.clock /\ b.seq \in Nat
      BY DEF EventSound, Birth
    <3> QED
      BY <1>3, <3>1, StoreFields, EventFacts
  <2>2. Sound(n, B, G)
    BY <1>1, <1>2, <1>3, <1>5, <2>1, SoundInsert
  <2> QED
    BY <1>2, <2>2 DEF StaysBuried, Buried, n
<1> QED
  BY <1>4, <1>5

LEMMA AppearanceSound ==
  ASSUME NEW d \in Store, NEW e \in Event, NEW B \in SUBSET Birth, NEW G,
         Sound(d, B, G), e.entity = Board
  PROVE  LET n == MergeAppearance(d, e)
         IN  /\ n \in Store /\ Kept(d, n) /\ n.seen = d.seen
             /\ Sound(n, B, G) /\ StaysBuried(d, n)
<1> DEFINE n == MergeAppearance(d, e)
<1>1. CASE ~ Wins(d, e, "appearance")
  BY <1>1 DEF MergeAppearance, Kept, StaysBuried
<1>2. CASE Wins(d, e, "appearance")
  <2>1. /\ n \in Store /\ Kept(d, n) /\ n.tomb = d.tomb
        /\ n.seen = d.seen /\ n.rows = d.rows /\ n.done = d.done
    BY <1>2, MergeAppearanceEffect
  <2> HIDE DEF n
  <2>2. n.clock >= d.clock /\ n.done \subseteq n.rows
    BY <2>1, StoreFields DEF Kept, Sound
  <2>3. Sound(n, B, G)
    BY <2>1, <2>2, SoundSame
  <2> QED
    BY <2>1, <2>3 DEF StaysBuried, Buried, n
<1> QED
  BY <1>1, <1>2

\* Whatever is merged, the store stays sound.
LEMMA ApplySound ==
  ASSUME NEW d \in Store, NEW e \in Event, NEW B \in SUBSET Birth, NEW G,
         Sound(d, B, G), EventSound(e, B, G), e.stamp.clock <= d.clock
  PROVE  LET n == ApplyRemoteEvent(d, e)
         IN  /\ n \in Store /\ Kept(d, n) /\ n.seen = d.seen \cup {e}
             /\ Sound(n, B, G) /\ StaysBuried(d, n)
<1> DEFINE merged == CASE e.op = "card.put" -> MergeCardPut(d, e)
                  [] e.op = "card.delete" -> MergeCardDelete(d, e)
                  [] e.op = "board.snapshot" -> MergeSnapshot(d, e)
                  [] e.op = "board.appearance.put" -> MergeAppearance(d, e)
                  [] OTHER -> MergeDelta(d, e)
           n == [merged EXCEPT !.seen = @ \cup {e}]
<1>0. ApplyRemoteEvent(d, e) = n
  BY DEF ApplyRemoteEvent
<1>1. /\ merged \in Store /\ Kept(d, merged) /\ merged.seen = d.seen
      /\ Sound(merged, B, G) /\ StaysBuried(d, merged)
  <2>1. CASE e.op = "card.put"
    BY <2>1, CardPutSound
  <2>2. CASE e.op = "card.delete"
    <3>1. merged = MergeCardDelete(d, e) /\ e.entity \in Cards
      BY <2>2 DEF EventSound, EventFits
    <3>2. CASE Newer(e.stamp, d.tomb[e.entity])
      BY <2>2, <3>1, <3>2, MergeCardDeleteEffect, MergeDeleteSound DEF Kept
    <3>3. CASE ~ Newer(e.stamp, d.tomb[e.entity])
      BY <3>1, <3>3 DEF MergeCardDelete, Kept, StaysBuried
    <3> QED
      BY <3>2, <3>3
  <2>3. CASE e.op = "board.snapshot"
    BY <2>3, SnapshotSound
  <2>4. CASE e.op = "board.appearance.put"
    BY <2>4, AppearanceSound DEF EventSound, EventFits
  <2>5. CASE e.op \in {"delta.put", "delta.delete"}
    <3> DEFINE stale == \E c \in Ancestors(e.entity) \cap Cards :
                          Buried(d, c) \/ ~ Present(d, c)
    <3>1. e.entity \in Part
      BY <2>5 DEF EventSound, EventFits, Part
    <3>2. CASE stale
      BY <2>5, <3>2 DEF MergeDelta, Kept, StaysBuried
    <3>3. CASE ~ stale /\ e.op = "delta.put"
      BY <3>3, MergePutSound DEF MergeDelta, Present
    <3>4. CASE ~ stale /\ e.op = "delta.delete"
      <4>1. merged = MergeDelete(d, e)
        BY <3>4 DEF MergeDelta
      <4>2. CASE Wins(d, e, "lifecycle")
        <5>1. /\ merged \in Store /\ Kept(d, merged) /\ merged.seen = d.seen
              /\ merged.tomb = [d.tomb EXCEPT ![e.entity] = e.stamp]
              /\ merged.rows = d.rows \ Subtree(e.entity)
              /\ merged.done = d.done \ Subtree(e.entity)
          BY <3>1, <4>1, <4>2, MergeDeleteEffect
        <5> HIDE DEF merged
        <5> QED
          BY <3>4, <5>1, MergeDeleteSound DEF Kept
      <4>3. CASE ~ Wins(d, e, "lifecycle")
        BY <4>1, <4>3 DEF MergeDelete, Kept, StaysBuried
      <4> QED
        BY <4>2, <4>3
    <3> QED
      BY <2>5, <3>2, <3>3, <3>4
  <2> QED
    BY <2>1, <2>2, <2>3, <2>4, <2>5 DEF Event
<1> HIDE DEF merged
<1>2. n \in Store
  BY <1>1, StoreFields, StoreUpdates
<1>3. /\ Kept(merged, n) /\ n.seen = d.seen \cup {e}
      /\ n.rows = merged.rows /\ n.tomb = merged.tomb /\ n.done = merged.done
      /\ n.clock = merged.clock
  BY <1>1 DEF Kept, Store
<1> HIDE DEF n
<1>4. Sound(n, B, G)
  <2>1. n.clock >= merged.clock /\ n.done \subseteq n.rows
    BY <1>1, <1>2, <1>3, StoreFields DEF Sound
  <2> QED
    BY <1>1, <1>2, <1>3, <2>1, SoundSame
<1> QED
  BY <1>0, <1>1, <1>2, <1>3, <1>4 DEF Kept, StaysBuried, Buried

-----------------------------------------------------------------------------
(* The invariant: nothing is older than the creation of what it is about.  *)

Creations(s) == {m \in db[s].pending : m.kind \in CreationKind}

\* Every creation that any device has recorded.
Births ==
  UNION {{[part |-> m.entity, seq |-> m.seq] : m \in Creations(s)} : s \in Natives}

\* The ids that can not be drawn again.
Born == {p \in Part : \/ p \in world.roots
                      \/ world.content = "seeded" /\ p \in SnapshotParts
                      \/ \E b \in Births : b.part = p}

TypeInv == ChecklistTypeOK /\ world \in Worlds

MarkerFits(m) ==
  /\ m.kind \in {"card.create", "card.delete"} => m.entity \in Cards
  /\ m.kind \in {"checklist.create", "checklist.delete"} => m.entity \in Lists
  /\ m.kind \in {"checklist.item.create", "checklist.item.update",
                 "checklist.item.delete"} => m.entity \in Items
  /\ m.kind = "board.appearance.put" => m.entity = Board

\* A creation is the first thing recorded about its part, and its part came
\* with no import and no snapshot.
MarkerSound(m) ==
  /\ MarkerFits(m)
  /\ m.entity \in Part => Rooted(m.entity, m.seq, Births, Born)
  /\ m.kind \in CreationKind =>
       /\ m.entity \notin world.roots
       /\ world.content = "seeded" => m.entity \notin SnapshotParts
  /\ \A b \in Births : b.part = m.entity =>
       b.seq <= m.seq /\ (m.kind \notin CreationKind => b.seq < m.seq)

MarkersInv ==
  \A s \in Natives : MarkersBelow(db[s]) /\ \A m \in db[s].pending : MarkerSound(m)

EventsInv ==
  /\ \A s \in Natives : \A e \in db[s].outbox \cup staged[s] :
       EventSound(e, Births, Born)
  /\ \A e \in merge.todo :
       EventSound(e, Births, Born) /\ e.stamp.clock <= merge.work.clock

StoresInv == \A s \in Natives : Sound(db[s], Births, Born)

\* A delete reserved its version while the part was there.
DeletesInv ==
  \A s \in Natives : \A v \in deleting[s] :
    /\ Rooted(v.part, v.seq, Births, Born) /\ 0 < v.seq /\ v.seq <= db[s].clock
    /\ \A b \in Births : b.part = v.part => b.seq < v.seq

MergeInv ==
  merge.at \in Natives =>
    /\ Kept([db[merge.at] EXCEPT !.clock = merge.work.clock], merge.work)
    /\ db[merge.at].clock <= merge.work.clock
    /\ Sound(merge.work, Births, Born)
    /\ StaysBuried(db[merge.at], merge.work)

\* Neither a merge nor a publication before the origin is minted.
AnonymousInv ==
  /\ NothingLeavesAnonymously
  /\ \A s \in Natives : staged[s] # {} \/ Merging(s) => db[s].minted

SoundInv ==
  MarkersInv /\ EventsInv /\ StoresInv /\ DeletesInv /\ MergeInv /\ AnonymousInv

LEMMA NobodyIsNoDevice == Nobody \notin Natives /\ \A r \in Natives : r \in Replicas
  BY WorldAssumption, ReplicasAssumption DEF Nobody

LEMMA BirthFacts ==
  ASSUME TypeInv, MarkersInv
  PROVE  /\ Births \in SUBSET Birth
         /\ Born \in SUBSET Part
         /\ \A b \in Births : b.part \in Born /\ b.seq \in Nat
         /\ \A s \in Natives : \A m \in db[s].pending :
              m.kind \in CreationKind =>
                m.entity \in Part /\ [part |-> m.entity, seq |-> m.seq] \in Births
<1>1. ASSUME NEW s \in Natives, NEW m \in db[s].pending
      PROVE  m \in Marker /\ (m.kind \in CreationKind => m.entity \in Part)
  <2>1. m \in Marker
    BY StoreFields DEF TypeInv, ChecklistTypeOK
  <2> QED
    BY <2>1 DEF MarkersInv, MarkerSound, MarkerFits, CreationKind, Part
<1>2. \A s \in Natives : \A m \in db[s].pending :
        m.kind \in CreationKind => [part |-> m.entity, seq |-> m.seq] \in Birth
  BY <1>1 DEF Birth, Marker
<1>3. Births \in SUBSET Birth
  BY <1>2 DEF Births, Creations
<1>4. \A s \in Natives : \A m \in db[s].pending :
        m.kind \in CreationKind => [part |-> m.entity, seq |-> m.seq] \in Births
  BY DEF Births, Creations
<1> QED
  BY <1>1, <1>3, <1>4 DEF Born, Birth

\* No new markers, no new births.
LEMMA SameBirths ==
  ASSUME \A s \in Natives : db'[s].pending = db[s].pending, UNCHANGED world
  PROVE  /\ Births' = Births /\ Born' = Born
         /\ \A m : MarkerSound(m) => MarkerSound(m)'
<1>1. \A s \in Natives : Creations(s)' = Creations(s)
  BY DEF Creations
<1>2. Births' = Births
  BY <1>1 DEF Births
<1>3. Born' = Born
  BY <1>2 DEF Born
<1> QED
  BY <1>2, <1>3 DEF MarkerSound

LEMMA FreshIsUnborn ==
  ASSUME NEW p \in Part, Fresh(p)
  PROVE  p \notin Born
<1>1. ASSUME NEW b \in Births
      PROVE  b.part # p
  <2>1. PICK s \in Natives : \E m \in Creations(s) :
                                b = [part |-> m.entity, seq |-> m.seq]
    BY DEF Births
  <2>2. PICK m \in Creations(s) : b = [part |-> m.entity, seq |-> m.seq]
    BY <2>1
  <2>3. m \in db[s].pending /\ m.kind \in CreationKind
    BY DEF Creations
  <2>4. m.entity # p
    BY <2>3 DEF Fresh, CreationKind
  <2> QED
    BY <2>2, <2>4
<1> QED
  BY <1>1 DEF Born, Fresh

\* A marker that is recorded now.
LEMMA NewMarker ==
  ASSUME TypeInv, MarkersInv, NEW r \in Natives, NEW n \in Store, NEW m \in Marker,
         db' = [db EXCEPT ![r] = n], UNCHANGED world,
         n.pending = db[r].pending \cup {m}, db[r].clock <= n.clock,
         0 < m.seq, m.seq <= n.clock, MarkerFits(m),
         m.kind \in CreationKind => Fresh(m.entity),
         m.entity \in Part => Rooted(m.entity, m.seq, Births, Born \cup {m.entity}),
         m.kind \notin CreationKind =>
           /\ m.entity \in Part => m.entity \in Born
           /\ \A b \in Births : b.part = m.entity => b.seq < m.seq
  PROVE  /\ Births' \in SUBSET Birth /\ Births \subseteq Births'
         /\ Born \subseteq Born'
         /\ \A b \in Births' \ Births : /\ b.part \notin Born
                                        /\ b.part = m.entity /\ b.seq = m.seq
         /\ m.kind \in CreationKind => m.entity \in Born' /\ m.entity \notin Born
         /\ m.kind \notin CreationKind => Births' = Births
         /\ MarkersInv'
<1> USE DEF TypeInv, ChecklistTypeOK
<1>0. /\ \A s \in Natives : db[s] \in Store /\ db'[s] = IF s = r THEN n ELSE db[s]
      /\ m.seq \in Nat /\ db[r].clock \in Nat /\ n.clock \in Nat
      /\ m.kind \in CreationKind => m.entity \in Part
  BY StoreFields DEF Marker, MarkerFits, CreationKind, Part
<1> DEFINE b0 == [part |-> m.entity, seq |-> m.seq]
<1>1. /\ \A s \in Natives : Creations(s) \subseteq Creations(s)'
      /\ \A s \in Natives : \A o \in Creations(s)' : o \in Creations(s) \/ o = m
      /\ m.kind \in CreationKind => m \in Creations(r)'
      /\ m.kind \notin CreationKind =>
           \A s \in Natives : Creations(s)' = Creations(s)
  BY <1>0 DEF Creations
<1>2. Births \subseteq Births'
  BY <1>1 DEF Births
<1>3. \A b \in Births' \ Births : b = b0 /\ m.kind \in CreationKind
  BY <1>1 DEF Births
<1>4. m.kind \in CreationKind => b0 \in Births'
  BY <1>1 DEF Births
<1>5. m.kind \notin CreationKind => Births' = Births
  BY <1>2, <1>3
<1>6. m.kind \in CreationKind => m.entity \notin Born
  BY <1>0, FreshIsUnborn
<1>7. Born \subseteq Born' /\ (m.kind \in CreationKind => m.entity \in Born')
  BY <1>0, <1>2, <1>4 DEF Born
<1>8. Births' \in SUBSET Birth
  BY <1>0, <1>3, BirthFacts DEF Birth
<1>11. \A p, k : Rooted(p, k, Births, Born) => Rooted(p, k, Births', Born')
  BY <1>2, <1>3, <1>6, <1>7, RootedGrows
<1>12. m.entity \in Part => Rooted(m.entity, m.seq, Births', Born')
  <2> SUFFICES ASSUME m.entity \in Part
               PROVE  Rooted(m.entity, m.seq, Births', Born')
    OBVIOUS
  <2>1. m.entity \notin Ancestors(m.entity)
    BY AncestorFacts
  <2>2. Rooted(m.entity, m.seq, Births, Born \cup {m.entity})
    OBVIOUS
  <2>3. m.entity \in Born'
    BY <1>7
  <2> QED
    BY <1>3, <1>7, <2>1, <2>2, <2>3 DEF Rooted
<1>9. ASSUME NEW s \in Natives, NEW o \in db'[s].pending
      PROVE  MarkerSound(o)'
  <2>1. CASE o \in db[s].pending
    <3>1. MarkerSound(o) /\ o \in Marker
      BY <2>1, <1>0, StoreFields DEF MarkersInv
    <3>2. ASSUME NEW b \in Births' \ Births, b.part = o.entity
          PROVE  FALSE
      <4>1. o.entity \in Part /\ b.part \notin Born
        BY <1>0, <1>3, <1>6, <3>2
      <4> QED
        BY <3>1, <3>2, <4>1 DEF MarkerSound, Rooted
    <3> QED
      BY <1>11, <3>1, <3>2 DEF MarkerSound
  <2>2. CASE o = m /\ m.kind \in CreationKind
    <3>1. \A b \in Births' : b.part = m.entity => b.seq = m.seq
      BY <1>3, <1>6, <2>2, BirthFacts
    <3> QED
      BY <1>0, <1>12, <2>2, <3>1 DEF MarkerSound, Fresh
  <2>3. CASE o = m /\ m.kind \notin CreationKind
    <3>1. \A b \in Births : b.seq \in Nat
      BY BirthFacts DEF Birth
    <3> QED
      BY <1>0, <1>5, <1>12, <2>3, <3>1 DEF MarkerSound
  <2> QED
    BY <1>0, <2>1, <2>2, <2>3
<1>10. ASSUME NEW s \in Natives
       PROVE  MarkersBelow(db[s])'
  <2>1. \A o \in db[s].pending : o.seq \in Nat
    BY <1>0, StoreFields DEF Marker
  <2>2. MarkersBelow(db'[s])
    BY <1>0, <2>1 DEF MarkersInv, MarkersBelow
  <2> QED
    BY <2>2 DEF MarkersBelow
<1> QED
  BY <1>2, <1>3, <1>5, <1>6, <1>7, <1>8, <1>9, <1>10 DEF MarkersInv

\* What an edit leaves to show: that its own store is sound.
LEMMA EditIsSound ==
  ASSUME TypeInv, SoundInv, NEW r \in Natives, NEW n \in Store, NEW m \in Marker,
         db' = [db EXCEPT ![r] = n], UNCHANGED <<staged, merge, world>>, Idle,
         n.pending = db[r].pending \cup {m}, db[r].clock <= n.clock,
         n.outbox = db[r].outbox, n.seen = db[r].seen,
         db[r].minted => n.minted,
         0 < m.seq, m.seq <= n.clock, MarkerFits(m),
         m.kind \in CreationKind => Fresh(m.entity),
         m.entity \in Part => Rooted(m.entity, m.seq, Births, Born \cup {m.entity}),
         m.kind \notin CreationKind =>
           /\ m.entity \in Part => m.entity \in Born
           /\ \A b \in Births : b.part = m.entity => b.seq < m.seq,
         Sound(n, Births', Born'),
         \A s \in Natives : deleting'[s] \subseteq deleting[s]
  PROVE  SoundInv'
<1> USE DEF TypeInv, ChecklistTypeOK
<1>0. \A s \in Natives : db[s] \in Store /\ db'[s] = IF s = r THEN n ELSE db[s]
  OBVIOUS
<1>1. /\ Births' \in SUBSET Birth /\ Births \subseteq Births'
      /\ Born \subseteq Born' /\ MarkersInv'
      /\ \A b \in Births' \ Births : b.part \notin Born
  BY NewMarker DEF SoundInv
<1>2. Births \in SUBSET Birth
  BY BirthFacts DEF SoundInv
<1>3. StoresInv'
  <2>1. ASSUME NEW s \in Natives
        PROVE  Sound(db'[s], Births', Born')
    <3>1. CASE s = r
      BY <1>0, <3>1
    <3>2. CASE s # r
      <4>1. Sound(db[s], Births, Born)
        BY DEF SoundInv, StoresInv
      <4>2. Sound(db[s], Births', Born')
        BY <1>0, <1>1, <1>2, <4>1, SoundGrows
      <4> QED
        BY <1>0, <3>2, <4>2
    <3> QED
      BY <3>1, <3>2
  <2> QED
    BY <2>1 DEF StoresInv
<1>4. EventsInv'
  <2>1. ASSUME NEW s \in Natives, NEW e \in db'[s].outbox \cup staged'[s]
        PROVE  EventSound(e, Births', Born')
    <3>1. e \in db[s].outbox \cup staged[s]
      BY <1>0
    <3>2. e \in Event
      BY <1>0, <3>1, StoreFields
    <3>3. EventSound(e, Births, Born)
      BY <3>1 DEF SoundInv, EventsInv
    <3> QED
      BY <1>1, <1>2, <3>2, <3>3, EventSoundGrows
  <2>2. merge'.todo = {}
    BY DEF Idle, NoMerge
  <2> QED
    BY <2>1, <2>2 DEF EventsInv
<1>5. DeletesInv'
  <2>1. ASSUME NEW s \in Natives, NEW v \in deleting'[s]
        PROVE  /\ Rooted(v.part, v.seq, Births', Born')
               /\ 0 < v.seq /\ v.seq <= db'[s].clock
               /\ \A b \in Births' : b.part = v.part => b.seq < v.seq
    <3>1. v \in deleting[s] /\ v \in Delete
      OBVIOUS
    <3>2. /\ Rooted(v.part, v.seq, Births, Born)
          /\ 0 < v.seq /\ v.seq <= db[s].clock
          /\ \A b \in Births : b.part = v.part => b.seq < v.seq
      BY <3>1 DEF SoundInv, DeletesInv
    <3>3. v.seq \in Nat /\ db[s].clock \in Nat /\ n.clock \in Nat
      BY <1>0, <3>1, StoreFields DEF Delete
    <3>4. v.seq <= db'[s].clock
      BY <1>0, <3>2, <3>3
    <3>5. Rooted(v.part, v.seq, Births', Born') /\ v.part \in Born
      BY <1>1, <3>2, RootedGrows DEF Rooted
    <3> QED
      BY <1>1, <3>2, <3>4, <3>5
  <2> QED
    BY <2>1 DEF DeletesInv
<1>6. MergeInv'
  BY NobodyIsNoDevice DEF MergeInv, Idle, NoMerge
<1>7. AnonymousInv'
  <2>1. ASSUME NEW s \in Natives
        PROVE  /\ ~ db'[s].minted => db'[s].outbox = {} /\ db'[s].seen = {}
               /\ \A e \in db'[s].outbox :
                    e.stamp.replica = s /\ e.stamp.clock <= db'[s].clock
               /\ staged'[s] # {} => db'[s].minted
    <3>1. /\ ~ db[s].minted => db[s].outbox = {} /\ db[s].seen = {}
          /\ \A e \in db[s].outbox :
               e.stamp.replica = s /\ e.stamp.clock <= db[s].clock
          /\ staged[s] # {} => db[s].minted
      BY DEF SoundInv, AnonymousInv, NothingLeavesAnonymously
    <3>2. \A e \in db[s].outbox : e.stamp.clock \in Nat
      BY <1>0, StoreFields, EventFacts
    <3>3. db[s].clock \in Nat /\ n.clock \in Nat
      BY <1>0, StoreFields
    <3> QED
      BY <1>0, <3>1, <3>2, <3>3
  <2>2. \A s \in Natives : ~ Merging(s)'
    BY NobodyIsNoDevice DEF Merging, Idle, NoMerge
  <2> QED
    BY <2>1, <2>2 DEF AnonymousInv, NothingLeavesAnonymously
<1> QED
  BY <1>1, <1>3, <1>4, <1>5, <1>6, <1>7 DEF SoundInv

LEMMA SoundInit == Init => TypeInv /\ SoundInv
<1> SUFFICES ASSUME Init
             PROVE  TypeInv /\ SoundInv
  OBVIOUS
<1> PICK filled \in [Natives -> BOOLEAN], minted \in [Natives -> BOOLEAN] :
      db = [r \in Natives |-> BoardStore(filled[r],
              IF filled[r] THEN world.roots ELSE {}, minted[r])]
  BY DEF Init
<1>1. world \in Worlds /\ world \in World /\ world.roots \in SUBSET Part
      /\ \A p \in world.roots : Ancestors(p) \subseteq world.roots
  BY WorldAssumption DEF Init, World
<1>2. ASSUME NEW r \in Natives
      PROVE  /\ db[r] \in Store /\ db[r].pending = {} /\ db[r].done = {}
             /\ db[r].outbox = {} /\ db[r].seen = {} /\ db[r].clock \in Nat
             /\ db[r].rows \in {{}, world.roots}
             /\ db[r].tomb = [p \in Part |-> NoStamp]
  <2>1. db[r] = BoardStore(filled[r], IF filled[r] THEN world.roots ELSE {}, minted[r])
    OBVIOUS
  <2>2. (IF filled[r] THEN world.roots ELSE {}) \in SUBSET Part
    BY <1>1
  <2>3. db[r] \in Store
    BY <2>1, <2>2, BoardStoreType
  <2> QED
    BY <2>1, <2>3 DEF BoardStore
<1>3. NoMerge \in [at : Natives \cup {Nobody}, todo : SUBSET Event, work : Store]
  BY BoardStoreType DEF NoMerge
<1>4. TypeInv
  <2>1. db \in [Natives -> Store]
    BY <1>2
  <2> QED
    BY <1>1, <1>3, <2>1 DEF TypeInv, ChecklistTypeOK, Init
<1>5. Births = {}
  BY <1>2 DEF Births, Creations
<1>6. MarkersInv /\ EventsInv
  BY <1>2, <1>5 DEF MarkersInv, MarkersBelow, EventsInv, Init, NoMerge
<1>7. ASSUME NEW r \in Natives
      PROVE  Sound(db[r], Births, Born)
  <2>1. \A p \in Part : ~ Buried(db[r], p)
    BY <1>2 DEF Buried
  <2> QED
    BY <1>1, <1>2, <1>5, <2>1 DEF Sound, Born
<1>8. DeletesInv /\ MergeInv /\ AnonymousInv
  BY <1>2, NobodyIsNoDevice
     DEF DeletesInv, MergeInv, AnonymousInv, NothingLeavesAnonymously, Init,
         NoMerge, Merging
<1> QED
  BY <1>4, <1>6, <1>7, <1>8 DEF SoundInv, StoresInv

LEMMA CommitForms ==
  ASSUME TypeInv, NEW r \in Natives, NEW n \in Store, Commit(r, n)
  PROVE  /\ db' = [db EXCEPT ![r] = n]
         /\ UNCHANGED <<deleting, staged, merge, world>>
         /\ TypeInv'
  BY DEF Commit, TypeInv, ChecklistTypeOK

LEMMA InsertStep ==
  ASSUME TypeInv, SoundInv, NEW r \in Natives, NEW p \in Part,
         NEW kind \in CreationKind, EditorReady(r), Fresh(p),
         MarkerFits([seq |-> db[r].clock + 1, kind |-> kind, entity |-> p]),
         Ancestors(p) \subseteq db[r].rows,
         Commit(r, InsertPart(db[r], kind, p))
  PROVE  TypeInv' /\ SoundInv'
<1> DEFINE d == db[r]
           n == InsertPart(d, kind, p)
           m == [seq |-> d.clock + 1, kind |-> kind, entity |-> p]
<1>1. d \in Store /\ d.clock \in Nat /\ kind \in MarkerKind
  BY StoreFields DEF TypeInv, ChecklistTypeOK, CreationKind, MarkerKind
<1>2. /\ n \in Store /\ Ticked(d, n, kind, p) /\ n.minted
      /\ n.rows = d.rows \cup {p} /\ n.done = d.done
  BY <1>1, InsertPartEffect
<1>3. m \in Marker
  BY <1>1 DEF Marker
<1> HIDE DEF n
<1>4. TypeInv' /\ db' = [db EXCEPT ![r] = n]
      /\ UNCHANGED <<deleting, staged, merge, world>>
  BY <1>2, CommitForms DEF n
<1>5. /\ n.clock = d.clock + 1 /\ n.pending = d.pending \cup {m}
      /\ n.tomb = d.tomb /\ n.outbox = d.outbox /\ n.seen = d.seen
  BY <1>2 DEF Ticked
<1> HIDE DEF m
<1>6. m.kind = kind /\ m.entity = p /\ m.seq = d.clock + 1
  BY DEF m
<1>13. 0 < m.seq /\ m.seq <= n.clock /\ db[r].clock <= n.clock
  BY <1>1, <1>5, <1>6
<1>14. MarkersInv
  BY DEF SoundInv
<1>7. Sound(d, Births, Born)
  BY DEF SoundInv, StoresInv
<1>12. MarkerFits(m)
  BY DEF m
<1>15. m.entity \in Part => Rooted(m.entity, m.seq, Births, Born \cup {m.entity})
  <2>1. \A a \in Ancestors(p) : a \in Born /\ \A b \in Births :
          b.part = a => b.seq <= d.clock /\ b.seq \in Nat
    BY <1>7, BirthFacts DEF Sound, SoundInv
  <2> QED
    BY <1>1, <1>6, <2>1 DEF Rooted
<1>8. /\ Births' \in SUBSET Birth /\ Births \subseteq Births'
      /\ Born \subseteq Born'
      /\ \A b \in Births' \ Births : /\ b.part \notin Born
                                     /\ b.part = p /\ b.seq = d.clock + 1
      /\ p \in Born' /\ p \notin Born
  <2>1. m.kind \in CreationKind => Fresh(m.entity)
    BY <1>6
  <2> QED
    BY <1>2, <1>3, <1>4, <1>5, <1>6, <1>12, <1>13, <1>14, <1>15, <2>1, NewMarker
<1>9. Sound(n, Births', Born')
  <2>1. Sound(d, Births', Born')
    BY <1>1, <1>7, <1>8, BirthFacts, SoundGrows DEF SoundInv
  <2>2. ~ Buried(d, p)
    BY <1>7, <1>8 DEF Sound
  <2>3. \A b \in Births' : b.part = p => b.seq <= n.clock
    BY <1>1, <1>5, <1>8, BirthFacts DEF SoundInv
  <2>4. n.done \subseteq n.rows
    BY <1>2, <1>7 DEF Sound
  <2>5. n.clock >= d.clock
    BY <1>1, <1>5
  <2> QED
    BY <1>1, <1>2, <1>5, <1>8, <2>1, <2>2, <2>3, <2>4, <2>5, SoundInsert
<1>10. Idle /\ \A s \in Natives : deleting'[s] \subseteq deleting[s]
  BY <1>4 DEF EditorReady, EditorTurn, Turn
<1>11. SoundInv'
  BY <1>2, <1>3, <1>4, <1>5, <1>6, <1>9, <1>10, <1>12, <1>13, <1>15, EditIsSound
<1> QED
  BY <1>4, <1>11

\* An edit that is neither a creation nor a delete.
\* What lets the planner write lets the parity service write.
LEMMA EditorIsReady == \A r : EditorReady(r) => ParityReady(r)
BY DEF EditorReady, ParityReady

LEMMA TouchStep ==
  ASSUME TypeInv, SoundInv, NEW r \in Natives, NEW n \in Store,
         NEW kind \in MarkerKind \ CreationKind, NEW p \in Part \cup {Board},
         ParityReady(r), Ticked(db[r], n, kind, p), db[r].minted => n.minted,
         MarkerFits([seq |-> db[r].clock + 1, kind |-> kind, entity |-> p]),
         p \in Part => p \in db[r].rows,
         n.rows = db[r].rows, n.done \subseteq n.rows,
         Commit(r, n)
  PROVE  TypeInv' /\ SoundInv'
<1> DEFINE d == db[r]
           m == [seq |-> d.clock + 1, kind |-> kind, entity |-> p]
<1>1. d \in Store /\ d.clock \in Nat
  BY StoreFields DEF TypeInv, ChecklistTypeOK
<1>3. m \in Marker
  BY <1>1 DEF Marker
<1>4. TypeInv' /\ db' = [db EXCEPT ![r] = n]
      /\ UNCHANGED <<deleting, staged, merge, world>>
  BY CommitForms
<1>5. /\ n.clock = d.clock + 1 /\ n.pending = d.pending \cup {m}
      /\ n.tomb = d.tomb /\ n.outbox = d.outbox /\ n.seen = d.seen
  BY DEF Ticked
<1>12. MarkerFits(m)
  OBVIOUS
<1> HIDE DEF m
<1>6. m.kind = kind /\ m.entity = p /\ m.seq = d.clock + 1
  BY DEF m
<1>13. 0 < m.seq /\ m.seq <= n.clock /\ db[r].clock <= n.clock
  BY <1>1, <1>5, <1>6
<1>14. MarkersInv
  BY DEF SoundInv
<1>7. Sound(d, Births, Born)
  BY DEF SoundInv, StoresInv
<1>8. /\ p \in Part => p \in Born
      /\ \A b \in Births : b.part = p => b.seq < m.seq
  <2>1. \A b \in Births : b.part \in Part /\ b.seq \in Nat
    BY BirthFacts DEF SoundInv, Birth
  <2>2. ASSUME p \in Part
        PROVE  p \in Born /\ \A b \in Births : b.part = p => b.seq <= d.clock
    BY <1>7, <2>2 DEF Sound
  <2> QED
    BY <1>1, <1>6, <2>1, <2>2
<1>15. m.entity \in Part => Rooted(m.entity, m.seq, Births, Born \cup {m.entity})
  <2> SUFFICES ASSUME p \in Part
               PROVE  Rooted(p, m.seq, Births, Born \cup {p})
    BY <1>6
  <2>1. Ancestors(p) \subseteq d.rows
    BY <1>7 DEF Sound
  <2>2. \A a \in Ancestors(p) : a \in Born /\ \A b \in Births :
          b.part = a => b.seq <= d.clock /\ b.seq \in Nat
    BY <1>7, <2>1, BirthFacts DEF Sound, SoundInv
  <2> QED
    BY <1>1, <1>6, <2>2 DEF Rooted
<1>9. Sound(n, Births', Born')
  <2>1. Births' = Births /\ Born \subseteq Born' /\ Births \in SUBSET Birth
    BY <1>3, <1>4, <1>5, <1>6, <1>8, <1>12, <1>13, <1>14, <1>15, NewMarker, BirthFacts
  <2>2. Sound(d, Births, Born')
    BY <1>1, <1>7, <2>1, SoundGrows
  <2>3. n.clock >= d.clock
    BY <1>1, <1>5
  <2> QED
    BY <1>1, <1>5, <2>1, <2>2, <2>3, SoundSame
<1>10. Idle /\ \A s \in Natives : deleting'[s] \subseteq deleting[s]
  BY <1>4 DEF ParityReady, EditorTurn, Turn
<1>11. SoundInv'
  BY <1>3, <1>4, <1>5, <1>6, <1>8, <1>9, <1>10, <1>12, <1>13, <1>15, EditIsSound
<1> QED
  BY <1>4, <1>11

LEMMA EditSound ==
  ASSUME TypeInv, SoundInv, NEW r \in Natives
  PROVE  /\ \A c \in Cards : CreateCard(r, c) => TypeInv' /\ SoundInv'
         /\ \A l \in Lists : CreateChecklist(r, l) => TypeInv' /\ SoundInv'
         /\ \A i \in Items : CreateChecklistItem(r, i) => TypeInv' /\ SoundInv'
         /\ \A i \in Items, done \in BOOLEAN :
              SetChecklistItemDone(r, i, done) => TypeInv' /\ SoundInv'
         /\ SetAppearance(r) => TypeInv' /\ SoundInv'
<1> DEFINE d == db[r]
<1>0. d \in Store /\ Sound(d, Births, Born) /\ r \in Replicas
  BY NobodyIsNoDevice DEF TypeInv, ChecklistTypeOK, SoundInv, StoresInv
<1>1. ASSUME NEW c \in Cards, CreateCard(r, c)
      PROVE  TypeInv' /\ SoundInv'
  <2>1. c \in Part /\ Ancestors(c) \subseteq d.rows
    BY AncestorFacts DEF Part
  <2>2. MarkerFits([seq |-> d.clock + 1, kind |-> "card.create", entity |-> c])
    BY DEF MarkerFits
  <2> QED
    BY <1>1, <2>1, <2>2, InsertStep DEF CreateCard, CreationKind
<1>2. ASSUME NEW l \in Lists, CreateChecklist(r, l)
      PROVE  TypeInv' /\ SoundInv'
  <2>1. l \in Part /\ Ancestors(l) \subseteq d.rows
    BY <1>2, AncestorFacts DEF Part, CreateChecklist, Present
  <2>2. MarkerFits([seq |-> d.clock + 1, kind |-> "checklist.create", entity |-> l])
    BY DEF MarkerFits
  <2> QED
    BY <1>2, <2>1, <2>2, InsertStep DEF CreateChecklist, CreationKind
<1>3. ASSUME NEW i \in Items, CreateChecklistItem(r, i)
      PROVE  TypeInv' /\ SoundInv'
  <2>1. Parent[i] \in d.rows
    BY <1>3 DEF CreateChecklistItem, Present
  <2>2. i \in Part /\ Ancestors(i) \subseteq d.rows
    BY <1>0, <2>1, AncestorFacts DEF Part, Sound
  <2>3. MarkerFits([seq |-> d.clock + 1, kind |-> "checklist.item.create",
                    entity |-> i])
    BY DEF MarkerFits
  <2> QED
    BY <1>3, <2>2, <2>3, InsertStep DEF CreateChecklistItem, CreationKind
<1>4. ASSUME NEW i \in Items, NEW done \in BOOLEAN, SetChecklistItemDone(r, i, done)
      PROVE  TypeInv' /\ SoundInv'
  <2> DEFINE n == UpdateDone(d, i, done)
  <2>1. /\ n \in Store /\ Ticked(d, n, "checklist.item.update", i)
        /\ n.minted /\ n.rows = d.rows
        /\ n.done \subseteq d.done \cup {i}
    BY <1>0, UpdateDoneEffect
  <2>2. i \in Part \cup {Board} /\ i \in d.rows /\ ParityReady(r) /\ Commit(r, n)
    BY <1>4, EditorIsReady DEF SetChecklistItemDone, Present, Part
  <2> HIDE DEF n
  <2>3. n.done \subseteq n.rows
    BY <1>0, <2>1, <2>2 DEF Sound
  <2>4. MarkerFits([seq |-> d.clock + 1, kind |-> "checklist.item.update",
                    entity |-> i])
    BY DEF MarkerFits
  <2>5. "checklist.item.update" \in MarkerKind \ CreationKind
    BY DEF MarkerKind, CreationKind
  <2> QED
    BY <2>1, <2>2, <2>3, <2>4, <2>5, TouchStep
<1>5. ASSUME SetAppearance(r)
      PROVE  TypeInv' /\ SoundInv'
  <2> DEFINE n == ChooseAppearance(d, r)
  <2>1. /\ n \in Store /\ Ticked(d, n, "board.appearance.put", Board)
        /\ n.minted = d.minted /\ n.rows = d.rows /\ n.done = d.done
    BY <1>0, ChooseAppearanceEffect
  <2>2. ParityReady(r) /\ Commit(r, n)
    BY <1>5 DEF SetAppearance
  <2> HIDE DEF n
  <2>3. n.done \subseteq n.rows /\ Board \notin Part
    BY <1>0, <2>1, PartsAssumption DEF Sound
  <2>4. MarkerFits([seq |-> d.clock + 1, kind |-> "board.appearance.put",
                    entity |-> Board])
    BY DEF MarkerFits
  <2>5. "board.appearance.put" \in MarkerKind \ CreationKind
    BY DEF MarkerKind, CreationKind
  <2> QED
    BY <2>1, <2>2, <2>3, <2>4, <2>5, TouchStep
<1> QED
  BY <1>1, <1>2, <1>3, <1>4, <1>5

\* The books do not change: no marker, no event, and the clock moves on.
LEMMA ReserveSound ==
  ASSUME TypeInv, SoundInv, NEW r \in Natives, NEW p \in Part, ReserveDelete(r, p)
  PROVE  TypeInv' /\ SoundInv'
<1> USE DEF TypeInv, ChecklistTypeOK
<1> DEFINE d == db[r]
           n == NextLocalClock(d)
           v0 == [part |-> p, seq |-> n.clock]
<1>1. d \in Store /\ d.clock \in Nat
  BY StoreFields
<1>2. n \in Store /\ n.clock = d.clock + 1 /\ n.minted /\ SameBut(d, n)
  BY <1>1, NextLocalClockEffect
<1>3. /\ p \in d.rows /\ deleting[r] = {} /\ Idle
      /\ db' = [db EXCEPT ![r] = n]
      /\ deleting' = [deleting EXCEPT ![r] = {v0}]
      /\ UNCHANGED <<staged, merge, world>>
  BY DEF ReserveDelete, Present, EditorReady, EditorTurn, Turn
<1> HIDE DEF n
<1>4. v0 \in Delete /\ v0.part = p /\ v0.seq = d.clock + 1 /\ v0.seq \in Nat
  BY <1>1, <1>2 DEF Delete
<1> HIDE DEF v0
<1>5. TypeInv'
  BY <1>2, <1>3, <1>4
<1>6. \A s \in Natives : /\ db[s] \in Store /\ db[s].clock \in Nat
                         /\ db'[s] = IF s = r THEN n ELSE db[s]
                         /\ SameBut(db[s], db'[s]) /\ db[s].clock <= db'[s].clock
                         /\ db[s].minted => db'[s].minted
  BY <1>1, <1>2, <1>3, StoreFields DEF SameBut
<1>7. Births' = Births /\ Born' = Born /\ \A m : MarkerSound(m) => MarkerSound(m)'
  BY <1>3, <1>6, SameBirths DEF SameBut
<1>8. MarkersInv'
  <2>1. ASSUME NEW s \in Natives
        PROVE  MarkersBelow(db'[s])
    <3>1. MarkersBelow(db[s]) /\ \A m \in db[s].pending : m.seq \in Nat
      BY <1>6, StoreFields DEF SoundInv, MarkersInv, Marker
    <3>2. db'[s].pending = db[s].pending /\ db[s].clock \in Nat
          /\ db'[s].clock \in Nat /\ db[s].clock <= db'[s].clock
      BY <1>1, <1>2, <1>6 DEF SameBut
    <3> QED
      BY <3>1, <3>2 DEF MarkersBelow
  <2>2. \A s \in Natives : \A m \in db'[s].pending : MarkerSound(m)'
    BY <1>6, <1>7 DEF SoundInv, MarkersInv, SameBut
  <2> QED
    BY <2>1, <2>2 DEF MarkersInv, MarkersBelow
<1>9. EventsInv'
  BY <1>3, <1>6, <1>7 DEF SoundInv, EventsInv, SameBut
<1>10. StoresInv'
  <2>1. ASSUME NEW s \in Natives
        PROVE  Sound(db'[s], Births, Born)
    <3>1. Sound(db[s], Births, Born) /\ db'[s] \in Store
      BY <1>2, <1>6 DEF SoundInv, StoresInv
    <3>2. db'[s].clock >= db[s].clock
      BY <1>1, <1>2, <1>6
    <3>3. db'[s].done \subseteq db'[s].rows /\ Births \in SUBSET Birth
      BY <1>6, <3>1, BirthFacts DEF Sound, SameBut, SoundInv
    <3> QED
      BY <1>6, <3>1, <3>2, <3>3, SoundSame DEF SameBut
  <2> QED
    BY <1>7, <2>1 DEF StoresInv
<1>11. DeletesInv'
  <2>1. ASSUME NEW s \in Natives, NEW v \in deleting'[s]
        PROVE  /\ Rooted(v.part, v.seq, Births, Born)
               /\ 0 < v.seq /\ v.seq <= db'[s].clock
               /\ \A b \in Births : b.part = v.part => b.seq < v.seq
    <3>1. CASE s = r
      <4>1. v = v0
        BY <1>3, <3>1
      <4>2. p \in Born /\ \A b \in Births : b.part = p => b.seq <= d.clock
        BY <1>3 DEF SoundInv, StoresInv, Sound
      <4>3. \A b \in Births : b.seq \in Nat
        BY BirthFacts DEF SoundInv
      <4>4. \A a \in Ancestors(p) : a \in Born /\ \A b \in Births :
              b.part = a => b.seq <= d.clock
        BY <1>3 DEF SoundInv, StoresInv, Sound
      <4>5. Rooted(p, v0.seq, Births, Born)
        BY <1>1, <1>4, <4>2, <4>3, <4>4 DEF Rooted
      <4> QED
        BY <1>1, <1>2, <1>4, <1>6, <3>1, <4>1, <4>2, <4>3, <4>5
    <3>2. CASE s # r
      BY <1>3, <1>6, <3>2 DEF SoundInv, DeletesInv
    <3> QED
      BY <3>1, <3>2
  <2> QED
    BY <1>7, <2>1 DEF DeletesInv
<1>12. MergeInv'
  BY <1>3, NobodyIsNoDevice DEF MergeInv, Idle, NoMerge
<1>13. AnonymousInv'
  <2>1. ASSUME NEW s \in Natives
        PROVE  /\ ~ db'[s].minted => db'[s].outbox = {} /\ db'[s].seen = {}
               /\ \A e \in db'[s].outbox :
                    e.stamp.replica = s /\ e.stamp.clock <= db'[s].clock
               /\ staged'[s] # {} => db'[s].minted
    <3>1. /\ ~ db[s].minted => db[s].outbox = {} /\ db[s].seen = {}
          /\ \A e \in db[s].outbox :
               e.stamp.replica = s /\ e.stamp.clock <= db[s].clock
          /\ staged[s] # {} => db[s].minted
      BY DEF SoundInv, AnonymousInv, NothingLeavesAnonymously
    <3>2. \A e \in db[s].outbox : e.stamp.clock \in Nat
      BY <1>6, StoreFields, EventFacts
    <3>3. db[s].clock \in Nat /\ db'[s].clock \in Nat
      BY <1>1, <1>2, <1>6
    <3> QED
      BY <1>3, <1>6, <3>1, <3>2, <3>3 DEF SameBut
  <2>2. \A s \in Natives : ~ Merging(s)'
    BY <1>3, NobodyIsNoDevice DEF Merging, Idle, NoMerge
  <2> QED
    BY <2>1, <2>2 DEF AnonymousInv, NothingLeavesAnonymously
<1> QED
  BY <1>5, <1>8, <1>9, <1>10, <1>11, <1>12, <1>13 DEF SoundInv

\* Work that is dropped.
LEMMA DropSound ==
  ASSUME TypeInv, SoundInv, UNCHANGED <<db, world>>,
         deleting' \in [Natives -> SUBSET Delete],
         staged' \in [Natives -> SUBSET Event],
         \A s \in Natives : /\ deleting'[s] \subseteq deleting[s]
                            /\ staged'[s] \subseteq staged[s],
         merge' = merge \/ merge' = NoMerge
  PROVE  TypeInv' /\ SoundInv'
<1>1. NoMerge \in [at : Natives \cup {Nobody}, todo : SUBSET Event, work : Store]
  BY BoardStoreType DEF NoMerge
<1>2. TypeInv'
  BY <1>1 DEF TypeInv, ChecklistTypeOK
<1>3. Births' = Births /\ Born' = Born /\ \A m : MarkerSound(m) => MarkerSound(m)'
  BY SameBirths
<1>4. MarkersInv' /\ StoresInv'
  BY <1>3 DEF SoundInv, MarkersInv, StoresInv, MarkersBelow
<1>5. EventsInv'
  <2>1. CASE merge' = merge
    BY <1>3, <2>1 DEF SoundInv, EventsInv
  <2>2. CASE merge' = NoMerge
    BY <1>3, <2>2 DEF SoundInv, EventsInv, NoMerge
  <2> QED
    BY <2>1, <2>2
<1>6. DeletesInv'
  BY <1>3 DEF SoundInv, DeletesInv
<1>7. MergeInv'
  <2>1. CASE merge' = merge
    BY <1>3, <2>1 DEF SoundInv, MergeInv
  <2>2. CASE merge' = NoMerge
    BY <2>2, NobodyIsNoDevice DEF MergeInv, NoMerge
  <2> QED
    BY <2>1, <2>2
<1>8. AnonymousInv'
  <2>1. NothingLeavesAnonymously'
    BY DEF SoundInv, AnonymousInv, NothingLeavesAnonymously
  <2>2. ASSUME NEW s \in Natives, staged'[s] # {} \/ Merging(s)'
        PROVE  db'[s].minted
    <3>2. NoMerge.at = Nobody
      BY DEF NoMerge
    <3>3. staged'[s] # {} => staged[s] # {}
      OBVIOUS
    <3>1. staged[s] # {} \/ Merging(s)
      BY <2>2, <3>2, <3>3, NobodyIsNoDevice DEF Merging
    <3> QED
      BY <3>1 DEF SoundInv, AnonymousInv
  <2> QED
    BY <2>1, <2>2 DEF AnonymousInv
<1> QED
  BY <1>2, <1>4, <1>5, <1>6, <1>7, <1>8 DEF SoundInv

LEMMA BurySound ==
  ASSUME NEW d \in Store, NEW r \in Replicas, NEW p \in Part, NEW seq \in Nat,
         NEW B \in SUBSET Birth, NEW G, Sound(d, B, G), p \in G,
         \A b \in B : b.part = p => b.seq < seq
  PROVE  LET n == BuryPart(d, r, p, seq)
         IN  /\ n \in Store /\ n.clock = d.clock /\ n.minted = d.minted
             /\ n.outbox = d.outbox /\ n.seen = d.seen
             /\ n.pending = d.pending \cup
                  {[seq |-> seq, kind |-> DeleteKind(p), entity |-> p]}
             /\ Sound(n, B, G) /\ StaysBuried(d, n)
<1> DEFINE n == BuryPart(d, r, p, seq)
           version == [clock |-> seq, replica |-> r]
           s == IF Newer(version, d.tomb[p]) THEN version ELSE d.tomb[p]
<1>1. /\ n \in Store /\ n.clock = d.clock /\ n.minted = d.minted
      /\ n.outbox = d.outbox /\ n.seen = d.seen
      /\ n.pending = d.pending \cup
           {[seq |-> seq, kind |-> DeleteKind(p), entity |-> p]}
      /\ n.rows = d.rows \ Subtree(p) /\ n.done = d.done \ Subtree(p)
      /\ n.tomb = [d.tomb EXCEPT ![p] = s]
  BY BuryPartEffect
<1>2. version \in Stamp /\ version.clock = seq
  BY DEF Stamp
<1>3. s \in StampOrNone /\ (s = d.tomb[p] \/ s.clock = seq)
  BY <1>2, StoreFields DEF StampOrNone
<1>4. s = d.tomb[p] \/ s # NoStamp
  BY <1>2, StampOrder
<1> HIDE DEF n, s, version
<1>5. Sound(n, B, G)
  BY <1>1, <1>3, SoundRemove
<1>6. StaysBuried(d, n)
  BY <1>1, <1>4, StoreFields DEF StaysBuried, Buried
<1> QED
  BY <1>1, <1>5, <1>6 DEF n

LEMMA CommitDeleteSound ==
  ASSUME TypeInv, SoundInv, NEW r \in Natives, CommitDelete(r)
  PROVE  TypeInv' /\ SoundInv'
<1> USE DEF TypeInv, ChecklistTypeOK
<1> DEFINE d == db[r]
<1>1. /\ d \in Store /\ d.clock \in Nat /\ Sound(d, Births, Born)
      /\ r \in Replicas /\ Births \in SUBSET Birth
  BY StoreFields, NobodyIsNoDevice, BirthFacts DEF SoundInv, StoresInv
<1>2. PICK v \in deleting[r] :
        db' = [db EXCEPT ![r] = IF Present(d, v.part) \/ Buried(d, v.part)
                                THEN BuryPart(d, r, v.part, v.seq) ELSE d]
  BY DEF CommitDelete
<1>3. /\ deleting' = [deleting EXCEPT ![r] = {}] /\ Idle
      /\ UNCHANGED <<staged, merge, world>>
      /\ \A s \in Natives : deleting'[s] \subseteq deleting[s]
      /\ deleting' \in [Natives -> SUBSET Delete]
  BY DEF CommitDelete, EditorTurn, Turn
<1>4. v.part \in Part /\ v.seq \in Nat
  BY DEF Delete
<1>5. CASE ~ (Present(d, v.part) \/ Buried(d, v.part))
  <2>1. UNCHANGED db
    BY <1>2, <1>5
  <2> QED
    BY <1>3, <2>1, DropSound
<1>6. CASE Present(d, v.part) \/ Buried(d, v.part)
  <2> DEFINE p == v.part
             n == BuryPart(d, r, p, v.seq)
             m == [seq |-> v.seq, kind |-> DeleteKind(p), entity |-> p]
  <2>1. /\ n \in Store /\ n.clock = d.clock /\ n.minted = d.minted
        /\ n.outbox = d.outbox /\ n.seen = d.seen
        /\ n.pending = d.pending \cup {m}
        /\ Sound(n, Births, Born)
    <3>1. p \in Born /\ \A b \in Births : b.part = p => b.seq < v.seq
      BY DEF SoundInv, DeletesInv, Rooted
    <3> QED
      BY <1>1, <1>4, <3>1, BurySound
  <2>2. db' = [db EXCEPT ![r] = n]
    BY <1>2, <1>6
  <2>3. /\ p \in Born /\ 0 < v.seq /\ v.seq <= d.clock
        /\ Rooted(p, v.seq, Births, Born \cup {p})
        /\ \A b \in Births : b.part = p => b.seq < v.seq
    BY DEF SoundInv, DeletesInv, Rooted
  <2>4. /\ m \in Marker /\ MarkerFits(m) /\ m.kind \notin CreationKind
        /\ m.kind = DeleteKind(p) /\ m.entity = p /\ m.seq = v.seq
    <3>1. CASE p \in Cards
      BY <1>4, <3>1, PartsAssumption
         DEF Marker, MarkerKind, MarkerFits, DeleteKind, CreationKind
    <3>2. CASE p \in Lists
      BY <1>4, <3>2, PartsAssumption
         DEF Marker, MarkerKind, MarkerFits, DeleteKind, CreationKind
    <3>3. CASE p \in Items
      BY <1>4, <3>3, PartsAssumption
         DEF Marker, MarkerKind, MarkerFits, DeleteKind, CreationKind
    <3> QED
      BY <1>4, <3>1, <3>2, <3>3 DEF Part
  <2> HIDE DEF n, m
  <2>7. d.clock <= n.clock /\ m.seq <= n.clock /\ 0 < m.seq
    BY <1>1, <2>1, <2>3, <2>4
  <2>8. MarkersInv
    BY DEF SoundInv
  <2>10. UNCHANGED world
    BY <1>3
  <2>9. Births' = Births /\ Born \subseteq Born'
    BY <2>1, <2>2, <2>3, <2>4, <2>7, <2>8, <2>10, NewMarker
  <2>11. Sound(n, Births', Born')
    BY <1>1, <2>1, <2>9, SoundGrows
  <2>12. SoundInv'
    BY <1>3, <2>1, <2>2, <2>3, <2>4, <2>7, <2>11, EditIsSound
  <2>13. TypeInv'
    BY <1>3, <2>1, <2>2
  <2> QED
    BY <2>12, <2>13
<1> QED
  BY <1>5, <1>6

\* What a marker becomes.
LEMMA MarkerEventSound ==
  ASSUME TypeInv, SoundInv, NEW r \in Natives, NEW m \in db[r].pending
  PROVE  LET e == MarkerEvent(db[r], r, m)
         IN  /\ e \in Event /\ EventSound(e, Births, Born)
             /\ e.stamp.replica = r /\ e.stamp.clock <= db[r].clock
<1> DEFINE e == MarkerEvent(db[r], r, m)
<1>1. db[r] \in Store /\ m \in Marker /\ r \in Replicas
  BY StoreFields, NobodyIsNoDevice DEF TypeInv, ChecklistTypeOK
<1>2. e \in Event /\ Reports(e, r, m)
  BY <1>1, MarkerEventReports
<1> HIDE DEF e
<1>3. MarkerSound(m) /\ m.seq <= db[r].clock /\ m.kind \in MarkerKind
  BY <1>1 DEF SoundInv, MarkersInv, MarkersBelow, Marker
<1>4. EventFits(e)
  BY <1>2, <1>3 DEF EventFits, MarkerFits, MarkerSound, Reports, OpOf, MarkerKind
<1>5. e.op \in {"card.delete", "delta.delete"} => m.kind \notin CreationKind
  BY <1>2, <1>3 DEF Reports, OpOf, MarkerKind, CreationKind
<1>6. e.op # "board.snapshot"
  BY <1>2, <1>3 DEF Reports, OpOf, MarkerKind
<1>7. m.kind \in CreationKind => [part |-> m.entity, seq |-> m.seq] \in Births
  BY BirthFacts DEF SoundInv
<1>8. e.entity = m.entity /\ e.stamp.clock = m.seq /\ e.stamp.replica = r
      /\ (e.all <=> m.kind \in CreationKind)
  BY <1>2 DEF Reports
<1>9. EventSound(e, Births, Born)
  BY <1>3, <1>4, <1>5, <1>6, <1>7, <1>8 DEF EventSound, MarkerSound
<1> QED
  BY <1>2, <1>3, <1>8, <1>9 DEF e

LEMMA SnapshotEventSound ==
  ASSUME TypeInv, SoundInv, world.content = "seeded", NEW a \in Replicas
  PROVE  Snapshot(a) \in Event /\ EventSound(Snapshot(a), Births, Born)
<1> DEFINE e == Snapshot(a)
<1>1. e \in Event
  BY StampOrder DEF Snapshot, Event, Stamp
<1>2. e.op = "board.snapshot" /\ e.entity = Board /\ ~ e.all
  BY DEF Snapshot
<1>3. \A b \in Births : b.part \in Part /\ b.part \notin SnapshotParts
  <2>1. ASSUME NEW b \in Births
        PROVE  b.part \notin SnapshotParts
    <3>1. PICK s \in Natives : \E m \in Creations(s) :
                                b = [part |-> m.entity, seq |-> m.seq]
      BY DEF Births
    <3>2. PICK m \in Creations(s) : b = [part |-> m.entity, seq |-> m.seq]
      BY <3>1
    <3>3. m \in db[s].pending /\ m.kind \in CreationKind
      BY DEF Creations
    <3>4. MarkerSound(m)
      BY <3>3 DEF SoundInv, MarkersInv
    <3> QED
      BY <3>2, <3>3, <3>4 DEF MarkerSound
  <2> QED
    BY <2>1, BirthFacts DEF SoundInv, Birth
<1>4. SnapshotParts \subseteq Born /\ Board \notin Part
  BY PartsAssumption DEF Born
<1> HIDE DEF e
<1>5. EventSound(e, Births, Born)
  BY <1>2, <1>3, <1>4 DEF EventSound, EventFits
<1> QED
  BY <1>1, <1>5 DEF e

LEMMA PublishedAreSound ==
  ASSUME TypeInv, SoundInv, NEW e \in Published
  PROVE  e \in Event /\ EventSound(e, Births, Born)
<1>1. CASE \E s \in Natives : e \in db[s].outbox
  BY <1>1, StoreFields DEF TypeInv, ChecklistTypeOK, SoundInv, EventsInv
<1>2. CASE world.content = "seeded" /\ \E a \in Replicas \ Natives : e = Snapshot(a)
  BY <1>2, SnapshotEventSound
<1> QED
  BY <1>1, <1>2 DEF Published, Snapshots

\* Materialize, and the first transaction of apply_remote_batch.
LEMMA PublishSound ==
  ASSUME TypeInv, SoundInv, NEW r \in Natives, NEW batch \in SUBSET Published,
         SyncReady(r), db' = [db EXCEPT ![r] = MaterializePending(@, r)],
         staged' = [staged EXCEPT ![r] = batch],
         UNCHANGED <<deleting, merge, world>>
  PROVE  TypeInv' /\ SoundInv'
<1> USE DEF TypeInv, ChecklistTypeOK
<1> DEFINE d == db[r]
           n == MaterializePending(d, r)
<1>1. /\ d \in Store /\ MarkersBelow(d) /\ Sound(d, Births, Born)
      /\ r \in Replicas /\ Births \in SUBSET Birth /\ d.minted
  BY NobodyIsNoDevice, BirthFacts
     DEF SoundInv, MarkersInv, StoresInv, SyncReady, Materializable
<1>2. /\ n \in Store
      /\ n.clock = d.clock /\ n.minted = d.minted /\ n.tomb = d.tomb
      /\ n.seen = d.seen /\ n.pending = d.pending
      /\ n.rows = d.rows /\ n.done = d.done
      /\ n.outbox = d.outbox \cup {MarkerEvent(d, r, m) : m \in Unmaterialized(d, r)}
  BY <1>1, MaterializeEffect
<1>3. \A m \in Unmaterialized(d, r) : m \in d.pending
  BY DEF Unmaterialized
<1>4. db' = [db EXCEPT ![r] = n]
  OBVIOUS
<1> HIDE DEF n
<1>5. \A e \in batch : e \in Event /\ EventSound(e, Births, Born)
  BY PublishedAreSound
<1>6. TypeInv'
  BY <1>2, <1>4, <1>5
<1>7. \A s \in Natives : /\ db'[s] = IF s = r THEN n ELSE db[s]
                         /\ db'[s].pending = db[s].pending
                         /\ db'[s].clock = db[s].clock
                         /\ db'[s].minted = db[s].minted
  BY <1>2, <1>4
<1>8. Births' = Births /\ Born' = Born /\ \A m : MarkerSound(m) => MarkerSound(m)'
  BY <1>7, SameBirths
<1>9. MarkersInv'
  BY <1>7, <1>8 DEF SoundInv, MarkersInv, MarkersBelow
<1>10. \A e \in n.outbox : /\ EventSound(e, Births, Born)
                           /\ e.stamp.replica = r /\ e.stamp.clock <= n.clock
  <2>1. ASSUME NEW e \in n.outbox, e \notin d.outbox
        PROVE  /\ EventSound(e, Births, Born)
               /\ e.stamp.replica = r /\ e.stamp.clock <= n.clock
    <3>1. PICK m \in Unmaterialized(d, r) : e = MarkerEvent(d, r, m)
      BY <1>2, <2>1
    <3> QED
      BY <1>2, <1>3, <3>1, MarkerEventSound
  <2>2. \A e \in d.outbox : /\ EventSound(e, Births, Born)
                            /\ e.stamp.replica = r /\ e.stamp.clock <= d.clock
    BY DEF SoundInv, EventsInv, AnonymousInv, NothingLeavesAnonymously
  <2> QED
    BY <1>2, <2>1, <2>2
<1>11. merge = NoMerge /\ \A s \in Natives \ {r} : staged'[s] = staged[s]
  BY DEF SyncReady, Turn, Idle
<1>12. EventsInv'
  <2>1. ASSUME NEW s \in Natives, NEW e \in db'[s].outbox \cup staged'[s]
        PROVE  EventSound(e, Births, Born)
    <3>1. CASE s = r
      BY <1>5, <1>7, <1>10, <3>1
    <3>2. CASE s # r
      BY <1>7, <3>2 DEF SoundInv, EventsInv
    <3> QED
      BY <3>1, <3>2
  <2> QED
    BY <1>8, <1>11, <2>1 DEF EventsInv, NoMerge
<1>13. StoresInv'
  <2>1. Sound(n, Births, Born)
    <3>1. n.clock >= d.clock /\ n.done \subseteq n.rows
      BY <1>1, <1>2, StoreFields DEF Sound
    <3> QED
      BY <1>1, <1>2, <3>1, SoundSame
  <2> QED
    BY <1>7, <1>8, <2>1 DEF SoundInv, StoresInv
<1>14. DeletesInv' /\ MergeInv'
  BY <1>7, <1>8, <1>11, NobodyIsNoDevice
     DEF SoundInv, DeletesInv, MergeInv, NoMerge
<1>15. AnonymousInv'
  <2>1. ASSUME NEW s \in Natives
        PROVE  /\ ~ db'[s].minted => db'[s].outbox = {} /\ db'[s].seen = {}
               /\ \A e \in db'[s].outbox :
                    e.stamp.replica = s /\ e.stamp.clock <= db'[s].clock
               /\ staged'[s] # {} => db'[s].minted
    <3>1. CASE s = r
      BY <1>1, <1>2, <1>7, <1>10, <3>1
    <3>2. CASE s # r
      BY <1>7, <1>11, <3>2 DEF SoundInv, AnonymousInv, NothingLeavesAnonymously
    <3> QED
      BY <3>1, <3>2
  <2>2. \A s \in Natives : ~ Merging(s)'
    BY <1>11, NobodyIsNoDevice DEF Merging, NoMerge
  <2> QED
    BY <2>1, <2>2 DEF AnonymousInv, NothingLeavesAnonymously
<1> QED
  BY <1>6, <1>9, <1>12, <1>13, <1>14, <1>15 DEF SoundInv

LEMMA MergeForms ==
  ASSUME TypeInv, NEW r \in Natives, Merging(r)
  PROVE  /\ merge.at = r /\ merge.todo \in SUBSET Event /\ merge.work \in Store
         /\ merge = [at |-> r, todo |-> merge.todo, work |-> merge.work]
  BY DEF TypeInv, ChecklistTypeOK, Merging

\* MergeInv, unfolded.
LEMMA WorkFacts ==
  ASSUME TypeInv, SoundInv, NEW r \in Natives, Merging(r)
  PROVE  LET d == db[r]  w == merge.work
         IN  /\ w.minted = d.minted /\ w.outbox = d.outbox
             /\ w.pending = d.pending /\ d.clock <= w.clock
             /\ Sound(w, Births, Born) /\ StaysBuried(d, w)
<1>1. Kept([db[r] EXCEPT !.clock = merge.work.clock], merge.work)
      /\ db[r].clock <= merge.work.clock
      /\ Sound(merge.work, Births, Born) /\ StaysBuried(db[r], merge.work)
  BY DEF SoundInv, MergeInv, Merging
<1>2. db[r] \in Store
  BY DEF TypeInv, ChecklistTypeOK
<1> QED
  BY <1>1, <1>2 DEF Kept, Store

LEMMA WorkIsMerge ==
  ASSUME NEW d \in Store, NEW w \in Store,
         w.minted = d.minted, w.outbox = d.outbox, w.pending = d.pending
  PROVE  Kept([d EXCEPT !.clock = w.clock], w)
  BY DEF Kept, Store

LEMMA OpenMergeSound ==
  ASSUME TypeInv, SoundInv, NEW r \in Natives, OpenMerge(r)
  PROVE  TypeInv' /\ SoundInv'
<1> USE DEF TypeInv, ChecklistTypeOK
<1> DEFINE d == db[r]
<1>1. PICK observed \in {e.stamp.clock : e \in staged[r]} :
        /\ \A e \in staged[r] : e.stamp.clock <= observed
        /\ merge' = [at |-> r, todo |-> staged[r],
                     work |-> ObserveRemoteClock(db[r], observed)]
  BY DEF OpenMerge
<1> DEFINE n == ObserveRemoteClock(d, observed)
<1>2. observed \in Nat /\ d \in Store
  BY EventFacts
<1>3. /\ n \in Store /\ n.clock >= d.clock /\ n.clock >= observed
      /\ n.minted = d.minted /\ SameBut(d, n)
  BY <1>2, ObserveEffect
<1>4. /\ merge' = [at |-> r, todo |-> staged[r], work |-> n]
      /\ staged' = [staged EXCEPT ![r] = {}] /\ staged[r] # {}
      /\ UNCHANGED <<db, deleting, world>>
  BY <1>1 DEF OpenMerge
<1> HIDE DEF n
<1>5. merge'.at = r /\ merge'.todo = staged[r] /\ merge'.work = n
  BY <1>4
<1>6. TypeInv'
  BY <1>3, <1>4
<1>7. Births' = Births /\ Born' = Born /\ \A m : MarkerSound(m) => MarkerSound(m)'
  BY <1>4, SameBirths
<1>8. MarkersInv' /\ StoresInv' /\ DeletesInv'
  BY <1>4, <1>7 DEF SoundInv, MarkersInv, StoresInv, DeletesInv, MarkersBelow
<1>9. EventsInv'
  <2>1. \A e \in staged[r] : e.stamp.clock <= n.clock
    <3>1. n.clock \in Nat /\ \A e \in staged[r] : e.stamp.clock \in Nat
      BY <1>3, StoreFields, EventFacts
    <3> QED
      BY <1>1, <1>2, <1>3, <3>1
  <2> QED
    BY <1>4, <1>5, <1>7, <2>1 DEF SoundInv, EventsInv
<1>10. MergeInv'
  <2>1. Sound(d, Births, Born) /\ Births \in SUBSET Birth
    BY BirthFacts DEF SoundInv, StoresInv
  <2>2. Sound(n, Births, Born)
    <3>1. n.done \subseteq n.rows /\ n.rows = d.rows /\ n.tomb = d.tomb
      BY <1>3, <2>1 DEF Sound, SameBut
    <3> QED
      BY <1>2, <1>3, <2>1, <3>1, SoundSame
  <2>3. StaysBuried(d, n)
    BY <1>3 DEF StaysBuried, Buried, SameBut
  <2>4. Kept([d EXCEPT !.clock = n.clock], n)
    BY <1>2, <1>3, WorkIsMerge DEF SameBut
  <2>5. d.clock <= n.clock
    BY <1>2, <1>3, StoreFields
  <2> QED
    BY <1>4, <1>5, <1>7, <2>2, <2>3, <2>4, <2>5 DEF MergeInv
<1>11. AnonymousInv'
  <2>1. d.minted
    BY <1>4 DEF SoundInv, AnonymousInv
  <2> QED
    BY <1>4, <1>5, <2>1
       DEF SoundInv, AnonymousInv, NothingLeavesAnonymously, Merging
<1> QED
  BY <1>6, <1>8, <1>9, <1>10, <1>11 DEF SoundInv

LEMMA MergeEventSound ==
  ASSUME TypeInv, SoundInv, NEW r \in Natives, NEW e \in merge.todo, MergeEvent(r, e)
  PROVE  TypeInv' /\ SoundInv'
<1> DEFINE w == merge.work
           n == IF e \in w.seen THEN w ELSE ApplyRemoteEvent(w, e)
           todo == merge.todo \ {e}
<1>1. Merging(r) /\ UNCHANGED <<db, deleting, staged, world>>
  BY DEF MergeEvent
<1>2. /\ merge.at = r /\ merge.todo \in SUBSET Event /\ w \in Store
      /\ merge = [at |-> r, todo |-> merge.todo, work |-> w]
  BY <1>1, MergeForms
<1>3. merge' = [at |-> r, todo |-> todo, work |-> n]
  BY <1>2 DEF MergeEvent
<1>4. /\ w.minted = db[r].minted /\ w.outbox = db[r].outbox
      /\ w.pending = db[r].pending /\ db[r].clock <= w.clock
      /\ Sound(w, Births, Born) /\ StaysBuried(db[r], w)
  BY <1>1, WorkFacts
<1>5. n \in Store /\ Kept(w, n) /\ Sound(n, Births, Born) /\ StaysBuried(w, n)
  <2>1. CASE e \in w.seen
    BY <1>2, <1>4, <2>1 DEF Kept, StaysBuried
  <2>2. CASE e \notin w.seen
    <3>1. EventSound(e, Births, Born) /\ e.stamp.clock <= w.clock
      BY DEF SoundInv, EventsInv
    <3>2. Births \in SUBSET Birth
      BY BirthFacts DEF SoundInv
    <3> QED
      BY <1>2, <1>4, <2>2, <3>1, <3>2, ApplySound
  <2> QED
    BY <2>1, <2>2
<1> HIDE DEF n
<1>6. merge'.at = r /\ merge'.todo = todo /\ merge'.work = n
  BY <1>3
<1>7. TypeInv'
  BY <1>1, <1>2, <1>3, <1>5 DEF TypeInv, ChecklistTypeOK
<1>8. Births' = Births /\ Born' = Born /\ \A m : MarkerSound(m) => MarkerSound(m)'
  BY <1>1, SameBirths
<1>9. MarkersInv' /\ StoresInv' /\ DeletesInv'
  BY <1>1, <1>8 DEF SoundInv, MarkersInv, StoresInv, DeletesInv, MarkersBelow
<1>10. EventsInv'
  BY <1>1, <1>5, <1>6, <1>8 DEF SoundInv, EventsInv, Kept
<1>11. MergeInv'
  <2>1. db[r] \in Store
    BY DEF TypeInv, ChecklistTypeOK
  <2>2. Kept([db[r] EXCEPT !.clock = n.clock], n) /\ db[r].clock <= n.clock
    BY <1>4, <1>5, <2>1, WorkIsMerge DEF Kept
  <2>3. StaysBuried(db[r], n)
    BY <1>4, <1>5 DEF StaysBuried
  <2> QED
    BY <1>1, <1>5, <1>6, <1>8, <2>2, <2>3 DEF MergeInv
<1>12. AnonymousInv'
  BY <1>1, <1>2, <1>6 DEF SoundInv, AnonymousInv, NothingLeavesAnonymously, Merging
<1> QED
  BY <1>7, <1>9, <1>10, <1>11, <1>12 DEF SoundInv

LEMMA CommitMergeSound ==
  ASSUME TypeInv, SoundInv, NEW r \in Natives, CommitMerge(r)
  PROVE  TypeInv' /\ SoundInv'
<1> DEFINE w == merge.work
<1>1. /\ Merging(r) /\ db' = [db EXCEPT ![r] = w] /\ merge' = NoMerge
      /\ UNCHANGED <<deleting, staged, world>>
  BY DEF CommitMerge
<1>2. w \in Store /\ db \in [Natives -> Store]
  BY <1>1, MergeForms DEF TypeInv, ChecklistTypeOK
<1>3. /\ w.minted = db[r].minted /\ w.outbox = db[r].outbox
      /\ w.pending = db[r].pending /\ db[r].clock <= w.clock
      /\ Sound(w, Births, Born)
  BY <1>1, WorkFacts
<1>4. \A s \in Natives : /\ db'[s] = IF s = r THEN w ELSE db[s]
                         /\ db'[s].pending = db[s].pending
                         /\ db'[s].outbox = db[s].outbox
                         /\ db'[s].minted = db[s].minted
                         /\ db[s].clock <= db'[s].clock
                         /\ db[s].clock \in Nat /\ db'[s].clock \in Nat
                         /\ db[s] \in Store
  BY <1>1, <1>2, <1>3, StoreFields
<1>5. TypeInv'
  <2>1. NoMerge \in [at : Natives \cup {Nobody}, todo : SUBSET Event, work : Store]
    BY BoardStoreType DEF NoMerge
  <2> QED
    BY <1>1, <1>2, <2>1 DEF TypeInv, ChecklistTypeOK
<1>6. Births' = Births /\ Born' = Born /\ \A m : MarkerSound(m) => MarkerSound(m)'
  BY <1>1, <1>4, SameBirths
<1>7. MarkersInv'
  <2>1. ASSUME NEW s \in Natives
        PROVE  MarkersBelow(db'[s])
    <3>1. MarkersBelow(db[s]) /\ \A m \in db[s].pending : m.seq \in Nat
      BY <1>4, StoreFields DEF SoundInv, MarkersInv, Marker
    <3> QED
      BY <1>4, <3>1 DEF MarkersBelow
  <2> QED
    BY <1>4, <1>6, <2>1 DEF SoundInv, MarkersInv, MarkersBelow
<1>8. StoresInv'
  BY <1>3, <1>4, <1>6 DEF SoundInv, StoresInv
<1>9. EventsInv'
  BY <1>1, <1>4, <1>6 DEF SoundInv, EventsInv, NoMerge
<1>10. DeletesInv'
  <2>1. ASSUME NEW s \in Natives, NEW v \in deleting[s]
        PROVE  v.seq <= db'[s].clock
    <3>1. v.seq <= db[s].clock /\ v.seq \in Nat
      BY DEF SoundInv, DeletesInv, TypeInv, ChecklistTypeOK, Delete
    <3> QED
      BY <1>4, <3>1
  <2> QED
    BY <1>1, <1>6, <2>1 DEF SoundInv, DeletesInv
<1>11. MergeInv'
  BY <1>1, NobodyIsNoDevice DEF MergeInv, NoMerge
<1>12. AnonymousInv'
  <2>1. db[r].minted
    BY <1>1 DEF SoundInv, AnonymousInv
  <2>2. ASSUME NEW s \in Natives, NEW e \in db'[s].outbox
        PROVE  e.stamp.replica = s /\ e.stamp.clock <= db'[s].clock
    <3>1. e.stamp.replica = s /\ e.stamp.clock <= db[s].clock
      BY <1>4 DEF SoundInv, AnonymousInv, NothingLeavesAnonymously
    <3>2. e.stamp.clock \in Nat
      BY <1>4, StoreFields, EventFacts
    <3> QED
      BY <1>4, <3>1, <3>2
  <2>3. \A s \in Natives : ~ db'[s].minted => db'[s].outbox = {} /\ db'[s].seen = {}
    BY <1>4, <2>1 DEF SoundInv, AnonymousInv, NothingLeavesAnonymously
  <2>4. \A s \in Natives : ~ Merging(s)'
    BY <1>1, NobodyIsNoDevice DEF Merging, NoMerge
  <2> QED
    BY <1>1, <1>4, <2>2, <2>3, <2>4
       DEF SoundInv, AnonymousInv, NothingLeavesAnonymously
<1> QED
  BY <1>5, <1>7, <1>8, <1>9, <1>10, <1>11, <1>12 DEF SoundInv

LEMMA SoundNext == TypeInv /\ SoundInv /\ [Next]_vars => TypeInv' /\ SoundInv'
<1> SUFFICES ASSUME TypeInv, SoundInv, [Next]_vars
             PROVE  TypeInv' /\ SoundInv'
  OBVIOUS
<1>1. CASE UNCHANGED vars
  <2>1. UNCHANGED <<db, world>> /\ UNCHANGED <<deleting, staged, merge>>
    BY <1>1 DEF vars
  <2>2. /\ deleting \in [Natives -> SUBSET Delete]
        /\ staged \in [Natives -> SUBSET Event]
    BY DEF TypeInv, ChecklistTypeOK
  <2> QED
    BY <2>1, <2>2, DropSound
<1>2. CASE \E r \in Natives : Editor(r)
  <2> PICK r \in Natives : Editor(r)
    BY <1>2
  <2>1. CASE \E p \in Part : ReserveDelete(r, p)
    BY <2>1, ReserveSound
  <2>2. CASE CommitDelete(r)
    BY <2>2, CommitDeleteSound
  <2> QED
    BY <2>1, <2>2, EditSound DEF Editor
<1>3. CASE \E r \in Natives : Sync(r)
  <2> PICK r \in Natives : Sync(r)
    BY <1>3
  <2>1. CASE Materialize(r)
    <3>1. /\ SyncReady(r) /\ staged[r] = {}
          /\ db' = [db EXCEPT ![r] = MaterializePending(@, r)]
          /\ UNCHANGED <<deleting, staged, merge, world>>
      BY <2>1 DEF Materialize, Commit, SyncReady
    <3>2. staged' = [staged EXCEPT ![r] = {}]
      BY <3>1 DEF TypeInv, ChecklistTypeOK
    <3>3. UNCHANGED <<deleting, merge, world>>
      BY <3>1
    <3> QED
      BY <3>1, <3>2, <3>3, PublishSound
  <2>2. CASE \E batch \in SmallBatch(r) : StageBatch(r, batch)
    <3> PICK batch \in SmallBatch(r) : StageBatch(r, batch)
      BY <2>2
    <3>1. batch \in SUBSET Published
      BY DEF SmallBatch
    <3> QED
      BY <3>1, PublishSound DEF StageBatch
  <2>3. CASE OpenMerge(r)
    BY <2>3, OpenMergeSound
  <2>4. CASE \E e \in merge.todo : MergeEvent(r, e)
    BY <2>4, MergeEventSound
  <2>5. CASE AbortMerge(r)
    <3>1. UNCHANGED <<db, deleting, staged, world>> /\ merge' = NoMerge
      BY <2>5 DEF AbortMerge
    <3>2. /\ deleting \in [Natives -> SUBSET Delete]
          /\ staged \in [Natives -> SUBSET Event]
      BY DEF TypeInv, ChecklistTypeOK
    <3> QED
      BY <3>1, <3>2, DropSound
  <2>6. CASE CommitMerge(r)
    BY <2>6, CommitMergeSound
  <2> QED
    BY <2>1, <2>2, <2>3, <2>4, <2>5, <2>6 DEF Sync
<1>4. CASE \E r \in Natives : Crash(r)
  <2> PICK r \in Natives : Crash(r)
    BY <1>4
  <2>1. /\ UNCHANGED <<db, world>> /\ merge' = NoMerge
        /\ deleting' = [deleting EXCEPT ![r] = {}]
        /\ staged' = [staged EXCEPT ![r] = {}]
    BY DEF Crash
  <2>2. /\ deleting \in [Natives -> SUBSET Delete]
        /\ staged \in [Natives -> SUBSET Event]
    BY DEF TypeInv, ChecklistTypeOK
  <2> QED
    BY <2>1, <2>2, DropSound
<1> QED
  BY <1>1, <1>2, <1>3, <1>4 DEF Next

LEMMA SoundInvariant == Spec => [](TypeInv /\ SoundInv)
<1>1. Init => TypeInv /\ SoundInv
  BY SoundInit
<1>2. TypeInv /\ SoundInv /\ [Next]_vars => TypeInv' /\ SoundInv'
  BY SoundNext
<1> QED
  BY <1>1, <1>2, PTL DEF Spec

-----------------------------------------------------------------------------
(* In every world.                                                         *)

\* The state keeps its shape in every world: no merge, no seed and no edit
\* leaves the tables of SqliteSyncRepository.
THEOREM ChecklistTypeCorrect == Spec => []ChecklistTypeOK
<1>1. TypeInv /\ SoundInv => ChecklistTypeOK
  BY DEF TypeInv
<1> QED
  BY <1>1, SoundInvariant, PTL

\* Deletes cascade, stale deltas are dropped and snapshots are filtered so
\* that no checklist is ever stored without its card and no item without its
\* checklist, in whatever order the relay delivers.
THEOREM PartsHaveTheirParents == Spec => []NoOrphans
<1>1. TypeInv /\ SoundInv => NoOrphans
  BY DEF SoundInv, StoresInv, Sound, NoOrphans
<1> QED
  BY <1>1, SoundInvariant, PTL

\* A replica without an id neither publishes nor merges, and what a replica
\* publishes is signed with its own id at a clock it has reached.
THEOREM EveryEventIsSigned == Spec => []NothingLeavesAnonymously
<1>1. TypeInv /\ SoundInv => NothingLeavesAnonymously
  BY DEF SoundInv, AnonymousInv
<1> QED
  BY <1>1, SoundInvariant, PTL

LEMMA StepsKeepTombs ==
  ASSUME TypeInv, SoundInv, [Next]_vars, NEW r \in Natives
  PROVE  StaysBuried(db[r], db'[r])
<1> USE DEF TypeInv, ChecklistTypeOK
<1>0. \A s \in Natives : db[s] \in Store
  OBVIOUS
<1>1. ASSUME NEW s \in Natives, NEW n, db' = [db EXCEPT ![s] = n],
             StaysBuried(db[s], n)
      PROVE  StaysBuried(db[r], db'[r])
  BY <1>1 DEF StaysBuried
<1>2. CASE UNCHANGED db
  BY <1>2 DEF StaysBuried
<1>3. ASSUME NEW s \in Natives, NEW n, Commit(s, n), n.tomb = db[s].tomb
      PROVE  StaysBuried(db[r], db'[r])
  <2>1. db' = [db EXCEPT ![s] = n] /\ StaysBuried(db[s], n)
    BY <1>3 DEF Commit, StaysBuried, Buried
  <2> QED
    BY <1>1, <2>1
<1>4. CASE \E s \in Natives : Editor(s)
  <2> PICK s \in Natives : Editor(s)
    BY <1>4
  <2>1. ASSUME NEW p \in Part, NEW kind \in CreationKind,
               Commit(s, InsertPart(db[s], kind, p))
        PROVE  StaysBuried(db[r], db'[r])
    <3>1. kind \in MarkerKind
      BY DEF CreationKind, MarkerKind
    <3>2. InsertPart(db[s], kind, p).tomb = db[s].tomb
      BY <1>0, <3>1, InsertPartEffect DEF Ticked
    <3> QED
      BY <1>3, <2>1, <3>2
  <2>2. CASE \E c \in Cards : CreateCard(s, c)
    BY <2>1, <2>2 DEF CreateCard, CreationKind, Part
  <2>3. CASE \E l \in Lists : CreateChecklist(s, l)
    BY <2>1, <2>3 DEF CreateChecklist, CreationKind, Part
  <2>4. CASE \E i \in Items : CreateChecklistItem(s, i)
    BY <2>1, <2>4 DEF CreateChecklistItem, CreationKind, Part
  <2>5. CASE \E i \in Items, done \in BOOLEAN : SetChecklistItemDone(s, i, done)
    <3> PICK i \in Items, done \in BOOLEAN : SetChecklistItemDone(s, i, done)
      BY <2>5
    <3>1. UpdateDone(db[s], i, done).tomb = db[s].tomb
      BY <1>0, UpdateDoneEffect DEF Ticked
    <3> QED
      BY <1>3, <3>1 DEF SetChecklistItemDone
  <2>6. CASE SetAppearance(s)
    <3>2. db[s] \in Store /\ s \in Replicas
      BY NobodyIsNoDevice
    <3>3. Ticked(db[s], ChooseAppearance(db[s], s), "board.appearance.put", Board)
      BY <3>2, ChooseAppearanceEffect
    <3>1. ChooseAppearance(db[s], s).tomb = db[s].tomb
      BY <3>3 DEF Ticked
    <3> QED
      BY <1>3, <2>6, <3>1 DEF SetAppearance
  <2>7. CASE \E p \in Part : ReserveDelete(s, p)
    <3>1. db' = [db EXCEPT ![s] = NextLocalClock(db[s])]
      BY <2>7 DEF ReserveDelete
    <3>2. StaysBuried(db[s], NextLocalClock(db[s]))
      BY <1>0, NextLocalClockEffect DEF SameBut, StaysBuried, Buried
    <3> QED
      BY <1>1, <3>1, <3>2
  <2>8. CASE CommitDelete(s)
    <3>1. PICK v \in deleting[s] :
            db' = [db EXCEPT ![s] =
                     IF Present(db[s], v.part) \/ Buried(db[s], v.part)
                     THEN BuryPart(db[s], s, v.part, v.seq) ELSE db[s]]
      BY <2>8 DEF CommitDelete
    <3>2. v.part \in Part /\ v.seq \in Nat /\ s \in Replicas
      BY NobodyIsNoDevice DEF Delete
    <3>3. /\ v.part \in Born /\ \A b \in Births : b.part = v.part => b.seq < v.seq
          /\ Sound(db[s], Births, Born) /\ Births \in SUBSET Birth
      BY BirthFacts DEF SoundInv, DeletesInv, StoresInv, Rooted
    <3>4. StaysBuried(db[s], BuryPart(db[s], s, v.part, v.seq))
      BY <1>0, <3>2, <3>3, BurySound
    <3>5. StaysBuried(db[s], db[s])
      BY DEF StaysBuried
    <3> QED
      BY <1>1, <3>1, <3>4, <3>5
  <2> QED
    BY <2>2, <2>3, <2>4, <2>5, <2>6, <2>7, <2>8 DEF Editor
<1>5. CASE \E s \in Natives : Sync(s)
  <2> PICK s \in Natives : Sync(s)
    BY <1>5
  <2>1. CASE db' = [db EXCEPT ![s] = MaterializePending(@, s)]
    <3>1. MarkersBelow(db[s]) /\ s \in Replicas
      BY NobodyIsNoDevice DEF SoundInv, MarkersInv
    <3>2. StaysBuried(db[s], MaterializePending(db[s], s))
      BY <1>0, <3>1, MaterializeEffect DEF StaysBuried, Buried
    <3>3. db' = [db EXCEPT ![s] = MaterializePending(db[s], s)]
      BY <2>1
    <3> QED
      BY <1>1, <3>2, <3>3
  <2>2. CASE CommitMerge(s)
    <3>1. Merging(s) /\ db' = [db EXCEPT ![s] = merge.work]
      BY <2>2 DEF CommitMerge
    <3> QED
      BY <1>1, <3>1, WorkFacts
  <2>3. CASE UNCHANGED db
    BY <1>2, <2>3
  <2> QED
    BY <2>1, <2>2, <2>3
       DEF Sync, Materialize, Commit, StageBatch, OpenMerge, MergeEvent, AbortMerge
<1> QED
  BY <1>2, <1>4, <1>5 DEF Next, Crash, vars

\* What has been deleted stays deleted: no late put, no update that may create
\* the row and no snapshot brings it back, whatever the relay does.
THEOREM NoPartComesBack == Spec => DeletedPartsStayDeleted
<1> DEFINE kept == \A r \in Natives, p \in Part :
                     Buried(db[r], p) => ~ Present(db'[r], p) /\ Buried(db'[r], p)
<1>1. (TypeInv /\ SoundInv) /\ (TypeInv /\ SoundInv)' /\ [Next]_vars => kept
  <2> SUFFICES ASSUME TypeInv, SoundInv, TypeInv', SoundInv', [Next]_vars,
                      NEW r \in Natives, NEW p \in Part, Buried(db[r], p)
               PROVE  ~ Present(db'[r], p) /\ Buried(db'[r], p)
    OBVIOUS
  <2>1. Buried(db'[r], p)
    BY StepsKeepTombs DEF StaysBuried
  <2>2. \A q \in db'[r].rows : ~ Buried(db'[r], q)
    BY DEF SoundInv, StoresInv, Sound
  <2> QED
    BY <2>1, <2>2 DEF Present
<1>2. (TypeInv /\ SoundInv) /\ (TypeInv /\ SoundInv)' /\ [Next]_vars => [kept]_vars
  BY <1>1
<1> QED
  BY <1>2, SoundInvariant, PTL DEF Spec, DeletedPartsStayDeleted

-----------------------------------------------------------------------------
(* Every event of a device is one marker's, and no two share a stamp.      *)

KnownBy(d) == d.outbox \cup d.seen

BooksInv ==
  /\ \A s \in Natives :
       /\ \A e \in db[s].outbox : \E m \in db[s].pending : Reports(e, s, m)
       /\ \A m, o \in db[s].pending : m.seq = o.seq => m = o
       /\ \A v \in deleting[s] : \A m \in db[s].pending : m.seq # v.seq
       /\ \A e, o \in db[s].outbox : e.stamp = o.stamp => e = o
       /\ db[s].seen \cup staged[s] \subseteq Published
  /\ merge.todo \cup merge.work.seen \subseteq Published

-----------------------------------------------------------------------------
(* In an orderly world nothing is unmaterialized while a batch is staged   *)
(* or merged, and what is unmaterialized is newer than all that is known.  *)

Backlogged(d, r) == \A m \in Unmaterialized(d, r) : \A e \in KnownBy(d) : e.stamp.clock < m.seq

Quiet(r) ==
  /\ staged[r] # {} \/ Merging(r) => /\ Unmaterialized(db[r], r) = {}
                                     /\ deleting[r] = {}
  /\ Backlogged(db[r], r)
  /\ \A e \in db[r].seen : e.stamp.clock <= db[r].clock
  /\ Merging(r) => /\ \A e \in merge.work.seen : e.stamp.clock <= merge.work.clock
                   /\ db[r].seen \subseteq merge.work.seen
  /\ \A v \in deleting[r] : /\ v.part \in db[r].rows /\ v.seq = db[r].clock
                            /\ \A e \in KnownBy(db[r]) : e.stamp.clock < v.seq

QuietInv == \A r \in Natives : Quiet(r)

\* What a device has heard, from itself or from others, contents left out.
Header(e) == [stamp |-> e.stamp, op |-> e.op, entity |-> e.entity, all |-> e.all]
MarkerHeader(m, r) ==
  [stamp |-> [clock |-> m.seq, replica |-> r], op |-> OpOf(m.kind),
   entity |-> m.entity, all |-> m.kind \in CreationKind]
News(d, r) == {MarkerHeader(m, r) : m \in d.pending} \cup {Header(e) : e \in d.seen}

Above(p) == {p} \cup Ancestors(p)
Creates(h, p) == h.entity = p /\ h.all

\* Everything above a delta's part has been created before it, or comes with it.
Founded(roots, news, events, p) ==
  \A q \in Above(p) : \/ q \in roots
                      \/ \E o \in events : Creates(o, q)
                      \/ \E h \in news : Creates(h, q)

IsDelta(e) == e.op \in {"delta.put", "delta.delete"}

CausalInv ==
  /\ \A r \in Natives : \A e \in staged[r] :
       IsDelta(e) => Founded(world.roots, News(db[r], r), staged[r], e.entity)
  /\ \A r \in Natives : Merging(r) => \A e \in merge.todo :
       IsDelta(e) => Founded(world.roots, News(merge.work, r), merge.todo, e.entity)

-----------------------------------------------------------------------------
(* What an orderly store is like.                                          *)

Gone(d, p) == \E q \in Above(p) : Buried(d, q)
IsDelete(h) == h.op \in {"card.delete", "delta.delete"}

\* A part that is neither shown nor gone is one the device never heard of.
AbsentIsUnknown(d, r, roots) ==
  IF d.columns
  THEN \A p \in Part \ d.rows : ~ Gone(d, p) =>
         /\ p \notin roots
         /\ \A h \in News(d, r) : h.entity # p
         /\ \A f \in Field : d.ver[p][f] = NoStamp
  ELSE d.rows = {}

ShownIsCreated(d, r, roots) ==
  \A p \in d.rows : p \in roots \/ \E h \in News(d, r) : Creates(h, p)

\* A tombstone is that of a known delete, and no known delete is newer, unless
\* the card is gone as well.
TombsHold(d, r) ==
  /\ \A p \in Part : Buried(d, p) =>
       \E h \in News(d, r) : h.entity = p /\ IsDelete(h)
  /\ \A m \in d.pending : IsDelete(MarkerHeader(m, r)) => Buried(d, m.entity)
  /\ d.columns => \A h \in News(d, r) : IsDelete(h) =>
       \/ ~ Newer(h.stamp, d.tomb[h.entity])
       \/ \E c \in Ancestors(h.entity) \cap Cards : Buried(d, c)

\* m is the last thing that was recorded about its part.
LastOf(d, r, m) == \A o \in Unmaterialized(d, r) : o.entity = m.entity => o.seq <= m.seq

\* The version of a part's lifecycle is its tombstone, once the delete is
\* materialized, or its creation.
LifecyclesHold(d, r, B) ==
  \A p \in Lists \cup Items :
    LET v == d.ver[p]["lifecycle"]
    IN  IF Buried(d, p)
        THEN \/ d.tomb[p] = v /\ Writers(d, r, p, "lifecycle") = {}
             \/ \E m \in Unmaterialized(d, r) :
                  /\ m.entity = p /\ m.kind = DeleteKind(p) /\ LastOf(d, r, m)
                  /\ d.tomb[p] = [clock |-> m.seq, replica |-> r]
        ELSE v # NoStamp => [part |-> p, seq |-> v.clock] \in B

\* The register that is edited: the mark of an item, the board's appearance.
Edited == Items \cup {Board}
RegisterOf(p) == IF p = Board THEN "appearance" ELSE "isDone"
Live(d, p) == p = Board \/ p \in d.rows
Shows(d, e) == IF e.entity = Board THEN d.appearance = e.settings
                                   ELSE e.isDone <=> e.entity \in d.done
Untold(d, p) == /\ d.ver[p][RegisterOf(p)] = NoStamp
                /\ IF p = Board THEN d.appearance = NoStamp ELSE p \notin d.done

Writes(d, p) ==
  {e \in KnownBy(d) : e.entity = p /\ e.op \in {"delta.put", "board.appearance.put"}}

\* The register shows its newest known write, and carries its version.
Holds(d, p) ==
  IF Writes(d, p) = {} THEN Untold(d, p)
  ELSE \E e \in Writes(d, p) :
         /\ \A o \in Writes(d, p) : ~ Newer(o.stamp, e.stamp)
         /\ d.ver[p][RegisterOf(p)] = e.stamp
         /\ Shows(d, e)

RegistersHold(d, r) ==
  \A p \in Edited : Live(d, p) /\ Writers(d, r, p, RegisterOf(p)) = {} => Holds(d, p)

OrderlyStore(d, r, w, B) ==
  /\ w.content = "full" => d.columns
  /\ AbsentIsUnknown(d, r, w.roots) /\ ShownIsCreated(d, r, w.roots)
  /\ TombsHold(d, r) /\ LifecyclesHold(d, r, B) /\ RegistersHold(d, r)

OrderInv ==
  /\ \A r \in Natives : OrderlyStore(db[r], r, world, Births)
  /\ \A r \in Natives : Merging(r) => OrderlyStore(merge.work, r, world, Births)

OrderlyInv == InOrder => QuietInv /\ CausalInv /\ OrderInv

-----------------------------------------------------------------------------
(* The steps, by what they do to the stores.                               *)

\* Work is dropped, or nothing happens.
Dropped ==
  /\ UNCHANGED <<db, world>>
  /\ \A s \in Natives : /\ deleting'[s] \in {deleting[s], {}}
                        /\ staged'[s] \in {staged[s], {}}
  /\ merge' = merge \/ merge' = NoMerge

Inserted(d, n, kind, p) ==
  /\ kind \in CreationKind /\ p \in Part /\ Fresh(p)
  /\ Ancestors(p) \subseteq d.rows /\ (p \in Cards => d.columns)
  /\ n.rows = d.rows \cup {p} /\ n.done = d.done /\ n.appearance = d.appearance

Ticks(d, n, kind, p) ==
  /\ kind = "checklist.item.update" /\ p \in Items /\ p \in d.rows
  /\ n.rows = d.rows /\ n.appearance = d.appearance
  /\ n.done = d.done \cup {p} \/ n.done = d.done \ {p}

Looks(d, n, kind, p) ==
  /\ kind = "board.appearance.put" /\ p = Board
  /\ n.rows = d.rows /\ n.done = d.done

EditStep(r, n, kind, p) ==
  /\ ParityReady(r) /\ Commit(r, n) /\ Ticked(db[r], n, kind, p)
  /\ MarkerFits([seq |-> db[r].clock + 1, kind |-> kind, entity |-> p])
  /\ \/ Inserted(db[r], n, kind, p)
     \/ Ticks(db[r], n, kind, p)
     \/ Looks(db[r], n, kind, p)

BuryStep(r, v) ==
  /\ EditorTurn(r)
  /\ db' = [db EXCEPT ![r] = BuryPart(db[r], r, v.part, v.seq)]
  /\ deleting' = [deleting EXCEPT ![r] = {}]
  /\ UNCHANGED <<staged, merge, world>>

PublishStep(r, batch) ==
  /\ SyncReady(r)
  /\ batch = {} \/ (batch \in SUBSET Published /\ Deliverable(r, batch))
  /\ db' = [db EXCEPT ![r] = MaterializePending(db[r], r)]
  /\ staged' = [staged EXCEPT ![r] = batch]
  /\ UNCHANGED <<deleting, merge, world>>

SomeEdit == \E r \in Natives : \E n \in Store : \E kind \in MarkerKind :
              \E p \in Part \cup {Board} : EditStep(r, n, kind, p)
SomeReserve == \E r \in Natives : \E p \in Part : ReserveDelete(r, p)
SomeBury == \E r \in Natives : \E v \in deleting[r] : BuryStep(r, v)
SomePublish == \E r \in Natives : \E batch \in SUBSET Event : PublishStep(r, batch)
SomeOpen == \E r \in Natives : OpenMerge(r)
SomeMerge == \E r \in Natives : \E e \in merge.todo : MergeEvent(r, e)
SomeCommit == \E r \in Natives : CommitMerge(r)

LEMMA EditorForms ==
  ASSUME TypeInv, SoundInv, NEW r \in Natives, Editor(r)
  PROVE  Dropped \/ SomeEdit \/ SomeReserve \/ SomeBury
<1> DEFINE d == db[r]
<1>0. /\ d \in Store /\ d.clock \in Nat /\ Sound(d, Births, Born)
      /\ r \in Replicas
  BY NobodyIsNoDevice, StoreFields
     DEF TypeInv, ChecklistTypeOK, SoundInv, StoresInv
<1>1. ASSUME NEW p \in Part, NEW kind \in CreationKind,
             EditorReady(r), Fresh(p), Ancestors(p) \subseteq d.rows,
             p \in Cards => d.columns,
             MarkerFits([seq |-> d.clock + 1, kind |-> kind, entity |-> p]),
             Commit(r, InsertPart(d, kind, p))
      PROVE  SomeEdit
  <2> DEFINE n == InsertPart(d, kind, p)
  <2>1. kind \in MarkerKind
    BY DEF CreationKind, MarkerKind
  <2>2. /\ n \in Store /\ Ticked(d, n, kind, p)
        /\ n.rows = d.rows \cup {p} /\ n.done = d.done
        /\ n.appearance = d.appearance
    BY <1>0, <2>1, InsertPartEffect
  <2>3. Commit(r, n)
    BY <1>1
  <2> HIDE DEF n
  <2>4. EditStep(r, n, kind, p)
    BY <1>1, <2>2, <2>3, EditorIsReady DEF EditStep, Inserted
  <2> QED
    BY <2>1, <2>2, <2>4 DEF SomeEdit
<1>2. CASE \E c \in Cards : CreateCard(r, c)
  <2> PICK c \in Cards : CreateCard(r, c)
    BY <1>2
  <2>1. /\ c \in Part /\ Ancestors(c) \subseteq d.rows
        /\ MarkerFits([seq |-> d.clock + 1, kind |-> "card.create", entity |-> c])
    BY AncestorFacts DEF Part, MarkerFits
  <2> QED
    BY <1>1, <2>1 DEF CreateCard, CreationKind
<1>3. CASE \E l \in Lists : CreateChecklist(r, l)
  <2> PICK l \in Lists : CreateChecklist(r, l)
    BY <1>3
  <2>1. /\ l \in Part /\ Ancestors(l) \subseteq d.rows /\ l \notin Cards
        /\ MarkerFits([seq |-> d.clock + 1, kind |-> "checklist.create",
                       entity |-> l])
    BY AncestorFacts, PartsAssumption DEF Part, MarkerFits, CreateChecklist, Present
  <2> QED
    BY <1>1, <2>1 DEF CreateChecklist, CreationKind
<1>4. CASE \E i \in Items : CreateChecklistItem(r, i)
  <2> PICK i \in Items : CreateChecklistItem(r, i)
    BY <1>4
  <2>1. Parent[i] \in d.rows
    BY DEF CreateChecklistItem, Present
  <2>2. /\ i \in Part /\ Ancestors(i) \subseteq d.rows /\ i \notin Cards
        /\ MarkerFits([seq |-> d.clock + 1, kind |-> "checklist.item.create",
                       entity |-> i])
    BY <1>0, <2>1, AncestorFacts, PartsAssumption DEF Part, MarkerFits, Sound
  <2> QED
    BY <1>1, <2>2 DEF CreateChecklistItem, CreationKind
<1>5. CASE \E i \in Items, done \in BOOLEAN : SetChecklistItemDone(r, i, done)
  <2> PICK i \in Items, done \in BOOLEAN : SetChecklistItemDone(r, i, done)
    BY <1>5
  <2> DEFINE n == UpdateDone(d, i, done)
  <2>1. /\ n \in Store /\ Ticked(d, n, "checklist.item.update", i)
        /\ n.rows = d.rows /\ n.appearance = d.appearance
        /\ n.done = d.done \cup {i} \/ n.done = d.done \ {i}
    BY <1>0, UpdateDoneEffect
  <2>2. ParityReady(r) /\ Commit(r, n) /\ i \in d.rows
    BY EditorIsReady DEF SetChecklistItemDone, Present
  <2> HIDE DEF n
  <2>3. MarkerFits([seq |-> d.clock + 1, kind |-> "checklist.item.update",
                    entity |-> i])
    BY DEF MarkerFits
  <2>4. EditStep(r, n, "checklist.item.update", i)
    BY <2>1, <2>2, <2>3 DEF EditStep, Ticks
  <2>5. "checklist.item.update" \in MarkerKind /\ i \in Part \cup {Board}
    BY DEF MarkerKind, Part
  <2> QED
    BY <2>1, <2>4, <2>5 DEF SomeEdit
<1>6. CASE SetAppearance(r)
  <2> DEFINE n == ChooseAppearance(d, r)
  <2>1. /\ n \in Store /\ Ticked(d, n, "board.appearance.put", Board)
        /\ n.rows = d.rows /\ n.done = d.done
    BY <1>0, ChooseAppearanceEffect
  <2>2. ParityReady(r) /\ Commit(r, n)
    BY <1>6 DEF SetAppearance
  <2> HIDE DEF n
  <2>3. MarkerFits([seq |-> d.clock + 1, kind |-> "board.appearance.put",
                    entity |-> Board])
    BY DEF MarkerFits
  <2>4. EditStep(r, n, "board.appearance.put", Board)
    BY <2>1, <2>2, <2>3 DEF EditStep, Looks
  <2>5. "board.appearance.put" \in MarkerKind
    BY DEF MarkerKind
  <2> QED
    BY <2>1, <2>4, <2>5 DEF SomeEdit
<1>7. CASE CommitDelete(r)
  <2>1. PICK v \in deleting[r] :
          db' = [db EXCEPT ![r] = IF Present(d, v.part) \/ Buried(d, v.part)
                                  THEN BuryPart(d, r, v.part, v.seq) ELSE d]
    BY <1>7 DEF CommitDelete
  <2>2. /\ deleting' = [deleting EXCEPT ![r] = {}]
        /\ EditorTurn(r) /\ UNCHANGED <<staged, merge, world>>
    BY <1>7 DEF CommitDelete
  <2>3. CASE Present(d, v.part) \/ Buried(d, v.part)
    BY <2>1, <2>2, <2>3 DEF SomeBury, BuryStep
  <2>4. CASE ~ (Present(d, v.part) \/ Buried(d, v.part))
    <3>1. UNCHANGED db
      BY <2>1, <2>4 DEF TypeInv, ChecklistTypeOK
    <3> QED
      BY <2>2, <3>1 DEF Dropped, TypeInv, ChecklistTypeOK
  <2> QED
    BY <2>3, <2>4
<1> QED
  BY <1>2, <1>3, <1>4, <1>5, <1>6, <1>7 DEF Editor, SomeReserve

LEMMA StepForms ==
  ASSUME TypeInv, SoundInv, [Next]_vars
  PROVE  \/ Dropped \/ SomeEdit \/ SomeReserve \/ SomeBury
         \/ SomePublish \/ SomeOpen \/ SomeMerge \/ SomeCommit
<1>1. CASE UNCHANGED vars
  BY <1>1 DEF vars, Dropped
<1>2. CASE \E r \in Natives : Editor(r)
  BY <1>2, EditorForms
<1>3. ASSUME NEW r \in Natives, Sync(r)
      PROVE  \/ Dropped \/ SomePublish \/ SomeOpen \/ SomeMerge \/ SomeCommit
  <2>1. CASE Materialize(r)
    <3>1. /\ SyncReady(r) /\ staged[r] = {}
          /\ db' = [db EXCEPT ![r] = MaterializePending(db[r], r)]
          /\ UNCHANGED <<deleting, staged, merge, world>>
      BY <2>1 DEF Materialize, Commit, SyncReady
    <3>2. staged' = [staged EXCEPT ![r] = {}]
      BY <3>1 DEF TypeInv, ChecklistTypeOK
    <3>3. PublishStep(r, {})
      BY <3>1, <3>2 DEF PublishStep
    <3> QED
      BY <3>3 DEF SomePublish
  <2>2. CASE \E batch \in SmallBatch(r) : StageBatch(r, batch)
    <3> PICK batch \in SmallBatch(r) : StageBatch(r, batch)
      BY <2>2
    <3>1. batch \in SUBSET Published /\ batch \in SUBSET Event
      BY PublishedAreSound DEF SmallBatch
    <3>2. PublishStep(r, batch)
      BY <3>1 DEF PublishStep, StageBatch
    <3> QED
      BY <3>1, <3>2 DEF SomePublish
  <2>3. CASE AbortMerge(r)
    BY <2>3 DEF AbortMerge, Dropped
  <2> QED
    BY <1>3, <2>1, <2>2, <2>3 DEF Sync, SomeOpen, SomeMerge, SomeCommit
<1>4. ASSUME NEW r \in Natives, Crash(r)
      PROVE  Dropped
  BY <1>4 DEF Crash, Dropped, TypeInv, ChecklistTypeOK
<1> QED
  BY <1>1, <1>2, <1>3, <1>4 DEF Next

-----------------------------------------------------------------------------
(* The books are kept, in every world.                                     *)

LEMMA PublishedAre ==
  /\ \A s \in Natives : db[s].outbox \subseteq Published
  /\ \A e \in Published : e \in Snapshots \/ \E s \in Natives : e \in db[s].outbox
BY DEF Published

LEMMA BooksFollow ==
  ASSUME BooksInv, UNCHANGED world, NEW r \in Natives,
         \A s \in Natives \ {r} : db'[s] = db[s],
         db[r].outbox \subseteq db'[r].outbox,
         \A e \in db'[r].outbox : \E m \in db'[r].pending : Reports(e, r, m),
         \A m, o \in db'[r].pending : m.seq = o.seq => m = o,
         \A e, o \in db'[r].outbox : e.stamp = o.stamp => e = o,
         \A s \in Natives : \A v \in deleting'[s] : \A m \in db'[s].pending : m.seq # v.seq,
         db'[r].seen \subseteq Published,
         \A s \in Natives : staged'[s] \subseteq Published,
         merge'.todo \cup merge'.work.seen \subseteq Published
  PROVE  BooksInv'
<1>1. Published \subseteq Published'
  BY DEF Published, Snapshots
<1> QED
  BY <1>1 DEF BooksInv

LEMMA SequencesAreOld ==
  ASSUME TypeInv, SoundInv, NEW r \in Natives
  PROVE  /\ db[r] \in Store /\ r \in Replicas /\ db[r].clock \in Nat
         /\ MarkersBelow(db[r])
         /\ \A m \in db[r].pending : m.seq \in Nat /\ m.seq <= db[r].clock
         /\ \A e \in db[r].outbox :
              /\ e.stamp.clock \in Nat /\ e.stamp.clock <= db[r].clock
              /\ e.stamp.replica = r
         /\ \A v \in deleting[r] : v.seq \in Nat /\ v.seq <= db[r].clock /\ 0 < v.seq
<1>1. db[r] \in Store /\ r \in Replicas
  BY NobodyIsNoDevice DEF TypeInv, ChecklistTypeOK
<1>2. MarkersBelow(db[r]) /\ \A m \in db[r].pending : m.seq \in Nat
  BY <1>1, StoreFields DEF SoundInv, MarkersInv, Marker
<1>3. \A e \in db[r].outbox : e \in Event
  BY <1>1, StoreFields
<1>4. \A v \in deleting[r] : v.seq \in Nat
  BY DEF TypeInv, ChecklistTypeOK, Delete
<1> QED
  BY <1>1, <1>2, <1>3, <1>4, StoreFields, EventFacts
     DEF MarkersBelow, SoundInv, AnonymousInv, NothingLeavesAnonymously, DeletesInv

LEMMA BooksInit == Init => BooksInv
<1> SUFFICES ASSUME Init PROVE BooksInv
  OBVIOUS
<1>1. \A s \in Natives : db[s].outbox = {} /\ db[s].pending = {} /\ db[s].seen = {}
  BY DEF Init, BoardStore
<1>2. merge.todo = {} /\ merge.work.seen = {}
  BY DEF Init, NoMerge, BoardStore
<1> QED
  BY <1>1, <1>2 DEF Init, BooksInv

LEMMA BooksDrop == TypeInv /\ BooksInv /\ Dropped => BooksInv'
<1> SUFFICES ASSUME TypeInv, BooksInv, Dropped PROVE BooksInv'
  OBVIOUS
<1>1. Published' = Published
  BY DEF Dropped, Published, Snapshots
<1>2. /\ \A s \in Natives : staged'[s] \subseteq Published
      /\ \A s \in Natives : deleting'[s] \subseteq deleting[s]
  BY DEF Dropped, BooksInv
<1>3. merge'.todo \cup merge'.work.seen \subseteq Published
  <2>1. CASE merge' = merge
    BY <2>1 DEF BooksInv
  <2>2. CASE merge' = NoMerge
    BY <2>2 DEF NoMerge, BoardStore
  <2> QED
    BY <2>1, <2>2 DEF Dropped
<1> QED
  BY <1>1, <1>2, <1>3 DEF Dropped, BooksInv

\* A marker with a sequence of its own is added.
LEMMA BooksMark ==
  ASSUME TypeInv, SoundInv, BooksInv, NEW r \in Natives, NEW n \in Store, NEW m \in Marker,
         db' = [db EXCEPT ![r] = n], UNCHANGED <<staged, merge, world>>,
         n.pending = db[r].pending \cup {m}, n.outbox = db[r].outbox,
         n.seen = db[r].seen, \A o \in db[r].pending : o.seq # m.seq,
         \A s \in Natives : deleting'[s] \subseteq deleting[s],
         \A v \in deleting'[r] : v.seq # m.seq
  PROVE  BooksInv'
<1>1. \A s \in Natives : db'[s] = IF s = r THEN n ELSE db[s]
  BY DEF TypeInv, ChecklistTypeOK
<1>2. \A e \in n.outbox : \E o \in n.pending : Reports(e, r, o)
  BY DEF BooksInv
<1>3. \A o, q \in n.pending : o.seq = q.seq => o = q
  BY DEF BooksInv
<1> QED
  BY <1>1, <1>2, <1>3, BooksFollow DEF BooksInv

LEMMA EditMarker ==
  ASSUME TypeInv, SoundInv, NEW r \in Natives, NEW n \in Store, NEW kind \in MarkerKind,
         NEW p \in Part \cup {Board}, EditStep(r, n, kind, p)
  PROVE  LET m == [seq |-> db[r].clock + 1, kind |-> kind, entity |-> p]
         IN  /\ m \in Marker /\ MarkerFits(m)
             /\ n.pending = db[r].pending \cup {m} /\ n.clock = m.seq
             /\ n.outbox = db[r].outbox /\ n.seen = db[r].seen
             /\ n.columns = db[r].columns /\ n.tomb = db[r].tomb /\ n.ver = db[r].ver
             /\ \A o \in db[r].pending : o.seq < m.seq
             /\ \A e \in db[r].outbox : e.stamp.clock < m.seq
             /\ db' = [db EXCEPT ![r] = n] /\ UNCHANGED <<deleting, staged, merge, world>>
             /\ EditorTurn(r)
             /\ InOrder => deleting[r] = {}
             /\ \A v \in deleting[r] : v.seq < m.seq
<1>1. db[r].clock + 1 \in Nat
  BY SequencesAreOld
<1>2. [seq |-> db[r].clock + 1, kind |-> kind, entity |-> p] \in Marker
  BY <1>1 DEF Marker
<1>3. Ticked(db[r], n, kind, p) /\ Commit(r, n) /\ ParityReady(r)
  BY DEF EditStep
<1> QED
  BY <1>2, <1>3, SequencesAreOld DEF EditStep, Ticked, Commit, ParityReady,
     InOrder

LEMMA BuryMarker ==
  ASSUME TypeInv, SoundInv, BooksInv, NEW r \in Natives, NEW v \in deleting[r], BuryStep(r, v)
  PROVE  LET d == db[r]
             n == db'[r]
             m == [seq |-> v.seq, kind |-> DeleteKind(v.part), entity |-> v.part]
         IN  /\ v.part \in Part /\ v.seq \in Nat
             /\ m \in Marker /\ MarkerFits(m) /\ IsDelete(MarkerHeader(m, r))
             /\ n \in Store /\ db' = [db EXCEPT ![r] = n]
             /\ n.pending = d.pending \cup {m} /\ n.clock = d.clock
             /\ n.outbox = d.outbox /\ n.seen = d.seen
             /\ n.columns = d.columns /\ n.ver = d.ver /\ n.appearance = d.appearance
             /\ n.rows = d.rows \ Subtree(v.part) /\ n.done = d.done \ Subtree(v.part)
             /\ n.tomb = [d.tomb EXCEPT ![v.part] =
                            IF Newer([clock |-> v.seq, replica |-> r], @)
                            THEN [clock |-> v.seq, replica |-> r] ELSE @]
             /\ \A o \in d.pending : o.seq # m.seq
<1> DEFINE d == db[r]
           n == BuryPart(d, r, v.part, v.seq)
           m == [seq |-> v.seq, kind |-> DeleteKind(v.part), entity |-> v.part]
<1>1. v.part \in Part /\ v.seq \in Nat /\ d \in Store /\ r \in Replicas
  BY SequencesAreOld DEF TypeInv, ChecklistTypeOK, Delete
<1>2. /\ m \in Marker /\ MarkerFits(m) /\ IsDelete(MarkerHeader(m, r))
      /\ OpOf(m.kind) \in {"card.delete", "delta.delete"}
  <2>1. \/ v.part \in Cards /\ DeleteKind(v.part) = "card.delete"
        \/ v.part \in Lists /\ DeleteKind(v.part) = "checklist.delete"
        \/ v.part \in Items /\ DeleteKind(v.part) = "checklist.item.delete"
    BY <1>1, PartsAssumption DEF Part, DeleteKind
  <2> QED
    BY <1>1, <2>1 DEF MarkerFits, Marker, MarkerKind, IsDelete, MarkerHeader, OpOf
<1>3. n = db'[r] /\ db' = [db EXCEPT ![r] = n]
  BY DEF BuryStep, TypeInv, ChecklistTypeOK
<1>4. \A o \in d.pending : o.seq # m.seq
  BY DEF BooksInv
<1> HIDE DEF n
<1> QED
  BY <1>1, <1>2, <1>3, <1>4, BuryPartEffect DEF n

LEMMA BooksEdit == TypeInv /\ SoundInv /\ BooksInv /\ SomeEdit => BooksInv'
<1> SUFFICES ASSUME TypeInv, SoundInv, BooksInv, SomeEdit PROVE BooksInv'
  OBVIOUS
<1> PICK r \in Natives, n \in Store, kind \in MarkerKind, p \in Part \cup {Board} :
      EditStep(r, n, kind, p)
  BY DEF SomeEdit
<1> DEFINE m == [seq |-> db[r].clock + 1, kind |-> kind, entity |-> p]
<1>1. /\ m \in Marker /\ n.pending = db[r].pending \cup {m}
      /\ n.outbox = db[r].outbox /\ n.seen = db[r].seen
      /\ \A o \in db[r].pending : o.seq < m.seq
      /\ db' = [db EXCEPT ![r] = n] /\ UNCHANGED <<deleting, staged, merge, world>>
      /\ \A v \in deleting[r] : v.seq < m.seq
  BY EditMarker
<1>2. /\ \A o \in db[r].pending : o.seq # m.seq
      /\ \A v \in deleting[r] : v.seq # m.seq
  BY <1>1, SequencesAreOld
<1> HIDE DEF m
<1> QED
  BY <1>1, <1>2, BooksMark

LEMMA BooksBury == TypeInv /\ SoundInv /\ BooksInv /\ SomeBury => BooksInv'
<1> SUFFICES ASSUME TypeInv, SoundInv, BooksInv, SomeBury PROVE BooksInv'
  OBVIOUS
<1> PICK r \in Natives : \E v \in deleting[r] : BuryStep(r, v)
  BY DEF SomeBury
<1> PICK v \in deleting[r] : BuryStep(r, v)
  OBVIOUS
<1> DEFINE m == [seq |-> v.seq, kind |-> DeleteKind(v.part), entity |-> v.part]
<1>1. /\ m \in Marker /\ db'[r] \in Store /\ db' = [db EXCEPT ![r] = db'[r]]
      /\ db'[r].pending = db[r].pending \cup {m}
      /\ db'[r].outbox = db[r].outbox /\ db'[r].seen = db[r].seen
      /\ \A o \in db[r].pending : o.seq # m.seq
  BY BuryMarker
<1>2. deleting' = [deleting EXCEPT ![r] = {}] /\ UNCHANGED <<staged, merge, world>>
  BY DEF BuryStep
<1>3. deleting'[r] = {} /\ \A s \in Natives \ {r} : deleting'[s] = deleting[s]
  BY <1>2 DEF TypeInv, ChecklistTypeOK
<1> HIDE DEF m
<1> QED
  BY <1>1, <1>2, <1>3, BooksMark

LEMMA ReserveForms ==
  ASSUME TypeInv, SoundInv, NEW r \in Natives, NEW p \in Part, ReserveDelete(r, p)
  PROVE  LET d == db[r]
             n == db'[r]
         IN  /\ n \in Store /\ n.clock = d.clock + 1 /\ SameBut(d, n)
             /\ db' = [db EXCEPT ![r] = n] /\ p \in d.rows
             /\ deleting' = [deleting EXCEPT ![r] = {[part |-> p, seq |-> d.clock + 1]}]
             /\ UNCHANGED <<staged, merge, world>>
             /\ deleting[r] = {} /\ EditorTurn(r)
<1> DEFINE n == NextLocalClock(db[r])
<1>1. n \in Store /\ n.clock = db[r].clock + 1 /\ SameBut(db[r], n)
  BY SequencesAreOld, NextLocalClockEffect
<1>2. n = db'[r] /\ db' = [db EXCEPT ![r] = n]
  BY DEF ReserveDelete, TypeInv, ChecklistTypeOK
<1>3. deleting' = [deleting EXCEPT ![r] = {[part |-> p, seq |-> n.clock]}]
  BY DEF ReserveDelete
<1> HIDE DEF n
<1> QED
  BY <1>1, <1>2, <1>3 DEF ReserveDelete, EditorReady, Present

LEMMA BooksReserve == TypeInv /\ SoundInv /\ BooksInv /\ SomeReserve => BooksInv'
<1> SUFFICES ASSUME TypeInv, SoundInv, BooksInv, SomeReserve PROVE BooksInv'
  OBVIOUS
<1> PICK r \in Natives, p \in Part : ReserveDelete(r, p)
  BY DEF SomeReserve
<1>1. /\ db' = [db EXCEPT ![r] = db'[r]] /\ SameBut(db[r], db'[r])
      /\ deleting' = [deleting EXCEPT ![r] = {[part |-> p, seq |-> db[r].clock + 1]}]
      /\ UNCHANGED <<staged, merge, world>>
  BY ReserveForms
<1>2. \A s \in Natives \ {r} : db'[s] = db[s]
  BY <1>1 DEF TypeInv, ChecklistTypeOK
<1>3. \A s \in Natives : \A v \in deleting'[s] : \A m \in db'[s].pending : m.seq # v.seq
  <2>1. ASSUME NEW m \in db[r].pending PROVE m.seq # db[r].clock + 1
    BY SequencesAreOld
  <2>2. \A s \in Natives : /\ db'[s].pending = db[s].pending
                           /\ s # r => deleting'[s] = deleting[s]
                           /\ s = r => deleting'[s] = {[part |-> p, seq |-> db[r].clock + 1]}
    BY <1>1, <1>2 DEF TypeInv, ChecklistTypeOK, SameBut
  <2> QED
    BY <2>1, <2>2 DEF BooksInv
<1> QED
  BY <1>1, <1>2, <1>3, BooksFollow DEF BooksInv, SameBut

\* The markers without an event, and their events.
LEMMA UnmaterializedFacts ==
  ASSUME TypeInv, SoundInv, NEW r \in Natives
  PROVE  \A m \in Unmaterialized(db[r], r) :
           /\ m \in db[r].pending /\ m \in Marker
           /\ MarkerEvent(db[r], r, m) \in Event
           /\ Reports(MarkerEvent(db[r], r, m), r, m)
           /\ \A e \in db[r].outbox : e.stamp # [clock |-> m.seq, replica |-> r]
<1>1. db[r].pending \subseteq Marker
  BY SequencesAreOld, StoreFields
<1> QED
  BY <1>1, SequencesAreOld, MarkerEventReports DEF Unmaterialized

LEMMA PublishForms ==
  ASSUME TypeInv, SoundInv, NEW r \in Natives, NEW batch \in SUBSET Event,
         PublishStep(r, batch)
  PROVE  LET d == db[r]
             n == db'[r]
         IN  /\ n \in Store /\ db' = [db EXCEPT ![r] = n]
             /\ n.clock = d.clock
             /\ n.columns = d.columns /\ n.tomb = d.tomb
             /\ n.seen = d.seen /\ n.pending = d.pending
             /\ n.rows = d.rows /\ n.done = d.done
             /\ n.appearance = d.appearance
             /\ n.outbox = d.outbox \cup
                  {MarkerEvent(d, r, m) : m \in Unmaterialized(d, r)}
             /\ \A p \in Part \cup {Board}, f \in Field :
                  n.ver[p][f] = RecordedVersion(d, r, p, f)
             /\ staged' = [staged EXCEPT ![r] = batch] /\ batch \subseteq Published
             /\ UNCHANGED <<deleting, merge, world>>
             /\ Unmaterialized(n, r) = {}
<1> DEFINE d == db[r]
           n == MaterializePending(d, r)
<1>1. n = db'[r] /\ db' = [db EXCEPT ![r] = n]
  BY DEF PublishStep, TypeInv, ChecklistTypeOK
<1>2. /\ n \in Store /\ n.clock = d.clock
      /\ n.columns = d.columns /\ n.tomb = d.tomb
      /\ n.seen = d.seen /\ n.pending = d.pending
      /\ n.rows = d.rows /\ n.done = d.done
      /\ n.appearance = d.appearance
      /\ n.outbox = d.outbox \cup
           {MarkerEvent(d, r, m) : m \in Unmaterialized(d, r)}
      /\ \A p \in Part \cup {Board}, f \in Field :
           n.ver[p][f] = RecordedVersion(d, r, p, f)
  BY SequencesAreOld, MaterializeEffect
<1>3. Unmaterialized(n, r) = {}
  <2> SUFFICES ASSUME NEW m \in Unmaterialized(n, r) PROVE FALSE
    OBVIOUS
  <2> HIDE DEF n
  <2>1. m \in d.pending /\ ~ \E e \in n.outbox : e.stamp = [clock |-> m.seq, replica |-> r]
    BY <1>2 DEF Unmaterialized
  <2>2. m \in Unmaterialized(d, r)
    BY <1>2, <2>1 DEF Unmaterialized
  <2>3. MarkerEvent(d, r, m).stamp = [clock |-> m.seq, replica |-> r]
    BY <2>2, UnmaterializedFacts DEF Reports
  <2> QED
    BY <1>2, <2>1, <2>2, <2>3
<1> HIDE DEF n
<1> QED
  BY <1>1, <1>2, <1>3 DEF PublishStep

LEMMA BooksPublish == TypeInv /\ SoundInv /\ BooksInv /\ SomePublish => BooksInv'
<1> SUFFICES ASSUME TypeInv, SoundInv, BooksInv, SomePublish PROVE BooksInv'
  OBVIOUS
<1> PICK r \in Natives, batch \in SUBSET Event : PublishStep(r, batch)
  BY DEF SomePublish
<1> DEFINE d == db[r]
           n == db'[r]
           New == {MarkerEvent(d, r, m) : m \in Unmaterialized(d, r)}
<1>1. /\ db' = [db EXCEPT ![r] = n] /\ n.pending = d.pending /\ n.seen = d.seen
      /\ n.outbox = d.outbox \cup New
      /\ staged' = [staged EXCEPT ![r] = batch] /\ batch \subseteq Published
      /\ UNCHANGED <<deleting, merge, world>>
  BY PublishForms
<1>2. /\ \A s \in Natives \ {r} : db'[s] = db[s]
      /\ \A s \in Natives : db'[s].pending = db[s].pending
  BY <1>1 DEF TypeInv, ChecklistTypeOK
<1>3. \A e \in n.outbox : \E m \in n.pending : Reports(e, r, m)
  <2> SUFFICES ASSUME NEW e \in n.outbox PROVE \E m \in d.pending : Reports(e, r, m)
    BY <1>1
  <2>1. CASE e \in d.outbox
    BY <2>1 DEF BooksInv
  <2>2. CASE e \in New
    BY <2>2, UnmaterializedFacts
  <2> QED
    BY <1>1, <2>1, <2>2
<1>4. \A e, o \in n.outbox : e.stamp = o.stamp => e = o
  <2>1. ASSUME NEW e \in New, NEW o \in d.outbox PROVE e.stamp # o.stamp
    <3> PICK m \in Unmaterialized(d, r) : e = MarkerEvent(d, r, m)
      OBVIOUS
    <3>1. e.stamp = [clock |-> m.seq, replica |-> r]
      BY UnmaterializedFacts DEF Reports
    <3>2. o.stamp # [clock |-> m.seq, replica |-> r]
      BY UnmaterializedFacts
    <3> QED
      BY <3>1, <3>2
  <2>2. ASSUME NEW e \in New, NEW o \in New, e.stamp = o.stamp PROVE e = o
    <3> PICK m \in Unmaterialized(d, r) : e = MarkerEvent(d, r, m)
      OBVIOUS
    <3> PICK q \in Unmaterialized(d, r) : o = MarkerEvent(d, r, q)
      OBVIOUS
    <3>1. /\ e.stamp = [clock |-> m.seq, replica |-> r]
          /\ o.stamp = [clock |-> q.seq, replica |-> r]
          /\ m \in d.pending /\ q \in d.pending
      BY UnmaterializedFacts DEF Reports
    <3>2. e.stamp.clock = m.seq /\ o.stamp.clock = q.seq
      BY <3>1
    <3>3. m.seq = q.seq
      BY <2>2, <3>2
    <3> QED
      BY <3>1, <3>3 DEF BooksInv
  <2>3. \A e, o \in d.outbox : e.stamp = o.stamp => e = o
    BY DEF BooksInv
  <2> QED
    BY <1>1, <2>1, <2>2, <2>3
<1>5. \A s \in Natives : staged'[s] \subseteq Published
  BY <1>1 DEF BooksInv, TypeInv, ChecklistTypeOK
<1>6. /\ d.outbox \subseteq n.outbox /\ n.seen \subseteq Published
      /\ merge'.todo \cup merge'.work.seen \subseteq Published
      /\ \A m, o \in n.pending : m.seq = o.seq => m = o
      /\ \A s \in Natives : \A v \in deleting'[s] : \A m \in db'[s].pending : m.seq # v.seq
  BY <1>1, <1>2 DEF BooksInv
<1> HIDE DEF New
<1> QED
  BY <1>1, <1>2, <1>3, <1>4, <1>5, <1>6, BooksFollow

LEMMA OpenForms ==
  ASSUME TypeInv, SoundInv, NEW r \in Natives, OpenMerge(r)
  PROVE  LET n == merge'.work
         IN  /\ merge'.at = r /\ merge'.todo = staged[r] /\ n \in Store
             /\ n.clock >= db[r].clock /\ SameBut(db[r], n)
             /\ staged' = [staged EXCEPT ![r] = {}] /\ staged[r] # {}
             /\ UNCHANGED <<db, deleting, world>> /\ Idle
<1>1. PICK observed \in {e.stamp.clock : e \in staged[r]} :
        merge' = [at |-> r, todo |-> staged[r],
                  work |-> ObserveRemoteClock(db[r], observed)]
  BY DEF OpenMerge
<1>2. observed \in Nat
  BY EventFacts DEF TypeInv, ChecklistTypeOK
<1> DEFINE n == ObserveRemoteClock(db[r], observed)
<1>3. n \in Store /\ n.clock >= db[r].clock /\ SameBut(db[r], n)
  BY <1>2, SequencesAreOld, ObserveEffect
<1> HIDE DEF n
<1>4. merge'.at = r /\ merge'.todo = staged[r] /\ merge'.work = n
  BY <1>1 DEF n
<1> QED
  BY <1>3, <1>4 DEF OpenMerge, Turn

LEMMA BooksOpen == TypeInv /\ SoundInv /\ BooksInv /\ SomeOpen => BooksInv'
<1> SUFFICES ASSUME TypeInv, SoundInv, BooksInv, SomeOpen PROVE BooksInv'
  OBVIOUS
<1> PICK r \in Natives : OpenMerge(r)
  BY DEF SomeOpen
<1>1. /\ merge'.todo = staged[r] /\ merge'.work.seen = db[r].seen
      /\ staged' = [staged EXCEPT ![r] = {}] /\ UNCHANGED <<db, deleting, world>>
  BY OpenForms DEF SameBut
<1>2. \A s \in Natives : staged'[s] \subseteq staged[s]
  BY <1>1 DEF TypeInv, ChecklistTypeOK
<1> QED
  BY <1>1, <1>2, BooksFollow DEF BooksInv

LEMMA MergeEventForms ==
  ASSUME TypeInv, SoundInv, NEW r \in Natives, NEW e \in merge.todo, MergeEvent(r, e)
  PROVE  LET w == merge.work
             n == merge'.work
         IN  /\ Merging(r) /\ w \in Store /\ e \in Event /\ merge.todo \subseteq Event
             /\ merge'.at = r /\ merge'.todo = merge.todo \ {e}
             /\ n = IF e \in w.seen THEN w ELSE ApplyRemoteEvent(w, e)
             /\ n \in Store /\ Kept(w, n) /\ n.seen = w.seen \cup {e}
             /\ Sound(w, Births, Born) /\ Sound(n, Births, Born) /\ StaysBuried(w, n)
             /\ IsOldest(e, merge.todo)
             /\ e \notin w.seen => ~ Rejects(w, e)
             /\ EventSound(e, Births, Born) /\ e.stamp.clock <= w.clock
             /\ UNCHANGED <<db, deleting, staged, world>>
<1> DEFINE w == merge.work
           n == IF e \in w.seen THEN w ELSE ApplyRemoteEvent(w, e)
<1>1. Merging(r) /\ UNCHANGED <<db, deleting, staged, world>>
  BY DEF MergeEvent
<1>2. /\ merge.at = r /\ merge.todo \in SUBSET Event /\ w \in Store
      /\ merge = [at |-> r, todo |-> merge.todo, work |-> w]
  BY <1>1, MergeForms
<1>3. merge' = [at |-> r, todo |-> merge.todo \ {e}, work |-> n]
  BY <1>2 DEF MergeEvent
<1>4. Sound(w, Births, Born) /\ Births \in SUBSET Birth
  BY <1>1, WorkFacts, BirthFacts DEF SoundInv
<1>5. EventSound(e, Births, Born) /\ e.stamp.clock <= w.clock
  BY DEF SoundInv, EventsInv
<1>6. /\ n \in Store /\ Kept(w, n) /\ Sound(n, Births, Born) /\ StaysBuried(w, n)
      /\ n.seen = w.seen \cup {e}
  <2>1. CASE e \in w.seen
    BY <1>2, <1>4, <2>1 DEF Kept, StaysBuried
  <2>2. CASE e \notin w.seen
    BY <1>2, <1>4, <1>5, <2>2, ApplySound
  <2> QED
    BY <2>1, <2>2
<1>7. IsOldest(e, merge.todo) /\ (e \notin w.seen => ~ Rejects(w, e))
  BY DEF MergeEvent
<1>8. merge'.at = r /\ merge'.todo = merge.todo \ {e} /\ merge'.work = n
  BY <1>3
<1> HIDE DEF n
<1> QED
  BY <1>1, <1>2, <1>4, <1>5, <1>6, <1>7, <1>8 DEF n

LEMMA BooksMerge == TypeInv /\ SoundInv /\ BooksInv /\ SomeMerge => BooksInv'
<1> SUFFICES ASSUME TypeInv, SoundInv, BooksInv, SomeMerge PROVE BooksInv'
  OBVIOUS
<1> PICK r \in Natives : \E e \in merge.todo : MergeEvent(r, e)
  BY DEF SomeMerge
<1> PICK e \in merge.todo : MergeEvent(r, e)
  OBVIOUS
<1>1. /\ merge'.todo = merge.todo \ {e} /\ merge'.work.seen = merge.work.seen \cup {e}
      /\ UNCHANGED <<db, deleting, staged, world>>
  BY MergeEventForms
<1> QED
  BY <1>1, BooksFollow DEF BooksInv

LEMMA CommitMergeForms ==
  ASSUME TypeInv, SoundInv, NEW r \in Natives, CommitMerge(r)
  PROVE  LET w == merge.work
         IN  /\ Merging(r) /\ w \in Store
             /\ db' = [db EXCEPT ![r] = w] /\ merge' = NoMerge /\ db'[r] = w
             /\ UNCHANGED <<deleting, staged, world>>
             /\ w.outbox = db[r].outbox /\ w.pending = db[r].pending
             /\ db[r].clock <= w.clock
<1>1. /\ Merging(r) /\ db' = [db EXCEPT ![r] = merge.work] /\ merge' = NoMerge
      /\ UNCHANGED <<deleting, staged, world>>
  BY DEF CommitMerge
<1> QED
  BY <1>1, MergeForms, WorkFacts DEF TypeInv, ChecklistTypeOK

LEMMA BooksCommit == TypeInv /\ SoundInv /\ BooksInv /\ SomeCommit => BooksInv'
<1> SUFFICES ASSUME TypeInv, SoundInv, BooksInv, SomeCommit PROVE BooksInv'
  OBVIOUS
<1> PICK r \in Natives : CommitMerge(r)
  BY DEF SomeCommit
<1>1. /\ db' = [db EXCEPT ![r] = merge.work] /\ merge' = NoMerge /\ db'[r] = merge.work
      /\ UNCHANGED <<deleting, staged, world>>
      /\ db'[r].outbox = db[r].outbox /\ db'[r].pending = db[r].pending
  BY CommitMergeForms
<1>2. /\ \A s \in Natives \ {r} : db'[s] = db[s]
      /\ \A s \in Natives : db'[s].pending = db[s].pending
  BY <1>1 DEF TypeInv, ChecklistTypeOK
<1>3. merge'.todo \cup merge'.work.seen = {}
  BY <1>1 DEF NoMerge, BoardStore
<1> QED
  BY <1>1, <1>2, <1>3, BooksFollow DEF BooksInv

LEMMA BooksNext ==
  TypeInv /\ SoundInv /\ BooksInv /\ [Next]_vars => BooksInv'
BY StepForms, BooksDrop, BooksEdit, BooksReserve, BooksBury, BooksPublish,
   BooksOpen, BooksMerge, BooksCommit

-----------------------------------------------------------------------------
(* In an orderly world batches find no backlog.                            *)

LEMMA QuietElsewhere ==
  ASSUME NEW s \in Natives, Quiet(s), db'[s] = db[s], deleting'[s] \in {deleting[s], {}},
         staged'[s] \in {staged[s], {}}, ~ Merging(s)'
  PROVE  Quiet(s)'
<1>1. ~ (merge'.at = s)
  BY DEF Merging
<1> QED
  BY <1>1 DEF Quiet, Merging

LEMMA QuietInit == Init => QuietInv
<1> SUFFICES ASSUME Init, NEW s \in Natives PROVE Quiet(s)
  BY DEF QuietInv
<1>1. db[s].outbox = {} /\ db[s].pending = {} /\ db[s].seen = {}
  BY DEF Init, BoardStore
<1>2. ~ Merging(s)
  BY NobodyIsNoDevice DEF Init, NoMerge, Merging
<1> QED
  BY <1>1, <1>2 DEF Init, Quiet, Backlogged, Unmaterialized

LEMMA QuietDrop == QuietInv /\ Dropped => QuietInv'
<1> SUFFICES ASSUME QuietInv, Dropped, NEW s \in Natives PROVE Quiet(s)'
  BY DEF QuietInv
<1>1. /\ db' = db /\ deleting'[s] \in {deleting[s], {}} /\ staged'[s] \in {staged[s], {}}
      /\ Quiet(s)
  BY DEF Dropped, QuietInv
<1>2. CASE merge' = merge
  BY <1>1, <1>2 DEF Quiet, Merging
<1>3. CASE merge' = NoMerge
  <2>1. ~ Merging(s)'
    BY <1>3, NobodyIsNoDevice DEF Merging, NoMerge
  <2> QED
    BY <1>1, <2>1, QuietElsewhere
<1> QED
  BY <1>2, <1>3 DEF Dropped

\* A step of one device, no merge being open.
LEMMA QuietStep ==
  ASSUME TypeInv, QuietInv, NEW r \in Natives, NEW n, db' = [db EXCEPT ![r] = n], Idle,
         \A s \in Natives \ {r} : deleting'[s] = deleting[s] /\ staged'[s] = staged[s],
         merge' = merge, Quiet(r)'
  PROVE  QuietInv'
<1> SUFFICES ASSUME NEW s \in Natives, s # r PROVE Quiet(s)'
  BY DEF QuietInv
<1>1. ~ Merging(s)'
  BY NobodyIsNoDevice DEF Idle, Merging, NoMerge
<1>2. db'[s] = db[s]
  BY DEF TypeInv, ChecklistTypeOK
<1> QED
  BY <1>1, <1>2, QuietElsewhere DEF QuietInv

\* In an orderly world a device edits between batches.
LEMMA EditsAreApart ==
  ASSUME InOrder, NEW r \in Natives, EditorTurn(r)
  PROVE  staged[r] = {} /\ ~ Merging(r) /\ Idle
BY NobodyIsNoDevice DEF EditorTurn, Turn, InOrder, Idle, NoMerge, Merging

LEMMA MarkedBacklog ==
  ASSUME NEW d, NEW n, NEW r, NEW m, n.pending = d.pending \cup {m},
         n.outbox = d.outbox, \A e \in d.outbox : e.stamp.clock # m.seq
  PROVE  Unmaterialized(n, r) = Unmaterialized(d, r) \cup {m}
<1>1. \A e \in d.outbox : e.stamp # [clock |-> m.seq, replica |-> r]
  OBVIOUS
<1> QED
  BY <1>1 DEF Unmaterialized

LEMMA QuietEdit ==
  TypeInv /\ SoundInv /\ InOrder /\ QuietInv /\ SomeEdit => QuietInv'
<1> SUFFICES ASSUME TypeInv, SoundInv, InOrder, QuietInv, SomeEdit PROVE QuietInv'
  OBVIOUS
<1> PICK r \in Natives, n \in Store, kind \in MarkerKind, p \in Part \cup {Board} :
      EditStep(r, n, kind, p)
  BY DEF SomeEdit
<1> DEFINE d == db[r]
           m == [seq |-> d.clock + 1, kind |-> kind, entity |-> p]
<1>1. /\ m \in Marker /\ n.pending = d.pending \cup {m} /\ n.clock = m.seq
      /\ n.outbox = d.outbox /\ n.seen = d.seen
      /\ \A e \in d.outbox : e.stamp.clock < m.seq
      /\ db' = [db EXCEPT ![r] = n] /\ UNCHANGED <<deleting, staged, merge, world>>
      /\ deleting[r] = {} /\ EditorTurn(r)
  BY EditMarker
<1>2. staged[r] = {} /\ ~ Merging(r) /\ Idle
  BY <1>1, EditsAreApart
<1>3. d.clock \in Nat /\ m.seq = d.clock + 1 /\ Quiet(r) /\ d \in Store
  BY SequencesAreOld DEF QuietInv
<1>4. \A e \in KnownBy(d) : e.stamp.clock \in Nat /\ e.stamp.clock < m.seq
  <2>1. \A e \in KnownBy(d) : e.stamp.clock \in Nat
    BY <1>3, StoreFields, EventFacts DEF KnownBy
  <2>2. \A e \in d.seen : e.stamp.clock <= d.clock
    BY <1>3 DEF Quiet
  <2> QED
    BY <1>1, <1>3, <2>1, <2>2 DEF KnownBy
<1> HIDE DEF m
<1>5. Unmaterialized(n, r) = Unmaterialized(d, r) \cup {m}
  <2>1. \A e \in d.outbox : e.stamp.clock # m.seq
    BY <1>3, <1>4 DEF KnownBy
  <2> QED
    BY <1>1, <2>1, MarkedBacklog
<1>6. KnownBy(n) = KnownBy(d)
  BY <1>1 DEF KnownBy
<1>7. Backlogged(n, r)
  BY <1>3, <1>4, <1>5, <1>6 DEF Backlogged, Quiet
<1>8. \A e \in n.seen : e.stamp.clock <= n.clock
  BY <1>1, <1>3, <1>4 DEF KnownBy
<1>9. db'[r] = n
  BY <1>1 DEF TypeInv, ChecklistTypeOK
<1>10. Quiet(r)'
  BY <1>1, <1>2, <1>7, <1>8, <1>9 DEF Quiet, Merging
<1> QED
  BY <1>1, <1>2, <1>10, QuietStep

LEMMA QuietReserve ==
  TypeInv /\ SoundInv /\ InOrder /\ QuietInv /\ SomeReserve => QuietInv'
<1> SUFFICES ASSUME TypeInv, SoundInv, InOrder, QuietInv, SomeReserve PROVE QuietInv'
  OBVIOUS
<1> PICK r \in Natives, p \in Part : ReserveDelete(r, p)
  BY DEF SomeReserve
<1> DEFINE d == db[r]
           n == db'[r]
<1>1. /\ n \in Store /\ n.clock = d.clock + 1 /\ SameBut(d, n)
      /\ db' = [db EXCEPT ![r] = n] /\ p \in d.rows
      /\ deleting' = [deleting EXCEPT ![r] = {[part |-> p, seq |-> d.clock + 1]}]
      /\ UNCHANGED <<staged, merge, world>> /\ EditorTurn(r)
  BY ReserveForms
<1>2. staged[r] = {} /\ ~ Merging(r) /\ Idle
  BY <1>1, EditsAreApart
<1>3. /\ d.clock \in Nat /\ Quiet(r) /\ d \in Store
      /\ \A e \in d.outbox : e.stamp.clock <= d.clock
  BY SequencesAreOld DEF QuietInv
<1>4. \A e \in KnownBy(d) : e.stamp.clock <= d.clock /\ e.stamp.clock < d.clock + 1
  <2>1. \A e \in KnownBy(d) : e.stamp.clock \in Nat
    BY <1>3, StoreFields, EventFacts DEF KnownBy
  <2>2. \A e \in d.seen : e.stamp.clock <= d.clock
    BY <1>3 DEF Quiet
  <2> QED
    BY <1>3, <2>1, <2>2 DEF KnownBy
<1>5. KnownBy(n) = KnownBy(d) /\ Unmaterialized(n, r) = Unmaterialized(d, r)
  BY <1>1 DEF KnownBy, Unmaterialized, SameBut
<1>6. Backlogged(n, r)
  BY <1>3, <1>5 DEF Backlogged, Quiet
<1>7. \A e \in n.seen : e.stamp.clock <= n.clock
  <2>1. \A e \in n.seen : e \in KnownBy(d) /\ e.stamp.clock \in Nat
    BY <1>1, <1>3, StoreFields, EventFacts DEF KnownBy, SameBut
  <2> QED
    BY <1>1, <1>3, <1>4, <2>1
<1>8. deleting'[r] = {[part |-> p, seq |-> d.clock + 1]}
      /\ \A s \in Natives \ {r} : deleting'[s] = deleting[s]
  BY <1>1 DEF TypeInv, ChecklistTypeOK
<1>9. \A v \in deleting'[r] : /\ v.part \in n.rows /\ v.seq = n.clock
                              /\ \A e \in KnownBy(n) : e.stamp.clock < v.seq
  BY <1>1, <1>4, <1>5, <1>8 DEF SameBut
<1> HIDE DEF n
<1>10. Quiet(r)'
  BY <1>1, <1>2, <1>6, <1>7, <1>9 DEF Quiet, Merging, n
<1> QED
  BY <1>1, <1>2, <1>8, <1>10, QuietStep

LEMMA QuietBury ==
  TypeInv /\ SoundInv /\ BooksInv /\ InOrder /\ QuietInv /\ SomeBury => QuietInv'
<1> SUFFICES ASSUME TypeInv, SoundInv, BooksInv, InOrder, QuietInv, SomeBury
             PROVE  QuietInv'
  OBVIOUS
<1> PICK r \in Natives : \E v \in deleting[r] : BuryStep(r, v)
  BY DEF SomeBury
<1> PICK v \in deleting[r] : BuryStep(r, v)
  OBVIOUS
<1> DEFINE d == db[r]
           n == db'[r]
           m == [seq |-> v.seq, kind |-> DeleteKind(v.part), entity |-> v.part]
<1>1. /\ n \in Store /\ db' = [db EXCEPT ![r] = n]
      /\ n.pending = d.pending \cup {m} /\ n.clock = d.clock
      /\ n.outbox = d.outbox /\ n.seen = d.seen
  BY BuryMarker
<1>2. /\ deleting' = [deleting EXCEPT ![r] = {}] /\ UNCHANGED <<staged, merge, world>>
      /\ EditorTurn(r)
  BY DEF BuryStep
<1>3. staged[r] = {} /\ ~ Merging(r) /\ Idle /\ Quiet(r) /\ d \in Store
  BY <1>2, EditsAreApart, SequencesAreOld DEF QuietInv
<1>4. \A e \in KnownBy(d) : e.stamp.clock \in Nat /\ e.stamp.clock < m.seq
  BY <1>3, StoreFields, EventFacts DEF KnownBy, Quiet
<1>5. m.seq \in Nat
  BY SequencesAreOld
<1> HIDE DEF m, n
<1>6. Unmaterialized(n, r) = Unmaterialized(d, r) \cup {m}
  <2>1. \A e \in d.outbox : e.stamp.clock # m.seq
    BY <1>4, <1>5 DEF KnownBy
  <2> QED
    BY <1>1, <2>1, MarkedBacklog
<1>7. KnownBy(n) = KnownBy(d)
  BY <1>1 DEF KnownBy
<1>8. Backlogged(n, r)
  BY <1>3, <1>4, <1>6, <1>7 DEF Backlogged, Quiet
<1>9. deleting'[r] = {} /\ \A s \in Natives \ {r} : deleting'[s] = deleting[s]
  BY <1>2 DEF TypeInv, ChecklistTypeOK
<1>10. \A e \in n.seen : e.stamp.clock <= n.clock
  BY <1>1, <1>3 DEF Quiet
<1>11. Quiet(r)'
  BY <1>2, <1>3, <1>8, <1>9, <1>10 DEF Quiet, Merging, n
<1> QED
  BY <1>1, <1>2, <1>3, <1>9, <1>11, QuietStep

LEMMA QuietPublish ==
  TypeInv /\ SoundInv /\ InOrder /\ QuietInv /\ SomePublish => QuietInv'
<1> SUFFICES ASSUME TypeInv, SoundInv, InOrder, QuietInv, SomePublish PROVE QuietInv'
  OBVIOUS
<1> PICK r \in Natives, batch \in SUBSET Event : PublishStep(r, batch)
  BY DEF SomePublish
<1> DEFINE d == db[r]
           n == db'[r]
<1>1. /\ db' = [db EXCEPT ![r] = n] /\ n.clock = d.clock /\ n.seen = d.seen
      /\ staged' = [staged EXCEPT ![r] = batch] /\ UNCHANGED <<deleting, merge, world>>
      /\ Unmaterialized(n, r) = {}
  BY PublishForms
<1>2. Idle /\ deleting[r] = {} /\ ~ Merging(r)
  BY NobodyIsNoDevice
     DEF PublishStep, SyncReady, Turn, InOrder, Idle, Merging, NoMerge
<1>3. \A s \in Natives \ {r} : staged'[s] = staged[s]
  BY <1>1 DEF TypeInv, ChecklistTypeOK
<1> HIDE DEF n
<1>4. Quiet(r)'
  BY <1>1, <1>2 DEF Quiet, QuietInv, Backlogged, Merging, n
<1> QED
  BY <1>1, <1>2, <1>3, <1>4, QuietStep

LEMMA QuietOpen ==
  TypeInv /\ SoundInv /\ QuietInv /\ SomeOpen => QuietInv'
<1> SUFFICES ASSUME TypeInv, SoundInv, QuietInv, SomeOpen PROVE QuietInv'
  OBVIOUS
<1> PICK r \in Natives : OpenMerge(r)
  BY DEF SomeOpen
<1> DEFINE d == db[r]
           w == merge'.work
<1>1. /\ merge'.at = r /\ w \in Store /\ w.clock >= d.clock /\ SameBut(d, w)
      /\ staged' = [staged EXCEPT ![r] = {}] /\ staged[r] # {}
      /\ UNCHANGED <<db, deleting, world>> /\ Idle
  BY OpenForms
<1>2. Quiet(r) /\ d \in Store /\ d.clock \in Nat /\ w.clock \in Nat
  BY <1>1, SequencesAreOld, StoreFields DEF QuietInv
<1>3. \A e \in w.seen : e.stamp.clock <= w.clock
  <2>1. \A e \in d.seen : e.stamp.clock \in Nat /\ e.stamp.clock <= d.clock
    BY <1>2, StoreFields, EventFacts DEF Quiet
  <2> QED
    BY <1>1, <1>2, <2>1 DEF SameBut
<1>4. d.seen \subseteq w.seen
  BY <1>1 DEF SameBut
<1> HIDE DEF w
<1>5. Quiet(r)'
  BY <1>1, <1>2, <1>3, <1>4 DEF Quiet, Merging, w
<1>6. ASSUME NEW s \in Natives, s # r
      PROVE  Quiet(s)'
  <2>1. ~ Merging(s)' /\ staged'[s] = staged[s]
    BY <1>1, <1>6 DEF Merging, TypeInv, ChecklistTypeOK
  <2> QED
    BY <1>1, <2>1, QuietElsewhere DEF QuietInv
<1> QED
  BY <1>5, <1>6 DEF QuietInv

LEMMA QuietMerge ==
  TypeInv /\ SoundInv /\ QuietInv /\ SomeMerge => QuietInv'
<1> SUFFICES ASSUME TypeInv, SoundInv, QuietInv, SomeMerge PROVE QuietInv'
  OBVIOUS
<1> PICK r \in Natives : \E e \in merge.todo : MergeEvent(r, e)
  BY DEF SomeMerge
<1> PICK e \in merge.todo : MergeEvent(r, e)
  OBVIOUS
<1> DEFINE w == merge.work
           n == merge'.work
<1>1. /\ Merging(r) /\ merge'.at = r /\ Kept(w, n) /\ n.seen = w.seen \cup {e}
      /\ e.stamp.clock <= w.clock /\ UNCHANGED <<db, deleting, staged, world>>
  BY MergeEventForms
<1> HIDE DEF n
<1>0. /\ \A o \in n.seen : o.stamp.clock <= n.clock
      /\ db[r].seen \subseteq n.seen
  <2>1. Merging(r) /\ Quiet(r)
    BY <1>1 DEF QuietInv
  <2>2. (\A o \in w.seen : o.stamp.clock <= w.clock) /\ db[r].seen \subseteq w.seen
    BY <2>1 DEF Quiet
  <2>3. n.clock = w.clock /\ n.seen = w.seen \cup {e} /\ e.stamp.clock <= w.clock
    BY <1>1 DEF Kept
  <2> HIDE DEF w
  <2> QED
    BY <2>2, <2>3
<1>2. Quiet(r)'
  <2>1. /\ Unmaterialized(db[r], r) = {} /\ deleting[r] = {} /\ Backlogged(db[r], r)
        /\ \A o \in db[r].seen : o.stamp.clock <= db[r].clock
    BY <1>1 DEF Quiet, QuietInv
  <2> QED
    BY <1>0, <1>1, <2>1 DEF Quiet, n
<1>3. ASSUME NEW s \in Natives, s # r
      PROVE  Quiet(s)'
  <2>1. ~ Merging(s)'
    BY <1>1, <1>3 DEF Merging
  <2> QED
    BY <1>1, <2>1, QuietElsewhere DEF QuietInv
<1> QED
  BY <1>2, <1>3 DEF QuietInv

LEMMA QuietCommit ==
  TypeInv /\ SoundInv /\ QuietInv /\ SomeCommit => QuietInv'
<1> SUFFICES ASSUME TypeInv, SoundInv, QuietInv, SomeCommit PROVE QuietInv'
  OBVIOUS
<1> PICK r \in Natives : CommitMerge(r)
  BY DEF SomeCommit
<1> DEFINE w == merge.work
<1>1. /\ Merging(r) /\ db' = [db EXCEPT ![r] = w] /\ merge' = NoMerge
      /\ db'[r] = w /\ UNCHANGED <<deleting, staged, world>>
      /\ w.outbox = db[r].outbox /\ w.pending = db[r].pending
  BY CommitMergeForms
<1>2. Unmaterialized(w, r) = Unmaterialized(db[r], r)
  BY <1>1 DEF Unmaterialized
<1>3. \A s \in Natives : ~ Merging(s)'
  BY <1>1, NobodyIsNoDevice DEF Merging, NoMerge
<1>4. Unmaterialized(w, r) = {} /\ deleting[r] = {}
      /\ \A e \in w.seen : e.stamp.clock <= w.clock
  BY <1>1, <1>2 DEF QuietInv, Quiet
<1>5. Quiet(r)'
  BY <1>1, <1>3, <1>4 DEF Quiet, Backlogged
<1>6. ASSUME NEW s \in Natives, s # r
      PROVE  Quiet(s)'
  <2>1. db'[s] = db[s]
    BY <1>1, <1>6 DEF TypeInv, ChecklistTypeOK
  <2> QED
    BY <1>1, <1>3, <2>1, QuietElsewhere DEF QuietInv
<1> QED
  BY <1>5, <1>6 DEF QuietInv

LEMMA QuietNext ==
  TypeInv /\ SoundInv /\ BooksInv /\ InOrder /\ QuietInv /\ [Next]_vars => QuietInv'
BY StepForms, QuietDrop, QuietEdit, QuietReserve, QuietBury, QuietPublish,
   QuietOpen, QuietMerge, QuietCommit

-----------------------------------------------------------------------------
(* In an orderly world every delta comes with or after all it hangs below. *)

LEMMA FoundedGrows ==
  ASSUME NEW roots, NEW news, NEW news2, NEW events, NEW events2, NEW p,
         \A o \in events : o \in events2 \/ \A q : Creates(o, q) => \E h \in news2 : Creates(h, q),
         news \subseteq news2, Founded(roots, news, events, p)
  PROVE  Founded(roots, news2, events2, p)
<1> SUFFICES ASSUME NEW q \in Above(p), q \notin roots
             PROVE  \/ \E o \in events2 : Creates(o, q)
                    \/ \E h \in news2 : Creates(h, q)
  BY DEF Founded
<1>1. (\E o \in events : Creates(o, q)) \/ (\E h \in news : Creates(h, q))
  BY DEF Founded
<1> QED
  BY <1>1

LEMMA NewsGrow ==
  ASSUME NEW d, NEW n, NEW r, d.pending \subseteq n.pending, d.seen \subseteq n.seen
  PROVE  News(d, r) \subseteq News(n, r)
BY DEF News

Grounded(r) ==
  \A e \in staged[r] :
    IsDelta(e) => Founded(world.roots, News(db[r], r), staged[r], e.entity)

GroundedMerge(r) ==
  Merging(r) => \A e \in merge.todo :
    IsDelta(e) => Founded(world.roots, News(merge.work, r), merge.todo, e.entity)

LEMMA CausalParts ==
  CausalInv <=> \A r \in Natives : Grounded(r) /\ GroundedMerge(r)
BY DEF CausalInv, Grounded, GroundedMerge

LEMMA StillGrounded ==
  ASSUME NEW s \in Natives, Grounded(s), UNCHANGED world,
         staged'[s] \in {staged[s], {}},
         News(db[s], s) \subseteq News(db'[s], s)
  PROVE  Grounded(s)'
<1> SUFFICES ASSUME NEW e \in staged'[s], IsDelta(e)
             PROVE  Founded(world.roots, News(db'[s], s), staged[s], e.entity)
  BY DEF Grounded
<1>1. e \in staged[s]
  OBVIOUS
<1>2. Founded(world.roots, News(db[s], s), staged[s], e.entity)
  BY <1>1 DEF Grounded
<1> QED
  BY <1>2, FoundedGrows

LEMMA CausalInit == Init => CausalInv
<1> SUFFICES ASSUME Init PROVE CausalInv
  OBVIOUS
<1>1. \A s \in Natives : staged[s] = {} /\ ~ Merging(s)
  BY NobodyIsNoDevice DEF Init, NoMerge, Merging
<1> QED
  BY <1>1 DEF CausalInv

\* The steps by which nothing is staged and nothing merged.
LEMMA CausalQuietStep ==
  ASSUME CausalInv, UNCHANGED <<merge, world>>, Idle,
         \A s \in Natives : staged'[s] \in {staged[s], {}},
         \A s \in Natives : db[s].pending \subseteq db'[s].pending
                            /\ db[s].seen \subseteq db'[s].seen
  PROVE  CausalInv'
<1> SUFFICES ASSUME NEW s \in Natives PROVE Grounded(s)' /\ GroundedMerge(s)'
  BY CausalParts DEF CausalInv, Grounded, GroundedMerge
<1>1. Grounded(s)'
  BY NewsGrow, StillGrounded, CausalParts
<1>2. GroundedMerge(s)'
  BY NobodyIsNoDevice DEF GroundedMerge, Merging, Idle, NoMerge
<1> QED
  BY <1>1, <1>2

LEMMA CausalDrop == CausalInv /\ Dropped => CausalInv'
<1> SUFFICES ASSUME CausalInv, Dropped, NEW s \in Natives
             PROVE  Grounded(s)' /\ GroundedMerge(s)'
  BY CausalParts DEF CausalInv, Grounded, GroundedMerge
<1>1. /\ db' = db /\ world' = world /\ staged'[s] \in {staged[s], {}}
      /\ Grounded(s) /\ GroundedMerge(s)
  BY CausalParts DEF Dropped
<1>2. Grounded(s)'
  BY <1>1, StillGrounded
<1>3. GroundedMerge(s)'
  <2>1. CASE merge' = merge
    BY <1>1, <2>1 DEF GroundedMerge, Merging
  <2>2. CASE merge' = NoMerge
    BY <2>2, NobodyIsNoDevice DEF GroundedMerge, Merging, NoMerge
  <2> QED
    BY <2>1, <2>2 DEF Dropped
<1> QED
  BY <1>2, <1>3

LEMMA CausalEditor ==
  TypeInv /\ SoundInv /\ BooksInv /\ InOrder /\ CausalInv
    /\ (SomeEdit \/ SomeReserve \/ SomeBury) => CausalInv'
<1> SUFFICES ASSUME TypeInv, SoundInv, BooksInv, InOrder, CausalInv,
                    SomeEdit \/ SomeReserve \/ SomeBury
             PROVE  CausalInv'
  OBVIOUS
<1>1. ASSUME NEW r \in Natives, NEW n, db' = [db EXCEPT ![r] = n],
             EditorTurn(r), UNCHANGED <<staged, merge, world>>,
             db[r].pending \subseteq n.pending, n.seen = db[r].seen
      PROVE  CausalInv'
  <2>1. \A s \in Natives : db'[s] = IF s = r THEN n ELSE db[s]
    BY <1>1 DEF TypeInv, ChecklistTypeOK
  <2>2. Idle
    BY <1>1, EditsAreApart
  <2>3. \A s \in Natives : db[s].pending \subseteq db'[s].pending
                           /\ db[s].seen \subseteq db'[s].seen
    BY <1>1, <2>1
  <2> QED
    BY <1>1, <2>2, <2>3, CausalQuietStep
<1>2. CASE SomeEdit
  <2> PICK r \in Natives, n \in Store, kind \in MarkerKind, p \in Part \cup {Board} :
        EditStep(r, n, kind, p)
    BY <1>2 DEF SomeEdit
  <2> QED
    BY <1>1, EditMarker
<1>3. CASE SomeReserve
  <2> PICK r \in Natives, p \in Part : ReserveDelete(r, p)
    BY <1>3 DEF SomeReserve
  <2> QED
    BY <1>1, ReserveForms DEF SameBut
<1>4. CASE SomeBury
  <2> PICK r \in Natives : \E v \in deleting[r] : BuryStep(r, v)
    BY <1>4 DEF SomeBury
  <2> PICK v \in deleting[r] : BuryStep(r, v)
    OBVIOUS
  <2>1. EditorTurn(r) /\ UNCHANGED <<staged, merge, world>>
    BY DEF BuryStep
  <2> QED
    BY <1>1, <2>1, BuryMarker
<1> QED
  BY <1>2, <1>3, <1>4

\* The news of a device are all it knows.
LEMMA KnownIsNews ==
  ASSUME TypeInv, SoundInv, BooksInv, NEW r \in Natives, NEW e \in KnownBy(db[r])
  PROVE  Header(e) \in News(db[r], r)
<1>1. CASE e \in db[r].seen
  BY <1>1 DEF News
<1>2. CASE e \in db[r].outbox
  <2>1. PICK m \in db[r].pending : Reports(e, r, m)
    BY <1>2 DEF BooksInv
  <2>2. Header(e) = MarkerHeader(m, r)
    <3>1. e.all \in BOOLEAN
      BY <1>2, SequencesAreOld, StoreFields, EventFacts
    <3>2. /\ e.stamp = [clock |-> m.seq, replica |-> r] /\ e.op = OpOf(m.kind)
          /\ e.entity = m.entity /\ e.all = (m.kind \in CreationKind)
      BY <2>1, <3>1 DEF Reports
    <3> QED
      BY <3>2 DEF Header, MarkerHeader
  <2> QED
    BY <2>2 DEF News
<1> QED
  BY <1>1, <1>2 DEF KnownBy

LEMMA CausalPublish ==
  TypeInv /\ SoundInv /\ BooksInv /\ InOrder /\ CausalInv /\ SomePublish => CausalInv'
<1> SUFFICES ASSUME TypeInv, SoundInv, BooksInv, InOrder, CausalInv, SomePublish
             PROVE  CausalInv'
  OBVIOUS
<1> PICK r \in Natives, batch \in SUBSET Event : PublishStep(r, batch)
  BY DEF SomePublish
<1>1. /\ db' = [db EXCEPT ![r] = db'[r]] /\ UNCHANGED <<deleting, merge, world>>
      /\ db'[r].pending = db[r].pending /\ db'[r].seen = db[r].seen
      /\ staged' = [staged EXCEPT ![r] = batch]
  BY PublishForms
<1>2. Idle
  BY DEF PublishStep, SyncReady, Turn
<1>3. \A s \in Natives : /\ News(db'[s], s) = News(db[s], s)
                         /\ staged'[s] = IF s = r THEN batch ELSE staged[s]
                         /\ s # r => db'[s] = db[s]
  BY <1>1 DEF News, TypeInv, ChecklistTypeOK
<1>4. ASSUME NEW e \in batch, IsDelta(e)
      PROVE  Founded(world.roots, News(db[r], r), batch, e.entity)
  <2> SUFFICES ASSUME NEW q \in Above(e.entity), q \notin world.roots
               PROVE  \/ \E o \in batch : Creates(o, q)
                      \/ \E h \in News(db[r], r) : Creates(h, q)
    BY DEF Founded
  <2>1. CreationKnown(r, batch, q)
    BY <1>4 DEF PublishStep, Deliverable, InOrder, IsDelta, Above
  <2>2. PICK o \in batch \cup db[r].seen \cup db[r].outbox : o.entity = q /\ o.all
    BY <2>1 DEF CreationKnown
  <2>3. CASE o \in batch
    BY <2>2, <2>3 DEF Creates
  <2>4. CASE o \notin batch
    <3>1. Header(o) \in News(db[r], r)
      BY <2>4, KnownIsNews DEF KnownBy
    <3>2. Creates(Header(o), q)
      BY <2>2 DEF Creates, Header
    <3> QED
      BY <3>1, <3>2
  <2> QED
    BY <2>3, <2>4
<1>5. ASSUME NEW s \in Natives
      PROVE  Grounded(s)' /\ GroundedMerge(s)'
  <2>1. GroundedMerge(s)'
    BY <1>1, <1>2, NobodyIsNoDevice DEF GroundedMerge, Merging, Idle, NoMerge
  <2>2. CASE s = r
    BY <1>1, <1>3, <1>4, <2>1, <2>2 DEF Grounded
  <2>3. CASE s # r
    <3>1. Grounded(s)
      BY CausalParts
    <3> QED
      BY <1>1, <1>3, <2>1, <2>3, <3>1, StillGrounded
  <2> QED
    BY <2>2, <2>3
<1> QED
  BY <1>5 DEF CausalInv, Grounded, GroundedMerge

LEMMA CausalOpen ==
  TypeInv /\ SoundInv /\ CausalInv /\ SomeOpen => CausalInv'
<1> SUFFICES ASSUME TypeInv, SoundInv, CausalInv, SomeOpen PROVE CausalInv'
  OBVIOUS
<1> PICK r \in Natives : OpenMerge(r)
  BY DEF SomeOpen
<1> DEFINE n == merge'.work
<1>1. /\ merge'.at = r /\ merge'.todo = staged[r] /\ SameBut(db[r], n)
      /\ staged' = [staged EXCEPT ![r] = {}] /\ UNCHANGED <<db, deleting, world>>
  BY OpenForms
<1>2. News(n, r) = News(db[r], r)
  BY <1>1 DEF News, SameBut
<1>3. ASSUME NEW s \in Natives
      PROVE  Grounded(s)' /\ GroundedMerge(s)'
  <2>1. staged'[s] \in {staged[s], {}} /\ db'[s] = db[s] /\ Grounded(s)
    BY <1>1, CausalParts DEF TypeInv, ChecklistTypeOK
  <2>2. Grounded(s)'
    BY <1>1, <2>1, StillGrounded
  <2>3. CASE s = r
    <3>1. \A e \in merge'.todo : IsDelta(e) =>
            Founded(world.roots, News(n, r), merge'.todo, e.entity)
      BY <1>1, <1>2, <2>1, <2>3 DEF Grounded
    <3> HIDE DEF n
    <3> QED
      BY <1>1, <2>2, <2>3, <3>1 DEF GroundedMerge, n
  <2>4. CASE s # r
    BY <1>1, <2>2, <2>4 DEF GroundedMerge, Merging
  <2> QED
    BY <2>3, <2>4
<1> QED
  BY <1>3 DEF CausalInv, Grounded, GroundedMerge

LEMMA CausalMerge ==
  TypeInv /\ SoundInv /\ CausalInv /\ SomeMerge => CausalInv'
<1> SUFFICES ASSUME TypeInv, SoundInv, CausalInv, SomeMerge PROVE CausalInv'
  OBVIOUS
<1> PICK r \in Natives : \E e \in merge.todo : MergeEvent(r, e)
  BY DEF SomeMerge
<1> PICK e \in merge.todo : MergeEvent(r, e)
  OBVIOUS
<1> DEFINE w == merge.work
           n == merge'.work
<1>1. /\ Merging(r) /\ merge'.at = r /\ Kept(w, n) /\ n.seen = w.seen \cup {e}
      /\ merge'.todo = merge.todo \ {e} /\ UNCHANGED <<db, deleting, staged, world>>
  BY MergeEventForms
<1>2. News(w, r) \subseteq News(n, r)
  BY <1>1, NewsGrow DEF Kept
<1>3. ASSUME NEW q, Creates(e, q)
      PROVE  \E h \in News(n, r) : Creates(h, q)
  <2>1. Header(e) \in News(n, r)
    BY <1>1 DEF News
  <2>2. Creates(Header(e), q)
    BY <1>3 DEF Creates, Header
  <2> QED
    BY <2>1, <2>2
<1>4. ASSUME NEW s \in Natives
      PROVE  Grounded(s)' /\ GroundedMerge(s)'
  <2>1. Grounded(s)'
    BY <1>1, CausalParts, StillGrounded
  <2>2. CASE s = r
    <3>1. ASSUME NEW o \in merge'.todo, IsDelta(o)
          PROVE  Founded(world.roots, News(n, r), merge'.todo, o.entity)
      <4>1. Founded(world.roots, News(w, r), merge.todo, o.entity)
        BY <1>1, <3>1, CausalParts DEF GroundedMerge
      <4>2. \A x \in merge.todo : \/ x \in merge'.todo
                                  \/ \A q : Creates(x, q) => \E h \in News(n, r) : Creates(h, q)
        BY <1>1, <1>3
      <4> QED
        BY <1>2, <4>1, <4>2, FoundedGrows
    <3> HIDE DEF n
    <3> QED
      BY <1>1, <2>1, <2>2, <3>1 DEF GroundedMerge, n
  <2>3. CASE s # r
    BY <1>1, <2>1, <2>3 DEF GroundedMerge, Merging
  <2> QED
    BY <2>2, <2>3
<1> QED
  BY <1>4 DEF CausalInv, Grounded, GroundedMerge

LEMMA CausalCommit ==
  TypeInv /\ SoundInv /\ QuietInv /\ CausalInv /\ SomeCommit => CausalInv'
<1> SUFFICES ASSUME TypeInv, SoundInv, QuietInv, CausalInv, SomeCommit PROVE CausalInv'
  OBVIOUS
<1> PICK r \in Natives : CommitMerge(r)
  BY DEF SomeCommit
<1> DEFINE w == merge.work
<1>1. /\ Merging(r) /\ db' = [db EXCEPT ![r] = w] /\ merge' = NoMerge
      /\ db'[r] = w /\ UNCHANGED <<deleting, staged, world>>
      /\ w.pending = db[r].pending
  BY CommitMergeForms
<1>2. db[r].seen \subseteq w.seen
  BY <1>1 DEF QuietInv, Quiet
<1>3. \A s \in Natives : News(db[s], s) \subseteq News(db'[s], s)
  <2> SUFFICES ASSUME NEW s \in Natives PROVE News(db[s], s) \subseteq News(db'[s], s)
    OBVIOUS
  <2>1. db'[s] = IF s = r THEN w ELSE db[s]
    BY <1>1 DEF TypeInv, ChecklistTypeOK
  <2> QED
    BY <1>1, <1>2, <2>1, NewsGrow
<1>4. ASSUME NEW s \in Natives
      PROVE  Grounded(s)' /\ GroundedMerge(s)'
  <2>1. Grounded(s)'
    BY <1>1, <1>3, CausalParts, StillGrounded
  <2>2. GroundedMerge(s)'
    BY <1>1, NobodyIsNoDevice DEF GroundedMerge, Merging, NoMerge
  <2> QED
    BY <2>1, <2>2
<1> QED
  BY <1>4 DEF CausalInv, Grounded, GroundedMerge

LEMMA CausalNext ==
  TypeInv /\ SoundInv /\ BooksInv /\ InOrder /\ QuietInv /\ CausalInv /\ [Next]_vars
    => CausalInv'
BY StepForms, CausalDrop, CausalEditor, CausalPublish, CausalOpen, CausalMerge,
   CausalCommit
-----------------------------------------------------------------------------
(* What an orderly store looks at, and what leaves it orderly.             *)

LEMMA StampsCompare ==
  /\ \A a \in StampOrNone : ~ Newer(a, a)
  /\ \A a, b, c \in StampOrNone : Newer(a, b) /\ ~ Newer(c, b) => ~ Newer(c, a)
  /\ \A a, b, c \in StampOrNone : ~ Newer(a, b) /\ ~ Newer(c, a) => ~ Newer(c, b)
BY StampOrder DEF Newer

LEMMA NewsFacts ==
  ASSUME NEW d \in Store, NEW r \in Replicas, NEW h \in News(d, r)
  PROVE  h.stamp \in Stamp /\ h.entity \in Part \cup {Board}
<1>1. CASE \E m \in d.pending : h = MarkerHeader(m, r)
  <2> PICK m \in d.pending : h = MarkerHeader(m, r)
    BY <1>1
  <2>1. m.seq \in Nat /\ m.entity \in Part \cup {Board}
    BY StoreFields DEF Marker
  <2> QED
    BY <2>1 DEF MarkerHeader, Stamp
<1>2. CASE \E e \in d.seen : h = Header(e)
  <2> PICK e \in d.seen : h = Header(e)
    BY <1>2
  <2> QED
    BY StoreFields, EventFacts DEF Header
<1> QED
  BY <1>1, <1>2 DEF News

LEMMA OrderlySame ==
  ASSUME NEW d, NEW n, NEW r, NEW w, NEW B, SameBut(d, n), OrderlyStore(d, r, w, B)
  PROVE  OrderlyStore(n, r, w, B)
<1>1. /\ News(n, r) = News(d, r) /\ KnownBy(n) = KnownBy(d)
      /\ Unmaterialized(n, r) = Unmaterialized(d, r)
  BY DEF SameBut, News, KnownBy, Unmaterialized
<1>2. \A p : Gone(n, p) <=> Gone(d, p)
  BY DEF SameBut, Gone, Buried
<1>3. AbsentIsUnknown(n, r, w.roots) /\ ShownIsCreated(n, r, w.roots)
  BY <1>1, <1>2 DEF SameBut, OrderlyStore, AbsentIsUnknown, ShownIsCreated
<1>4. TombsHold(n, r)
  BY <1>1 DEF SameBut, OrderlyStore, TombsHold, Buried
<1>5. \A p, f : Writers(n, r, p, f) = Writers(d, r, p, f)
  BY <1>1 DEF Writers
<1>6. \A m : LastOf(n, r, m) <=> LastOf(d, r, m)
  BY <1>1 DEF LastOf
<1>7. LifecyclesHold(n, r, B)
  BY <1>1, <1>5, <1>6 DEF SameBut, OrderlyStore, LifecyclesHold, Buried
<1>8. \A p : Holds(d, p) <=> Holds(n, p)
  BY <1>1 DEF SameBut, Holds, Writes, Untold, Shows
<1>9. RegistersHold(n, r)
  BY <1>5, <1>8 DEF SameBut, OrderlyStore, RegistersHold, Live
<1> QED
  BY <1>3, <1>4, <1>7, <1>9 DEF SameBut, OrderlyStore

LEMMA OrderlyGrows ==
  ASSUME NEW d, NEW r, NEW w, NEW B, NEW C, B \subseteq C, OrderlyStore(d, r, w, B)
  PROVE  OrderlyStore(d, r, w, C)
<1>1. LifecyclesHold(d, r, C)
  BY DEF LifecyclesHold, OrderlyStore
<1> QED
  BY <1>1 DEF OrderlyStore

LEMMA BirthsGrow ==
  ASSUME \A s \in Natives : db[s].pending \subseteq db'[s].pending
  PROVE  Births \subseteq Births'
<1>1. \A s \in Natives : \A m \in Creations(s) : m \in Creations(s)'
  BY DEF Creations
<1> QED
  BY <1>1 DEF Births

LEMMA HoldsSame ==
  ASSUME NEW d, NEW n, NEW p, Holds(d, p), Writes(n, p) = Writes(d, p),
         n.ver[p][RegisterOf(p)] = d.ver[p][RegisterOf(p)],
         p = Board => n.appearance = d.appearance,
         p # Board => (p \in n.done <=> p \in d.done)
  PROVE  Holds(n, p)
<1>1. \A e \in Writes(d, p) : e.entity = p
  BY DEF Writes
<1>2. CASE Writes(d, p) = {}
  BY <1>2 DEF Holds, Untold
<1>3. CASE Writes(d, p) # {}
  <2>1. PICK e \in Writes(d, p) : /\ \A o \in Writes(d, p) : ~ Newer(o.stamp, e.stamp)
                                 /\ d.ver[p][RegisterOf(p)] = e.stamp
                                 /\ Shows(d, e)
    BY <1>3 DEF Holds
  <2>2. Shows(n, e)
    BY <1>1, <2>1 DEF Shows
  <2> QED
    BY <1>3, <2>1, <2>2 DEF Holds
<1> QED
  BY <1>2, <1>3

\* A marker is added.
LEMMA MarkedNews ==
  ASSUME NEW d, NEW n, NEW r, NEW m, n.pending = d.pending \cup {m},
         n.outbox = d.outbox, n.seen = d.seen,
         Unmaterialized(n, r) = Unmaterialized(d, r) \cup {m}
  PROVE  /\ News(n, r) = News(d, r) \cup {MarkerHeader(m, r)}
         /\ \A p : Writes(n, p) = Writes(d, p)
         /\ \A p, f : p # m.entity => Writers(n, r, p, f) = Writers(d, r, p, f)
         /\ \A p, f : f \in WrittenFields(m.kind) /\ p = m.entity
                        => m \in Writers(n, r, p, f)
         /\ \A p, f : Writers(d, r, p, f) \subseteq Writers(n, r, p, f)
         /\ \A o : o.entity # m.entity => (LastOf(n, r, o) <=> LastOf(d, r, o))
BY DEF News, Writes, KnownBy, Writers, LastOf

LEMMA EditOrderly ==
  ASSUME NEW d \in Store, NEW n \in Store, NEW r \in Replicas, NEW m \in Marker,
         NEW w, NEW B, NEW C, NEW G, B \subseteq C, OrderlyStore(d, r, w, B),
         Sound(n, C, G), MarkerFits(m),
         n.pending = d.pending \cup {m}, n.outbox = d.outbox, n.seen = d.seen,
         n.columns = d.columns, n.tomb = d.tomb, n.ver = d.ver,
         Unmaterialized(n, r) = Unmaterialized(d, r) \cup {m},
         \/ Inserted(d, n, m.kind, m.entity)
         \/ Ticks(d, n, m.kind, m.entity)
         \/ Looks(d, n, m.kind, m.entity)
  PROVE  OrderlyStore(n, r, w, C)
<1> DEFINE p == m.entity
           h == MarkerHeader(m, r)
<1>1. /\ News(n, r) = News(d, r) \cup {h} /\ h.entity = p
      /\ \A q : Writes(n, q) = Writes(d, q)
      /\ \A q, f : q # p => Writers(n, r, q, f) = Writers(d, r, q, f)
      /\ \A q, f : f \in WrittenFields(m.kind) /\ q = p => m \in Writers(n, r, q, f)
      /\ \A o : o.entity # p => (LastOf(n, r, o) <=> LastOf(d, r, o))
      /\ \A q, f : Writers(d, r, q, f) \subseteq Writers(n, r, q, f)
  BY MarkedNews DEF MarkerHeader
<1>2. /\ \A q : Buried(n, q) <=> Buried(d, q)
      /\ \A q : Gone(n, q) <=> Gone(d, q)
  BY DEF Buried, Gone
<1>3. /\ d.rows \subseteq n.rows /\ n.rows \subseteq d.rows \cup {p}
      /\ p \in n.rows \/ (p = Board /\ n.rows = d.rows)
      /\ p \in n.rows /\ p \notin d.rows => h.all
      /\ ~ IsDelete(h)
  BY DEF Inserted, Ticks, Looks, MarkerHeader, IsDelete, OpOf, CreationKind
<1>4. ~ d.columns => n.rows = {}
  <2> SUFFICES ASSUME ~ d.columns PROVE n.rows = {}
    OBVIOUS
  <2>1. d.rows = {}
    BY DEF OrderlyStore, AbsentIsUnknown
  <2>2. ~ Inserted(d, n, m.kind, p)
    <3> SUFFICES ASSUME Inserted(d, n, m.kind, p) PROVE FALSE
      OBVIOUS
    <3>1. p \in Part /\ p \notin Cards /\ Ancestors(p) = {}
      BY <2>1 DEF Inserted
    <3> QED
      BY <3>1, AncestorFacts DEF Part
  <2> QED
    BY <2>1, <2>2 DEF Ticks, Looks
<1>5. AbsentIsUnknown(n, r, w.roots)
  <2>1. CASE d.columns
    <3> SUFFICES ASSUME NEW q \in Part \ n.rows, ~ Gone(n, q)
                 PROVE  /\ q \notin w.roots
                        /\ \A g \in News(n, r) : g.entity # q
                        /\ \A f \in Field : n.ver[q][f] = NoStamp
      BY <2>1 DEF AbsentIsUnknown
    <3>1. q \in Part \ d.rows /\ ~ Gone(d, q) /\ q # p
      BY <1>2, <1>3, PartsAssumption
    <3> QED
      BY <1>1, <2>1, <3>1 DEF OrderlyStore, AbsentIsUnknown
  <2>2. CASE ~ d.columns
    BY <1>4, <2>2 DEF AbsentIsUnknown
  <2> QED
    BY <2>1, <2>2
<1>6. ShownIsCreated(n, r, w.roots)
  <2> SUFFICES ASSUME NEW q \in n.rows
               PROVE  q \in w.roots \/ \E g \in News(n, r) : Creates(g, q)
    BY DEF ShownIsCreated
  <2>1. CASE q \in d.rows
    BY <1>1, <2>1 DEF OrderlyStore, ShownIsCreated
  <2>2. CASE q \notin d.rows
    BY <1>1, <1>3, <2>2 DEF Creates
  <2> QED
    BY <2>1, <2>2
<1>7. TombsHold(n, r)
  <2>1. \A q \in Part : Buried(n, q) => \E g \in News(n, r) : g.entity = q /\ IsDelete(g)
    BY <1>1, <1>2 DEF OrderlyStore, TombsHold
  <2>2. \A o \in n.pending : IsDelete(MarkerHeader(o, r)) => Buried(n, o.entity)
    BY <1>2, <1>3 DEF OrderlyStore, TombsHold
  <2>3. n.columns => \A g \in News(n, r) : IsDelete(g) =>
          \/ ~ Newer(g.stamp, n.tomb[g.entity])
          \/ \E c \in Ancestors(g.entity) \cap Cards : Buried(n, c)
    BY <1>1, <1>2, <1>3 DEF OrderlyStore, TombsHold
  <2> QED
    BY <2>1, <2>2, <2>3 DEF TombsHold
<1>8. LifecyclesHold(n, r, C)
  <2> SUFFICES ASSUME NEW q \in Lists \cup Items
               PROVE  LET v == n.ver[q]["lifecycle"]
                      IN  IF Buried(n, q)
                          THEN \/ n.tomb[q] = v /\ Writers(n, r, q, "lifecycle") = {}
                               \/ \E o \in Unmaterialized(n, r) :
                                    /\ o.entity = q /\ o.kind = DeleteKind(q)
                                    /\ LastOf(n, r, o)
                                    /\ n.tomb[q] = [clock |-> o.seq, replica |-> r]
                          ELSE v # NoStamp => [part |-> q, seq |-> v.clock] \in C
    BY DEF LifecyclesHold
  <2>1. CASE ~ Buried(n, q)
    BY <1>2, <2>1 DEF OrderlyStore, LifecyclesHold
  <2>2. CASE Buried(n, q)
    <3>1. q # p
      BY <1>3, <2>2, PartsAssumption DEF Sound, Part
    <3> QED
      BY <1>1, <1>2, <2>2, <3>1 DEF OrderlyStore, LifecyclesHold
  <2> QED
    BY <2>1, <2>2
<1>9. RegistersHold(n, r)
  <2> SUFFICES ASSUME NEW q \in Edited, Live(n, q), Writers(n, r, q, RegisterOf(q)) = {}
               PROVE  Holds(n, q)
    BY DEF RegistersHold
  <2>1. q # p
    <3> SUFFICES ASSUME q = p PROVE FALSE
      OBVIOUS
    <3>1. RegisterOf(p) \notin WrittenFields(m.kind)
      BY <1>1
    <3> QED
      BY <3>1, PartsAssumption DEF Edited, RegisterOf, Inserted, Ticks, Looks, WrittenFields,
         CreationKind, MarkerFits, Part
  <2>2. Live(d, q) /\ Writers(d, r, q, RegisterOf(q)) = {}
    BY <1>1, <1>3, <2>1 DEF Live
  <2>3. Holds(d, q)
    BY <2>2 DEF OrderlyStore, RegistersHold
  <2>4. /\ q = Board => n.appearance = d.appearance
        /\ q # Board => (q \in n.done <=> q \in d.done)
    BY <2>1 DEF Inserted, Ticks, Looks
  <2> QED
    BY <1>1, <2>3, <2>4, HoldsSame
<1> QED
  BY <1>5, <1>6, <1>7, <1>8, <1>9 DEF OrderlyStore

\* A part goes, with all below it, and stays behind as a tombstone.
Removal(d, n, r, p, h) ==
  /\ n.columns = d.columns /\ n.rows = d.rows \ Subtree(p)
  /\ n.tomb = [d.tomb EXCEPT ![p] = h.stamp]
  /\ \A q \in Part \ {p} : \A f \in Field : n.ver[q][f] = d.ver[q][f]
  /\ News(n, r) = News(d, r) \cup {h}
  /\ h.entity = p /\ IsDelete(h) /\ h.stamp \in Stamp
  /\ d.columns => \A g \in News(d, r) : g.entity = p /\ IsDelete(g) =>
       \/ ~ Newer(g.stamp, h.stamp)
       \/ \E c \in Ancestors(p) \cap Cards : Buried(d, c)
  /\ \A m \in n.pending : IsDelete(MarkerHeader(m, r)) =>
       Buried(d, m.entity) \/ m.entity = p

LEMMA RemovedOrderly ==
  ASSUME NEW d \in Store, NEW n \in Store, NEW r \in Replicas, NEW w, NEW B,
         NEW p \in Part, NEW h, OrderlyStore(d, r, w, B), Removal(d, n, r, p, h)
  PROVE  /\ AbsentIsUnknown(n, r, w.roots) /\ ShownIsCreated(n, r, w.roots)
         /\ TombsHold(n, r)
         /\ Buried(n, p) /\ n.tomb[p] = h.stamp
         /\ \A q \in Part \ {p} : n.tomb[q] = d.tomb[q]
<1>1. d.tomb \in [Part -> StampOrNone] /\ d.rows \subseteq Part
  BY StoreFields
<1> USE DEF Removal
<1>2. /\ n.tomb[p] = h.stamp /\ \A q \in Part \ {p} : n.tomb[q] = d.tomb[q]
      /\ Buried(n, p)
  BY <1>1, StampOrder DEF Buried
<1>3. \A q \in Part : Buried(d, q) => Buried(n, q)
  BY <1>2 DEF Buried
<1>4. \A q \in Part : Above(q) \subseteq Part /\ (Gone(d, q) => Gone(n, q))
  BY <1>3, AncestorFacts DEF Gone, Above
<1>5. AbsentIsUnknown(n, r, w.roots)
  <2>1. CASE d.columns
    <3> SUFFICES ASSUME NEW q \in Part \ n.rows, ~ Gone(n, q)
                 PROVE  /\ q \notin w.roots
                        /\ \A g \in News(n, r) : g.entity # q
                        /\ \A f \in Field : n.ver[q][f] = NoStamp
      BY <2>1 DEF AbsentIsUnknown
    <3>1. p \notin Above(q)
      BY <1>2 DEF Gone
    <3>2. q # p /\ q \notin Subtree(p)
      BY <3>1 DEF Above, Subtree
    <3>3. q \in Part \ d.rows /\ ~ Gone(d, q)
      BY <1>4, <3>2
    <3> QED
      BY <2>1, <3>2, <3>3 DEF OrderlyStore, AbsentIsUnknown
  <2>2. CASE ~ d.columns
    BY <2>2 DEF AbsentIsUnknown, OrderlyStore
  <2> QED
    BY <2>1, <2>2
<1>6. ShownIsCreated(n, r, w.roots)
  BY DEF OrderlyStore, ShownIsCreated
<1>7. \A q \in Part : Buried(n, q) => \E g \in News(n, r) : g.entity = q /\ IsDelete(g)
  BY <1>2 DEF OrderlyStore, TombsHold, Buried
<1>8. \A m \in n.pending : IsDelete(MarkerHeader(m, r)) => Buried(n, m.entity)
  <2> SUFFICES ASSUME NEW m \in n.pending, IsDelete(MarkerHeader(m, r))
               PROVE  Buried(n, m.entity)
    OBVIOUS
  <2>1. CASE m.entity = p
    BY <1>2, <2>1
  <2>2. CASE m.entity # p
    <3>1. Buried(d, m.entity)
      BY <2>2
    <3>2. m.entity \in Part \cup {Board} /\ m.entity # p
      BY <2>2, StoreFields DEF Marker
    <3>3. n.tomb[m.entity] = d.tomb[m.entity]
      BY <1>1, <3>2
    <3> QED
      BY <3>1, <3>3 DEF Buried
  <2> QED
    BY <2>1, <2>2
<1>9. n.columns => \A g \in News(n, r) : IsDelete(g) =>
        \/ ~ Newer(g.stamp, n.tomb[g.entity])
        \/ \E c \in Ancestors(g.entity) \cap Cards : Buried(n, c)
  <2> SUFFICES ASSUME d.columns, NEW g \in News(n, r), IsDelete(g)
               PROVE  \/ ~ Newer(g.stamp, n.tomb[g.entity])
                      \/ \E c \in Ancestors(g.entity) \cap Cards : Buried(n, c)
    OBVIOUS
  <2>1. \A c \in Cards : Buried(d, c) => Buried(n, c)
    BY <1>3 DEF Part
  <2>2. CASE g = h
    <3>1. ~ Newer(h.stamp, h.stamp)
      BY StampOrder, StampsCompare
    <3> QED
      BY <1>2, <2>2, <3>1
  <2>3. CASE g \in News(d, r) /\ g.entity = p
    BY <1>2, <2>1, <2>3
  <2>4. CASE g \in News(d, r) /\ g.entity # p
    <3>1. n.tomb[g.entity] = d.tomb[g.entity]
      BY <1>1, <2>4
    <3>2. \/ ~ Newer(g.stamp, d.tomb[g.entity])
          \/ \E c \in Ancestors(g.entity) \cap Cards : Buried(d, c)
      BY <2>4 DEF OrderlyStore, TombsHold
    <3> QED
      BY <2>1, <3>1, <3>2
  <2> QED
    BY <2>2, <2>3, <2>4
<1>10. TombsHold(n, r)
  BY <1>7, <1>8, <1>9 DEF TombsHold
<1> QED
  BY <1>2, <1>5, <1>6, <1>10

LEMMA BuryOrderly ==
  ASSUME NEW d \in Store, NEW n \in Store, NEW r \in Replicas, NEW m \in Marker,
         NEW w, NEW B, NEW G, OrderlyStore(d, r, w, B), Sound(d, B, G),
         m.entity \in d.rows, m.kind = DeleteKind(m.entity), MarkerFits(m),
         IsDelete(MarkerHeader(m, r)), MarkersBelow(d), m.seq = d.clock,
         n.pending = d.pending \cup {m}, n.outbox = d.outbox, n.seen = d.seen,
         n.columns = d.columns, n.ver = d.ver, n.appearance = d.appearance,
         n.rows = d.rows \ Subtree(m.entity), n.done = d.done \ Subtree(m.entity),
         n.tomb = [d.tomb EXCEPT ![m.entity] =
                     IF Newer([clock |-> m.seq, replica |-> r], @)
                     THEN [clock |-> m.seq, replica |-> r] ELSE @],
         Unmaterialized(n, r) = Unmaterialized(d, r) \cup {m}
  PROVE  OrderlyStore(n, r, w, B)
<1> DEFINE p == m.entity
           h == MarkerHeader(m, r)
           s == [clock |-> m.seq, replica |-> r]
<1>1. /\ News(n, r) = News(d, r) \cup {h} /\ h.entity = p /\ h.stamp = s
      /\ \A q : Writes(n, q) = Writes(d, q)
      /\ \A q, f : q # p => Writers(n, r, q, f) = Writers(d, r, q, f)
      /\ \A o : o.entity # p => (LastOf(n, r, o) <=> LastOf(d, r, o))
      /\ \A q, f : Writers(d, r, q, f) \subseteq Writers(n, r, q, f)
  BY MarkedNews DEF MarkerHeader
<1>2. /\ p \in Part /\ m.seq \in Nat /\ s \in Stamp
      /\ d.tomb \in [Part -> StampOrNone]
  BY StoreFields DEF Marker, Stamp
<1>3. ~ Buried(d, p) /\ Ancestors(p) \subseteq d.rows
      /\ \A q \in Ancestors(p) : ~ Buried(d, q)
  BY DEF Sound
<1>4. n.tomb = [d.tomb EXCEPT ![p] = s]
  <2>1. d.tomb[p] = NoStamp
    BY <1>3 DEF Buried
  <2>2. Newer(s, d.tomb[p])
    BY <1>2, <2>1, StampOrder
  <2> QED
    BY <1>2, <2>2
<1>5. d.columns => \A g \in News(d, r) : g.entity = p /\ IsDelete(g) =>
        \/ ~ Newer(g.stamp, h.stamp)
        \/ \E c \in Ancestors(p) \cap Cards : Buried(d, c)
  <2> SUFFICES ASSUME d.columns, NEW g \in News(d, r), g.entity = p, IsDelete(g)
               PROVE  FALSE
    OBVIOUS
  <2>1. ~ Newer(g.stamp, d.tomb[p])
    BY <1>3 DEF OrderlyStore, TombsHold
  <2>2. g.stamp \in Stamp /\ d.tomb[p] = NoStamp
    BY <1>3, NewsFacts DEF Buried
  <2> QED
    BY <2>1, <2>2, StampOrder
<1>6. \A o \in n.pending : IsDelete(MarkerHeader(o, r)) =>
        Buried(d, o.entity) \/ o.entity = p
  BY DEF OrderlyStore, TombsHold
<1>7. \A q \in Part \ {p} : \A f \in Field : n.ver[q][f] = d.ver[q][f]
  OBVIOUS
<1> HIDE DEF h
<1>8. /\ AbsentIsUnknown(n, r, w.roots) /\ ShownIsCreated(n, r, w.roots)
      /\ TombsHold(n, r)
      /\ Buried(n, p) /\ n.tomb[p] = s
      /\ \A q \in Part \ {p} : n.tomb[q] = d.tomb[q]
  <2>1. Removal(d, n, r, p, h)
    BY <1>1, <1>2, <1>4, <1>5, <1>6, <1>7 DEF Removal, h
  <2> QED
    BY <1>1, <1>2, <2>1, RemovedOrderly
<1>9. LifecyclesHold(n, r, B)
  <2> SUFFICES ASSUME NEW q \in Lists \cup Items
               PROVE  LET v == n.ver[q]["lifecycle"]
                      IN  IF Buried(n, q)
                          THEN \/ n.tomb[q] = v /\ Writers(n, r, q, "lifecycle") = {}
                               \/ \E o \in Unmaterialized(n, r) :
                                    /\ o.entity = q /\ o.kind = DeleteKind(q)
                                    /\ LastOf(n, r, o)
                                    /\ n.tomb[q] = [clock |-> o.seq, replica |-> r]
                          ELSE v # NoStamp => [part |-> q, seq |-> v.clock] \in B
    BY DEF LifecyclesHold
  <2>1. CASE q = p
    <3>1. LastOf(n, r, m)
      <4>1. \A o \in Unmaterialized(d, r) : o \in d.pending
        BY DEF Unmaterialized
      <4>2. \A o \in Unmaterialized(d, r) : o.seq <= m.seq
        BY <4>1 DEF MarkersBelow
      <4> QED
        BY <1>2, <4>2 DEF LastOf
    <3> QED
      BY <1>8, <2>1, <3>1
  <2>2. CASE q # p
    <3>1. q \in Part /\ n.tomb[q] = d.tomb[q]
      BY <1>8, <2>2 DEF Part
    <3>2. Buried(n, q) <=> Buried(d, q)
      BY <3>1 DEF Buried
    <3>3. CASE ~ Buried(d, q)
      BY <3>2, <3>3 DEF OrderlyStore, LifecyclesHold
    <3>4. CASE d.tomb[q] = d.ver[q]["lifecycle"] /\ Writers(d, r, q, "lifecycle") = {}
      BY <1>1, <2>2, <3>1, <3>2, <3>4 DEF OrderlyStore, LifecyclesHold
    <3>5. ASSUME NEW o \in Unmaterialized(d, r), o.entity = q, o.kind = DeleteKind(q),
                 LastOf(d, r, o), d.tomb[q] = [clock |-> o.seq, replica |-> r]
          PROVE  /\ o \in Unmaterialized(n, r) /\ LastOf(n, r, o)
                 /\ n.tomb[q] = [clock |-> o.seq, replica |-> r]
      BY <1>1, <2>2, <3>1, <3>5
    <3> QED
      BY <3>2, <3>3, <3>4, <3>5 DEF OrderlyStore, LifecyclesHold
  <2> QED
    BY <2>1, <2>2
<1>10. RegistersHold(n, r)
  <2> SUFFICES ASSUME NEW q \in Edited, Live(n, q), Writers(n, r, q, RegisterOf(q)) = {}
               PROVE  Holds(n, q)
    BY DEF RegistersHold
  <2>1. Live(d, q) /\ Writers(d, r, q, RegisterOf(q)) = {}
    BY <1>1 DEF Live
  <2>2. Holds(d, q)
    BY <2>1 DEF OrderlyStore, RegistersHold
  <2>3. q # Board => (q \in n.done <=> q \in d.done)
    BY DEF Live
  <2> QED
    BY <1>1, <2>2, <2>3, HoldsSame
<1> QED
  BY <1>8, <1>9, <1>10 DEF OrderlyStore

\* What is unmaterialized becomes events, and its versions are recorded.
LEMMA WriteKinds ==
  ASSUME NEW d, NEW r, NEW m, NEW p \in Edited, m.entity = p, MarkerFits(m),
         m.kind \in MarkerKind
  PROVE  OpOf(m.kind) \in {"delta.put", "board.appearance.put"}
           <=> RegisterOf(p) \in WrittenFields(m.kind)
<1>1. CASE p \in Items
  <2>1. m.kind \in {"checklist.item.create", "checklist.item.update",
                    "checklist.item.delete"}
    BY <1>1, PartsAssumption DEF MarkerFits, MarkerKind, Part
  <2> QED
    BY <1>1, <2>1, PartsAssumption DEF OpOf, RegisterOf, WrittenFields, Part
<1>2. CASE p = Board
  <2>1. m.kind = "board.appearance.put"
    BY <1>2, PartsAssumption DEF MarkerFits, MarkerKind, Part
  <2> QED
    BY <1>2, <2>1 DEF OpOf, RegisterOf, WrittenFields
<1> QED
  BY <1>1, <1>2 DEF Edited

LEMMA PublishOrderly ==
  ASSUME NEW d \in Store, NEW n \in Store, NEW r \in Replicas, NEW w, NEW B,
         OrderlyStore(d, r, w, B), MarkersBelow(d), Backlogged(d, r),
         \A m \in d.pending :
           /\ MarkerFits(m)
           /\ m.kind \in CreationKind => [part |-> m.entity, seq |-> m.seq] \in B,
         n.columns = d.columns, n.tomb = d.tomb, n.seen = d.seen,
         n.pending = d.pending, n.rows = d.rows, n.done = d.done,
         n.appearance = d.appearance,
         n.outbox = d.outbox \cup {MarkerEvent(d, r, m) : m \in Unmaterialized(d, r)},
         \A p \in Part \cup {Board}, f \in Field :
           n.ver[p][f] = RecordedVersion(d, r, p, f),
         Unmaterialized(n, r) = {}
  PROVE  OrderlyStore(n, r, w, B)
<1>1. /\ News(n, r) = News(d, r)
      /\ \A q : (Buried(n, q) <=> Buried(d, q)) /\ (Gone(n, q) <=> Gone(d, q))
      /\ \A q, f : Writers(n, r, q, f) = {}
  BY DEF News, Buried, Gone, Writers
<1>2. \A m \in Unmaterialized(d, r) :
        /\ m \in d.pending /\ m \in Marker /\ MarkerFits(m) /\ m.seq \in Nat
        /\ m.kind \in MarkerKind
        /\ Reports(MarkerEvent(d, r, m), r, m)
        /\ MarkerHeader(m, r) \in News(d, r)
  <2> SUFFICES ASSUME NEW m \in Unmaterialized(d, r)
               PROVE  /\ m \in d.pending /\ m \in Marker /\ MarkerFits(m) /\ m.seq \in Nat
                      /\ m.kind \in MarkerKind
                      /\ Reports(MarkerEvent(d, r, m), r, m)
                      /\ MarkerHeader(m, r) \in News(d, r)
    OBVIOUS
  <2>1. m \in d.pending
    BY DEF Unmaterialized
  <2>2. m \in Marker
    BY <2>1, StoreFields
  <2> QED
    BY <2>1, <2>2, MarkerEventReports DEF Marker, News
<1>3. AbsentIsUnknown(n, r, w.roots)
  <2>1. CASE d.columns
    <3> SUFFICES ASSUME NEW q \in Part \ n.rows, ~ Gone(n, q)
                 PROVE  /\ q \notin w.roots
                        /\ \A g \in News(n, r) : g.entity # q
                        /\ \A f \in Field : n.ver[q][f] = NoStamp
      BY <2>1 DEF AbsentIsUnknown
    <3>1. /\ q \notin w.roots
          /\ \A g \in News(d, r) : g.entity # q
          /\ \A f \in Field : d.ver[q][f] = NoStamp
      BY <1>1, <2>1 DEF OrderlyStore, AbsentIsUnknown
    <3>2. \A f : Writers(d, r, q, f) = {}
      BY <1>2, <3>1 DEF Writers, MarkerHeader
    <3>3. \A f \in Field : n.ver[q][f] = NoStamp
      BY <3>1, <3>2, RecordedVersionIsLast
    <3> QED
      BY <1>1, <3>1, <3>3
  <2>2. CASE ~ d.columns
    BY <2>2 DEF AbsentIsUnknown, OrderlyStore
  <2> QED
    BY <2>1, <2>2
<1>4. ShownIsCreated(n, r, w.roots) /\ TombsHold(n, r)
  BY <1>1 DEF OrderlyStore, ShownIsCreated, TombsHold
<1>5. LifecyclesHold(n, r, B)
  <2> SUFFICES ASSUME NEW q \in Lists \cup Items
               PROVE  LET v == n.ver[q]["lifecycle"]
                      IN  IF Buried(n, q)
                          THEN n.tomb[q] = v /\ Writers(n, r, q, "lifecycle") = {}
                          ELSE v # NoStamp => [part |-> q, seq |-> v.clock] \in B
    BY DEF LifecyclesHold
  <2> DEFINE W == Writers(d, r, q, "lifecycle")
             v == n.ver[q]["lifecycle"]
  <2>1. v = RecordedVersion(d, r, q, "lifecycle")
    BY DEF Part, Field
  <2>2. W = {} => v = d.ver[q]["lifecycle"]
    BY <2>1, RecordedVersionIsLast
  <2>3. W # {} => \E m \in W : /\ \A o \in W : o.seq <= m.seq
                               /\ v = [clock |-> m.seq, replica |-> r]
    BY <2>1, RecordedVersionIsLast
  <2>4. \A m \in W : m \in Unmaterialized(d, r) /\ m.entity = q
                     /\ "lifecycle" \in WrittenFields(m.kind)
    BY DEF Writers
  <2> HIDE DEF v, W
  <2>5. CASE Buried(d, q)
    <3>1. CASE d.tomb[q] = d.ver[q]["lifecycle"] /\ W = {}
      BY <1>1, <2>2, <2>5, <3>1 DEF v
    <3>2. ASSUME NEW m \in Unmaterialized(d, r), m.entity = q, m.kind = DeleteKind(q),
                 LastOf(d, r, m), d.tomb[q] = [clock |-> m.seq, replica |-> r]
          PROVE  n.tomb[q] = v
      <4>1. m \in W
        BY <3>2, PartsAssumption DEF W, Writers, WrittenFields, DeleteKind
      <4>2. PICK t \in W : /\ \A o \in W : o.seq <= t.seq
                           /\ v = [clock |-> t.seq, replica |-> r]
        BY <2>3, <4>1
      <4>3. t.seq <= m.seq /\ m.seq <= t.seq /\ t.seq \in Nat /\ m.seq \in Nat
        BY <1>2, <2>4, <3>2, <4>1, <4>2 DEF LastOf
      <4> QED
        BY <3>2, <4>2, <4>3
    <3>3. \/ d.tomb[q] = d.ver[q]["lifecycle"] /\ W = {}
          \/ \E m \in Unmaterialized(d, r) :
               /\ m.entity = q /\ m.kind = DeleteKind(q) /\ LastOf(d, r, m)
               /\ d.tomb[q] = [clock |-> m.seq, replica |-> r]
      BY <2>5 DEF OrderlyStore, LifecyclesHold, W
    <3> QED
      BY <1>1, <2>5, <3>1, <3>2, <3>3 DEF v
  <2>6. CASE ~ Buried(d, q)
    <3>1. CASE W = {}
      BY <1>1, <2>2, <2>6, <3>1 DEF OrderlyStore, LifecyclesHold, v
    <3>2. CASE W # {}
      <4>1. PICK m \in W : v = [clock |-> m.seq, replica |-> r]
        BY <2>3, <3>2
      <4>2. /\ m \in d.pending /\ m.entity = q
            /\ "lifecycle" \in WrittenFields(m.kind) /\ MarkerFits(m)
        BY <1>2, <2>4
      <4>3. ~ IsDelete(MarkerHeader(m, r))
        BY <2>6, <4>2 DEF OrderlyStore, TombsHold
      <4>4. m.kind \in CreationKind
        BY <4>2, <4>3 DEF WrittenFields, IsDelete, MarkerHeader, OpOf, CreationKind
      <4> QED
        BY <1>1, <2>6, <4>1, <4>2, <4>4 DEF v
    <3> QED
      BY <3>1, <3>2
  <2> QED
    BY <2>5, <2>6
<1>6. RegistersHold(n, r)
  <2> SUFFICES ASSUME NEW q \in Edited, Live(n, q)
               PROVE  Holds(n, q)
    BY DEF RegistersHold
  <2> DEFINE f == RegisterOf(q)
             W == Writers(d, r, q, f)
  <2>1. q \in Part \cup {Board} /\ f \in Field
    BY DEF Edited, Part, RegisterOf, Field
  <2>2. n.ver[q][f] = RecordedVersion(d, r, q, f)
    BY <2>1
  <2>3. \A m \in Unmaterialized(d, r) : m.entity = q =>
          (m \in W <=> OpOf(m.kind) \in {"delta.put", "board.appearance.put"})
    BY <1>2, WriteKinds DEF Writers
  <2>4. \A e \in Writes(n, q) : e \in Writes(d, q)
          \/ \E m \in W : e = MarkerEvent(d, r, m)
    <3> SUFFICES ASSUME NEW e \in Writes(n, q), e \notin Writes(d, q)
                 PROVE  \E m \in W : e = MarkerEvent(d, r, m)
      OBVIOUS
    <3>1. PICK m \in Unmaterialized(d, r) : e = MarkerEvent(d, r, m)
      BY DEF Writes, KnownBy
    <3>2. m.entity = q /\ OpOf(m.kind) \in {"delta.put", "board.appearance.put"}
      BY <1>2, <3>1 DEF Reports, Writes
    <3> QED
      BY <2>3, <3>1, <3>2
  <2>5. \A m \in W : MarkerEvent(d, r, m) \in Writes(n, q)
    <3> SUFFICES ASSUME NEW m \in W PROVE MarkerEvent(d, r, m) \in Writes(n, q)
      OBVIOUS
    <3>1. m \in Unmaterialized(d, r) /\ m.entity = q
      BY DEF Writers
    <3>2. OpOf(m.kind) \in {"delta.put", "board.appearance.put"}
      BY <2>3, <3>1
    <3>3. Reports(MarkerEvent(d, r, m), r, m)
      BY <1>2, <3>1
    <3> QED
      BY <3>1, <3>2, <3>3 DEF Writes, KnownBy, Reports
  <2>6. Writes(d, q) \subseteq Writes(n, q)
    BY DEF Writes, KnownBy
  <2>7. CASE W = {}
    <3>1. Holds(d, q)
      BY <2>7 DEF OrderlyStore, RegistersHold, Live
    <3>2. Writes(n, q) = Writes(d, q)
      BY <2>4, <2>6, <2>7
    <3>3. n.ver[q][f] = d.ver[q][f]
      BY <2>2, <2>7, RecordedVersionIsLast
    <3> QED
      BY <3>1, <3>2, <3>3, HoldsSame
  <2>8. CASE W # {}
    <3>1. PICK m \in W : /\ \A o \in W : o.seq <= m.seq
                         /\ n.ver[q][f] = [clock |-> m.seq, replica |-> r]
      BY <2>2, <2>8, RecordedVersionIsLast
    <3> DEFINE e == MarkerEvent(d, r, m)
    <3>2. m \in Unmaterialized(d, r) /\ m.entity = q /\ m.seq \in Nat
      BY <1>2 DEF Writers
    <3>3. e \in Writes(n, q) /\ e.stamp = [clock |-> m.seq, replica |-> r]
      BY <1>2, <2>5, <3>2 DEF Reports
    <3>4. \A o \in Writes(n, q) : ~ Newer(o.stamp, e.stamp)
      <4> SUFFICES ASSUME NEW o \in Writes(n, q) PROVE ~ Newer(o.stamp, e.stamp)
        OBVIOUS
      <4>1. CASE o \in Writes(d, q)
        <5>1. o \in KnownBy(d)
          BY <4>1 DEF Writes
        <5>2. o.stamp.clock < m.seq /\ o.stamp.clock \in Nat
          BY <3>2, <5>1, StoreFields, EventFacts DEF Backlogged, KnownBy
        <5> QED
          BY <3>2, <3>3, <5>2 DEF Newer
      <4>2. CASE \E k \in W : o = MarkerEvent(d, r, k)
        <5> PICK k \in W : o = MarkerEvent(d, r, k)
          BY <4>2
        <5>1. /\ k.seq \in Nat /\ k.seq <= m.seq
              /\ o.stamp = [clock |-> k.seq, replica |-> r]
          BY <1>2, <3>1 DEF Writers, Reports
        <5> QED
          BY <3>2, <3>3, <5>1, ReplicasAssumption DEF Newer
      <4> QED
        BY <2>4, <4>1, <4>2
    <3>5. Shows(n, e)
      BY <3>2 DEF Shows, MarkerEvent
    <3> QED
      BY <3>1, <3>3, <3>4, <3>5 DEF Holds
  <2> QED
    BY <2>7, <2>8
<1> QED
  BY <1>3, <1>4, <1>5, <1>6 DEF OrderlyStore
-----------------------------------------------------------------------------
(* One event of another device is merged.                                  *)

IsWrite(e) == e.op \in {"delta.put", "board.appearance.put"}

\* The store that merges e, and the one that has heard of it.
Expects(d, r, w, B, G, e) ==
  /\ OrderlyStore(d, r, w, B) /\ Sound(d, B, G) /\ EventSound(e, B, G)
  /\ Unmaterialized(d, r) = {}
  /\ \A o \in KnownBy(d) : Header(o) \in News(d, r)
  /\ d.columns /\ IsDelta(e) =>
       \A q \in Above(e.entity) : \/ q \in d.rows \/ Gone(d, q)
                                  \/ q = e.entity /\ e.all

Heard(d, n, e) ==
  /\ n.pending = d.pending /\ n.outbox = d.outbox /\ n.columns = d.columns
  /\ n.seen = d.seen \cup {e}

LEMMA HeardFacts ==
  ASSUME NEW d, NEW n, NEW r, NEW e, Heard(d, n, e), Unmaterialized(d, r) = {}
  PROVE  /\ News(n, r) = News(d, r) \cup {Header(e)}
         /\ \A p, f : Writers(n, r, p, f) = {} /\ Writers(d, r, p, f) = {}
         /\ Unmaterialized(n, r) = {}
         /\ \A p : ~ (e.entity = p /\ IsWrite(e)) => Writes(n, p) = Writes(d, p)
         /\ IsWrite(e) => Writes(n, e.entity) = Writes(d, e.entity) \cup {e}
BY DEF Heard, News, Writers, Unmaterialized, Writes, KnownBy, IsWrite

LEMMA HoldsMerged ==
  ASSUME NEW d \in Store, NEW n \in Store, NEW e \in Event, NEW p \in Edited,
         Holds(d, p), e.entity = p, Writes(n, p) = Writes(d, p) \cup {e},
         Newer(e.stamp, d.ver[p][RegisterOf(p)]) =>
           n.ver[p][RegisterOf(p)] = e.stamp /\ Shows(n, e),
         ~ Newer(e.stamp, d.ver[p][RegisterOf(p)]) =>
           /\ n.ver[p][RegisterOf(p)] = d.ver[p][RegisterOf(p)]
           /\ p = Board => n.appearance = d.appearance
           /\ p # Board => (p \in n.done <=> p \in d.done)
  PROVE  Holds(n, p)
<1> DEFINE v == d.ver[p][RegisterOf(p)]
<1>1. e.stamp \in Stamp /\ e.stamp \in StampOrNone /\ ~ Newer(e.stamp, e.stamp)
  BY EventFacts, StampsCompare
<1>2. \A o \in Writes(d, p) : o.stamp \in StampOrNone /\ o.entity = p
  BY StoreFields, EventFacts DEF Writes, KnownBy
<1>3. CASE Writes(d, p) = {}
  <2>1. v = NoStamp
    BY <1>3 DEF Holds, Untold
  <2>2. Newer(e.stamp, v)
    BY <1>1, <2>1, StampOrder
  <2>3. Writes(n, p) = {e}
    BY <1>3
  <2> QED
    BY <1>1, <2>2, <2>3 DEF Holds
<1>4. CASE Writes(d, p) # {}
  <2>1. PICK t \in Writes(d, p) :
          /\ \A o \in Writes(d, p) : ~ Newer(o.stamp, t.stamp)
          /\ v = t.stamp /\ Shows(d, t)
    BY <1>4 DEF Holds
  <2>2. CASE Newer(e.stamp, t.stamp)
    <3>1. \A o \in Writes(n, p) : ~ Newer(o.stamp, e.stamp)
      BY <1>1, <1>2, <2>1, <2>2, StampsCompare
    <3> QED
      BY <2>1, <2>2, <3>1 DEF Holds
  <2>3. CASE ~ Newer(e.stamp, t.stamp)
    <3>1. t \in Writes(n, p) /\ \A o \in Writes(n, p) : ~ Newer(o.stamp, t.stamp)
      BY <2>1, <2>3
    <3>2. n.ver[p][RegisterOf(p)] = t.stamp
      BY <2>1, <2>3
    <3>3. Shows(n, t)
      BY <1>2, <2>1, <2>3 DEF Shows
    <3> QED
      BY <3>1, <3>2, <3>3 DEF Holds
  <2> QED
    BY <2>2, <2>3
<1> QED
  BY <1>3, <1>4

\* An event that changes nothing: it is older than what is here, or about a
\* part that is gone.
LEMMA HeardOrderly ==
  ASSUME NEW d \in Store, NEW n \in Store, NEW r \in Replicas, NEW w, NEW B, NEW G,
         NEW e \in Event, Expects(d, r, w, B, G, e), Heard(d, n, e),
         n.rows = d.rows, n.done = d.done, n.tomb = d.tomb, n.ver = d.ver,
         n.appearance = d.appearance,
         d.columns /\ e.entity \in Part => e.entity \in d.rows \/ Gone(d, e.entity),
         d.columns /\ IsDelete(e) =>
           \/ ~ Newer(e.stamp, d.tomb[e.entity])
           \/ \E c \in Ancestors(e.entity) \cap Cards : Buried(d, c),
         \A p \in Edited : p = e.entity /\ IsWrite(e) /\ Live(d, p) =>
           ~ Newer(e.stamp, d.ver[p][RegisterOf(p)])
  PROVE  OrderlyStore(n, r, w, B)
<1>1. /\ News(n, r) = News(d, r) \cup {Header(e)}
      /\ \A p, f : Writers(n, r, p, f) = {} /\ Writers(d, r, p, f) = {}
      /\ Unmaterialized(n, r) = {} /\ Unmaterialized(d, r) = {}
      /\ \A p : ~ (e.entity = p /\ IsWrite(e)) => Writes(n, p) = Writes(d, p)
      /\ IsWrite(e) => Writes(n, e.entity) = Writes(d, e.entity) \cup {e}
  BY HeardFacts DEF Expects
<1>2. OrderlyStore(d, r, w, B) /\ n.columns = d.columns /\ n.pending = d.pending
  BY DEF Expects, Heard
<1>3. \A q : (Buried(n, q) <=> Buried(d, q)) /\ (Gone(n, q) <=> Gone(d, q))
  BY DEF Buried, Gone
<1>4. /\ Header(e).entity = e.entity /\ Header(e).stamp = e.stamp
      /\ IsDelete(Header(e)) <=> IsDelete(e)
  BY DEF Header, IsDelete
<1>5. AbsentIsUnknown(n, r, w.roots)
  <2>1. CASE d.columns
    <3> SUFFICES ASSUME NEW q \in Part \ n.rows, ~ Gone(n, q)
                 PROVE  /\ q \notin w.roots
                        /\ \A g \in News(n, r) : g.entity # q
                        /\ \A f \in Field : n.ver[q][f] = NoStamp
      BY <1>2, <2>1 DEF AbsentIsUnknown
    <3>1. q # e.entity
      BY <1>3, <2>1
    <3> QED
      BY <1>1, <1>2, <1>3, <1>4, <2>1, <3>1 DEF OrderlyStore, AbsentIsUnknown
  <2>2. CASE ~ d.columns
    BY <1>2, <2>2 DEF AbsentIsUnknown, OrderlyStore
  <2> QED
    BY <2>1, <2>2
<1>6. ShownIsCreated(n, r, w.roots) /\ TombsHold(n, r)
  <2>1. ShownIsCreated(n, r, w.roots)
    BY <1>1, <1>2 DEF OrderlyStore, ShownIsCreated
  <2>2. \A q \in Part : Buried(n, q) => \E g \in News(n, r) : g.entity = q /\ IsDelete(g)
    BY <1>1, <1>2, <1>3 DEF OrderlyStore, TombsHold
  <2>3. \A o \in n.pending : IsDelete(MarkerHeader(o, r)) => Buried(n, o.entity)
    BY <1>2, <1>3 DEF OrderlyStore, TombsHold
  <2>4. n.columns => \A g \in News(n, r) : IsDelete(g) =>
          \/ ~ Newer(g.stamp, n.tomb[g.entity])
          \/ \E c \in Ancestors(g.entity) \cap Cards : Buried(n, c)
    BY <1>1, <1>2, <1>3, <1>4 DEF OrderlyStore, TombsHold
  <2> QED
    BY <2>1, <2>2, <2>3, <2>4 DEF TombsHold
<1>7. LifecyclesHold(n, r, B)
  BY <1>1, <1>2, <1>3 DEF OrderlyStore, LifecyclesHold
<1>8. RegistersHold(n, r)
  <2> SUFFICES ASSUME NEW q \in Edited, Live(n, q)
               PROVE  Holds(n, q)
    BY DEF RegistersHold
  <2>1. Live(d, q)
    BY DEF Live
  <2>2. Holds(d, q)
    BY <1>1, <1>2, <2>1 DEF OrderlyStore, RegistersHold
  <2>3. CASE e.entity = q /\ IsWrite(e)
    <3>1. ~ Newer(e.stamp, d.ver[q][RegisterOf(q)])
      BY <2>1, <2>3
    <3> QED
      BY <1>1, <2>2, <2>3, <3>1, HoldsMerged
  <2>4. CASE ~ (e.entity = q /\ IsWrite(e))
    <3>1. Writes(n, q) = Writes(d, q)
      BY <1>1, <2>4
    <3> QED
      BY <2>2, <3>1, HoldsSame
  <2> QED
    BY <2>3, <2>4
<1> QED
  BY <1>2, <1>5, <1>6, <1>7, <1>8 DEF OrderlyStore

\* A delete that wins.
Deletes(d, n, e) ==
  /\ e.entity \in Part /\ IsDelete(e) /\ Newer(e.stamp, d.tomb[e.entity])
  /\ n.rows = d.rows \ Subtree(e.entity) /\ n.done = d.done \ Subtree(e.entity)
  /\ n.tomb = [d.tomb EXCEPT ![e.entity] = e.stamp]
  /\ n.appearance = d.appearance
  /\ \A q \in (Part \cup {Board}) \ {e.entity}, f \in Field : n.ver[q][f] = d.ver[q][f]
  /\ \A f \in Field \ {"lifecycle"} : n.ver[e.entity][f] = d.ver[e.entity][f]
  /\ e.entity \notin Cards => n.ver[e.entity]["lifecycle"] = e.stamp

LEMMA RemovedMerged ==
  ASSUME NEW d \in Store, NEW n \in Store, NEW r \in Replicas, NEW w, NEW B, NEW G,
         NEW e \in Event, Expects(d, r, w, B, G, e), Heard(d, n, e),
         Deletes(d, n, e)
  PROVE  OrderlyStore(n, r, w, B)
<1> DEFINE p == e.entity
           h == Header(e)
<1>1. /\ News(n, r) = News(d, r) \cup {h}
      /\ \A q, f : Writers(n, r, q, f) = {} /\ Writers(d, r, q, f) = {}
      /\ Unmaterialized(n, r) = {} /\ Unmaterialized(d, r) = {}
      /\ \A q : ~ (p = q /\ IsWrite(e)) => Writes(n, q) = Writes(d, q)
      /\ IsWrite(e) => Writes(n, p) = Writes(d, p) \cup {e}
  BY HeardFacts DEF Expects
<1>2. OrderlyStore(d, r, w, B) /\ n.columns = d.columns /\ n.pending = d.pending
  BY DEF Expects, Heard
<1>3. h.entity = p /\ h.stamp = e.stamp /\ IsDelete(h) /\ e.stamp \in Stamp
  BY EventFacts DEF Header, IsDelete, Deletes
<1>4. ~ IsWrite(e)
  BY DEF IsDelete, IsWrite, Deletes
<1>5. d.columns => \A g \in News(d, r) : g.entity = p /\ IsDelete(g) =>
        \/ ~ Newer(g.stamp, h.stamp)
        \/ \E c \in Ancestors(p) \cap Cards : Buried(d, c)
  <2> SUFFICES ASSUME d.columns, NEW g \in News(d, r), g.entity = p, IsDelete(g),
                      ~ Newer(g.stamp, d.tomb[p])
               PROVE  ~ Newer(g.stamp, h.stamp)
    BY <1>2 DEF OrderlyStore, TombsHold
  <2>1. g.stamp \in StampOrNone /\ e.stamp \in StampOrNone /\ d.tomb[p] \in StampOrNone
    BY NewsFacts, EventFacts, StoreFields, StampOrder DEF Deletes
  <2> QED
    BY <1>3, <2>1, StampsCompare DEF Deletes
<1>6. \A o \in n.pending : IsDelete(MarkerHeader(o, r)) =>
        Buried(d, o.entity) \/ o.entity = p
  BY <1>2 DEF OrderlyStore, TombsHold
<1>7. \A q \in Part \ {p} : \A f \in Field : n.ver[q][f] = d.ver[q][f]
  BY DEF Deletes
<1>8. n.tomb = [d.tomb EXCEPT ![p] = h.stamp]
  BY <1>3 DEF Deletes
<1> HIDE DEF h
<1>9. /\ AbsentIsUnknown(n, r, w.roots) /\ ShownIsCreated(n, r, w.roots)
      /\ TombsHold(n, r)
      /\ Buried(n, p) /\ n.tomb[p] = e.stamp
      /\ \A q \in Part \ {p} : n.tomb[q] = d.tomb[q]
  <2>1. Removal(d, n, r, p, h)
    BY <1>1, <1>2, <1>3, <1>5, <1>6, <1>7, <1>8 DEF Removal, Deletes
  <2> HIDE DEF p
  <2>2. p \in Part
    BY DEF p, Deletes
  <2> QED
    BY <1>2, <1>3, <2>1, <2>2, RemovedOrderly
<1>10. LifecyclesHold(n, r, B)
  <2> SUFFICES ASSUME NEW q \in Lists \cup Items
               PROVE  LET v == n.ver[q]["lifecycle"]
                      IN  IF Buried(n, q)
                          THEN n.tomb[q] = v
                          ELSE v # NoStamp => [part |-> q, seq |-> v.clock] \in B
    BY <1>1 DEF LifecyclesHold
  <2>1. q \in Part /\ q \notin Cards /\ "lifecycle" \in Field
    BY PartsAssumption DEF Part, Field
  <2>2. CASE q = p
    BY <1>9, <2>1, <2>2 DEF Deletes
  <2>3. CASE q # p
    <3>1. n.tomb[q] = d.tomb[q] /\ n.ver[q]["lifecycle"] = d.ver[q]["lifecycle"]
      BY <1>9, <2>1, <2>3 DEF Deletes
    <3>2. IF Buried(d, q)
          THEN d.tomb[q] = d.ver[q]["lifecycle"]
          ELSE d.ver[q]["lifecycle"] # NoStamp =>
                 [part |-> q, seq |-> d.ver[q]["lifecycle"].clock] \in B
      BY <1>1, <1>2 DEF OrderlyStore, LifecyclesHold
    <3> QED
      BY <3>1, <3>2 DEF Buried
  <2> QED
    BY <2>2, <2>3
<1>11. RegistersHold(n, r)
  <2> SUFFICES ASSUME NEW q \in Edited, Live(n, q)
               PROVE  Holds(n, q)
    BY DEF RegistersHold
  <2>1. Live(d, q)
    BY DEF Live, Deletes
  <2>2. Holds(d, q)
    BY <1>1, <1>2, <2>1 DEF OrderlyStore, RegistersHold
  <2>3. q # Board => (q \in n.done <=> q \in d.done)
    BY DEF Live, Deletes
  <2>4. Writes(n, q) = Writes(d, q)
    BY <1>1, <1>4
  <2>5. /\ q \in Part \cup {Board} /\ RegisterOf(q) \in Field
        /\ RegisterOf(q) # "lifecycle"
    BY DEF Edited, Part, RegisterOf, Field
  <2>6. n.ver[q][RegisterOf(q)] = d.ver[q][RegisterOf(q)]
    BY <2>5 DEF Deletes
  <2> QED
    BY <2>2, <2>3, <2>4, <2>6, HoldsSame DEF Deletes
<1> QED
  BY <1>2, <1>9, <1>10, <1>11 DEF OrderlyStore

\* A creation of a part that was not heard of.
LEMMA ShownMerged ==
  ASSUME NEW d \in Store, NEW n \in Store, NEW r \in Replicas, NEW w, NEW B, NEW G,
         NEW e \in Event, Expects(d, r, w, B, G, e), Heard(d, n, e),
         e.entity \in Part, e.entity \notin d.rows, ~ Gone(d, e.entity), d.columns,
         e.all, ~ IsDelete(e),
         n.rows = d.rows \cup {e.entity}, n.tomb = d.tomb, n.appearance = d.appearance,
         \A q \in Items : q # e.entity => (q \in n.done <=> q \in d.done),
         \A q \in (Part \cup {Board}) \ {e.entity}, f \in Field : n.ver[q][f] = d.ver[q][f],
         e.entity \in Lists \cup Items => n.ver[e.entity]["lifecycle"] = e.stamp,
         e.entity \in Items => /\ n.ver[e.entity]["isDone"] = e.stamp /\ IsWrite(e)
                               /\ e.isDone <=> e.entity \in n.done
  PROVE  OrderlyStore(n, r, w, B)
<1> DEFINE p == e.entity
           h == Header(e)
<1>1. /\ News(n, r) = News(d, r) \cup {h}
      /\ \A q, f : Writers(n, r, q, f) = {} /\ Writers(d, r, q, f) = {}
      /\ Unmaterialized(n, r) = {} /\ Unmaterialized(d, r) = {}
      /\ \A q : ~ (p = q /\ IsWrite(e)) => Writes(n, q) = Writes(d, q)
      /\ IsWrite(e) => Writes(n, p) = Writes(d, p) \cup {e}
  BY HeardFacts DEF Expects
<1>2. OrderlyStore(d, r, w, B) /\ n.columns = d.columns /\ n.pending = d.pending
  BY DEF Expects, Heard
<1>3. /\ h.entity = p /\ h.stamp = e.stamp /\ h.all = e.all /\ ~ IsDelete(h)
      /\ e.stamp \in Stamp
  BY EventFacts DEF Header, IsDelete
<1>4. \A q : (Buried(n, q) <=> Buried(d, q)) /\ (Gone(n, q) <=> Gone(d, q))
  BY DEF Buried, Gone
<1>5. \A g \in News(d, r) : g.entity # p
  BY <1>2 DEF OrderlyStore, AbsentIsUnknown
<1>6. Writes(d, p) = {}
  <2> SUFFICES ASSUME NEW o \in Writes(d, p) PROVE FALSE
    OBVIOUS
  <2>1. Header(o) \in News(d, r) /\ o.entity = p
    BY DEF Writes, Expects
  <2> QED
    BY <1>5, <2>1 DEF Header
<1>7. AbsentIsUnknown(n, r, w.roots)
  <2> SUFFICES ASSUME NEW q \in Part \ n.rows, ~ Gone(n, q)
               PROVE  /\ q \notin w.roots
                      /\ \A g \in News(n, r) : g.entity # q
                      /\ \A f \in Field : n.ver[q][f] = NoStamp
    BY <1>2 DEF AbsentIsUnknown
  <2>1. q # p /\ q \in Part \ d.rows /\ ~ Gone(d, q)
    BY <1>4
  <2> QED
    BY <1>1, <1>2, <1>3, <2>1 DEF OrderlyStore, AbsentIsUnknown
<1>8. ShownIsCreated(n, r, w.roots)
  <2> SUFFICES ASSUME NEW q \in n.rows
               PROVE  q \in w.roots \/ \E g \in News(n, r) : Creates(g, q)
    BY DEF ShownIsCreated
  <2>1. CASE q \in d.rows
    BY <1>1, <1>2, <2>1 DEF OrderlyStore, ShownIsCreated
  <2>2. CASE q = p
    BY <1>1, <1>3, <2>2 DEF Creates
  <2> QED
    BY <2>1, <2>2
<1>9. TombsHold(n, r)
  <2>1. \A q \in Part : Buried(n, q) => \E g \in News(n, r) : g.entity = q /\ IsDelete(g)
    BY <1>1, <1>2, <1>4 DEF OrderlyStore, TombsHold
  <2>2. \A o \in n.pending : IsDelete(MarkerHeader(o, r)) => Buried(n, o.entity)
    BY <1>2, <1>4 DEF OrderlyStore, TombsHold
  <2>3. n.columns => \A g \in News(n, r) : IsDelete(g) =>
          \/ ~ Newer(g.stamp, n.tomb[g.entity])
          \/ \E c \in Ancestors(g.entity) \cap Cards : Buried(n, c)
    BY <1>1, <1>2, <1>3, <1>4 DEF OrderlyStore, TombsHold
  <2> QED
    BY <2>1, <2>2, <2>3 DEF TombsHold
<1>10. LifecyclesHold(n, r, B)
  <2> SUFFICES ASSUME NEW q \in Lists \cup Items
               PROVE  LET v == n.ver[q]["lifecycle"]
                      IN  IF Buried(n, q)
                          THEN n.tomb[q] = v
                          ELSE v # NoStamp => [part |-> q, seq |-> v.clock] \in B
    BY <1>1 DEF LifecyclesHold
  <2>1. CASE q = p
    <3>1. ~ Buried(n, q) /\ n.ver[q]["lifecycle"] = e.stamp
      BY <1>4, <2>1 DEF Gone, Above
    <3>2. [part |-> p, seq |-> e.stamp.clock] \in B
      BY DEF Expects, EventSound
    <3> QED
      BY <2>1, <3>1, <3>2
  <2>2. CASE q # p
    <3>1. n.tomb[q] = d.tomb[q] /\ n.ver[q]["lifecycle"] = d.ver[q]["lifecycle"]
      BY <2>2 DEF Part, Field
    <3>2. IF Buried(d, q)
          THEN d.tomb[q] = d.ver[q]["lifecycle"]
          ELSE d.ver[q]["lifecycle"] # NoStamp =>
                 [part |-> q, seq |-> d.ver[q]["lifecycle"].clock] \in B
      BY <1>1, <1>2 DEF OrderlyStore, LifecyclesHold
    <3> QED
      BY <3>1, <3>2 DEF Buried
  <2> QED
    BY <2>1, <2>2
<1>11. RegistersHold(n, r)
  <2> SUFFICES ASSUME NEW q \in Edited, Live(n, q)
               PROVE  Holds(n, q)
    BY DEF RegistersHold
  <2>1. CASE q = p
    <3>1. q \in Items /\ q # Board
      BY <2>1, PartsAssumption DEF Edited
    <3>2. Writes(n, q) = {e}
      BY <1>1, <1>6, <2>1, <3>1
    <3>3. ~ Newer(e.stamp, e.stamp)
      BY EventFacts, StampsCompare
    <3> QED
      BY <2>1, <3>1, <3>2, <3>3 DEF Holds, RegisterOf, Shows
  <2>2. CASE q # p
    <3>1. Live(d, q)
      BY <2>2 DEF Live
    <3>2. Holds(d, q)
      BY <1>1, <1>2, <3>1 DEF OrderlyStore, RegistersHold
    <3>3. Writes(n, q) = Writes(d, q)
      BY <1>1, <2>2
    <3>4. q \in (Part \cup {Board}) \ {p} /\ RegisterOf(q) \in Field
      BY <2>2 DEF Edited, Part, RegisterOf, Field
    <3>5. n.ver[q][RegisterOf(q)] = d.ver[q][RegisterOf(q)]
      BY <3>4
    <3>6. q # Board => (q \in n.done <=> q \in d.done)
      BY <2>2 DEF Edited
    <3> QED
      BY <3>2, <3>3, <3>5, <3>6, HoldsSame
  <2> QED
    BY <2>1, <2>2
<1> QED
  BY <1>2, <1>7, <1>8, <1>9, <1>10, <1>11, <1>1 DEF OrderlyStore

\* A write of a register of something that is here.
Updates(d, n, e) ==
  /\ IsWrite(e) /\ (e.entity \in Part => e.entity \in d.rows)
  /\ n.rows = d.rows /\ n.tomb = d.tomb
  /\ \A q \in (Part \cup {Board}) \ {e.entity}, f \in Field : n.ver[q][f] = d.ver[q][f]
  /\ \A q \in Items \ {e.entity} : q \in n.done <=> q \in d.done
  /\ e.entity # Board => n.appearance = d.appearance
  /\ e.entity \in Lists \cup Items =>
       \/ n.ver[e.entity]["lifecycle"] = d.ver[e.entity]["lifecycle"]
       \/ e.all /\ n.ver[e.entity]["lifecycle"] = e.stamp
  /\ e.entity \in Edited =>
       /\ Newer(e.stamp, d.ver[e.entity][RegisterOf(e.entity)]) =>
            n.ver[e.entity][RegisterOf(e.entity)] = e.stamp /\ Shows(n, e)
       /\ ~ Newer(e.stamp, d.ver[e.entity][RegisterOf(e.entity)]) =>
            /\ n.ver[e.entity][RegisterOf(e.entity)] = d.ver[e.entity][RegisterOf(e.entity)]
            /\ e.entity = Board => n.appearance = d.appearance
            /\ e.entity # Board => (e.entity \in n.done <=> e.entity \in d.done)

LEMMA UpdatedMerged ==
  ASSUME NEW d \in Store, NEW n \in Store, NEW r \in Replicas, NEW w, NEW B, NEW G,
         NEW e \in Event, Expects(d, r, w, B, G, e), Heard(d, n, e), Updates(d, n, e)
  PROVE  OrderlyStore(n, r, w, B)
<1> DEFINE p == e.entity
           h == Header(e)
<1>1. /\ News(n, r) = News(d, r) \cup {h}
      /\ \A q, f : Writers(n, r, q, f) = {} /\ Writers(d, r, q, f) = {}
      /\ Unmaterialized(n, r) = {} /\ Unmaterialized(d, r) = {}
      /\ \A q : ~ (p = q /\ IsWrite(e)) => Writes(n, q) = Writes(d, q)
      /\ IsWrite(e) => Writes(n, p) = Writes(d, p) \cup {e}
  BY HeardFacts DEF Expects
<1>2. OrderlyStore(d, r, w, B) /\ n.columns = d.columns /\ n.pending = d.pending
  BY DEF Expects, Heard
<1>3. /\ h.entity = p /\ h.stamp = e.stamp /\ h.all = e.all /\ ~ IsDelete(h)
      /\ n.rows = d.rows
  BY EventFacts DEF Header, IsDelete, Updates, IsWrite
<1>4. \A q : (Buried(n, q) <=> Buried(d, q)) /\ (Gone(n, q) <=> Gone(d, q))
  BY DEF Buried, Gone, Updates
<1>5. AbsentIsUnknown(n, r, w.roots)
  <2>1. CASE d.columns
    <3> SUFFICES ASSUME NEW q \in Part \ n.rows, ~ Gone(n, q)
                 PROVE  /\ q \notin w.roots
                        /\ \A g \in News(n, r) : g.entity # q
                        /\ \A f \in Field : n.ver[q][f] = NoStamp
      BY <1>2, <2>1 DEF AbsentIsUnknown
    <3>1. q # p /\ q \in Part \ d.rows /\ ~ Gone(d, q)
      BY <1>3, <1>4 DEF Updates
    <3>2. \A f \in Field : n.ver[q][f] = d.ver[q][f]
      BY <3>1 DEF Updates
    <3> QED
      BY <1>1, <1>2, <1>3, <2>1, <3>1, <3>2 DEF OrderlyStore, AbsentIsUnknown
  <2>2. CASE ~ d.columns
    BY <1>2, <1>3, <2>2 DEF AbsentIsUnknown, OrderlyStore
  <2> QED
    BY <2>1, <2>2
<1>6. ShownIsCreated(n, r, w.roots)
  BY <1>1, <1>2, <1>3 DEF OrderlyStore, ShownIsCreated
<1>7. TombsHold(n, r)
  <2>1. \A q \in Part : Buried(n, q) => \E g \in News(n, r) : g.entity = q /\ IsDelete(g)
    BY <1>1, <1>2, <1>4 DEF OrderlyStore, TombsHold
  <2>2. \A o \in n.pending : IsDelete(MarkerHeader(o, r)) => Buried(n, o.entity)
    BY <1>2, <1>4 DEF OrderlyStore, TombsHold
  <2>3. n.columns => \A g \in News(n, r) : IsDelete(g) =>
          \/ ~ Newer(g.stamp, n.tomb[g.entity])
          \/ \E c \in Ancestors(g.entity) \cap Cards : Buried(n, c)
    <3>1. n.tomb = d.tomb
      BY DEF Updates
    <3> QED
      BY <1>1, <1>2, <1>3, <1>4, <3>1 DEF OrderlyStore, TombsHold
  <2> QED
    BY <2>1, <2>2, <2>3 DEF TombsHold
<1>8. LifecyclesHold(n, r, B)
  <2> SUFFICES ASSUME NEW q \in Lists \cup Items
               PROVE  LET v == n.ver[q]["lifecycle"]
                      IN  IF Buried(n, q)
                          THEN n.tomb[q] = v
                          ELSE v # NoStamp => [part |-> q, seq |-> v.clock] \in B
    BY <1>1 DEF LifecyclesHold
  <2>1. IF Buried(d, q)
        THEN d.tomb[q] = d.ver[q]["lifecycle"]
        ELSE d.ver[q]["lifecycle"] # NoStamp =>
               [part |-> q, seq |-> d.ver[q]["lifecycle"].clock] \in B
    BY <1>1, <1>2 DEF OrderlyStore, LifecyclesHold
  <2>2. n.tomb = d.tomb
    BY DEF Updates
  <2>3. CASE n.ver[q]["lifecycle"] = d.ver[q]["lifecycle"]
    BY <1>4, <2>1, <2>2, <2>3
  <2>4. CASE n.ver[q]["lifecycle"] # d.ver[q]["lifecycle"]
    <3>1. q \in Part \cup {Board} /\ "lifecycle" \in Field
      BY DEF Part, Field
    <3>2. q = p
      BY <2>4, <3>1 DEF Updates
    <3>3. e.all /\ n.ver[q]["lifecycle"] = e.stamp /\ q \in d.rows
      BY <2>4, <3>2 DEF Updates, Part
    <3>4. ~ Buried(n, q)
      BY <1>4, <3>3 DEF Expects, Sound
    <3>5. [part |-> q, seq |-> e.stamp.clock] \in B
      BY <3>2, <3>3 DEF Expects, EventSound
    <3> QED
      BY <3>3, <3>4, <3>5
  <2> QED
    BY <2>3, <2>4
<1>9. RegistersHold(n, r)
  <2> SUFFICES ASSUME NEW q \in Edited, Live(n, q)
               PROVE  Holds(n, q)
    BY DEF RegistersHold
  <2>1. Live(d, q)
    BY <1>3 DEF Live
  <2>2. Holds(d, q)
    BY <1>1, <1>2, <2>1 DEF OrderlyStore, RegistersHold
  <2>3. CASE q = p
    <3>1. Writes(n, q) = Writes(d, q) \cup {e}
      BY <1>1, <2>3 DEF Updates
    <3>2. Newer(e.stamp, d.ver[q][RegisterOf(q)]) =>
            n.ver[q][RegisterOf(q)] = e.stamp /\ Shows(n, e)
      BY <2>3 DEF Updates
    <3>3. ~ Newer(e.stamp, d.ver[q][RegisterOf(q)]) =>
            /\ n.ver[q][RegisterOf(q)] = d.ver[q][RegisterOf(q)]
            /\ q = Board => n.appearance = d.appearance
            /\ q # Board => (q \in n.done <=> q \in d.done)
      BY <2>3 DEF Updates
    <3> QED
      BY <2>2, <2>3, <3>1, <3>2, <3>3, HoldsMerged
  <2>4. CASE q # p
    <3>1. Writes(n, q) = Writes(d, q)
      BY <1>1, <2>4
    <3>2. q \in (Part \cup {Board}) \ {p} /\ RegisterOf(q) \in Field
      BY <2>4 DEF Edited, Part, RegisterOf, Field
    <3>3. n.ver[q][RegisterOf(q)] = d.ver[q][RegisterOf(q)]
      BY <3>2 DEF Updates
    <3>4. q # Board => (q \in n.done <=> q \in d.done)
      BY <2>4 DEF Edited, Updates
    <3>5. q = Board => n.appearance = d.appearance
      BY <2>4 DEF Updates
    <3> QED
      BY <2>2, <3>1, <3>3, <3>4, <3>5, HoldsSame
  <2> QED
    BY <2>3, <2>4
<1> QED
  BY <1>2, <1>5, <1>6, <1>7, <1>8, <1>9 DEF OrderlyStore

\* What a reader of the two stores sees.
ShowsAs(n, m) ==
  /\ n.rows = m.rows /\ n.done = m.done /\ n.tomb = m.tomb /\ n.ver = m.ver
  /\ n.appearance = m.appearance

LEMMA CardPutOrderly ==
  ASSUME NEW d \in Store, NEW n \in Store, NEW r \in Replicas, NEW w, NEW B, NEW G,
         NEW e \in Event, Expects(d, r, w, B, G, e), Heard(d, n, e),
         e.op = "card.put", e.all, ~ Rejects(d, e), ShowsAs(n, MergeCardPut(d, e))
  PROVE  OrderlyStore(n, r, w, B)
<1>1. e.entity \in Cards /\ e.entity \in Part
  BY DEF Expects, EventSound, EventFits, Part
<1>2. ~ IsDelete(e) /\ ~ IsWrite(e)
  BY DEF IsDelete, IsWrite
<1>3. /\ n.rows = IF Buried(d, e.entity) THEN d.rows ELSE d.rows \cup {e.entity}
      /\ n.done = d.done /\ n.tomb = d.tomb /\ n.ver = d.ver
      /\ n.appearance = d.appearance
  BY <1>1, MergeCardPutEffect DEF ShowsAs
<1>4. Gone(d, e.entity) <=> Buried(d, e.entity)
  BY <1>1, AncestorFacts DEF Gone, Above
<1>5. CASE Buried(d, e.entity) \/ e.entity \in d.rows
  <2>1. n.rows = d.rows
    BY <1>3, <1>5
  <2> QED
    BY <1>2, <1>3, <1>4, <1>5, <2>1, HeardOrderly
<1>6. CASE ~ Buried(d, e.entity) /\ e.entity \notin d.rows
  <2>1. d.columns
    BY <1>6 DEF Rejects, Present
  <2>2. e.entity \notin Lists \cup Items
    BY <1>1, PartsAssumption
  <2> QED
    BY <1>1, <1>2, <1>3, <1>4, <1>6, <2>1, <2>2, ShownMerged
<1> QED
  BY <1>5, <1>6

LEMMA CardDeleteOrderly ==
  ASSUME NEW d \in Store, NEW n \in Store, NEW r \in Replicas, NEW w, NEW B, NEW G,
         NEW e \in Event, Expects(d, r, w, B, G, e), Heard(d, n, e),
         e.op = "card.delete", ShowsAs(n, MergeCardDelete(d, e))
  PROVE  OrderlyStore(n, r, w, B)
<1>1. e.entity \in Cards /\ e.entity \in Part
  BY DEF Expects, EventSound, EventFits, Part
<1>2. IsDelete(e) /\ ~ IsWrite(e)
  BY DEF IsDelete, IsWrite
<1>3. CASE Newer(e.stamp, d.tomb[e.entity])
  <2>1. /\ n.rows = d.rows \ Subtree(e.entity) /\ n.done = d.done \ Subtree(e.entity)
        /\ n.tomb = [d.tomb EXCEPT ![e.entity] = e.stamp] /\ n.ver = d.ver
        /\ n.appearance = d.appearance
    BY <1>1, <1>3, MergeCardDeleteEffect DEF ShowsAs
  <2>2. Deletes(d, n, e)
    BY <1>1, <1>2, <1>3, <2>1 DEF Deletes
  <2> QED
    BY <2>2, RemovedMerged
<1>4. CASE ~ Newer(e.stamp, d.tomb[e.entity])
  <2>1. /\ n.rows = d.rows /\ n.done = d.done /\ n.tomb = d.tomb /\ n.ver = d.ver
        /\ n.appearance = d.appearance
    BY <1>4 DEF ShowsAs, MergeCardDelete
  <2>2. Gone(d, e.entity)
    <3>1. d.tomb[e.entity] # NoStamp
      BY <1>4, EventFacts, StampOrder
    <3> QED
      BY <3>1 DEF Gone, Above, Buried
  <2> QED
    BY <1>2, <1>4, <2>1, <2>2, HeardOrderly
<1> QED
  BY <1>3, <1>4

LEMMA AppearanceOrderly ==
  ASSUME NEW d \in Store, NEW n \in Store, NEW r \in Replicas, NEW w, NEW B, NEW G,
         NEW e \in Event, Expects(d, r, w, B, G, e), Heard(d, n, e),
         e.op = "board.appearance.put", ShowsAs(n, MergeAppearance(d, e))
  PROVE  OrderlyStore(n, r, w, B)
<1>1. e.entity = Board /\ Board \notin Part /\ Board \in Edited
      /\ RegisterOf(Board) = "appearance"
  BY PartsAssumption DEF Expects, EventSound, EventFits, Edited, RegisterOf
<1>2. ~ IsDelete(e) /\ IsWrite(e)
  BY DEF IsDelete, IsWrite
<1>3. CASE Wins(d, e, "appearance")
  <2>1. /\ n.rows = d.rows /\ n.done = d.done /\ n.tomb = d.tomb
        /\ n.appearance = e.settings
        /\ Stamped(d, MergeAppearance(d, e), Board, {"appearance"}, e.stamp)
        /\ n.ver = MergeAppearance(d, e).ver
    BY <1>1, <1>3, MergeAppearanceEffect DEF ShowsAs
  <2>2. /\ n.ver[Board]["appearance"] = e.stamp
        /\ \A q \in (Part \cup {Board}) \ {Board}, f \in Field : n.ver[q][f] = d.ver[q][f]
    BY <2>1 DEF Stamped, Field
  <2>3. Shows(n, e) /\ Newer(e.stamp, d.ver[Board]["appearance"])
    BY <1>1, <1>3, <2>1 DEF Shows, Wins
  <2>4. Board \notin Lists \cup Items
    BY <1>1 DEF Part
  <2>5. Updates(d, n, e)
    BY <1>1, <1>2, <2>1, <2>2, <2>3, <2>4 DEF Updates
  <2> QED
    BY <2>5, UpdatedMerged
<1>4. CASE ~ Wins(d, e, "appearance")
  <2>1. /\ n.rows = d.rows /\ n.done = d.done /\ n.tomb = d.tomb /\ n.ver = d.ver
        /\ n.appearance = d.appearance
    BY <1>4 DEF ShowsAs, MergeAppearance
  <2>2. ~ Newer(e.stamp, d.ver[Board]["appearance"])
    BY <1>1, <1>4 DEF Wins
  <2> QED
    BY <1>1, <1>2, <2>1, <2>2, HeardOrderly
<1> QED
  BY <1>3, <1>4

\* What a delta finds above its part.
Stale(d, e) == \E c \in Ancestors(e.entity) \cap Cards : Buried(d, c) \/ ~ Present(d, c)

LEMMA CardOfDelta ==
  ASSUME NEW e, e.entity \in Lists \cup Items
  PROVE  /\ e.entity \in Part /\ e.entity # Board /\ e.entity \notin Cards
         /\ \E c \in Ancestors(e.entity) \cap Cards : Ancestors(e.entity) \cap Cards = {c}
<1>1. CASE e.entity \in Lists
  BY <1>1, AncestorFacts, PartsAssumption DEF Part
<1>2. CASE e.entity \in Items
  BY <1>2, AncestorFacts, PartsAssumption DEF Part
<1> QED
  BY <1>1, <1>2

LEMMA StaleOrderly ==
  ASSUME NEW d \in Store, NEW n \in Store, NEW r \in Replicas, NEW w, NEW B, NEW G,
         NEW e \in Event, Expects(d, r, w, B, G, e), Heard(d, n, e),
         IsDelta(e), Stale(d, e), ShowsAs(n, d)
  PROVE  OrderlyStore(n, r, w, B)
<1> DEFINE p == e.entity
<1>1. /\ p \in Lists \cup Items /\ p \in Part /\ p # Board
      /\ Ancestors(p) \subseteq Part /\ p \notin Ancestors(p)
  BY CardOfDelta, AncestorFacts DEF Expects, EventSound, EventFits, IsDelta
<1>2. PICK c \in Ancestors(p) \cap Cards : Buried(d, c) \/ ~ Present(d, c)
  BY DEF Stale
<1>3. p \notin d.rows
  BY <1>2 DEF Expects, Sound, Present
<1>4. d.columns => Buried(d, c)
  <2> SUFFICES ASSUME d.columns, ~ Buried(d, c) PROVE FALSE
    OBVIOUS
  <2>1. c \in Above(p) /\ c # p
    BY <1>1, <1>2 DEF Above
  <2>2. c \in d.rows \/ Gone(d, c)
    BY <2>1 DEF Expects
  <2>3. Above(c) = {c}
    BY <1>2, AncestorFacts DEF Above
  <2> QED
    BY <1>2, <2>2, <2>3 DEF Gone, Present
<1>5. d.columns => Gone(d, p)
  BY <1>2, <1>4 DEF Gone, Above
<1>6. \A q \in Edited : q = p /\ IsWrite(e) /\ Live(d, q) =>
        ~ Newer(e.stamp, d.ver[q][RegisterOf(q)])
  BY <1>1, <1>3 DEF Live
<1> QED
  BY <1>2, <1>4, <1>5, <1>6, HeardOrderly DEF ShowsAs

LEMMA DeltaDeleteOrderly ==
  ASSUME NEW d \in Store, NEW n \in Store, NEW r \in Replicas, NEW w,
         NEW B \in SUBSET Birth, NEW G,
         NEW e \in Event, Expects(d, r, w, B, G, e), Heard(d, n, e),
         e.op = "delta.delete", ~ Stale(d, e), ShowsAs(n, MergeDelete(d, e))
  PROVE  OrderlyStore(n, r, w, B)
<1> DEFINE p == e.entity
           v == d.ver[p]["lifecycle"]
<1>1. /\ p \in Lists \cup Items /\ p \in Part /\ p # Board /\ p \notin Cards
      /\ IsDelta(e) /\ IsDelete(e) /\ ~ IsWrite(e) /\ ~ e.all
  BY CardOfDelta DEF Expects, EventSound, EventFits, IsDelta, IsDelete, IsWrite
<1>2. OrderlyStore(d, r, w, B) /\ EventSound(e, B, G) /\ Unmaterialized(d, r) = {}
  BY DEF Expects
<1>3. IF Buried(d, p) THEN d.tomb[p] = v
                      ELSE v # NoStamp => [part |-> p, seq |-> v.clock] \in B
  BY <1>1, <1>2 DEF OrderlyStore, LifecyclesHold
<1>4. CASE Wins(d, e, "lifecycle")
  <2>1. Newer(e.stamp, d.tomb[p])
    BY <1>3, <1>4, EventFacts, StampOrder DEF Wins, Buried
  <2>2. /\ n.rows = d.rows \ Subtree(p) /\ n.done = d.done \ Subtree(p)
        /\ n.tomb = [d.tomb EXCEPT ![p] = e.stamp]
        /\ n.appearance = d.appearance
        /\ Stamped(d, MergeDelete(d, e), p, {"lifecycle"}, e.stamp)
        /\ n.ver = MergeDelete(d, e).ver
    BY <1>1, <1>4, MergeDeleteEffect DEF ShowsAs
  <2>3. /\ \A q \in (Part \cup {Board}) \ {p}, f \in Field : n.ver[q][f] = d.ver[q][f]
        /\ \A f \in Field \ {"lifecycle"} : n.ver[p][f] = d.ver[p][f]
        /\ n.ver[p]["lifecycle"] = e.stamp
    BY <1>1, <2>2 DEF Stamped, Field
  <2>4. Deletes(d, n, e)
    BY <1>1, <2>1, <2>2, <2>3 DEF Deletes
  <2> QED
    BY <2>4, RemovedMerged
<1>5. CASE ~ Wins(d, e, "lifecycle")
  <2>1. ShowsAs(n, d)
    BY <1>5 DEF MergeDelete
  <2>2. Buried(d, p) /\ ~ Newer(e.stamp, d.tomb[p])
    <3>1. ASSUME ~ Buried(d, p) PROVE FALSE
      <4>1. v # NoStamp
        BY <1>5, EventFacts, StampOrder DEF Wins
      <4>2. [part |-> p, seq |-> v.clock] \in B
        BY <1>3, <3>1, <4>1
      <4>3. v.clock < e.stamp.clock
        <5>1. \A b \in B : b.part = p => b.seq < e.stamp.clock
          BY <1>1, <1>2 DEF EventSound
        <5> QED
          BY <4>2, <5>1
      <4>4. v \in StampOrNone
        BY <1>1, StoreFields DEF Field
      <4> QED
        BY <1>5, <4>3, <4>4, EventFacts, StampOrder DEF Wins, Newer
    <3> QED
      BY <1>3, <1>5, <3>1 DEF Wins
  <2>3. Gone(d, p)
    BY <2>2 DEF Gone, Above
  <2> QED
    BY <1>1, <2>1, <2>2, <2>3, HeardOrderly DEF ShowsAs
<1> QED
  BY <1>4, <1>5

LEMMA DeltaPutOrderly ==
  ASSUME NEW d \in Store, NEW n \in Store, NEW r \in Replicas, NEW w,
         NEW B \in SUBSET Birth, NEW G,
         NEW e \in Event, Expects(d, r, w, B, G, e), Heard(d, n, e),
         e.op = "delta.put", ~ Stale(d, e), ShowsAs(n, MergePut(d, e))
  PROVE  OrderlyStore(n, r, w, B)
<1> DEFINE p == e.entity
<1>1. /\ p \in Lists \cup Items /\ p \in Part /\ p # Board /\ p \notin Cards
      /\ IsDelta(e) /\ ~ IsDelete(e) /\ IsWrite(e) /\ e.all \in BOOLEAN
  BY CardOfDelta, EventFacts
     DEF Expects, EventSound, EventFits, IsDelta, IsDelete, IsWrite
<1>2. /\ OrderlyStore(d, r, w, B) /\ EventSound(e, B, G) /\ Sound(d, B, G)
      /\ Unmaterialized(d, r) = {}
  BY DEF Expects
<1>3. PICK c \in Ancestors(p) \cap Cards : Ancestors(p) \cap Cards = {c}
  BY <1>1, CardOfDelta
<1>4. c \in d.rows /\ ~ Buried(d, c)
  BY <1>3 DEF Stale, Present
<1>5. d.columns
  BY <1>2, <1>4 DEF OrderlyStore, AbsentIsUnknown
<1>6. \A q \in Above(p) : q \in d.rows \/ Gone(d, q) \/ (q = p /\ e.all)
  BY <1>1, <1>5 DEF Expects
<1>7. \A q \in Ancestors(p) : q \in Part /\ q # p /\ (Gone(d, q) => Gone(d, p))
  BY <1>1, AncestorFacts DEF Gone, Above
<1>8. p \in d.rows => Ancestors(p) \subseteq d.rows /\ ~ Gone(d, p)
  BY <1>2 DEF Sound, Gone, Above
<1>9. ~ Buried(d, p) \/ ~ e.all \/ ~ Newer(e.stamp, d.tomb[p])
  BY <1>1, <1>2, CreationIsOlder
<1>10. CASE ~ PutAllowed(d, e)
  <2>1. ShowsAs(n, d)
    BY <1>10 DEF MergePut
  <2>2. p \notin d.rows \/ Gone(d, p)
    <3> SUFFICES ASSUME p \in d.rows PROVE FALSE
      OBVIOUS
    <3>1. p \in Items => Parent[p] \in Ancestors(p)
      BY AncestorFacts
    <3>2. p \in Items => Present(d, Parent[p]) /\ ~ Buried(d, Parent[p])
      BY <1>2, <1>8, <3>1 DEF Sound, Present
    <3>3. ~ Buried(d, p)
      BY <1>8 DEF Gone, Above
    <3> QED
      BY <1>10, <3>2, <3>3 DEF PutAllowed, Present
  <2>3. p \in d.rows \/ Gone(d, p)
    <3> SUFFICES ASSUME p \notin d.rows, ~ Gone(d, p) PROVE FALSE
      OBVIOUS
    <3>1. e.all
      BY <1>6 DEF Above
    <3>2. ~ Buried(d, p)
      BY DEF Gone, Above
    <3>3. Wins(d, e, "lifecycle")
      <4>1. d.ver[p]["lifecycle"] = NoStamp
        BY <1>1, <1>2, <1>5 DEF OrderlyStore, AbsentIsUnknown, Field
      <4> QED
        BY <4>1, EventFacts, StampOrder DEF Wins
    <3>4. p \in Items => Present(d, Parent[p]) /\ ~ Buried(d, Parent[p])
      <4> SUFFICES ASSUME p \in Items
                   PROVE  Present(d, Parent[p]) /\ ~ Buried(d, Parent[p])
        OBVIOUS
      <4>1. Parent[p] \in Ancestors(p)
        BY AncestorFacts
      <4>2. Parent[p] \in d.rows
        BY <1>6, <1>7, <4>1 DEF Above
      <4> QED
        BY <1>2, <4>2 DEF Sound, Present
    <3> QED
      BY <1>10, <3>2, <3>3, <3>4 DEF PutAllowed
  <2>4. \A q \in Edited : ~ (q = p /\ IsWrite(e) /\ Live(d, q))
    BY <1>1, <1>8, <2>2 DEF Live
  <2> QED
    BY <1>1, <2>1, <2>3, <2>4, HeardOrderly DEF ShowsAs
<1>11. CASE PutAllowed(d, e) /\ p \in d.rows
  <2> DEFINE u == UpdateFromPut(d, e)
             F == UpdatedFields(d, e)
  <2>1. MergePut(d, e) = u
    BY <1>11 DEF MergePut, Present
  <2>2. /\ n.rows = d.rows /\ n.appearance = d.appearance
        /\ n.tomb = [d.tomb EXCEPT ![p] = IF "lifecycle" \in F THEN NoStamp ELSE @]
        /\ n.done = IF "isDone" \in F THEN WriteDone(d.done, e) ELSE d.done
        /\ Stamped(d, u, p, F, e.stamp) /\ n.ver = u.ver
    BY <1>1, <2>1, UpdateFromPutEffect DEF ShowsAs
  <2> HIDE DEF u, F
  <2>3. n.tomb = d.tomb
    <3>1. d.tomb[p] = NoStamp
      BY <1>8, <1>11 DEF Gone, Above, Buried
    <3> QED
      BY <1>1, <2>2, <3>1, StoreFields
  <2>4. \A q \in (Part \cup {Board}) \ {p}, f \in Field : n.ver[q][f] = d.ver[q][f]
    BY <2>2 DEF Stamped
  <2>5. \/ n.ver[p]["lifecycle"] = d.ver[p]["lifecycle"]
        \/ e.all /\ n.ver[p]["lifecycle"] = e.stamp
    BY <1>1, <2>2 DEF Stamped, Field, F, UpdatedFields
  <2>6. \A q \in Items \ {p} : q \in n.done <=> q \in d.done
    BY <2>2 DEF WriteDone
  <2>7. p \in Items =>
          /\ Newer(e.stamp, d.ver[p]["isDone"]) =>
               n.ver[p]["isDone"] = e.stamp /\ (e.isDone <=> p \in n.done)
          /\ ~ Newer(e.stamp, d.ver[p]["isDone"]) =>
               n.ver[p]["isDone"] = d.ver[p]["isDone"] /\ (p \in n.done <=> p \in d.done)
    <3> SUFFICES ASSUME p \in Items
                 PROVE  /\ Newer(e.stamp, d.ver[p]["isDone"]) =>
                             n.ver[p]["isDone"] = e.stamp /\ (e.isDone <=> p \in n.done)
                        /\ ~ Newer(e.stamp, d.ver[p]["isDone"]) =>
                             /\ n.ver[p]["isDone"] = d.ver[p]["isDone"]
                             /\ p \in n.done <=> p \in d.done
      OBVIOUS
    <3>1. "isDone" \in F <=> Newer(e.stamp, d.ver[p]["isDone"])
      BY DEF F, UpdatedFields, Registers, Wins
    <3>2. n.ver[p]["isDone"] = IF "isDone" \in F THEN e.stamp ELSE d.ver[p]["isDone"]
      BY <1>1, <2>2 DEF Stamped, Field
    <3>3. p \in WriteDone(d.done, e) <=> e.isDone
      BY EventFacts DEF WriteDone
    <3> QED
      BY <2>2, <3>1, <3>2, <3>3
  <2>8. p \in Edited => p \in Items /\ RegisterOf(p) = "isDone"
    BY <1>1 DEF Edited, RegisterOf
  <2>9. Updates(d, n, e)
    <3>1. p \in Edited =>
            /\ Newer(e.stamp, d.ver[p][RegisterOf(p)]) =>
                 n.ver[p][RegisterOf(p)] = e.stamp /\ Shows(n, e)
            /\ ~ Newer(e.stamp, d.ver[p][RegisterOf(p)]) =>
                 /\ n.ver[p][RegisterOf(p)] = d.ver[p][RegisterOf(p)]
                 /\ p \in n.done <=> p \in d.done
      BY <1>1, <2>7, <2>8 DEF Shows
    <3> QED
      BY <1>1, <1>11, <2>2, <2>3, <2>4, <2>5, <2>6, <3>1 DEF Updates
  <2> QED
    BY <2>9, UpdatedMerged
<1>12. CASE PutAllowed(d, e) /\ p \notin d.rows
  <2> DEFINE u == CreateFromPut(d, e)
  <2>1. MergePut(d, e) = u
    BY <1>12 DEF MergePut, Present
  <2>2. /\ n.rows = d.rows \cup {p} /\ n.appearance = d.appearance
        /\ n.tomb = [d.tomb EXCEPT ![p] = NoStamp]
        /\ n.done = WriteDone(d.done, e)
        /\ Stamped(d, u, p, Registers(p), e.stamp) /\ n.ver = u.ver
    BY <1>1, <2>1, CreateFromPutEffect DEF ShowsAs
  <2> HIDE DEF u
  <2>3. ~ Buried(d, p)
    BY <1>9, <1>12 DEF PutAllowed
  <2>4. n.tomb = d.tomb
    BY <1>1, <2>2, <2>3, StoreFields DEF Buried
  <2>5. ~ Gone(d, p)
    <3> SUFFICES ASSUME NEW q \in Ancestors(p), Buried(d, q) PROVE FALSE
      BY <2>3 DEF Gone, Above
    <3>1. CASE p \in Lists
      BY <1>3, <1>4, <3>1, AncestorFacts
    <3>2. CASE p \in Items
      <4>1. Parent[p] \in d.rows
        BY <1>12, <3>2 DEF PutAllowed, Present
      <4>2. q \in {Parent[p]} \cup Ancestors(Parent[p])
        BY <3>2, AncestorFacts
      <4>3. q \in d.rows
        BY <1>2, <4>1, <4>2 DEF Sound
      <4> QED
        BY <1>2, <4>3 DEF Sound
    <3> QED
      BY <1>1, <3>1, <3>2
  <2>6. e.all
    BY <1>6, <1>12, <2>5 DEF Above
  <2>7. \A q \in (Part \cup {Board}) \ {p}, f \in Field : n.ver[q][f] = d.ver[q][f]
    BY <2>2 DEF Stamped
  <2>8. /\ n.ver[p]["lifecycle"] = e.stamp
        /\ p \in Items => n.ver[p]["isDone"] = e.stamp
    BY <1>1, <2>2 DEF Stamped, Registers, Field
  <2>9. /\ \A q \in Items : q # p => (q \in n.done <=> q \in d.done)
        /\ p \in Items => (e.isDone <=> p \in n.done)
    BY <2>2, EventFacts DEF WriteDone
  <2> QED
    BY <1>1, <1>5, <1>12, <2>2, <2>4, <2>5, <2>6, <2>7, <2>8, <2>9, ShownMerged
<1> QED
  BY <1>10, <1>11, <1>12

LEMMA DeltaColumns ==
  ASSUME NEW d \in Store, NEW e \in Event, e.entity \in Part
  PROVE  /\ MergeDelete(d, e) \in Store /\ MergeDelete(d, e).columns = d.columns
         /\ MergePut(d, e) \in Store /\ MergePut(d, e).columns = d.columns
         /\ MergeDelta(d, e) =
              IF Stale(d, e) THEN d
              ELSE IF e.op = "delta.delete" THEN MergeDelete(d, e) ELSE MergePut(d, e)
<1>1. MergeDelete(d, e) \in Store /\ MergeDelete(d, e).columns = d.columns
  <2>1. CASE Wins(d, e, "lifecycle")
    BY <2>1, MergeDeleteEffect
  <2>2. CASE ~ Wins(d, e, "lifecycle")
    BY <2>2 DEF MergeDelete
  <2> QED
    BY <2>1, <2>2
<1>2. MergePut(d, e) \in Store /\ MergePut(d, e).columns = d.columns
  <2>1. /\ UpdateFromPut(d, e) \in Store /\ UpdateFromPut(d, e).columns = d.columns
        /\ CreateFromPut(d, e) \in Store /\ CreateFromPut(d, e).columns = d.columns
    BY UpdateFromPutEffect, CreateFromPutEffect
  <2> QED
    BY <2>1 DEF MergePut
<1> QED
  BY <1>1, <1>2 DEF MergeDelta, Stale

LEMMA MergedOrderly ==
  ASSUME NEW d \in Store, NEW r \in Replicas, NEW w, NEW B \in SUBSET Birth, NEW G,
         NEW e \in Event, Expects(d, r, w, B, G, e), ~ Rejects(d, e),
         e.stamp.clock <= d.clock,
         e.op # "board.snapshot", e.op = "card.put" => e.all
  PROVE  OrderlyStore(ApplyRemoteEvent(d, e), r, w, B)
<1> SUFFICES ASSUME NEW n, n = ApplyRemoteEvent(d, e)
             PROVE  OrderlyStore(n, r, w, B)
  OBVIOUS
<1>1. n \in Store /\ Kept(d, n) /\ n.seen = d.seen \cup {e}
  BY ApplySound DEF Expects
<1>2. ASSUME NEW m \in Store, m.columns = d.columns, n = [m EXCEPT !.seen = @ \cup {e}]
      PROVE  Heard(d, n, e) /\ ShowsAs(n, m)
  BY <1>1, <1>2 DEF Heard, ShowsAs, Kept, Store
<1>3. /\ e.op \in {"card.put", "card.delete"} => e.entity \in Cards
      /\ e.op \in {"delta.put", "delta.delete"} => e.entity \in Part
      /\ e.op = "board.appearance.put" => e.entity = Board
      /\ e.op \in {"card.put", "card.delete", "delta.put", "delta.delete",
                   "board.appearance.put"}
  BY DEF Expects, EventSound, EventFits, Part, Event
<1>4. CASE e.op = "card.put"
  <2>1. /\ MergeCardPut(d, e) \in Store /\ MergeCardPut(d, e).columns = d.columns
        /\ n = [MergeCardPut(d, e) EXCEPT !.seen = @ \cup {e}]
    BY <1>3, <1>4, MergeCardPutEffect DEF ApplyRemoteEvent
  <2>2. Heard(d, n, e) /\ ShowsAs(n, MergeCardPut(d, e))
    BY <1>2, <2>1
  <2> QED
    BY <1>1, <1>4, <2>2, CardPutOrderly
<1>5. CASE e.op = "card.delete"
  <2>1. MergeCardDelete(d, e) \in Store /\ MergeCardDelete(d, e).columns = d.columns
    <3>1. CASE Newer(e.stamp, d.tomb[e.entity])
      BY <1>3, <1>5, <3>1, MergeCardDeleteEffect
    <3>2. CASE ~ Newer(e.stamp, d.tomb[e.entity])
      BY <3>2 DEF MergeCardDelete
    <3> QED
      BY <3>1, <3>2
  <2>2. n = [MergeCardDelete(d, e) EXCEPT !.seen = @ \cup {e}]
    BY <1>5 DEF ApplyRemoteEvent
  <2>3. Heard(d, n, e) /\ ShowsAs(n, MergeCardDelete(d, e))
    BY <1>2, <2>1, <2>2
  <2> QED
    BY <1>1, <1>5, <2>3, CardDeleteOrderly
<1>6. CASE e.op = "board.appearance.put"
  <2>1. MergeAppearance(d, e) \in Store /\ MergeAppearance(d, e).columns = d.columns
    <3>1. CASE Wins(d, e, "appearance")
      BY <1>3, <1>6, <3>1, MergeAppearanceEffect
    <3>2. CASE ~ Wins(d, e, "appearance")
      BY <3>2 DEF MergeAppearance
    <3> QED
      BY <3>1, <3>2
  <2>2. n = [MergeAppearance(d, e) EXCEPT !.seen = @ \cup {e}]
    BY <1>6 DEF ApplyRemoteEvent
  <2>3. Heard(d, n, e) /\ ShowsAs(n, MergeAppearance(d, e))
    BY <1>2, <2>1, <2>2
  <2> QED
    BY <1>1, <1>6, <2>3, AppearanceOrderly
<1>7. CASE e.op \in {"delta.put", "delta.delete"}
  <2>1. n = [MergeDelta(d, e) EXCEPT !.seen = @ \cup {e}]
    BY <1>7 DEF ApplyRemoteEvent
  <2>2. e.entity \in Part /\ IsDelta(e)
    BY <1>3, <1>7 DEF IsDelta
  <2>3. /\ MergeDelete(d, e) \in Store /\ MergeDelete(d, e).columns = d.columns
        /\ MergePut(d, e) \in Store /\ MergePut(d, e).columns = d.columns
        /\ MergeDelta(d, e) =
             IF Stale(d, e) THEN d
             ELSE IF e.op = "delta.delete" THEN MergeDelete(d, e) ELSE MergePut(d, e)
    BY <2>2, DeltaColumns
  <2>4. CASE Stale(d, e)
    <3>1. Heard(d, n, e) /\ ShowsAs(n, d)
      BY <1>2, <2>1, <2>3, <2>4
    <3> QED
      BY <1>1, <2>2, <2>4, <3>1, StaleOrderly
  <2>5. CASE ~ Stale(d, e) /\ e.op = "delta.delete"
    <3>1. Heard(d, n, e) /\ ShowsAs(n, MergeDelete(d, e))
      BY <1>2, <2>1, <2>3, <2>5
    <3> QED
      BY <1>1, <2>5, <3>1, DeltaDeleteOrderly
  <2>6. CASE ~ Stale(d, e) /\ e.op = "delta.put"
    <3>1. Heard(d, n, e) /\ ShowsAs(n, MergePut(d, e))
      BY <1>2, <2>1, <2>3, <2>6
    <3> QED
      BY <1>1, <2>6, <3>1, DeltaPutOrderly
  <2> QED
    BY <1>7, <2>4, <2>5, <2>6
<1> QED
  BY <1>3, <1>4, <1>5, <1>6, <1>7

-----------------------------------------------------------------------------
(* Every step keeps the stores orderly.                                    *)

LEMMA BoardOrderly ==
  ASSUME NEW columns \in BOOLEAN, NEW rows \in SUBSET Part, NEW minted \in BOOLEAN,
         NEW r \in Replicas, NEW w, NEW B,
         w.content = "full" => columns,
         rows = IF columns THEN w.roots ELSE {}
  PROVE  OrderlyStore(BoardStore(columns, rows, minted), r, w, B)
<1> DEFINE d == BoardStore(columns, rows, minted)
<1>1. /\ d.columns = columns /\ d.rows = rows /\ d.done = {} /\ d.appearance = NoStamp
      /\ d.tomb = [p \in Part |-> NoStamp]
      /\ d.ver = [p \in Part \cup {Board} |-> [f \in Field |-> NoStamp]]
      /\ d.pending = {} /\ d.outbox = {} /\ d.seen = {}
  BY DEF BoardStore
<1> HIDE DEF d
<1>2. News(d, r) = {} /\ (\A p : Writes(d, p) = {}) /\ \A p \in Part : ~ Buried(d, p)
  BY <1>1 DEF News, Writes, KnownBy, Buried
<1>3. AbsentIsUnknown(d, r, w.roots) /\ ShownIsCreated(d, r, w.roots)
  BY <1>1, <1>2 DEF AbsentIsUnknown, ShownIsCreated
<1>4. TombsHold(d, r)
  BY <1>1, <1>2 DEF TombsHold
<1>5. LifecyclesHold(d, r, B)
  BY <1>1, <1>2 DEF LifecyclesHold, Part, Field
<1>6. RegistersHold(d, r)
  BY <1>1, <1>2 DEF RegistersHold, Holds, Untold, Edited, RegisterOf, Part, Field
<1> QED
  BY <1>1, <1>3, <1>4, <1>5, <1>6 DEF OrderlyStore, d

LEMMA OrderInit == Init => OrderInv
<1> SUFFICES ASSUME Init PROVE OrderInv
  OBVIOUS
<1>1. PICK filled \in [Natives -> BOOLEAN], minted \in [Natives -> BOOLEAN] :
        /\ world.content = "full" => \A r \in Natives : filled[r] /\ minted[r]
        /\ db = [r \in Natives |->
                   BoardStore(filled[r], IF filled[r] THEN world.roots ELSE {}, minted[r])]
  BY DEF Init
<1>2. world.roots \in SUBSET Part
  BY WorldAssumption DEF Init, World
<1>3. ASSUME NEW r \in Natives PROVE OrderlyStore(db[r], r, world, Births)
  <2>1. filled[r] \in BOOLEAN /\ minted[r] \in BOOLEAN /\ r \in Replicas
    BY NobodyIsNoDevice
  <2>2. (IF filled[r] THEN world.roots ELSE {}) \in SUBSET Part
    BY <1>2
  <2>3. world.content = "full" => filled[r]
    BY <1>1
  <2>4. db[r] = BoardStore(filled[r], IF filled[r] THEN world.roots ELSE {}, minted[r])
    BY <1>1
  <2> QED
    BY <2>1, <2>2, <2>3, <2>4, BoardOrderly
<1>4. \A r \in Natives : ~ Merging(r)
  BY NobodyIsNoDevice DEF Init, Merging, NoMerge
<1> QED
  BY <1>3, <1>4 DEF OrderInv

LEMMA OrderStep ==
  ASSUME TypeInv, OrderInv, NEW r \in Natives, NEW n, db' = [db EXCEPT ![r] = n],
         UNCHANGED <<merge, world>>, Idle, db[r].pending \subseteq n.pending,
         OrderlyStore(n, r, world, Births')
  PROVE  OrderInv'
<1>1. \A s \in Natives : db'[s] = IF s = r THEN n ELSE db[s]
  BY DEF TypeInv, ChecklistTypeOK
<1>2. Births \subseteq Births'
  BY <1>1, BirthsGrow
<1>3. ASSUME NEW s \in Natives PROVE OrderlyStore(db'[s], s, world', Births')
  <2>1. CASE s = r
    BY <1>1, <2>1
  <2>2. CASE s # r
    <3>1. OrderlyStore(db[s], s, world, Births)
      BY DEF OrderInv
    <3> QED
      BY <1>1, <1>2, <2>2, <3>1, OrderlyGrows
  <2> QED
    BY <2>1, <2>2
<1>4. \A s \in Natives : ~ Merging(s)'
  BY NobodyIsNoDevice DEF Idle, Merging, NoMerge
<1> QED
  BY <1>3, <1>4 DEF OrderInv

LEMMA OrderDrop == OrderInv /\ Dropped => OrderInv'
<1> SUFFICES ASSUME OrderInv, Dropped PROVE OrderInv'
  OBVIOUS
<1>1. db' = db /\ world' = world /\ Births' = Births
  BY DEF Dropped, Births, Creations
<1>2. ASSUME NEW s \in Natives, Merging(s)' PROVE merge' = merge /\ Merging(s)
  <2>1. merge'.at \in Natives /\ merge'.at # Nobody
    BY <1>2, NobodyIsNoDevice DEF Merging
  <2>2. merge' # NoMerge
    <3>1. NoMerge.at = Nobody
      BY DEF NoMerge
    <3> QED
      BY <2>1, <3>1
  <2>3. merge' = merge
    BY <2>2 DEF Dropped
  <2> QED
    BY <1>2, <2>3 DEF Merging
<1>3. \A s \in Natives : Merging(s)' => OrderlyStore(merge'.work, s, world', Births')
  BY <1>1, <1>2 DEF OrderInv
<1>4. \A s \in Natives : OrderlyStore(db'[s], s, world', Births')
  BY <1>1 DEF OrderInv
<1> QED
  BY <1>3, <1>4 DEF OrderInv

LEMMA OrderEdit ==
  TypeInv /\ SoundInv /\ SoundInv' /\ InOrder /\ QuietInv /\ OrderInv /\ SomeEdit => OrderInv'
<1> SUFFICES ASSUME TypeInv, SoundInv, SoundInv', InOrder, QuietInv, OrderInv, SomeEdit
             PROVE  OrderInv'
  OBVIOUS
<1> PICK r \in Natives, n \in Store :
      \E kind \in MarkerKind : \E p \in Part \cup {Board} : EditStep(r, n, kind, p)
  BY DEF SomeEdit
<1> PICK kind \in MarkerKind, p \in Part \cup {Board} : EditStep(r, n, kind, p)
  OBVIOUS
<1> DEFINE d == db[r]
           m == [seq |-> d.clock + 1, kind |-> kind, entity |-> p]
<1>1. /\ m \in Marker /\ MarkerFits(m)
      /\ n.pending = d.pending \cup {m}
      /\ n.outbox = d.outbox /\ n.seen = d.seen
      /\ n.columns = d.columns /\ n.tomb = d.tomb /\ n.ver = d.ver
      /\ \A e \in d.outbox : e.stamp.clock < m.seq
      /\ db' = [db EXCEPT ![r] = n] /\ UNCHANGED <<deleting, staged, merge, world>>
      /\ EditorTurn(r)
  BY EditMarker
<1>2. m.kind = kind /\ m.entity = p
  OBVIOUS
<1>3. \/ Inserted(d, n, m.kind, m.entity)
      \/ Ticks(d, n, m.kind, m.entity)
      \/ Looks(d, n, m.kind, m.entity)
  BY <1>2 DEF EditStep
<1> HIDE DEF m
<1>4. d \in Store /\ r \in Replicas /\ Idle
  BY <1>1, SequencesAreOld, EditsAreApart
<1>5. Unmaterialized(n, r) = Unmaterialized(d, r) \cup {m}
  <2>1. m.seq \in Nat /\ \A e \in d.outbox : e.stamp.clock \in Nat
    BY <1>1, SequencesAreOld DEF Marker
  <2>2. \A e \in d.outbox : e.stamp.clock # m.seq
    BY <1>1, <2>1
  <2> QED
    BY <1>1, <2>2, MarkedBacklog
<1>6. db'[r] = n
  BY <1>1 DEF TypeInv, ChecklistTypeOK
<1>7. Sound(n, Births', Born')
  BY <1>6 DEF SoundInv, StoresInv
<1>8. Births \subseteq Births'
  <2>1. \A s \in Natives : db'[s] = IF s = r THEN n ELSE db[s]
    BY <1>1 DEF TypeInv, ChecklistTypeOK
  <2> QED
    BY <1>1, <2>1, BirthsGrow
<1>9. OrderlyStore(d, r, world, Births)
  BY DEF OrderInv
<1>10. OrderlyStore(n, r, world, Births')
  BY <1>1, <1>3, <1>4, <1>5, <1>7, <1>8, <1>9, EditOrderly
<1> QED
  BY <1>1, <1>4, <1>10, OrderStep

LEMMA OrderReserve ==
  TypeInv /\ SoundInv /\ InOrder /\ OrderInv /\ SomeReserve => OrderInv'
<1> SUFFICES ASSUME TypeInv, SoundInv, InOrder, OrderInv, SomeReserve
             PROVE  OrderInv'
  OBVIOUS
<1> PICK r \in Natives : \E p \in Part : ReserveDelete(r, p)
  BY DEF SomeReserve
<1> PICK p \in Part : ReserveDelete(r, p)
  OBVIOUS
<1> DEFINE d == db[r]
           n == db'[r]
<1>1. /\ SameBut(d, n) /\ db' = [db EXCEPT ![r] = n]
      /\ UNCHANGED <<staged, merge, world>> /\ EditorTurn(r)
  BY ReserveForms
<1> HIDE DEF n
<1>2. Idle
  BY <1>1, EditsAreApart
<1>3. OrderlyStore(n, r, world, Births)
  BY <1>1, OrderlySame DEF OrderInv
<1>4. d.pending = n.pending
  BY <1>1 DEF SameBut
<1>5. Births \subseteq Births'
  <2>1. \A s \in Natives : db'[s] = IF s = r THEN n ELSE db[s]
    BY <1>1 DEF TypeInv, ChecklistTypeOK
  <2> QED
    BY <1>4, <2>1, BirthsGrow
<1>6. OrderlyStore(n, r, world, Births')
  BY <1>3, <1>5, OrderlyGrows
<1> QED
  BY <1>1, <1>2, <1>4, <1>6, OrderStep

LEMMA OrderBury ==
  TypeInv /\ SoundInv /\ BooksInv /\ InOrder /\ QuietInv /\ OrderInv /\ SomeBury
    => OrderInv'
<1> SUFFICES ASSUME TypeInv, SoundInv, BooksInv, InOrder, QuietInv, OrderInv, SomeBury
             PROVE  OrderInv'
  OBVIOUS
<1> PICK r \in Natives : \E v \in deleting[r] : BuryStep(r, v)
  BY DEF SomeBury
<1> PICK v \in deleting[r] : BuryStep(r, v)
  OBVIOUS
<1> DEFINE d == db[r]
           n == db'[r]
           m == [seq |-> v.seq, kind |-> DeleteKind(v.part), entity |-> v.part]
<1>1. /\ m \in Marker /\ MarkerFits(m) /\ IsDelete(MarkerHeader(m, r))
      /\ n \in Store /\ db' = [db EXCEPT ![r] = n]
      /\ n.pending = d.pending \cup {m}
      /\ n.outbox = d.outbox /\ n.seen = d.seen
      /\ n.columns = d.columns /\ n.ver = d.ver /\ n.appearance = d.appearance
      /\ n.rows = d.rows \ Subtree(v.part) /\ n.done = d.done \ Subtree(v.part)
      /\ n.tomb = [d.tomb EXCEPT ![v.part] =
                     IF Newer([clock |-> v.seq, replica |-> r], @)
                     THEN [clock |-> v.seq, replica |-> r] ELSE @]
  BY BuryMarker
<1>2. m.seq = v.seq /\ m.entity = v.part /\ m.kind = DeleteKind(m.entity)
  OBVIOUS
<1>3. EditorTurn(r) /\ UNCHANGED <<merge, world>>
  BY DEF BuryStep
<1>4. /\ Idle /\ Quiet(r) /\ d \in Store /\ r \in Replicas /\ MarkersBelow(d)
      /\ Sound(d, Births, Born) /\ OrderlyStore(d, r, world, Births)
  BY <1>3, EditsAreApart, SequencesAreOld DEF QuietInv, SoundInv, StoresInv, OrderInv
<1>5. /\ v.part \in d.rows /\ v.seq = d.clock
      /\ \A e \in KnownBy(d) : e.stamp.clock < v.seq
  BY <1>4 DEF Quiet
<1>6. \A e \in d.outbox : e.stamp.clock \in Nat
  BY SequencesAreOld
<1> HIDE DEF m, n
<1>7. Unmaterialized(n, r) = Unmaterialized(d, r) \cup {m}
  <2>1. \A e \in d.outbox : e.stamp.clock # m.seq
    BY <1>1, <1>2, <1>5, <1>6 DEF KnownBy, Marker
  <2> QED
    BY <1>1, <2>1, MarkedBacklog
<1>8. /\ m.entity \in d.rows /\ m.seq = d.clock
      /\ n.rows = d.rows \ Subtree(m.entity) /\ n.done = d.done \ Subtree(m.entity)
      /\ n.tomb = [d.tomb EXCEPT ![m.entity] =
                     IF Newer([clock |-> m.seq, replica |-> r], @)
                     THEN [clock |-> m.seq, replica |-> r] ELSE @]
  BY <1>1, <1>2, <1>5
<1>9. OrderlyStore(n, r, world, Births)
  BY <1>1, <1>2, <1>4, <1>7, <1>8, BuryOrderly
<1>10. d.pending \subseteq n.pending
  BY <1>1
<1>11. Births \subseteq Births'
  <2>1. \A s \in Natives : db'[s] = IF s = r THEN n ELSE db[s]
    BY <1>1 DEF TypeInv, ChecklistTypeOK
  <2> QED
    BY <1>10, <2>1, BirthsGrow
<1>12. OrderlyStore(n, r, world, Births')
  BY <1>9, <1>11, OrderlyGrows
<1> QED
  BY <1>1, <1>3, <1>4, <1>10, <1>12, OrderStep

LEMMA OrderPublish ==
  TypeInv /\ SoundInv /\ InOrder /\ QuietInv /\ OrderInv /\ SomePublish => OrderInv'
<1> SUFFICES ASSUME TypeInv, SoundInv, InOrder, QuietInv, OrderInv, SomePublish
             PROVE  OrderInv'
  OBVIOUS
<1> PICK r \in Natives : \E batch \in SUBSET Event : PublishStep(r, batch)
  BY DEF SomePublish
<1> PICK batch \in SUBSET Event : PublishStep(r, batch)
  OBVIOUS
<1> DEFINE d == db[r]
           n == db'[r]
<1>1. /\ n \in Store /\ db' = [db EXCEPT ![r] = n]
      /\ n.columns = d.columns /\ n.tomb = d.tomb
      /\ n.seen = d.seen /\ n.pending = d.pending
      /\ n.rows = d.rows /\ n.done = d.done
      /\ n.appearance = d.appearance
      /\ n.outbox = d.outbox \cup {MarkerEvent(d, r, m) : m \in Unmaterialized(d, r)}
      /\ \A p \in Part \cup {Board}, f \in Field :
           n.ver[p][f] = RecordedVersion(d, r, p, f)
      /\ UNCHANGED <<deleting, merge, world>>
      /\ Unmaterialized(n, r) = {}
  BY PublishForms
<1> HIDE DEF n
<1>2. Idle
  BY DEF PublishStep, SyncReady, Turn
<1>3. /\ d \in Store /\ r \in Replicas /\ MarkersBelow(d) /\ Backlogged(d, r)
      /\ OrderlyStore(d, r, world, Births)
  BY SequencesAreOld DEF QuietInv, Quiet, OrderInv
<1>4. \A m \in d.pending :
        /\ MarkerFits(m)
        /\ m.kind \in CreationKind => [part |-> m.entity, seq |-> m.seq] \in Births
  BY BirthFacts DEF SoundInv, MarkersInv, MarkerSound
<1>5. OrderlyStore(n, r, world, Births)
  BY <1>1, <1>3, <1>4, PublishOrderly
<1>6. Births \subseteq Births'
  <2>1. \A s \in Natives : db'[s] = IF s = r THEN n ELSE db[s]
    BY <1>1 DEF TypeInv, ChecklistTypeOK
  <2> QED
    BY <1>1, <2>1, BirthsGrow
<1>7. OrderlyStore(n, r, world, Births')
  BY <1>5, <1>6, OrderlyGrows
<1> QED
  BY <1>1, <1>2, <1>7, OrderStep

LEMMA OrderOpen ==
  TypeInv /\ SoundInv /\ OrderInv /\ SomeOpen => OrderInv'
<1> SUFFICES ASSUME TypeInv, SoundInv, OrderInv, SomeOpen PROVE OrderInv'
  OBVIOUS
<1> PICK r \in Natives : OpenMerge(r)
  BY DEF SomeOpen
<1>1. /\ merge'.at = r /\ SameBut(db[r], merge'.work)
      /\ UNCHANGED <<db, deleting, world>>
  BY OpenForms
<1>2. Births' = Births
  BY <1>1 DEF Births, Creations
<1>3. OrderlyStore(merge'.work, r, world, Births)
  BY <1>1, OrderlySame DEF OrderInv
<1>4. \A s \in Natives : Merging(s)' => s = r
  BY <1>1 DEF Merging
<1> QED
  BY <1>1, <1>2, <1>3, <1>4 DEF OrderInv

LEMMA OrderCommit ==
  TypeInv /\ SoundInv /\ OrderInv /\ SomeCommit => OrderInv'
<1> SUFFICES ASSUME TypeInv, SoundInv, OrderInv, SomeCommit PROVE OrderInv'
  OBVIOUS
<1> PICK r \in Natives : CommitMerge(r)
  BY DEF SomeCommit
<1> DEFINE w == merge.work
<1>1. /\ Merging(r) /\ db' = [db EXCEPT ![r] = w] /\ merge' = NoMerge
      /\ UNCHANGED <<deleting, staged, world>>
      /\ w.pending = db[r].pending
  BY CommitMergeForms
<1>2. \A s \in Natives : db'[s] = IF s = r THEN w ELSE db[s]
  BY <1>1 DEF TypeInv, ChecklistTypeOK
<1>3. Births \subseteq Births'
  BY <1>1, <1>2, BirthsGrow
<1>4. \A s \in Natives : ~ Merging(s)'
  BY <1>1, NobodyIsNoDevice DEF Merging, NoMerge
<1>5. ASSUME NEW s \in Natives PROVE OrderlyStore(db'[s], s, world', Births')
  <2>1. OrderlyStore(db'[s], s, world, Births)
    BY <1>1, <1>2 DEF OrderInv
  <2> QED
    BY <1>1, <1>3, <2>1, OrderlyGrows
<1> QED
  BY <1>4, <1>5 DEF OrderInv

\* What is published reports a marker of its device; there is no snapshot.
LEMMA PublishedIsReported ==
  ASSUME TypeInv, SoundInv, BooksInv, InOrder, NEW e \in Published
  PROVE  \E s \in Natives : \E m \in db[s].pending :
           e \in db[s].outbox /\ m \in Marker /\ MarkerFits(m) /\ Reports(e, s, m)
<1>1. PICK s \in Natives : e \in db[s].outbox
  BY DEF Published, Snapshots, InOrder
<1>2. PICK m \in db[s].pending : Reports(e, s, m)
  BY <1>1 DEF BooksInv
<1>3. MarkerFits(m)
  BY DEF SoundInv, MarkersInv, MarkerSound
<1>4. m \in Marker
  BY SequencesAreOld, StoreFields
<1> QED
  BY <1>1, <1>2, <1>3, <1>4

\* The delta that is merged next finds all that it hangs below.
LEMMA MergedHasItsParts ==
  ASSUME TypeInv, SoundInv, CausalInv, NEW r \in Natives, Merging(r),
         NEW e \in merge.todo, e \in Event, IsOldest(e, merge.todo), IsDelta(e),
         OrderlyStore(merge.work, r, world, Births), merge.work.columns,
         NEW q \in Above(e.entity)
  PROVE  \/ q \in merge.work.rows \/ Gone(merge.work, q)
         \/ q = e.entity /\ e.all
<1> DEFINE w == merge.work
<1> SUFFICES ASSUME q \notin w.rows, ~ Gone(w, q), ~ (q = e.entity /\ e.all)
             PROVE  FALSE
  OBVIOUS
<1>1. EventSound(e, Births, Born) /\ e.stamp \in StampOrNone /\ e.stamp.clock \in Nat
  BY EventFacts DEF SoundInv, EventsInv
<1>2. e.entity \in Part
  BY <1>1 DEF EventSound, EventFits, IsDelta, Part
<1>3. q \in Part
  BY <1>2, AncestorFacts DEF Above
<1>4. q \notin world.roots /\ \A h \in News(w, r) : h.entity # q
  BY <1>3 DEF OrderlyStore, AbsentIsUnknown
<1>5. PICK o \in merge.todo : Creates(o, q)
  <2>1. Founded(world.roots, News(w, r), merge.todo, e.entity)
    BY DEF CausalInv
  <2> QED
    BY <1>4, <2>1 DEF Founded, Creates
<1>6. o # e
  BY <1>5 DEF Creates
<1>7. o \in Event /\ EventSound(o, Births, Born)
  BY MergeForms DEF SoundInv, EventsInv
<1>8. o.stamp \in StampOrNone /\ o.stamp.clock \in Nat
  BY <1>7, EventFacts
<1>9. Newer(o.stamp, e.stamp)
  BY <1>6 DEF IsOldest
<1>10. o.stamp.clock >= e.stamp.clock
  BY <1>1, <1>8, <1>9 DEF Newer
<1>11. [part |-> q, seq |-> o.stamp.clock] \in Births
  BY <1>5, <1>7 DEF EventSound, Creates
<1>12. CASE q = e.entity
  <2>1. \A b \in Births : b.part = e.entity => b.seq < e.stamp.clock
    BY <1>1, <1>12 DEF EventSound
  <2>2. o.stamp.clock < e.stamp.clock
    BY <1>11, <1>12, <2>1
  <2> QED
    BY <1>1, <1>8, <1>10, <2>2
<1>13. CASE q \in Ancestors(e.entity)
  <2>1. \A b \in Births : b.part \in Ancestors(e.entity) => b.seq < e.stamp.clock
    BY <1>1, <1>2 DEF EventSound, Rooted
  <2>2. o.stamp.clock < e.stamp.clock
    BY <1>11, <1>13, <2>1
  <2> QED
    BY <1>1, <1>8, <1>10, <2>2
<1> QED
  BY <1>12, <1>13 DEF Above

LEMMA OrderMerge ==
  TypeInv /\ SoundInv /\ BooksInv /\ InOrder /\ QuietInv /\ CausalInv /\ OrderInv /\ SomeMerge
    => OrderInv'
<1> SUFFICES ASSUME TypeInv, SoundInv, BooksInv, InOrder, QuietInv, CausalInv, OrderInv,
                    SomeMerge
             PROVE  OrderInv'
  OBVIOUS
<1> PICK r \in Natives : \E e \in merge.todo : MergeEvent(r, e)
  BY DEF SomeMerge
<1> PICK e \in merge.todo : MergeEvent(r, e)
  OBVIOUS
<1> DEFINE w == merge.work
           n == merge'.work
<1>1. /\ Merging(r) /\ w \in Store /\ e \in Event /\ merge'.at = r
      /\ n = IF e \in w.seen THEN w ELSE ApplyRemoteEvent(w, e)
      /\ Sound(w, Births, Born) /\ IsOldest(e, merge.todo)
      /\ e \notin w.seen => ~ Rejects(w, e)
      /\ EventSound(e, Births, Born) /\ e.stamp.clock <= w.clock
      /\ UNCHANGED <<db, deleting, staged, world>>
  BY MergeEventForms
<1> HIDE DEF n
<1>2. OrderlyStore(w, r, world, Births)
  BY <1>1 DEF OrderInv
<1>3. w.outbox = db[r].outbox /\ w.pending = db[r].pending /\ r \in Replicas
      /\ Births \in SUBSET Birth
  BY <1>1, WorkFacts, NobodyIsNoDevice, BirthFacts DEF SoundInv
<1>4. Unmaterialized(w, r) = {}
  <2>1. Unmaterialized(db[r], r) = {}
    BY <1>1 DEF QuietInv, Quiet
  <2> QED
    BY <1>3, <2>1 DEF Unmaterialized
<1>5. \A o \in KnownBy(w) : Header(o) \in News(w, r)
  <2> SUFFICES ASSUME NEW o \in KnownBy(w) PROVE Header(o) \in News(w, r)
    OBVIOUS
  <2>1. CASE o \in w.seen
    BY <2>1 DEF News
  <2>2. CASE o \in w.outbox
    <3>1. PICK m \in w.pending : Reports(o, r, m)
      BY <1>3, <2>2 DEF BooksInv
    <3>2. o.all \in BOOLEAN
      BY <1>1, <2>2, StoreFields, EventFacts
    <3>3. /\ o.stamp = [clock |-> m.seq, replica |-> r] /\ o.op = OpOf(m.kind)
          /\ o.entity = m.entity /\ o.all = (m.kind \in CreationKind)
      BY <3>1, <3>2 DEF Reports
    <3>4. Header(o) = MarkerHeader(m, r)
      BY <3>3 DEF Header, MarkerHeader
    <3> QED
      BY <3>4 DEF News
  <2> QED
    BY <2>1, <2>2 DEF KnownBy
<1>6. e.op # "board.snapshot" /\ (e.op = "card.put" => e.all)
  <2>1. e \in Published
    BY DEF BooksInv
  <2>2. PICK s \in Natives : \E m \in db[s].pending : m \in Marker /\ Reports(e, s, m)
    BY <2>1, PublishedIsReported
  <2> PICK m \in db[s].pending : m \in Marker /\ Reports(e, s, m)
    BY <2>2
  <2>3. m.kind \in MarkerKind
    BY DEF Marker
  <2> QED
    BY <2>3 DEF Reports, OpOf, MarkerKind, CreationKind
<1>7. Expects(w, r, world, Births, Born, e)
  BY <1>1, <1>2, <1>4, <1>5, MergedHasItsParts DEF Expects
<1>8. OrderlyStore(n, r, world, Births)
  <2>1. CASE e \in w.seen
    BY <1>1, <1>2, <2>1
  <2>2. CASE e \notin w.seen
    BY <1>1, <1>3, <1>6, <1>7, <2>2, MergedOrderly
  <2> QED
    BY <2>1, <2>2
<1>9. Births' = Births
  BY <1>1 DEF Births, Creations
<1>10. \A s \in Natives : Merging(s)' => s = r
  BY <1>1 DEF Merging
<1> QED
  BY <1>1, <1>8, <1>9, <1>10 DEF OrderInv, n

LEMMA OrderNext ==
  TypeInv /\ SoundInv /\ SoundInv' /\ BooksInv /\ InOrder /\ QuietInv /\ CausalInv /\ OrderInv
    /\ [Next]_vars => OrderInv'
BY StepForms, OrderDrop, OrderEdit, OrderReserve, OrderBury, OrderPublish, OrderOpen,
   OrderMerge, OrderCommit

\* The world is chosen once, and the orderly ones stay orderly.
LEMMA WorldStays == [Next]_vars => UNCHANGED world
BY DEF Next, vars, Editor, Sync, Crash, CreateCard, CreateChecklist, CreateChecklistItem,
       SetChecklistItemDone, SetAppearance, ReserveDelete, CommitDelete, Materialize,
       StageBatch, OpenMerge, MergeEvent, AbortMerge, CommitMerge, Commit

\* The inductive invariant: what holds in every world, and what does in an
\* orderly one.
ChecklistInv == TypeInv /\ SoundInv /\ BooksInv /\ OrderlyInv

LEMMA OrderlyInvariant == Spec => []ChecklistInv
<1>1. Init => ChecklistInv
  BY SoundInit, BooksInit, QuietInit, CausalInit, OrderInit DEF OrderlyInv, ChecklistInv
<1>2. ChecklistInv /\ [Next]_vars => ChecklistInv'
  <2> SUFFICES ASSUME ChecklistInv, [Next]_vars PROVE ChecklistInv'
    OBVIOUS
  <2>1. TypeInv' /\ SoundInv' /\ BooksInv'
    BY SoundNext, BooksNext DEF ChecklistInv
  <2>2. InOrder' => InOrder
    BY WorldStays DEF InOrder
  <2>3. InOrder => QuietInv' /\ CausalInv' /\ OrderInv'
    BY <2>1, QuietNext, CausalNext, OrderNext DEF OrderlyInv, ChecklistInv
  <2> QED
    BY <2>1, <2>2, <2>3 DEF OrderlyInv, ChecklistInv
<1> QED
  BY <1>1, <1>2, PTL DEF Spec

\* No two changes of a device take one clock, not even while a delete waits
\* for its second transaction, so no two published events carry one stamp.
THEOREM StampsAreUsedOnce == Spec => []ChangesHaveTheirOwnStamps
<1>1. ASSUME ChecklistInv, NEW s \in Natives, NEW e \in db[s].outbox
      PROVE  e.stamp.replica = s /\ e \notin Snapshots
  <2>1. e.stamp.replica = s
    BY <1>1, SequencesAreOld DEF ChecklistInv
  <2>2. \A o \in Snapshots : o.stamp.replica \notin Natives
    BY DEF Snapshots, Snapshot
  <2> QED
    BY <2>1, <2>2
<1>2. ASSUME ChecklistInv, NEW e \in Published, NEW o \in Published,
             e.stamp = o.stamp
      PROVE  e = o
  <2>1. \A f \in Snapshots : /\ f.stamp.replica \notin Natives
                             /\ f = Snapshot(f.stamp.replica)
    BY DEF Snapshots, Snapshot
  <2>2. CASE e.stamp.replica \in Natives
    <3>1. /\ e \in db[e.stamp.replica].outbox
          /\ o \in db[e.stamp.replica].outbox
      BY <1>1, <1>2, <2>1, <2>2, PublishedAre
    <3> QED
      BY <1>2, <2>2, <3>1 DEF ChecklistInv, BooksInv
  <2>3. CASE e.stamp.replica \notin Natives
    <3>1. e \in Snapshots /\ o \in Snapshots
      BY <1>1, <1>2, <2>3, PublishedAre
    <3> QED
      BY <1>2, <2>1, <3>1
  <2> QED
    BY <2>2, <2>3
<1>3. ChecklistInv => ChangesHaveTheirOwnStamps
  BY <1>2 DEF ChecklistInv, BooksInv, ChangesHaveTheirOwnStamps
<1> QED
  BY <1>3, OrderlyInvariant, PTL

-----------------------------------------------------------------------------
(* What the devices show.                                                  *)

\* What a device knows has been published, and a stamp names one event.
LEMMA KnownFacts ==
  ASSUME TypeInv, SoundInv, BooksInv, InOrder, NEW r \in Natives
  PROVE  /\ Known(r) = KnownBy(db[r]) /\ Known(r) \subseteq Published
         /\ \A e \in Published : e \in Event /\ EventFits(e) /\ e.stamp \in Stamp
         /\ \A e, o \in Published : e.stamp = o.stamp => e = o
<1>1. Known(r) = KnownBy(db[r]) /\ Known(r) \subseteq Published
  BY DEF Known, KnownBy, BooksInv, Published
<1>2. ASSUME NEW e \in Published
      PROVE  /\ e \in Event /\ EventFits(e) /\ e.stamp \in Stamp
             /\ e.stamp.replica \in Natives /\ e \in db[e.stamp.replica].outbox
  <2>1. PICK s \in Natives : e \in db[s].outbox
    BY DEF Published, Snapshots, InOrder
  <2>2. e \in Event /\ e.stamp \in Stamp
    BY <2>1, SequencesAreOld, StoreFields, EventFacts
  <2>3. EventFits(e)
    BY <2>1 DEF SoundInv, EventsInv, EventSound
  <2>4. e.stamp.replica = s
    BY <2>1, SequencesAreOld
  <2> QED
    BY <2>1, <2>2, <2>3, <2>4
<1>3. ASSUME NEW e \in Published, NEW o \in Published, e.stamp = o.stamp
      PROVE  e = o
  BY <1>2, <1>3 DEF BooksInv
<1> QED
  BY <1>1, <1>2, <1>3

\* A marker that is not unmaterialized has its event.
LEMMA MaterializedMarker ==
  ASSUME TypeInv, SoundInv, BooksInv, NEW r \in Natives, NEW m \in db[r].pending,
         Unmaterialized(db[r], r) = {}
  PROVE  \E e \in db[r].outbox : Reports(e, r, m)
<1>1. PICK e \in db[r].outbox : e.stamp = [clock |-> m.seq, replica |-> r]
  BY DEF Unmaterialized
<1>2. PICK o \in db[r].pending : Reports(e, r, o)
  BY DEF BooksInv
<1>3. e.stamp.clock = m.seq /\ e.stamp.clock = o.seq
  BY <1>1, <1>2 DEF Reports
<1>4. o = m
  BY <1>3 DEF BooksInv
<1> QED
  BY <1>2, <1>4

\* Once all is materialized, the news of a device are exactly what it knows.
LEMMA NewsAreKnown ==
  ASSUME TypeInv, SoundInv, BooksInv, NEW r \in Natives,
         Unmaterialized(db[r], r) = {}
  PROVE  News(db[r], r) = {Header(e) : e \in KnownBy(db[r])}
<1>1. ASSUME NEW h \in News(db[r], r)
      PROVE  \E e \in KnownBy(db[r]) : h = Header(e)
  <2>1. CASE \E e \in db[r].seen : h = Header(e)
    BY <2>1 DEF KnownBy
  <2>2. CASE \E m \in db[r].pending : h = MarkerHeader(m, r)
    <3>1. PICK m \in db[r].pending : h = MarkerHeader(m, r)
      BY <2>2
    <3>2. PICK e \in db[r].outbox : Reports(e, r, m)
      BY MaterializedMarker
    <3>3. e.all \in BOOLEAN
      BY SequencesAreOld, StoreFields, EventFacts
    <3>4. /\ e.stamp = [clock |-> m.seq, replica |-> r] /\ e.op = OpOf(m.kind)
          /\ e.entity = m.entity /\ e.all = (m.kind \in CreationKind)
      BY <3>2, <3>3 DEF Reports
    <3>5. h = Header(e)
      BY <3>1, <3>4 DEF Header, MarkerHeader
    <3> QED
      BY <3>5 DEF KnownBy
  <2> QED
    BY <2>1, <2>2 DEF News
<1> QED
  BY <1>1, KnownIsNews

\* Of two orderly stores with the same news, each shows the parts of the other.
LEMMA PartsAgree ==
  ASSUME NEW d \in Store, NEW n \in Store, NEW r \in Replicas, NEW s \in Replicas,
         NEW w, NEW B, NEW G, w.content = "full",
         OrderlyStore(d, r, w, B), OrderlyStore(n, s, w, B),
         Sound(d, B, G), News(d, r) = News(n, s)
  PROVE  d.rows \subseteq n.rows
<1> SUFFICES ASSUME NEW p \in d.rows, p \notin n.rows PROVE FALSE
  OBVIOUS
<1>1. p \in Part /\ d.columns /\ n.columns
  BY StoreFields DEF OrderlyStore
<1>2. \A q \in Above(p) : /\ q \in Part /\ q \in d.rows /\ ~ Buried(d, q)
                         /\ Ancestors(q) \subseteq d.rows
  BY <1>1, AncestorFacts DEF Above, Sound
<1>3. p \in w.roots \/ \E h \in News(n, s) : h.entity = p
  BY DEF OrderlyStore, ShownIsCreated, Creates
<1>4. PICK q \in Above(p) : Buried(n, q)
  BY <1>1, <1>3 DEF OrderlyStore, AbsentIsUnknown, Gone
<1>5. PICK h \in News(n, s) : h.entity = q /\ IsDelete(h)
  BY <1>2, <1>4 DEF OrderlyStore, TombsHold
<1>6. \/ ~ Newer(h.stamp, d.tomb[q])
      \/ \E c \in Ancestors(q) \cap Cards : Buried(d, c)
  BY <1>1, <1>5 DEF OrderlyStore, TombsHold
<1>7. \A c \in Ancestors(q) : ~ Buried(d, c)
  BY <1>2 DEF Sound
<1>8. d.tomb[q] = NoStamp
  BY <1>2 DEF Buried
<1>9. Newer(h.stamp, NoStamp)
  BY <1>5, NewsFacts, StampOrder
<1> QED
  BY <1>6, <1>7, <1>8, <1>9

\* Newer is total.
LEMMA EqualStamps ==
  ASSUME NEW a \in Stamp, NEW b \in Stamp, ~ Newer(a, b), ~ Newer(b, a)
  PROVE  a = b
<1>1. /\ a = [clock |-> a.clock, replica |-> a.replica]
      /\ b = [clock |-> b.clock, replica |-> b.replica]
      /\ a.clock \in Nat /\ b.clock \in Nat
      /\ a.replica \in Nat /\ b.replica \in Nat
  BY StampOrder DEF Stamp
<1>2. a.clock = b.clock /\ a.replica = b.replica
  BY <1>1 DEF Newer
<1> QED
  BY <1>1, <1>2

\* Stamps tell the events of E apart.
Identified(E) == \A e, o \in E : e.stamp \in Stamp /\ (e.stamp = o.stamp => e = o)

\* A register that knows no more than another and has been written by an event
\* that is not older than the version of the other shows the same.
LEMMA RegistersAgree ==
  ASSUME NEW d, NEW n, NEW p, Holds(d, p), Holds(n, p),
         Writes(d, p) \subseteq Writes(n, p), Identified(Writes(n, p)),
         NEW e \in Writes(d, p), ~ Newer(n.ver[p][RegisterOf(p)], e.stamp)
  PROVE  IF p = Board THEN d.appearance = n.appearance
                      ELSE p \in d.done <=> p \in n.done
<1>1. PICK x \in Writes(d, p) : /\ \A o \in Writes(d, p) : ~ Newer(o.stamp, x.stamp)
                                /\ Shows(d, x)
  BY DEF Holds
<1>2. PICK y \in Writes(n, p) : /\ \A o \in Writes(n, p) : ~ Newer(o.stamp, y.stamp)
                                /\ n.ver[p][RegisterOf(p)] = y.stamp
                                /\ Shows(n, y)
  BY DEF Holds
<1>3. y.stamp \in Stamp /\ x.stamp \in Stamp /\ e.stamp \in Stamp
  BY DEF Identified
<1>4. y.stamp = e.stamp
  BY <1>2, <1>3, EqualStamps
<1>5. y = e
  BY <1>4 DEF Identified
<1>6. x.stamp = y.stamp
  BY <1>1, <1>2, <1>3, <1>5, EqualStamps
<1>7. x = y
  BY <1>6 DEF Identified
<1>8. x.entity = p
  BY DEF Writes
<1> QED
  BY <1>1, <1>2, <1>7, <1>8 DEF Shows

\* The same writes leave the same register.
LEMMA RegistersConverge ==
  ASSUME NEW d, NEW n, NEW p, Holds(d, p), Holds(n, p),
         Writes(d, p) = Writes(n, p), Identified(Writes(n, p))
  PROVE  IF p = Board THEN d.appearance = n.appearance
                      ELSE p \in d.done <=> p \in n.done
<1>1. CASE Writes(n, p) = {}
  BY <1>1 DEF Holds, Untold
<1>2. CASE Writes(n, p) # {}
  <2>1. PICK y \in Writes(n, p) : n.ver[p][RegisterOf(p)] = y.stamp
    BY <1>2 DEF Holds
  <2>2. y.stamp \in StampOrNone
    BY StampOrder DEF Identified
  <2>3. ~ Newer(n.ver[p][RegisterOf(p)], y.stamp)
    BY <2>1, <2>2, StampsCompare
  <2> QED
    BY <2>3, RegistersAgree
<1> QED
  BY <1>1, <1>2

\* All of the above, about a device without a backlog.
LEMMA SettledFacts ==
  ASSUME ChecklistInv, InOrder, NEW r \in Natives, Unmaterialized(db[r], r) = {}
  PROVE  LET d == db[r]
         IN  /\ d \in Store /\ r \in Replicas /\ Sound(d, Births, Born)
             /\ OrderlyStore(d, r, world, Births)
             /\ News(d, r) = {Header(e) : e \in KnownBy(d)}
             /\ Known(r) = KnownBy(d) /\ Known(r) \subseteq Published
             /\ \A e \in Known(r) : e \in Event /\ EventFits(e)
             /\ Identified(Known(r))
             /\ \A p \in Edited : Live(d, p) => Holds(d, p)
<1> USE DEF ChecklistInv
<1>1. /\ db[r] \in Store /\ r \in Replicas /\ Sound(db[r], Births, Born)
      /\ OrderlyStore(db[r], r, world, Births)
  BY SequencesAreOld DEF SoundInv, StoresInv, OrderlyInv, OrderInv
<1>2. /\ Known(r) = KnownBy(db[r]) /\ Known(r) \subseteq Published
      /\ \A e \in Published : e \in Event /\ EventFits(e) /\ e.stamp \in Stamp
      /\ \A e, o \in Published : e.stamp = o.stamp => e = o
  BY KnownFacts
<1>3. Identified(Known(r)) /\ \A e \in Known(r) : e \in Event /\ EventFits(e)
  BY <1>2 DEF Identified
<1>4. \A p \in Edited : Live(db[r], p) => Holds(db[r], p)
  <2>1. \A p, f : Writers(db[r], r, p, f) = {}
    BY DEF Writers
  <2> QED
    BY <1>1, <2>1 DEF OrderlyStore, RegistersHold
<1>5. News(db[r], r) = {Header(e) : e \in KnownBy(db[r])}
  BY NewsAreKnown
<1> QED
  BY <1>1, <1>2, <1>3, <1>4, <1>5

LEMMA WritesOfKnown ==
  ASSUME NEW d, NEW n, KnownBy(d) \subseteq KnownBy(n), NEW p
  PROVE  Writes(d, p) \subseteq Writes(n, p)
BY DEF Writes

LEMMA EditedParts == Board \in Edited /\ Items \subseteq Edited /\ Board \notin Items
BY PartsAssumption DEF Edited, Part

\* Devices that know the same events show the same cards, checklists, items,
\* check marks and appearance, whatever the order and the batches in which
\* apply_remote_batch merged them.
THEOREM DevicesConverge == Spec => []PartsConverge
<1>1. ChecklistInv => PartsConverge
  <2> SUFFICES ASSUME ChecklistInv, NEW r \in Natives, NEW s \in Natives, InOrder,
                      world.content = "full", Settled(r), Settled(s), Known(r) = Known(s)
               PROVE  /\ db[r].rows = db[s].rows
                      /\ db[r].done = db[s].done
                      /\ db[r].appearance = db[s].appearance
    BY DEF PartsConverge
  <2> DEFINE d == db[r]
             n == db[s]
  <2>1. /\ d \in Store /\ r \in Replicas /\ Sound(d, Births, Born)
        /\ OrderlyStore(d, r, world, Births)
        /\ News(d, r) = {Header(e) : e \in KnownBy(d)}
        /\ Known(r) = KnownBy(d)
        /\ \A p \in Edited : Live(d, p) => Holds(d, p)
    BY SettledFacts DEF Settled
  <2>2. /\ n \in Store /\ s \in Replicas /\ Sound(n, Births, Born)
        /\ OrderlyStore(n, s, world, Births)
        /\ News(n, s) = {Header(e) : e \in KnownBy(n)}
        /\ Known(s) = KnownBy(n) /\ Identified(Known(s))
        /\ \A p \in Edited : Live(n, p) => Holds(n, p)
    BY SettledFacts DEF Settled
  <2>3. KnownBy(d) = KnownBy(n)
    BY <2>1, <2>2
  <2>4. News(d, r) = News(n, s)
    BY <2>1, <2>2, <2>3
  <2>5. d.rows \subseteq n.rows
    BY <2>1, <2>2, <2>4, PartsAgree
  <2>6. n.rows \subseteq d.rows
    BY <2>1, <2>2, <2>4, PartsAgree
  <2>7. ASSUME NEW p \in Edited, Live(d, p), Live(n, p)
        PROVE  IF p = Board THEN d.appearance = n.appearance
                            ELSE p \in d.done <=> p \in n.done
    <3>1. Writes(d, p) = Writes(n, p)
      BY <2>3, WritesOfKnown
    <3>2. Identified(Writes(n, p))
      BY <2>2 DEF Writes, Identified
    <3> QED
      BY <2>1, <2>2, <2>7, <3>1, <3>2, RegistersConverge
  <2>8. d.appearance = n.appearance
    BY <2>7, EditedParts DEF Live
  <2>9. d.done \subseteq Items /\ n.done \subseteq Items
    BY <2>1, <2>2, StoreFields
  <2>10. d.done \subseteq d.rows /\ n.done \subseteq n.rows
    BY <2>1, <2>2 DEF Sound
  <2>11. \A p : p \in d.done <=> p \in n.done
    BY <2>5, <2>6, <2>7, <2>9, <2>10, EditedParts DEF Live
  <2> QED
    BY <2>5, <2>6, <2>8, <2>11
<1> QED
  BY <1>1, OrderlyInvariant, PTL

\* The tombstone of a checklist or item on a live card is its newest known
\* delete, whether it was made here or merged.
THEOREM TombsAreNewestDeletes == Spec => []PartTombIsNewestDelete
<1>1. ChecklistInv => PartTombIsNewestDelete
  <2> SUFFICES ASSUME ChecklistInv, NEW r \in Natives, NEW p \in Lists \cup Items, InOrder,
                      Settled(r), Ancestors(p) \cap Cards \subseteq db[r].rows,
                      NEW e \in Known(r), e.entity = p, e.op = "delta.delete"
               PROVE  ~ Newer(e.stamp, db[r].tomb[p])
    BY DEF PartTombIsNewestDelete
  <2> DEFINE d == db[r]
  <2>1. /\ Sound(d, Births, Born) /\ OrderlyStore(d, r, world, Births)
        /\ Header(e) \in News(d, r)
    BY SettledFacts DEF Settled
  <2>2. /\ Header(e).stamp = e.stamp /\ Header(e).entity = p /\ IsDelete(Header(e))
    BY DEF Header, IsDelete
  <2>3. d.columns
    <3>1. PICK c \in Cards : c \in Ancestors(p)
      BY AncestorFacts
    <3> QED
      BY <2>1, <3>1 DEF OrderlyStore, AbsentIsUnknown
  <2>4. \A c \in Ancestors(p) \cap Cards : ~ Buried(d, c)
    BY <2>1 DEF Sound
  <2> QED
    BY <2>1, <2>2, <2>3, <2>4 DEF OrderlyStore, TombsHold
<1> QED
  BY <1>1, OrderlyInvariant, PTL

\* The check mark of a live item is that of its newest known event: a merge
\* compares versions, and materializing records those of the local edits.
THEOREM MarksAreTheNewest == Spec => []NewestMarkWins
<1>1. ChecklistInv => NewestMarkWins
  <2> SUFFICES ASSUME ChecklistInv, NEW r \in Natives, NEW i \in Items \cap db[r].rows,
                      InOrder, Settled(r),
                      {e \in Known(r) : e.entity = i /\ e.op = "delta.put"} # {}
               PROVE  \E e \in {e \in Known(r) : e.entity = i /\ e.op = "delta.put"} :
                        /\ \A o \in {o \in Known(r) : o.entity = i /\ o.op = "delta.put"} :
                             ~ Newer(o.stamp, e.stamp)
                        /\ e.isDone <=> i \in db[r].done
    BY DEF NewestMarkWins
  <2> DEFINE d == db[r]
             marks == {e \in Known(r) : e.entity = i /\ e.op = "delta.put"}
  <2>1. /\ Known(r) = KnownBy(d) /\ \A e \in Known(r) : EventFits(e)
        /\ \A p \in Edited : Live(d, p) => Holds(d, p)
    BY SettledFacts DEF Settled
  <2>2. i \in Edited /\ Live(d, i) /\ i # Board
    BY EditedParts DEF Live
  <2>3. Writes(d, i) = marks
    BY <2>1, <2>2 DEF Writes, EventFits
  <2>4. PICK e \in marks : /\ \A o \in marks : ~ Newer(o.stamp, e.stamp)
                           /\ Shows(d, e)
    BY <2>1, <2>2, <2>3 DEF Holds
  <2> QED
    BY <2>2, <2>4 DEF Shows
<1> QED
  BY <1>1, OrderlyInvariant, PTL

\* No mark of an item that stays, and no appearance, changes.
Unchanging(d, n) ==
  /\ n.appearance = d.appearance
  /\ \A i \in Items \cap d.rows \cap n.rows : (i \in d.done) <=> (i \in n.done)

\* Only the commit of a merge changes a mark or the appearance without a marker.
LEMMA OnlyMergesChangeMarks ==
  ASSUME ChecklistInv, [Next]_vars, NEW r \in Natives, db'[r].pending = db[r].pending
  PROVE  Unchanging(db[r], db'[r]) \/ CommitMerge(r)
<1> TypeInv /\ SoundInv /\ BooksInv
  BY DEF ChecklistInv
<1>1. ASSUME db'[r] = db[r] PROVE Unchanging(db[r], db'[r])
  BY <1>1 DEF Unchanging
<1>2. ASSUME NEW s \in Natives, NEW n, db' = [db EXCEPT ![s] = n], s # r
      PROVE  Unchanging(db[r], db'[r])
  <2>1. db'[r] = db[r]
    BY <1>2 DEF TypeInv, ChecklistTypeOK
  <2> QED
    BY <1>1, <2>1
<1>3. CASE Dropped \/ SomeOpen \/ SomeMerge
  <2>1. UNCHANGED db
    BY <1>3 DEF Dropped, SomeOpen, OpenMerge, SomeMerge, MergeEvent
  <2> QED
    BY <1>1, <2>1
<1>4. CASE SomeEdit
  <2> PICK s \in Natives, n \in Store :
        \E kind \in MarkerKind : \E p \in Part \cup {Board} : EditStep(s, n, kind, p)
    BY <1>4 DEF SomeEdit
  <2> PICK kind \in MarkerKind, p \in Part \cup {Board} : EditStep(s, n, kind, p)
    OBVIOUS
  <2> DEFINE m == [seq |-> db[s].clock + 1, kind |-> kind, entity |-> p]
  <2>1. /\ m \in Marker /\ MarkerFits(m)
        /\ n.pending = db[s].pending \cup {m}
        /\ \A o \in db[s].pending : o.seq < m.seq
        /\ db' = [db EXCEPT ![s] = n]
    BY EditMarker
  <2>2. m \notin db[s].pending
    <3>1. m.seq \in Nat
      BY <2>1 DEF Marker
    <3> HIDE DEF m
    <3> QED
      BY <2>1, <3>1
  <2> HIDE DEF m
  <2>3. s # r
    BY <2>1, <2>2 DEF TypeInv, ChecklistTypeOK
  <2> QED
    BY <1>2, <2>1, <2>3
<1>5. CASE SomeReserve
  <2> PICK s \in Natives : \E p \in Part : ReserveDelete(s, p)
    BY <1>5 DEF SomeReserve
  <2>1. SameBut(db[s], db'[s]) /\ db' = [db EXCEPT ![s] = db'[s]]
    BY ReserveForms
  <2>2. CASE s = r
    BY <2>1, <2>2 DEF SameBut, Unchanging
  <2>3. CASE s # r
    BY <1>2, <2>1, <2>3
  <2> QED
    BY <2>2, <2>3
<1>6. CASE SomeBury
  <2> PICK s \in Natives : \E v \in deleting[s] : BuryStep(s, v)
    BY <1>6 DEF SomeBury
  <2> PICK v \in deleting[s] : BuryStep(s, v)
    OBVIOUS
  <2>1. /\ db' = [db EXCEPT ![s] = db'[s]] /\ db'[s].appearance = db[s].appearance
        /\ db'[s].rows = db[s].rows \ Subtree(v.part)
        /\ db'[s].done = db[s].done \ Subtree(v.part)
    BY BuryMarker
  <2>2. CASE s = r
    BY <2>1, <2>2 DEF Unchanging
  <2>3. CASE s # r
    BY <1>2, <2>1, <2>3
  <2> QED
    BY <2>2, <2>3
<1>7. CASE SomePublish
  <2> PICK s \in Natives : \E batch \in SUBSET Event : PublishStep(s, batch)
    BY <1>7 DEF SomePublish
  <2> PICK batch \in SUBSET Event : PublishStep(s, batch)
    OBVIOUS
  <2>1. /\ db' = [db EXCEPT ![s] = db'[s]]
        /\ db'[s].done = db[s].done /\ db'[s].appearance = db[s].appearance
    BY PublishForms
  <2>2. CASE s = r
    BY <2>1, <2>2 DEF Unchanging
  <2>3. CASE s # r
    BY <1>2, <2>1, <2>3
  <2> QED
    BY <2>2, <2>3
<1>8. CASE SomeCommit
  <2> PICK s \in Natives : CommitMerge(s)
    BY <1>8 DEF SomeCommit
  <2> QED
    BY <1>2 DEF CommitMerge
<1> QED
  BY <1>3, <1>4, <1>5, <1>6, <1>7, <1>8, StepForms

\* A merge that replaces what a marker of this device recorded brings a newer
\* version.
LEMMA MergesKeepNewerMarks ==
  ASSUME ChecklistInv, ChecklistInv', [Next]_vars, InOrder, NEW r \in Natives, CommitMerge(r),
         NEW p \in Edited, Live(db[r], p), Live(db'[r], p),
         NEW m \in db[r].pending, m.entity = p,
         OpOf(m.kind) \in {"delta.put", "board.appearance.put"},
         ~ Newer(db'[r].ver[p][RegisterOf(p)], [clock |-> m.seq, replica |-> r])
  PROVE  IF p = Board THEN db[r].appearance = db'[r].appearance
                      ELSE p \in db[r].done <=> p \in db'[r].done
<1> USE DEF ChecklistInv
<1> DEFINE d == db[r]
           n == db'[r]
<1>1. /\ Merging(r) /\ n = merge.work /\ n.outbox = d.outbox /\ n.pending = d.pending
  BY CommitMergeForms
<1>2. Unmaterialized(d, r) = {} /\ d.seen \subseteq n.seen
  BY <1>1 DEF OrderlyInv, QuietInv, Quiet
<1>3. Unmaterialized(n, r) = {}
  BY <1>1, <1>2 DEF Unmaterialized
<1>4. KnownBy(d) \subseteq KnownBy(n) /\ KnownBy(n) \subseteq Published
  BY <1>1, <1>2 DEF KnownBy, BooksInv, Published
<1>5. Identified(KnownBy(n))
  BY <1>4, KnownFacts DEF Identified
<1>6. Holds(d, p)
  BY <1>2, SettledFacts
<1>7. Holds(n, p)
  <2>1. InOrder'
    BY WorldStays DEF InOrder
  <2>2. OrderlyStore(n, r, world', Births')
    BY <2>1 DEF OrderlyInv, OrderInv
  <2>3. \A f : Writers(n, r, p, f) = {}
    BY <1>3 DEF Writers
  <2> QED
    BY <2>2, <2>3 DEF OrderlyStore, RegistersHold
<1>8. PICK e \in d.outbox : Reports(e, r, m)
  BY <1>2, MaterializedMarker
<1>9. e \in Writes(d, p) /\ e.stamp = [clock |-> m.seq, replica |-> r]
  BY <1>8 DEF Reports, Writes, KnownBy
<1>10. Writes(d, p) \subseteq Writes(n, p)
  BY <1>4, WritesOfKnown
<1>11. Identified(Writes(n, p))
  BY <1>5 DEF Identified, Writes
<1> HIDE DEF d, n
<1>12. IF p = Board THEN d.appearance = n.appearance ELSE p \in d.done <=> p \in n.done
  BY <1>6, <1>7, <1>9, <1>10, <1>11, RegistersAgree DEF n
<1> QED
  BY <1>12 DEF d, n

\* A merge replaces a mark or an appearance that was set here only with one that
\* is newer than every local edit of it, published or not.
THEOREM NewerLocalMarksStay == Spec => LocalMarksSurvive
<1> DEFINE kept ==
      \A r \in Natives :
       (InOrder /\ db'[r].pending = db[r].pending) =>
         /\ \A i \in Items \cap db[r].rows \cap db'[r].rows :
              (i \in db[r].done) # (i \in db'[r].done) =>
                \A m \in db[r].pending :
                  (m.entity = i /\ "isDone" \in WrittenFields(m.kind)) =>
                    Newer(db'[r].ver[i]["isDone"], [clock |-> m.seq, replica |-> r])
         /\ db'[r].appearance # db[r].appearance =>
              \A m \in db[r].pending :
                m.entity = Board =>
                  Newer(db'[r].ver[Board]["appearance"],
                        [clock |-> m.seq, replica |-> r])
<1>1. ChecklistInv /\ ChecklistInv' /\ [Next]_vars => kept
  <2> SUFFICES ASSUME ChecklistInv, ChecklistInv', [Next]_vars, NEW r \in Natives, InOrder,
                      db'[r].pending = db[r].pending
               PROVE
         /\ \A i \in Items \cap db[r].rows \cap db'[r].rows :
              (i \in db[r].done) # (i \in db'[r].done) =>
                \A m \in db[r].pending :
                  (m.entity = i /\ "isDone" \in WrittenFields(m.kind)) =>
                    Newer(db'[r].ver[i]["isDone"], [clock |-> m.seq, replica |-> r])
         /\ db'[r].appearance # db[r].appearance =>
              \A m \in db[r].pending :
                m.entity = Board =>
                  Newer(db'[r].ver[Board]["appearance"],
                        [clock |-> m.seq, replica |-> r])
    OBVIOUS
  <2>1. CASE Unchanging(db[r], db'[r])
    BY <2>1 DEF Unchanging
  <2>2. CASE CommitMerge(r)
    <3>1. ASSUME NEW i \in Items \cap db[r].rows \cap db'[r].rows,
                 (i \in db[r].done) # (i \in db'[r].done),
                 NEW m \in db[r].pending, m.entity = i,
                 "isDone" \in WrittenFields(m.kind)
          PROVE  Newer(db'[r].ver[i]["isDone"], [clock |-> m.seq, replica |-> r])
      <4>1. i \in Edited /\ i # Board /\ Live(db[r], i) /\ Live(db'[r], i)
            /\ RegisterOf(i) = "isDone"
        BY EditedParts DEF Live, RegisterOf
      <4>2. OpOf(m.kind) = "delta.put"
        BY <3>1 DEF WrittenFields, OpOf
      <4>3. ~ (i \in db[r].done <=> i \in db'[r].done)
        BY <3>1
      <4> QED
        BY <2>2, <3>1, <4>1, <4>2, <4>3, MergesKeepNewerMarks
    <3>2. ASSUME db'[r].appearance # db[r].appearance,
                 NEW m \in db[r].pending, m.entity = Board
          PROVE  Newer(db'[r].ver[Board]["appearance"], [clock |-> m.seq, replica |-> r])
      <4>1. Board \in Edited /\ Live(db[r], Board) /\ Live(db'[r], Board)
            /\ RegisterOf(Board) = "appearance"
        BY EditedParts DEF Live, RegisterOf
      <4>2. m \in Marker /\ MarkerFits(m)
        BY SequencesAreOld, StoreFields DEF ChecklistInv, SoundInv, MarkersInv, MarkerSound
      <4>3. OpOf(m.kind) = "board.appearance.put"
        BY <3>2, <4>2, PartsAssumption DEF MarkerFits, Marker, MarkerKind, OpOf, Part
      <4> QED
        BY <2>2, <3>2, <4>1, <4>3, MergesKeepNewerMarks
    <3> QED
      BY <3>1, <3>2
  <2> QED
    BY <2>1, <2>2, OnlyMergesChangeMarks
<1>2. ChecklistInv /\ ChecklistInv' /\ [Next]_vars => [kept]_vars
  BY <1>1
<1> QED
  BY <1>2, OrderlyInvariant, PTL DEF Spec, LocalMarksSurvive

=============================================================================
