-------------------------- MODULE RoamingStoreLemmas --------------------------
(***************************************************************************)
(* What the operators of RoamingStore do to a store, whatever the cards,   *)
(* columns, ranks and replicas: each maps a store to a store.              *)
(***************************************************************************)
EXTENDS RoamingStore, WellFoundedInduction, TLAPS

\* Newer is a strict order, total but for ties, with NoStamp at the bottom.
LEMMA StampOrder ==
  /\ \A a \in StampOrNone : a.clock \in Nat /\ a.replica \in Nat
  /\ \A a \in StampOrNone : ~ Newer(a, a)
  /\ \A a, b \in StampOrNone : Newer(a, b) => ~ Newer(b, a)
  /\ \A a, b, c \in StampOrNone : Newer(a, b) /\ ~ Newer(c, b) => ~ Newer(c, a)
  /\ \A a, b \in StampOrNone : Newer(a, b) => a # NoStamp
<1>1. ASSUME NEW a \in StampOrNone
      PROVE  a.clock \in Nat /\ a.replica \in Nat
  <2>1. CASE a \in Stamp
    BY <2>1, ReplicasAssumption DEF Stamp
  <2>2. CASE a = NoStamp
    BY <2>2 DEF NoStamp
  <2> QED
    BY <2>1, <2>2 DEF StampOrNone
<1>2. \A a \in StampOrNone : ~ Newer(a, a)
  BY <1>1 DEF Newer
<1>3. \A a, b \in StampOrNone : Newer(a, b) => ~ Newer(b, a)
  BY <1>1 DEF Newer
<1>4. \A a, b, c \in StampOrNone : Newer(a, b) /\ ~ Newer(c, b) => ~ Newer(c, a)
  BY <1>1 DEF Newer
<1>5. \A a, b \in StampOrNone : Newer(a, b) => a # NoStamp
  BY <1>1 DEF Newer, NoStamp
<1> QED
  BY <1>1, <1>2, <1>3, <1>4, <1>5

USE DEF Store

\* A profile that has not been edited is a store.
LEMMA EmptyStoreType ==
  ASSUME NEW K \in SUBSET Columns, NEW past \in Nat
  PROVE  EmptyStore(K, past) \in Store
  BY DEF EmptyStore, StampOrNone

LEMMA NextLocalClockType ==
  ASSUME NEW d \in Store
  PROVE  /\ NextLocalClock(d) \in Store
         /\ NextLocalClock(d).clock = d.clock + 1
<1> DEFINE ticked == [d EXCEPT !.clock = @ + 1]
<1>1. ticked \in Store
  OBVIOUS
<1>2. NextLocalClock(d) = [ticked EXCEPT !.minted = TRUE]
  BY DEF NextLocalClock
<1>3. [ticked EXCEPT !.minted = TRUE] \in Store
  BY <1>1
<1>4. NextLocalClock(d).clock = d.clock + 1
  BY DEF NextLocalClock
<1> QED
  BY <1>2, <1>3, <1>4

\* Enqueueing a marker for a card or for a column.
LEMMA EnqueuePendingType ==
  ASSUME NEW d \in Store, NEW kind, NEW entity,
         \/ kind \in CardKind /\ entity \in Cards
         \/ kind = "column.create" /\ entity \in Columns
  PROVE  EnqueuePending(d, kind, entity) \in Store
<1> DEFINE n == NextLocalClock(d)
           m == [seq |-> n.clock, kind |-> kind, entity |-> entity]
<1>1. n \in Store
  BY NextLocalClockType
<1>2. m \in Marker
  BY <1>1 DEF Marker
<1> QED
  BY <1>1, <1>2 DEF EnqueuePending

LEMMA InsertColumnType ==
  ASSUME NEW d \in Store, NEW k \in Columns
  PROVE  InsertColumn(d, k) \in Store
<1>1. [d EXCEPT !.columns = @ \cup {k}] \in Store
  OBVIOUS
<1> QED
  BY <1>1, EnqueuePendingType DEF InsertColumn

LEMMA InsertCardType ==
  ASSUME NEW d \in Store, NEW c \in Cards, NEW slot \in Slot
  PROVE  InsertCard(d, c, slot) \in Store
<1>1. [d EXCEPT !.row[c] = [place |-> slot, archived |-> FALSE]] \in Store
  BY DEF Row
<1> QED
  BY <1>1, EnqueuePendingType DEF InsertCard, CardKind, EditKind

LEMMA PlaceCardType ==
  ASSUME NEW d \in Store, NEW c \in Cards, NEW slot \in Slot, Present(d, c)
  PROVE  PlaceCard(d, c, slot) \in Store
<1>1. d.row[c] \in Row
  BY DEF Present
<1>2. [d EXCEPT !.row[c].place = slot] \in Store
  BY <1>1 DEF Row
<1> QED
  BY <1>2, EnqueuePendingType DEF PlaceCard, CardKind, EditKind

LEMMA ArchiveCardType ==
  ASSUME NEW d \in Store, NEW c \in Cards, NEW archived \in BOOLEAN,
         Present(d, c)
  PROVE  ArchiveCard(d, c, archived) \in Store
<1>1. d.row[c] \in Row
  BY DEF Present
<1>2. [d EXCEPT !.row[c].archived = archived] \in Store
  BY <1>1 DEF Row
<1> QED
  BY <1>2, EnqueuePendingType DEF ArchiveCard, CardKind, EditKind

LEMMA ReorderCardsType ==
  ASSUME NEW d \in Store, NEW c1 \in Cards, NEW c2 \in Cards,
         NEW rank1 \in Ranks, NEW rank2 \in Ranks,
         c1 # c2, Present(d, c1), Present(d, c2)
  PROVE  ReorderCards(d, c1, rank1, c2, rank2) \in Store
<1> DEFINE first  == [d EXCEPT !.row[c1].place.rank = rank1]
           placed == [d EXCEPT !.row[c1].place.rank = rank1,
                               !.row[c2].place.rank = rank2]
<1>1. d.row[c1] \in Row /\ d.row[c2] \in Row
  BY DEF Present
<1>2. placed \in Store
  <2>1. first \in Store /\ first.row[c2] = d.row[c2]
    BY <1>1 DEF Row, Slot
  <2>2. placed = [first EXCEPT !.row[c2].place.rank = rank2]
    OBVIOUS
  <2> QED
    BY <1>1, <2>1, <2>2 DEF Row, Slot
<1>3. EnqueuePending(placed, "card.move", c1) \in Store
  BY <1>2, EnqueuePendingType DEF CardKind, EditKind
<1> QED
  BY <1>3, EnqueuePendingType DEF ReorderCards, CardKind, EditKind

LEMMA BuryCardType ==
  ASSUME NEW d \in Store, NEW r \in Replicas, NEW c \in Cards, NEW seq \in Nat
  PROVE  BuryCard(d, r, c, seq) \in Store
<1>1. [clock |-> seq, replica |-> r] \in StampOrNone
  BY DEF StampOrNone, Stamp
<1>2. [seq |-> seq, kind |-> "card.delete", entity |-> c] \in Marker
  BY DEF Marker, CardKind
<1> QED
  BY <1>1, <1>2 DEF BuryCard

-----------------------------------------------------------------------------
(* What an edit leaves alone, and what it adds: markers of the given       *)
(* kinds, each with a clock of its own that was not in use.                *)

Edited(d, n, kinds) ==
  /\ d.clock < n.clock
  /\ n.tomb = d.tomb
  /\ n.ver = d.ver
  /\ n.outbox = d.outbox
  /\ n.seen = d.seen
  /\ d.pending \subseteq n.pending
  /\ \A m \in n.pending \ d.pending :
       d.clock < m.seq /\ m.seq <= n.clock /\ m.kind \in kinds
  /\ \A m1, m2 \in n.pending \ d.pending : m1.seq = m2.seq => m1 = m2

LEMMA EnqueuePendingEdits ==
  ASSUME NEW d \in Store, NEW kind, NEW entity
  PROVE  /\ Edited(d, EnqueuePending(d, kind, entity), {kind})
         /\ EnqueuePending(d, kind, entity).row = d.row
         /\ \A m \in EnqueuePending(d, kind, entity).pending \ d.pending :
              m.entity = entity
<1> DEFINE n == NextLocalClock(d)
           m == [seq |-> n.clock, kind |-> kind, entity |-> entity]
           q == EnqueuePending(d, kind, entity)
<1>1. /\ n \in Store
      /\ n.clock = d.clock + 1
      /\ n.row = d.row
      /\ n.tomb = d.tomb
      /\ n.ver = d.ver
      /\ n.outbox = d.outbox
      /\ n.seen = d.seen
      /\ n.pending = d.pending
  BY NextLocalClockType DEF NextLocalClock
<1>2. q = [n EXCEPT !.pending = @ \cup {m}]
  BY DEF EnqueuePending
<1>3. /\ q.clock = n.clock
      /\ q.row = n.row
      /\ q.tomb = n.tomb
      /\ q.ver = n.ver
      /\ q.outbox = n.outbox
      /\ q.seen = n.seen
      /\ q.pending = n.pending \cup {m}
  BY <1>1, <1>2
<1>4. m.seq = d.clock + 1 /\ m.kind = kind /\ m.entity = entity
  BY <1>1
<1> HIDE DEF n, m, q
<1>5. Edited(d, q, {kind})
  BY <1>1, <1>3, <1>4 DEF Edited
<1>6. q.row = d.row /\ \A x \in q.pending \ d.pending : x.entity = entity
  BY <1>1, <1>3, <1>4
<1> QED
  BY <1>5, <1>6 DEF q

LEMMA EditedTwice ==
  ASSUME NEW d \in Store, NEW e \in Store, NEW n \in Store, NEW kinds,
         Edited(d, e, kinds), Edited(e, n, kinds)
  PROVE  Edited(d, n, kinds)
<1>1. d.clock \in Nat /\ e.clock \in Nat /\ n.clock \in Nat
  OBVIOUS
<1>2. \A m \in n.pending : m.seq \in Nat
  BY DEF Marker
<1>3. d.clock < n.clock
  BY <1>1 DEF Edited
<1>4. \A m \in n.pending \ d.pending :
        d.clock < m.seq /\ m.seq <= n.clock /\ m.kind \in kinds
  BY <1>1, <1>2 DEF Edited
<1>5. ASSUME NEW m1 \in n.pending \ d.pending, NEW m2 \in n.pending \ d.pending,
             m1.seq = m2.seq
      PROVE  m1 = m2
  <2>1. CASE m1 \in e.pending /\ m2 \in e.pending
    BY <1>5, <2>1 DEF Edited
  <2>2. CASE m1 \notin e.pending /\ m2 \notin e.pending
    BY <1>5, <2>2 DEF Edited
  <2>3. CASE m1 \in e.pending /\ m2 \notin e.pending
    <3>1. m1.seq <= e.clock /\ e.clock < m2.seq
      BY <2>3 DEF Edited
    <3> QED
      BY <1>1, <1>2, <1>5, <3>1
  <2>4. CASE m1 \notin e.pending /\ m2 \in e.pending
    <3>1. m2.seq <= e.clock /\ e.clock < m1.seq
      BY <2>4 DEF Edited
    <3> QED
      BY <1>1, <1>2, <1>5, <3>1
  <2> QED
    BY <2>1, <2>2, <2>3, <2>4
<1> QED
  BY <1>3, <1>4, <1>5 DEF Edited

HIDE DEF Store

\* A change of other components than these does not count as an edit.
SameBooks(d, n) ==
  /\ n.clock = d.clock
  /\ n.tomb = d.tomb
  /\ n.ver = d.ver
  /\ n.outbox = d.outbox
  /\ n.seen = d.seen
  /\ n.pending = d.pending

LEMMA EnqueueAfter ==
  ASSUME NEW d \in Store, NEW e \in Store, SameBooks(d, e),
         NEW kind, NEW entity
  PROVE  /\ Edited(d, EnqueuePending(e, kind, entity), {kind})
         /\ EnqueuePending(e, kind, entity).row = e.row
         /\ \A m \in EnqueuePending(e, kind, entity).pending \ d.pending :
              m.entity = entity
<1> DEFINE n == EnqueuePending(e, kind, entity)
<1>1. /\ Edited(e, n, {kind})
      /\ n.row = e.row
      /\ \A m \in n.pending \ e.pending : m.entity = entity
  BY EnqueuePendingEdits
<1> HIDE DEF n
<1>2. /\ Edited(d, n, {kind})
      /\ n.row = e.row
      /\ \A m \in n.pending \ d.pending : m.entity = entity
  BY <1>1 DEF Edited, SameBooks
<1> QED
  BY <1>2 DEF n

LEMMA InsertColumnEdits ==
  ASSUME NEW d \in Store, NEW k \in Columns
  PROVE  /\ Edited(d, InsertColumn(d, k), {"column.create"})
         /\ InsertColumn(d, k).row = d.row
<1> DEFINE e == [d EXCEPT !.columns = @ \cup {k}]
<1>1. e \in Store /\ SameBooks(d, e) /\ e.row = d.row
  BY DEF Store, SameBooks
<1>2. InsertColumn(d, k) = EnqueuePending(e, "column.create", k)
  BY DEF InsertColumn
<1> HIDE DEF e
<1> QED
  BY <1>1, <1>2, EnqueueAfter, SMTT(30)

LEMMA InsertCardEdits ==
  ASSUME NEW d \in Store, NEW c \in Cards, NEW slot \in Slot
  PROVE  /\ Edited(d, InsertCard(d, c, slot), {"card.create"})
         /\ InsertCard(d, c, slot).row =
              [d.row EXCEPT ![c] = [place |-> slot, archived |-> FALSE]]
         /\ \A m \in InsertCard(d, c, slot).pending \ d.pending : m.entity = c
<1> DEFINE e == [d EXCEPT !.row[c] = [place |-> slot, archived |-> FALSE]]
<1>1. /\ e \in Store
      /\ SameBooks(d, e)
      /\ e.row = [d.row EXCEPT ![c] = [place |-> slot, archived |-> FALSE]]
  BY DEF Store, SameBooks, Row
<1>2. InsertCard(d, c, slot) = EnqueuePending(e, "card.create", c)
  BY DEF InsertCard
<1> HIDE DEF e
<1> QED
  BY <1>1, <1>2, EnqueueAfter, SMTT(30)

\* The edits of a card that is there keep every card that is there.
SameCards(d, n) == \A c \in Cards : Present(n, c) <=> Present(d, c)

LEMMA PlaceCardEdits ==
  ASSUME NEW d \in Store, NEW c \in Cards, NEW slot \in Slot, Present(d, c)
  PROVE  /\ Edited(d, PlaceCard(d, c, slot), {"card.move"})
         /\ SameCards(d, PlaceCard(d, c, slot))
         /\ \A m \in PlaceCard(d, c, slot).pending \ d.pending : m.entity = c
<1> DEFINE e == [d EXCEPT !.row[c].place = slot]
<1>0. d.row[c] \in Row
  BY DEF Present, Store
<1>1. /\ e \in Store
      /\ SameBooks(d, e)
      /\ e.row[c] \in Row
      /\ \A x \in Cards \ {c} : e.row[x] = d.row[x]
  BY <1>0 DEF Store, SameBooks, Row
<1>2. PlaceCard(d, c, slot) = EnqueuePending(e, "card.move", c)
  BY DEF PlaceCard
<1> HIDE DEF e
<1>3. SameCards(d, e)
  BY <1>0, <1>1, NoRowAssumption DEF SameCards, Present
<1>4. /\ Edited(d, PlaceCard(d, c, slot), {"card.move"})
      /\ PlaceCard(d, c, slot).row = e.row
      /\ \A m \in PlaceCard(d, c, slot).pending \ d.pending : m.entity = c
  BY <1>1, <1>2, EnqueueAfter, SMTT(30)
<1> QED
  BY <1>3, <1>4 DEF SameCards, Present

LEMMA ArchiveCardEdits ==
  ASSUME NEW d \in Store, NEW c \in Cards, NEW archived \in BOOLEAN,
         Present(d, c)
  PROVE  /\ Edited(d, ArchiveCard(d, c, archived),
                   {"card.archive", "card.unarchive"})
         /\ SameCards(d, ArchiveCard(d, c, archived))
         /\ \A m \in ArchiveCard(d, c, archived).pending \ d.pending :
              m.entity = c
<1> DEFINE e == [d EXCEPT !.row[c].archived = archived]
           kind == IF archived THEN "card.archive" ELSE "card.unarchive"
           n == ArchiveCard(d, c, archived)
<1>0. d.row[c] \in Row
  BY DEF Present, Store
<1>1. /\ e \in Store
      /\ SameBooks(d, e)
      /\ e.row[c] \in Row
      /\ \A x \in Cards \ {c} : e.row[x] = d.row[x]
  BY <1>0 DEF Store, SameBooks, Row
<1>2. n = EnqueuePending(e, kind, c)
  BY DEF ArchiveCard
<1>3. kind \in {"card.archive", "card.unarchive"}
  OBVIOUS
<1> HIDE DEF e, kind, n
<1>4. SameCards(d, e)
  BY <1>0, <1>1, NoRowAssumption DEF SameCards, Present
<1>5. /\ Edited(d, n, {kind})
      /\ n.row = e.row
      /\ \A m \in n.pending \ d.pending : m.entity = c
  <2> DEFINE queued == EnqueuePending(e, kind, c)
  <2>1. /\ Edited(d, queued, {kind})
        /\ queued.row = e.row
        /\ \A m \in queued.pending \ d.pending : m.entity = c
    BY <1>1, EnqueueAfter, SMTT(30)
  <2> HIDE DEF queued
  <2>2. n = queued
    BY <1>2 DEF queued
  <2> QED
    BY <2>1, <2>2
<1>6. Edited(d, n, {"card.archive", "card.unarchive"})
  BY <1>3, <1>5 DEF Edited
<1>7. SameCards(d, n)
  BY <1>4, <1>5 DEF SameCards, Present
<1> QED
  BY <1>5, <1>6, <1>7 DEF n

\* A new rank for a card that is there.
LEMMA RerankCard ==
  ASSUME NEW d \in Store, NEW c \in Cards, NEW rank \in Ranks, Present(d, c)
  PROVE  LET e == [d EXCEPT !.row[c].place.rank = rank]
         IN  e \in Store /\ SameBooks(d, e) /\ SameCards(d, e)
<1>0. d.row[c] \in Row
  BY DEF Present, Store
<1> DEFINE e   == [d EXCEPT !.row[c].place.rank = rank]
           row == [d.row[c] EXCEPT !.place = [@ EXCEPT !.rank = rank]]
<1>1. row \in Row
  <2>1. d.row[c].place \in Slot
    BY <1>0 DEF Row
  <2>2. [d.row[c].place EXCEPT !.rank = rank] \in Slot
    BY <2>1 DEF Slot
  <2> QED
    BY <1>0, <2>2 DEF Row
<1>2. e = [d EXCEPT !.row[c] = row]
  BY Zenon
<1> HIDE DEF row
<1>3. /\ e \in Store
      /\ SameBooks(d, e)
      /\ e.row[c] \in Row
      /\ \A x \in Cards \ {c} : e.row[x] = d.row[x]
  BY <1>1, <1>2 DEF Store, SameBooks
<1>4. SameCards(d, e)
  BY <1>0, <1>3, NoRowAssumption DEF SameCards, Present
<1> QED
  BY <1>3, <1>4

LEMMA ReorderCardsEdits ==
  ASSUME NEW d \in Store, NEW c1 \in Cards, NEW c2 \in Cards,
         NEW rank1 \in Ranks, NEW rank2 \in Ranks,
         c1 # c2, Present(d, c1), Present(d, c2)
  PROVE  /\ Edited(d, ReorderCards(d, c1, rank1, c2, rank2), {"card.move"})
         /\ SameCards(d, ReorderCards(d, c1, rank1, c2, rank2))
         /\ \A m \in ReorderCards(d, c1, rank1, c2, rank2).pending \ d.pending :
              m.entity \in {c1, c2}
<1> DEFINE first  == [d EXCEPT !.row[c1].place.rank = rank1]
           placed == [d EXCEPT !.row[c1].place.rank = rank1,
                               !.row[c2].place.rank = rank2]
           one == EnqueuePending(placed, "card.move", c1)
           two == EnqueuePending(one, "card.move", c2)
<1>1. placed = [first EXCEPT !.row[c2].place.rank = rank2]
  OBVIOUS
<1>2. ReorderCards(d, c1, rank1, c2, rank2) = two
  BY DEF ReorderCards
<1>3. first \in Store /\ SameBooks(d, first) /\ SameCards(d, first)
  BY RerankCard
<1> HIDE DEF first, placed
<1>4. placed \in Store /\ SameBooks(first, placed) /\ SameCards(first, placed)
  <2>1. Present(first, c2)
    BY <1>3 DEF SameCards
  <2> QED
    BY <1>1, <1>3, <2>1, RerankCard
<1>5. one \in Store
  BY <1>4, EnqueuePendingType DEF CardKind, EditKind
<1>6. two \in Store
  BY <1>5, EnqueuePendingType DEF CardKind, EditKind
<1> HIDE DEF one, two
<1>7. SameBooks(d, placed) /\ SameCards(d, placed)
  BY <1>3, <1>4 DEF SameBooks, SameCards
<1>8. /\ Edited(d, one, {"card.move"})
      /\ one.row = placed.row
      /\ \A m \in one.pending \ d.pending : m.entity = c1
  BY <1>4, <1>7, EnqueueAfter DEF one
<1>9. /\ Edited(one, two, {"card.move"})
      /\ two.row = one.row
      /\ \A m \in two.pending \ one.pending : m.entity = c2
  BY <1>5, EnqueuePendingEdits DEF two
<1>10. Edited(d, two, {"card.move"})
  BY <1>5, <1>6, <1>8, <1>9, EditedTwice
<1>11. SameCards(d, two)
  BY <1>7, <1>8, <1>9 DEF SameCards, Present
<1>12. \A m \in two.pending \ d.pending : m.entity \in {c1, c2}
  BY <1>8, <1>9
<1> QED
  BY <1>2, <1>10, <1>11, <1>12

-----------------------------------------------------------------------------
(* Every register an edit writes has a marker of its own, with a clock     *)
(* that was not in use.                                                    *)

Writer(m, c, f) ==
  m.kind \in EditKind /\ m.entity = c /\ Touches(EventMask(m.kind), f)

WritesAreMarked(d, n) ==
  \A c \in Cards, f \in Field : Present(n, c) =>
    \/ Present(d, c) /\ n.row[c][f] = d.row[c][f]
    \/ \E m \in n.pending : d.clock < m.seq /\ Writer(m, c, f)

\* The registers each kind of marker stands for.
LEMMA KindsTouch ==
  ASSUME NEW m, NEW c, m.entity = c
  PROVE  /\ m.kind = "card.create" => \A f \in Field : Writer(m, c, f)
         /\ m.kind = "card.move" => Writer(m, c, "place")
         /\ m.kind \in {"card.archive", "card.unarchive"} => Writer(m, c, "archived")
         /\ \A f \in Field : m.kind \in CardKind /\ Touches(EventMask(m.kind), f)
              => m.kind \in EditKind
  BY DEF Writer, EditKind, CardKind, EventMask, Touches, Field

LEMMA EnqueuePendingAdds ==
  ASSUME NEW d \in Store, NEW kind, NEW entity
  PROVE  /\ EnqueuePending(d, kind, entity).row = d.row
         /\ EnqueuePending(d, kind, entity).clock = d.clock + 1
         /\ EnqueuePending(d, kind, entity).pending = d.pending \cup
              {[seq |-> d.clock + 1, kind |-> kind, entity |-> entity]}
<1> DEFINE n == NextLocalClock(d)
           m == [seq |-> n.clock, kind |-> kind, entity |-> entity]
<1>1. /\ n \in Store
      /\ n.clock = d.clock + 1
      /\ n.row = d.row
      /\ n.pending = d.pending
  BY NextLocalClockType DEF NextLocalClock, Store
<1>2. EnqueuePending(d, kind, entity) = [n EXCEPT !.pending = @ \cup {m}]
  BY DEF EnqueuePending
<1> HIDE DEF n
<1> QED
  BY <1>1, <1>2 DEF Store

\* Enqueueing after the registers of one card have been written.
LEMMA EnqueueMarks ==
  ASSUME NEW d \in Store, NEW e \in Store, e.clock = d.clock,
         NEW kind, NEW c
  PROVE  /\ EnqueuePending(e, kind, c).row = e.row
         /\ \E m \in EnqueuePending(e, kind, c).pending :
              d.clock < m.seq /\ m.kind = kind /\ m.entity = c
<1> DEFINE m == [seq |-> d.clock + 1, kind |-> kind, entity |-> c]
<1>1. m \in EnqueuePending(e, kind, c).pending
  BY EnqueuePendingAdds
<1>2. d.clock < m.seq
  BY DEF Store
<1> QED
  BY <1>1, <1>2, EnqueuePendingAdds

LEMMA InsertColumnMarks ==
  ASSUME NEW d \in Store, NEW k \in Columns
  PROVE  WritesAreMarked(d, InsertColumn(d, k))
  BY InsertColumnEdits DEF WritesAreMarked, Present

LEMMA InsertCardMarks ==
  ASSUME NEW d \in Store, NEW c \in Cards, NEW slot \in Slot
  PROVE  /\ WritesAreMarked(d, InsertCard(d, c, slot))
         /\ InsertCard(d, c, slot).pending = d.pending \cup
              {[seq |-> d.clock + 1, kind |-> "card.create", entity |-> c]}
<1> DEFINE e == [d EXCEPT !.row[c] = [place |-> slot, archived |-> FALSE]]
           n == InsertCard(d, c, slot)
<1>1. /\ e \in Store
      /\ e.clock = d.clock
      /\ e.pending = d.pending
      /\ \A x \in Cards \ {c} : e.row[x] = d.row[x]
  BY DEF Store, Row
<1>2. n = EnqueuePending(e, "card.create", c)
  BY DEF InsertCard
<1> HIDE DEF e
<1>3. /\ n.row = e.row
      /\ n.pending = d.pending \cup
           {[seq |-> d.clock + 1, kind |-> "card.create", entity |-> c]}
  BY <1>1, <1>2, EnqueuePendingAdds
<1>4. PICK m \in n.pending :
        d.clock < m.seq /\ m.kind = "card.create" /\ m.entity = c
  BY <1>1, <1>2, EnqueueMarks
<1> HIDE DEF n
<1>5. \A f \in Field : Writer(m, c, f)
  BY <1>4, KindsTouch
<1>6. WritesAreMarked(d, n)
  BY <1>1, <1>3, <1>4, <1>5 DEF WritesAreMarked, Present
<1> QED
  BY <1>3, <1>6 DEF n

LEMMA PlaceCardMarks ==
  ASSUME NEW d \in Store, NEW c \in Cards, NEW slot \in Slot, Present(d, c)
  PROVE  WritesAreMarked(d, PlaceCard(d, c, slot))
<1> DEFINE e == [d EXCEPT !.row[c].place = slot]
           n == PlaceCard(d, c, slot)
<1>0. d.row[c] \in Row
  BY DEF Present, Store
<1>1. /\ e \in Store
      /\ e.clock = d.clock
      /\ e.row[c].archived = d.row[c].archived
      /\ \A x \in Cards \ {c} : e.row[x] = d.row[x]
  BY <1>0 DEF Store, Row
<1>2. n = EnqueuePending(e, "card.move", c)
  BY DEF PlaceCard
<1> HIDE DEF e, n
<1>3. n.row = e.row
  BY <1>1, <1>2, EnqueuePendingAdds
<1>4. PICK m \in n.pending :
        d.clock < m.seq /\ m.kind = "card.move" /\ m.entity = c
  BY <1>1, <1>2, EnqueueMarks
<1>5. Writer(m, c, "place")
  BY <1>4, KindsTouch
<1>6. WritesAreMarked(d, n)
  BY <1>1, <1>3, <1>4, <1>5 DEF WritesAreMarked, Present, Field
<1> QED
  BY <1>6 DEF n

LEMMA ArchiveCardMarks ==
  ASSUME NEW d \in Store, NEW c \in Cards, NEW archived \in BOOLEAN,
         Present(d, c)
  PROVE  WritesAreMarked(d, ArchiveCard(d, c, archived))
<1> DEFINE e == [d EXCEPT !.row[c].archived = archived]
           kind == IF archived THEN "card.archive" ELSE "card.unarchive"
           n == ArchiveCard(d, c, archived)
<1>0. d.row[c] \in Row
  BY DEF Present, Store
<1>1. /\ e \in Store
      /\ e.clock = d.clock
      /\ e.row[c].place = d.row[c].place
      /\ \A x \in Cards \ {c} : e.row[x] = d.row[x]
  BY <1>0 DEF Store, Row
<1>2. n = EnqueuePending(e, kind, c)
  BY DEF ArchiveCard
<1>3. kind \in {"card.archive", "card.unarchive"}
  OBVIOUS
<1> HIDE DEF e, n, kind
<1>4. n.row = e.row
  BY <1>1, <1>2, EnqueuePendingAdds
<1>5. PICK m \in n.pending : d.clock < m.seq /\ m.kind = kind /\ m.entity = c
  BY <1>1, <1>2, EnqueueMarks
<1>6. Writer(m, c, "archived")
  BY <1>3, <1>5, KindsTouch
<1>7. WritesAreMarked(d, n)
  BY <1>1, <1>4, <1>5, <1>6 DEF WritesAreMarked, Present, Field
<1> QED
  BY <1>7 DEF n

LEMMA ReorderCardsMarks ==
  ASSUME NEW d \in Store, NEW c1 \in Cards, NEW c2 \in Cards,
         NEW rank1 \in Ranks, NEW rank2 \in Ranks,
         c1 # c2, Present(d, c1), Present(d, c2)
  PROVE  WritesAreMarked(d, ReorderCards(d, c1, rank1, c2, rank2))
<1> DEFINE placed == [d EXCEPT !.row[c1].place.rank = rank1,
                               !.row[c2].place.rank = rank2]
           one == EnqueuePending(placed, "card.move", c1)
           two == EnqueuePending(one, "card.move", c2)
<1>0. d.row[c1] \in Row /\ d.row[c2] \in Row
  BY DEF Present, Store
<1>1. /\ placed.clock = d.clock
      /\ placed.row[c1].archived = d.row[c1].archived
      /\ placed.row[c2].archived = d.row[c2].archived
      /\ \A x \in Cards \ {c1, c2} : placed.row[x] = d.row[x]
  BY <1>0 DEF Store, Row
<1>2. placed \in Store
  <2> DEFINE first == [d EXCEPT !.row[c1].place.rank = rank1]
  <2>1. first \in Store /\ SameCards(d, first)
    BY RerankCard
  <2>2. placed = [first EXCEPT !.row[c2].place.rank = rank2]
    OBVIOUS
  <2> HIDE DEF first, placed
  <2>3. Present(first, c2)
    BY <2>1 DEF SameCards
  <2> QED
    BY <2>1, <2>2, <2>3, RerankCard
<1>3. ReorderCards(d, c1, rank1, c2, rank2) = two
  BY DEF ReorderCards
<1> HIDE DEF placed
<1>4. one \in Store
  BY <1>2, EnqueuePendingType DEF CardKind, EditKind
<1>5. PICK m1 \in one.pending :
        d.clock < m1.seq /\ m1.kind = "card.move" /\ m1.entity = c1
  BY <1>1, <1>2, EnqueueMarks
<1>6. one.row = placed.row /\ one.clock = d.clock + 1
  BY <1>1, <1>2, EnqueuePendingAdds
<1> HIDE DEF one
<1>7. two.row = placed.row /\ one.pending \subseteq two.pending
  BY <1>4, <1>6, EnqueuePendingAdds
<1>8. PICK m2 \in two.pending :
        one.clock < m2.seq /\ m2.kind = "card.move" /\ m2.entity = c2
  BY <1>4, EnqueueMarks
<1>9. two \in Store
  BY <1>4, EnqueuePendingType DEF CardKind, EditKind
<1> HIDE DEF two
<1>10. d.clock < m2.seq
  BY <1>6, <1>8, <1>9 DEF Store, Marker
<1>11. Writer(m1, c1, "place") /\ Writer(m2, c2, "place")
  BY <1>5, <1>8, KindsTouch
<1>12. WritesAreMarked(d, two)
  <2> SUFFICES ASSUME NEW c \in Cards, NEW f \in Field, Present(two, c)
               PROVE  \/ Present(d, c) /\ two.row[c][f] = d.row[c][f]
                      \/ \E m \in two.pending : d.clock < m.seq /\ Writer(m, c, f)
    BY DEF WritesAreMarked
  <2>1. CASE c \notin {c1, c2}
    BY <1>1, <1>7, <2>1 DEF Present
  <2>2. CASE c = c1
    BY <1>1, <1>5, <1>7, <1>11, <2>2 DEF Field
  <2>3. CASE c = c2
    BY <1>1, <1>7, <1>10, <1>11, <2>3 DEF Field
  <2> QED
    BY <2>1, <2>2, <2>3
<1> QED
  BY <1>3, <1>12

USE DEF Store

-----------------------------------------------------------------------------
(* Materialization.                                                        *)

LEMMA UnmaterializedType ==
  ASSUME NEW d \in Store, NEW m \in Unmaterialized(d)
  PROVE  /\ m \in d.pending
         /\ m.seq \in Nat
         /\ m.kind \in CardKind
         /\ m.entity \in Cards
  BY DEF Unmaterialized, Blocked, Unsupported, Marker

\* Only a marker whose row is gone has no event.
LEMMA MarkerEventType ==
  ASSUME NEW d \in Store, NEW r \in Replicas, NEW m \in Unmaterialized(d),
         ~ Poisoned(d, m)
  PROVE  MarkerEvent(d, r, m) \in Event
<1>1. /\ m.seq \in Nat
      /\ m.kind \in CardKind
      /\ m.entity \in Cards
  BY UnmaterializedType
<1>2. CASE m.kind = "card.delete"
  BY <1>1, <1>2 DEF MarkerEvent, Event, DeleteEvent, Stamp, EventMask
<1>3. CASE m.kind \in EditKind
  <2>1. d.row[m.entity] \in Row
    BY <1>1, <1>3 DEF Poisoned, Present
  <2>2. EventMask(m.kind) \in {{"*"}, {"place"}, {"archived"}}
    BY <1>3 DEF EditKind, EventMask
  <2>3. m.kind # "card.delete"
    BY <1>3 DEF EditKind
  <2> QED
    BY <1>1, <2>1, <2>2, <2>3 DEF MarkerEvent, Event, PutEvent, Stamp
<1> QED
  BY <1>1, <1>2, <1>3 DEF CardKind

\* The recorded version and tombstone are stamps.
LEMMA RecordedType ==
  ASSUME NEW d \in Store, NEW r \in Replicas, NEW c \in Cards
  PROVE  /\ \A f \in Field : RecordedVersion(d, r, c, f) \in StampOrNone
         /\ RecordedTomb(d, r, c) \in StampOrNone
<1>1. \A f \in Field : RecordedVersion(d, r, c, f) \in StampOrNone
  <2> SUFFICES ASSUME NEW f \in Field
               PROVE  RecordedVersion(d, r, c, f) \in StampOrNone
    OBVIOUS
  <2> DEFINE writers == {m \in Unmaterialized(d) :
                           m.entity = c /\ Touches(EventMask(m.kind), f)}
             last == CHOOSE m \in writers : IsLast(m, writers)
  <2>1. CASE \E m \in writers : IsLast(m, writers)
    <3>1. last \in writers
      BY <2>1
    <3>2. last.seq \in Nat
      BY <3>1, UnmaterializedType
    <3> QED
      BY <2>1, <3>2 DEF RecordedVersion, StampOrNone, Stamp
  <2>2. CASE ~ \E m \in writers : IsLast(m, writers)
    BY <2>2 DEF RecordedVersion
  <2> QED
    BY <2>1, <2>2
<1>2. RecordedTomb(d, r, c) \in StampOrNone
  <2> DEFINE deletes == {m \in Unmaterialized(d) :
                           /\ m.kind = "card.delete"
                           /\ m.entity = c
                           /\ Newer([clock |-> m.seq, replica |-> r], d.tomb[c])}
             last == CHOOSE m \in deletes : IsLast(m, deletes)
  <2>1. CASE \E m \in deletes : IsLast(m, deletes)
    <3>1. last \in deletes
      BY <2>1
    <3>2. last.seq \in Nat
      BY <3>1, UnmaterializedType
    <3> QED
      BY <2>1, <3>2 DEF RecordedTomb, StampOrNone, Stamp
  <2>2. CASE ~ \E m \in deletes : IsLast(m, deletes)
    BY <2>2 DEF RecordedTomb
  <2> QED
    BY <2>1, <2>2
<1> QED
  BY <1>1, <1>2

LEMMA MaterializePendingType ==
  ASSUME NEW d \in Store, NEW r \in Replicas, Materializable(d)
  PROVE  MaterializePending(d, r) \in Store
<1>1. {MarkerEvent(d, r, m) : m \in Unmaterialized(d)} \in SUBSET Event
  BY MarkerEventType DEF Materializable
<1>2. [c \in Cards |-> [f \in Field |-> RecordedVersion(d, r, c, f)]]
        \in [Cards -> [Field -> StampOrNone]]
  BY RecordedType
<1>3. [c \in Cards |-> RecordedTomb(d, r, c)] \in [Cards -> StampOrNone]
  BY RecordedType
<1> QED
  BY <1>1, <1>2, <1>3 DEF MaterializePending

\* A non-empty set of numbers has a least one.
LEMMA LeastNumber ==
  ASSUME NEW T \in SUBSET Nat, T # {}
  PROVE  \E x \in T : \A y \in T : x <= y
<1> DEFINE R == OpToRel(<, Nat)
<1>1. IsWellFoundedOn(R, Nat)
  BY NatLessThanWellFounded
<1>2. \A x, y \in Nat : <<x, y>> \in R <=> x < y
  BY DEF OpToRel
<1> HIDE DEF R
<1>3. PICK x \in T : \A y \in T : ~ (<<y, x>> \in R)
  BY <1>1, WFMin
<1>4. \A y \in T : ~ (y < x)
  <2> SUFFICES ASSUME NEW y \in T PROVE ~ (y < x)
    OBVIOUS
  <2>1. ~ (<<y, x>> \in R)
    BY <1>3
  <2>2. y \in Nat /\ x \in Nat
    OBVIOUS
  <2>3. <<y, x>> \in R <=> y < x
    BY <1>2, <2>2, Zenon
  <2> QED
    BY <2>1, <2>3
<1> QED
  BY <1>4

\* Some marker of a non-empty bounded set is the last one.
LEMMA LastExists ==
  ASSUME NEW M, M # {}, NEW bound \in Nat,
         \A m \in M : m.seq \in Nat /\ m.seq <= bound
  PROVE  \E m \in M : IsLast(m, M)
<1> DEFINE T == {bound - m.seq : m \in M}
<1>1. T \in SUBSET Nat /\ T # {}
  OBVIOUS
<1>2. PICK x \in T : \A y \in T : x <= y
  BY <1>1, LeastNumber
<1>3. PICK m \in M : x = bound - m.seq
  OBVIOUS
<1>4. \A n \in M : bound - m.seq <= bound - n.seq
  BY <1>2, <1>3
<1>5. \A n \in M : n.seq <= m.seq
  BY <1>4
<1> QED
  BY <1>5 DEF IsLast

\* The backlog of one register.
Backlog(d, c, f) ==
  {m \in Unmaterialized(d) : m.entity = c /\ Touches(EventMask(m.kind), f)}

\* A register with a backlog gets the version of its last marker, any other
\* keeps the one it has.
VersionsRecorded(d, n, r) ==
  \A c \in Cards, f \in Field :
    /\ Backlog(d, c, f) = {} => n.ver[c][f] = d.ver[c][f]
    /\ Backlog(d, c, f) # {} =>
         \E m \in Backlog(d, c, f) :
           /\ IsLast(m, Backlog(d, c, f))
           /\ n.ver[c][f] = [clock |-> m.seq, replica |-> r]

LEMMA MaterializeRecordsVersions ==
  ASSUME NEW d \in Store, NEW r \in Replicas,
         \A m \in d.pending : m.seq <= d.clock
  PROVE  VersionsRecorded(d, MaterializePending(d, r), r)
<1> SUFFICES ASSUME NEW c \in Cards, NEW f \in Field
             PROVE  LET W == Backlog(d, c, f)
                        v == MaterializePending(d, r).ver[c][f]
                    IN  /\ W = {} => v = d.ver[c][f]
                        /\ W # {} => \E m \in W :
                             IsLast(m, W) /\ v = [clock |-> m.seq, replica |-> r]
  BY DEF VersionsRecorded
<1> DEFINE W == Backlog(d, c, f)
           v == MaterializePending(d, r).ver[c][f]
           last == CHOOSE m \in W : IsLast(m, W)
<1>1. v = RecordedVersion(d, r, c, f)
  BY DEF MaterializePending, Store
<1>2. v = IF \E m \in W : IsLast(m, W)
          THEN [clock |-> last.seq, replica |-> r] ELSE d.ver[c][f]
  BY <1>1 DEF RecordedVersion, Backlog
<1>3. CASE W = {}
  BY <1>2, <1>3
<1>4. CASE W # {}
  <2>1. \A m \in W : m.seq \in Nat /\ m.seq <= d.clock
    BY UnmaterializedType DEF Backlog
  <2>2. \E m \in W : IsLast(m, W)
    <3> HIDE DEF W
    <3> QED
      BY <1>4, <2>1, LastExists DEF Store
  <2>3. last \in W /\ IsLast(last, W)
    BY <2>2
  <2>4. v = [clock |-> last.seq, replica |-> r]
    BY <1>2, <2>2
  <2> HIDE DEF last, W, v
  <2> QED
    BY <1>4, <2>3, <2>4 DEF W, v
<1> HIDE DEF W, v, last
<1> QED
  BY <1>3, <1>4 DEF W, v

-----------------------------------------------------------------------------
(* Merge.                                                                  *)

LEMMA ObserveRemoteClockType ==
  ASSUME NEW d \in Store, NEW observed \in Nat
  PROVE  ObserveRemoteClock(d, observed) \in Store
  BY DEF ObserveRemoteClock

LEMMA ApplyRemoteEventType ==
  ASSUME NEW d \in Store, NEW e \in Event
  PROVE  ApplyRemoteEvent(d, e) \in Store
<1> DEFINE c == e.card
           W == WinningFields(d, e)
<1>0. /\ e.stamp \in StampOrNone
      /\ c \in Cards
      /\ e.op \in {"card.put", "card.delete"}
  BY DEF Event, PutEvent, DeleteEvent, StampOrNone
<1>1. ApplyCardDelete(d, e) \in Store
  BY <1>0 DEF ApplyCardDelete
<1>2. ASSUME e.op = "card.put"
      PROVE  ApplyCardPut(d, e) \in Store
  <2>1. e.row \in Row
    BY <1>2 DEF Event, PutEvent, DeleteEvent
  <2> DEFINE ver == [f \in Field |-> IF f \in W THEN e.stamp ELSE d.ver[c][f]]
             row == IF ~ Present(d, c) THEN e.row
                    ELSE [place    |-> IF "place" \in W
                                       THEN e.row.place ELSE d.row[c].place,
                          archived |-> IF "archived" \in W
                                       THEN e.row.archived ELSE d.row[c].archived]
  <2>2. ver \in [Field -> StampOrNone]
    BY <1>0
  <2>3. row \in Row
    BY <1>0, <2>1 DEF Row, Present
  <2>4. [d EXCEPT !.row[c] = row, !.ver[c] = ver] \in Store
    BY <1>0, <2>2, <2>3
  <2>5. \/ ApplyCardPut(d, e) = d
        \/ ApplyCardPut(d, e) = [d EXCEPT !.row[c] = row, !.ver[c] = ver]
    BY <1>0 DEF ApplyCardPut
  <2> QED
    BY <2>4, <2>5
<1> QED
  BY <1>0, <1>1, <1>2 DEF ApplyRemoteEvent

-----------------------------------------------------------------------------
(* What burying a card, materializing the backlog and merging an event     *)
(* leave alone and what they change.                                       *)

HIDE DEF Store

BuriedNow(d, n, r, c, seq) ==
  /\ n.clock = d.clock
  /\ n.ver = d.ver
  /\ n.outbox = d.outbox
  /\ n.seen = d.seen
  /\ n.pending =
       d.pending \cup {[seq |-> seq, kind |-> "card.delete", entity |-> c]}
  /\ ~ Present(n, c)
  /\ \A x \in Cards \ {c} : n.row[x] = d.row[x] /\ n.tomb[x] = d.tomb[x]
  /\ \/ n.tomb[c] = d.tomb[c] /\ ~ Newer([clock |-> seq, replica |-> r], d.tomb[c])
     \/ /\ n.tomb[c] = [clock |-> seq, replica |-> r]
        /\ Newer(n.tomb[c], d.tomb[c])

LEMMA BuryCardBuries ==
  ASSUME NEW d \in Store, NEW r \in Replicas, NEW c \in Cards, NEW seq \in Nat
  PROVE  BuriedNow(d, BuryCard(d, r, c, seq), r, c, seq)
<1> DEFINE version == [clock |-> seq, replica |-> r]
           tomb == IF Newer(version, d.tomb[c]) THEN version ELSE d.tomb[c]
           marker == [seq |-> seq, kind |-> "card.delete", entity |-> c]
           n == [d EXCEPT !.row[c] = NoRow, !.tomb[c] = tomb,
                          !.pending = @ \cup {marker}]
<1>1. BuryCard(d, r, c, seq) = n
  BY DEF BuryCard
<1>2. /\ n.clock = d.clock
      /\ n.ver = d.ver
      /\ n.outbox = d.outbox
      /\ n.seen = d.seen
      /\ n.pending = d.pending \cup {marker}
      /\ n.row[c] = NoRow
      /\ n.tomb[c] = tomb
      /\ \A x \in Cards \ {c} : n.row[x] = d.row[x] /\ n.tomb[x] = d.tomb[x]
  <2> HIDE DEF tomb, marker
  <2> QED
    BY DEF Store
<1> HIDE DEF n
<1>3. \/ n.tomb[c] = d.tomb[c] /\ ~ Newer(version, d.tomb[c])
      \/ n.tomb[c] = version /\ Newer(n.tomb[c], d.tomb[c])
  BY <1>2
<1> QED
  BY <1>1, <1>2, <1>3 DEF BuriedNow, Present

Materialized(d, n, r) ==
  /\ n.clock = d.clock
  /\ n.row = d.row
  /\ n.pending = d.pending
  /\ n.seen = d.seen
  /\ n.outbox = d.outbox \cup {MarkerEvent(d, r, m) : m \in Unmaterialized(d)}
  /\ \A c \in Cards :
       \/ n.tomb[c] = d.tomb[c]
       \/ \E m \in d.pending :
            /\ m.kind = "card.delete"
            /\ m.entity = c
            /\ n.tomb[c] = [clock |-> m.seq, replica |-> r]
            /\ Newer(n.tomb[c], d.tomb[c])
  /\ \A c \in Cards, f \in Field :
       \/ n.ver[c][f] = d.ver[c][f]
       \/ \E m \in d.pending : n.ver[c][f] = [clock |-> m.seq, replica |-> r]

LEMMA MaterializePendingMaterializes ==
  ASSUME NEW d \in Store, NEW r \in Replicas
  PROVE  Materialized(d, MaterializePending(d, r), r)
<1> DEFINE n == MaterializePending(d, r)
<1>1. /\ n.clock = d.clock
      /\ n.row = d.row
      /\ n.pending = d.pending
      /\ n.seen = d.seen
      /\ n.outbox = d.outbox \cup {MarkerEvent(d, r, m) : m \in Unmaterialized(d)}
  BY DEF MaterializePending, Store
<1>2. /\ \A c \in Cards : n.tomb[c] = RecordedTomb(d, r, c)
      /\ \A c \in Cards, f \in Field :
           n.ver[c][f] = RecordedVersion(d, r, c, f)
  BY DEF MaterializePending, Store
<1> HIDE DEF n
<1>3. ASSUME NEW c \in Cards
      PROVE  \/ n.tomb[c] = d.tomb[c]
             \/ \E m \in d.pending :
                  /\ m.kind = "card.delete"
                  /\ m.entity = c
                  /\ n.tomb[c] = [clock |-> m.seq, replica |-> r]
                  /\ Newer(n.tomb[c], d.tomb[c])
  <2> DEFINE deletes == {m \in Unmaterialized(d) :
                           /\ m.kind = "card.delete"
                           /\ m.entity = c
                           /\ Newer([clock |-> m.seq, replica |-> r], d.tomb[c])}
             last == CHOOSE m \in deletes : IsLast(m, deletes)
  <2>1. CASE \E m \in deletes : IsLast(m, deletes)
    <3>1. last \in deletes
      BY <2>1
    <3>2. n.tomb[c] = [clock |-> last.seq, replica |-> r]
      BY <1>2, <2>1 DEF RecordedTomb
    <3> HIDE DEF last
    <3> QED
      BY <3>1, <3>2, UnmaterializedType
  <2>2. CASE ~ \E m \in deletes : IsLast(m, deletes)
    BY <1>2, <2>2 DEF RecordedTomb
  <2> QED
    BY <2>1, <2>2
<1>4. ASSUME NEW c \in Cards, NEW f \in Field
      PROVE  \/ n.ver[c][f] = d.ver[c][f]
             \/ \E m \in d.pending :
                  n.ver[c][f] = [clock |-> m.seq, replica |-> r]
  <2> DEFINE writers == {m \in Unmaterialized(d) :
                           m.entity = c /\ Touches(EventMask(m.kind), f)}
             last == CHOOSE m \in writers : IsLast(m, writers)
  <2>1. CASE \E m \in writers : IsLast(m, writers)
    <3>1. last \in writers
      BY <2>1
    <3>2. n.ver[c][f] = [clock |-> last.seq, replica |-> r]
      BY <1>2, <2>1 DEF RecordedVersion
    <3> HIDE DEF last
    <3> QED
      BY <3>1, <3>2, UnmaterializedType
  <2>2. CASE ~ \E m \in writers : IsLast(m, writers)
    BY <1>2, <2>2 DEF RecordedVersion
  <2> QED
    BY <2>1, <2>2
<1>5. Materialized(d, n, r)
  BY <1>1, <1>3, <1>4 DEF Materialized
<1> QED
  BY <1>5 DEF n

Merged(d, n, e) ==
  /\ n.clock = d.clock
  /\ n.pending = d.pending
  /\ n.outbox = d.outbox
  /\ n.seen = d.seen \cup {e}
  /\ \A c \in Cards :
       \/ /\ n.tomb[c] = d.tomb[c]
          /\ c = e.card /\ e.op = "card.delete" => ~ Newer(e.stamp, d.tomb[c])
          /\ Present(d, c) => Present(n, c)
          /\ Present(n, c) =>
               \/ Present(d, c)
               \/ /\ ~ Buried(d, c)
                  /\ c = e.card /\ e.op = "card.put" /\ e.mask = {"*"}
       \/ /\ c = e.card /\ e.op = "card.delete"
          /\ n.tomb[c] = e.stamp
          /\ Newer(e.stamp, d.tomb[c])
          /\ ~ Present(n, c)
  /\ \A c \in Cards, f \in Field :
       n.ver[c][f] = d.ver[c][f] \/ n.ver[c][f] = e.stamp

LEMMA ApplyCardDeleteMerges ==
  ASSUME NEW d \in Store, NEW e \in Event, e.op = "card.delete"
  PROVE  Merged(d, ApplyRemoteEvent(d, e), e)
<1> DEFINE n == ApplyRemoteEvent(d, e)
           b == [d EXCEPT !.row[e.card] = NoRow, !.tomb[e.card] = e.stamp]
<1>1. e.card \in Cards
  BY DEF Event, PutEvent, DeleteEvent
<1>2. CASE Newer(e.stamp, d.tomb[e.card])
  <2>1. n = [b EXCEPT !.seen = @ \cup {e}]
    BY <1>2 DEF ApplyRemoteEvent, ApplyCardDelete
  <2>2. /\ n.clock = d.clock
        /\ n.pending = d.pending
        /\ n.outbox = d.outbox
        /\ n.seen = d.seen \cup {e}
        /\ n.ver = d.ver
        /\ n.row[e.card] = NoRow
        /\ n.tomb[e.card] = e.stamp
        /\ \A c \in Cards \ {e.card} : n.row[c] = d.row[c] /\ n.tomb[c] = d.tomb[c]
    BY <1>1, <2>1 DEF Store
  <2> HIDE DEF n
  <2> QED
    BY <1>2, <2>2 DEF Merged, Present, n
<1>3. CASE ~ Newer(e.stamp, d.tomb[e.card])
  <2>1. n = [d EXCEPT !.seen = @ \cup {e}]
    BY <1>3 DEF ApplyRemoteEvent, ApplyCardDelete
  <2>2. /\ n.clock = d.clock
        /\ n.pending = d.pending
        /\ n.outbox = d.outbox
        /\ n.seen = d.seen \cup {e}
        /\ n.ver = d.ver
        /\ n.row = d.row
        /\ n.tomb = d.tomb
    BY <2>1 DEF Store
  <2> HIDE DEF n
  <2>3. Merged(d, n, e)
    BY <1>3, <2>2 DEF Merged, Present
  <2> QED
    BY <2>3 DEF n
<1> QED
  BY <1>2, <1>3

LEMMA ApplyCardPutMerges ==
  ASSUME NEW d \in Store, NEW e \in Event, e.op = "card.put"
  PROVE  Merged(d, ApplyRemoteEvent(d, e), e)
<1> DEFINE n == ApplyRemoteEvent(d, e)
           c == e.card
           W == WinningFields(d, e)
           ver == [f \in Field |-> IF f \in W THEN e.stamp ELSE d.ver[c][f]]
           row == IF ~ Present(d, c) THEN e.row
                  ELSE [place    |-> IF "place" \in W
                                     THEN e.row.place ELSE d.row[c].place,
                        archived |-> IF "archived" \in W
                                     THEN e.row.archived ELSE d.row[c].archived]
           b == [d EXCEPT !.row[c] = row, !.ver[c] = ver]
<1>1. c \in Cards /\ e.mask \in {{"*"}, {"place"}, {"archived"}}
  BY DEF Event, PutEvent, DeleteEvent
<1>2. CASE Buried(d, c) \/ (~ Present(d, c) /\ "*" \notin e.mask)
  <2>1. n = [d EXCEPT !.seen = @ \cup {e}]
    BY <1>2 DEF ApplyRemoteEvent, ApplyCardPut
  <2>2. /\ n.clock = d.clock
        /\ n.pending = d.pending
        /\ n.outbox = d.outbox
        /\ n.seen = d.seen \cup {e}
        /\ n.ver = d.ver
        /\ n.row = d.row
        /\ n.tomb = d.tomb
    BY <2>1 DEF Store
  <2> HIDE DEF n
  <2>3. Merged(d, n, e)
    BY <2>2 DEF Merged, Present
  <2> QED
    BY <2>3 DEF n
<1>3. CASE ~ (Buried(d, c) \/ (~ Present(d, c) /\ "*" \notin e.mask))
  <2>1. ApplyCardPut(d, e) = b
    BY <1>3 DEF ApplyCardPut
  <2>2. n = [b EXCEPT !.seen = @ \cup {e}]
    BY <2>1 DEF ApplyRemoteEvent
  <2>3. \A f \in Field : ver[f] = d.ver[c][f] \/ ver[f] = e.stamp
    OBVIOUS
  <2>4. /\ n.clock = d.clock
        /\ n.pending = d.pending
        /\ n.outbox = d.outbox
        /\ n.seen = d.seen \cup {e}
        /\ n.tomb = d.tomb
        /\ n.row[c] = row
        /\ n.ver[c] = ver
        /\ \A x \in Cards \ {c} : n.row[x] = d.row[x] /\ n.ver[x] = d.ver[x]
    <3> HIDE DEF row, ver
    <3> QED
      BY <1>1, <2>2 DEF Store
  <2>5. row \in Row
    <3>1. e.row \in Row
      BY DEF Event, PutEvent, DeleteEvent
    <3>2. Present(d, c) => d.row[c] \in Row
      BY <1>1 DEF Present, Store
    <3> QED
      BY <3>1, <3>2 DEF Row
  <2> HIDE DEF n, ver, row
  <2>6. Present(n, c)
    BY <2>4, <2>5, NoRowAssumption DEF Present
  <2>7. Merged(d, n, e)
    BY <1>1, <1>3, <2>3, <2>4, <2>6 DEF Merged, Present
  <2> QED
    BY <2>7 DEF n
<1> QED
  BY <1>2, <1>3

LEMMA ApplyRemoteEventMerges ==
  ASSUME NEW d \in Store, NEW e \in Event
  PROVE  Merged(d, ApplyRemoteEvent(d, e), e)
<1>1. e.op \in {"card.put", "card.delete"}
  BY DEF Event, PutEvent, DeleteEvent
<1> QED
  BY <1>1, ApplyCardDeleteMerges, ApplyCardPutMerges

-----------------------------------------------------------------------------
(* What a merged event does to the registers.                              *)

\* A card.put of a card that is there takes the registers it wins.
PutInto(d, n, e) ==
  LET c == e.card
  IN  /\ \A x \in Cards \ {c} : n.row[x] = d.row[x] /\ n.ver[x] = d.ver[x]
      /\ Buried(d, c) => n.row[c] = d.row[c]
      /\ ~ Buried(d, c) /\ ~ Present(d, c) /\ e.mask # {"*"} => n.row[c] = d.row[c]
      /\ ~ Buried(d, c) /\ ~ Present(d, c) /\ e.mask = {"*"} =>
           n.row[c] = e.row /\ \A f \in Field : n.ver[c][f] = e.stamp
      /\ ~ Buried(d, c) /\ Present(d, c) =>
           /\ Present(n, c)
           /\ \A f \in Field :
                IF Touches(e.mask, f) /\ Newer(e.stamp, d.ver[c][f])
                THEN n.row[c][f] = e.row[f] /\ n.ver[c][f] = e.stamp
                ELSE n.row[c][f] = d.row[c][f] /\ n.ver[c][f] = d.ver[c][f]

LEMMA ApplyPutWrites ==
  ASSUME NEW d \in Store, NEW e \in Event, e.op = "card.put"
  PROVE  PutInto(d, ApplyRemoteEvent(d, e), e)
<1> DEFINE n == ApplyRemoteEvent(d, e)
           c == e.card
           W == WinningFields(d, e)
           ver == [f \in Field |-> IF f \in W THEN e.stamp ELSE d.ver[c][f]]
           row == IF ~ Present(d, c) THEN e.row
                  ELSE [place    |-> IF "place" \in W
                                     THEN e.row.place ELSE d.row[c].place,
                        archived |-> IF "archived" \in W
                                     THEN e.row.archived ELSE d.row[c].archived]
           b == [d EXCEPT !.row[c] = row, !.ver[c] = ver]
<1>1. /\ c \in Cards /\ e.mask \in {{"*"}, {"place"}, {"archived"}}
      /\ e.row \in Row
  BY DEF Event, PutEvent, DeleteEvent
<1>2. CASE Buried(d, c) \/ (~ Present(d, c) /\ "*" \notin e.mask)
  <2>1. n = [d EXCEPT !.seen = @ \cup {e}]
    BY <1>2 DEF ApplyRemoteEvent, ApplyCardPut
  <2>2. n.ver = d.ver /\ n.row = d.row
    BY <2>1 DEF Store
  <2> HIDE DEF n
  <2>3. PutInto(d, n, e)
    BY <1>1, <1>2, <2>2 DEF PutInto
  <2> QED
    BY <2>3 DEF n
<1>3. CASE ~ (Buried(d, c) \/ (~ Present(d, c) /\ "*" \notin e.mask))
  <2>1. ApplyCardPut(d, e) = b
    BY <1>3 DEF ApplyCardPut
  <2>2. n = [b EXCEPT !.seen = @ \cup {e}]
    BY <2>1 DEF ApplyRemoteEvent
  <2>3. /\ n.row[c] = row
        /\ n.ver[c] = ver
        /\ \A x \in Cards \ {c} : n.row[x] = d.row[x] /\ n.ver[x] = d.ver[x]
    <3> HIDE DEF row, ver
    <3> QED
      BY <1>1, <2>2 DEF Store
  <2>4. CASE ~ Present(d, c)
    <3>1. row = e.row /\ \A f \in Field : Touches(e.mask, f)
      BY <1>3, <2>4 DEF Touches
    <3>2. \A f \in Field : ver[f] = e.stamp
      BY <2>4, <3>1 DEF WinningFields
    <3> HIDE DEF n, row, ver
    <3>3. PutInto(d, n, e)
      BY <1>1, <1>3, <2>3, <2>4, <3>1, <3>2 DEF PutInto
    <3> QED
      BY <3>3 DEF n
  <2>5. CASE Present(d, c)
    <3>1. row \in Row
      <4>1. d.row[c] \in Row
        BY <1>1, <2>5 DEF Present, Store
      <4> QED
        BY <1>1, <4>1 DEF Row
    <3>2. ASSUME NEW f \in Field
          PROVE  IF Touches(e.mask, f) /\ Newer(e.stamp, d.ver[c][f])
                 THEN row[f] = e.row[f] /\ ver[f] = e.stamp
                 ELSE row[f] = d.row[c][f] /\ ver[f] = d.ver[c][f]
      <4>1. f \in W <=> Touches(e.mask, f) /\ Newer(e.stamp, d.ver[c][f])
        BY <2>5 DEF WinningFields
      <4>2. f = "place" \/ f = "archived"
        BY DEF Field
      <4>3. row[f] = IF f \in W THEN e.row[f] ELSE d.row[c][f]
        <5> HIDE DEF W
        <5> QED
          BY <2>5, <4>2
      <4>4. ver[f] = IF f \in W THEN e.stamp ELSE d.ver[c][f]
        OBVIOUS
      <4> HIDE DEF row, ver, W
      <4> QED
        BY <4>1, <4>3, <4>4
    <3> HIDE DEF n, row, ver
    <3>3. Present(n, c)
      BY <2>3, <3>1, NoRowAssumption DEF Present
    <3>4. PutInto(d, n, e)
      BY <1>3, <2>3, <2>5, <3>2, <3>3 DEF PutInto
    <3> QED
      BY <3>4 DEF n
  <2> QED
    BY <2>4, <2>5
<1> QED
  BY <1>2, <1>3

\* A card.delete leaves every other card and every version alone.
LEMMA ApplyDeleteWrites ==
  ASSUME NEW d \in Store, NEW e \in Event, e.op = "card.delete"
  PROVE  LET n == ApplyRemoteEvent(d, e)
         IN  /\ n.ver = d.ver
             /\ \A x \in Cards : n.row[x] = d.row[x] \/ (x = e.card /\ ~ Present(n, x))
             /\ ~ Newer(e.stamp, d.tomb[e.card]) => n.row = d.row
<1> DEFINE n == ApplyRemoteEvent(d, e)
           b == [d EXCEPT !.row[e.card] = NoRow, !.tomb[e.card] = e.stamp]
<1>1. e.card \in Cards
  BY DEF Event, PutEvent, DeleteEvent
<1>2. CASE Newer(e.stamp, d.tomb[e.card])
  <2>1. n = [b EXCEPT !.seen = @ \cup {e}]
    BY <1>2 DEF ApplyRemoteEvent, ApplyCardDelete
  <2> QED
    BY <1>1, <1>2, <2>1 DEF Store, Present
<1>3. CASE ~ Newer(e.stamp, d.tomb[e.card])
  <2>1. n = [d EXCEPT !.seen = @ \cup {e}]
    BY <1>3 DEF ApplyRemoteEvent, ApplyCardDelete
  <2> QED
    BY <2>1 DEF Store
<1> QED
  BY <1>2, <1>3

=============================================================================
