----------------------------- MODULE RoamingStore -----------------------------
(***************************************************************************)
(* The SQLite store of one replica, as far as one roaming board's cards   *)
(* are concerned, and the effect of each transaction on it:               *)
(*   - the planner's mutations with the pending marker each one enqueues  *)
(*     (infrastructure/sqlite/repository.rs),                             *)
(*   - the materialization of pending markers into the outbox, and the    *)
(*     merge of one remote event (infrastructure/sqlite/sync.rs).         *)
(*                                                                         *)
(* A store is a record; every operator maps a store to the store its      *)
(* transaction (or its step of a transaction) leaves behind.              *)
(*                                                                         *)
(* Abstraction.  A card row keeps the two registers that native code      *)
(* writes: `place`, the (column, position) pair that card.move always     *)
(* writes together, and `archived`.  Title, description and the other     *)
(* fields are written once, by card.create.  A position (f64) is a member *)
(* of Ranks.  The workspace, the board, the access epoch (never changed   *)
(* once a workspace exists) and the payload encoding are left out: one    *)
(* board in one workspace.                                                *)
(***************************************************************************)
EXTENDS VersionStamps

CONSTANTS
  Cards,    \* card ids; UUIDs, so an id is created at most once
  Columns,  \* column ids
  Ranks,    \* positions of a card in its column
  NoRow     \* what a query for a missing row returns

Slot  == [column : Columns, rank : Ranks]
Row   == [place : Slot, archived : BOOLEAN]
Field == {"place", "archived"}

ASSUME NoRowAssumption == NoRow \notin Row

EditKind == {"card.create", "card.move", "card.archive", "card.unarchive"}
CardKind == EditKind \cup {"card.delete"}

\* A row of pending_local_changes.  Its id is not modelled: next_local_clock
\* gives every marker of a profile its own sequence.
Marker == [seq : Nat, kind : CardKind, entity : Cards]
            \cup [seq : Nat, kind : {"column.create"}, entity : Columns]

\* A RoamingBoardEvent.  replica_seq and logical_clock are both the sequence
\* of the marker it was made from, the clock of its stamp.
\* An edit writes some registers of the card, its creation all of them.
PutEvent == [stamp : Stamp, op : {"card.put"}, card : Cards,
             mask : {{"*"}, {"place"}, {"archived"}}, row : Row]
DeleteEvent == [stamp : Stamp, op : {"card.delete"}, card : Cards,
                mask : {{"__lifecycle"}}, row : {NoRow}]
Event == PutEvent \cup DeleteEvent

\* `minted`: origin_id of local_mutation_state is no longer the empty string.
\* `tomb`, `ver`: card_tombstones and sync_field_versions.
\* `seen`: sync_seen_events; the digest it keeps identifies the event's body.
Store == [clock   : Nat,
          minted  : BOOLEAN,
          columns : SUBSET Columns,
          row     : [Cards -> Row \cup {NoRow}],
          tomb    : [Cards -> StampOrNone],
          ver     : [Cards -> [Field -> StampOrNone]],
          pending : SUBSET Marker,
          outbox  : SUBSET Event,
          seen    : SUBSET Event]

\* A profile on which the board with its columns K has been set up and not been
\* edited yet.  Migration 0003 inserts clock 0 and an empty origin; edits of
\* other boards of the profile, if any, have advanced the clock to `past`.
EmptyStore(K, past) ==
  [clock   |-> past,
   minted  |-> past > 0,
   columns |-> K,
   row     |-> [c \in Cards |-> NoRow],
   tomb    |-> [c \in Cards |-> NoStamp],
   ver     |-> [c \in Cards |-> [f \in Field |-> NoStamp]],
   pending |-> {},
   outbox  |-> {},
   seen    |-> {}]

-----------------------------------------------------------------------------
(* Local mutations.                                                        *)

Present(d, c) == d.row[c] # NoRow
Buried(d, c)  == d.tomb[c] # NoStamp

\* Advances the Lamport clock and mints the replica id on first use.
NextLocalClock(d) == [d EXCEPT !.clock = @ + 1, !.minted = TRUE]

\* A marker without a version of its own: it takes the next clock.
EnqueuePending(d, kind, entity) ==
  LET n == NextLocalClock(d)
  IN  [n EXCEPT !.pending =
         @ \cup {[seq |-> n.clock, kind |-> kind, entity |-> entity]}]

InsertColumn(d, k) ==
  EnqueuePending([d EXCEPT !.columns = @ \cup {k}], "column.create", k)

InsertCard(d, c, slot) ==
  EnqueuePending([d EXCEPT !.row[c] = [place |-> slot, archived |-> FALSE]],
                 "card.create", c)

PlaceCard(d, c, slot) ==
  EnqueuePending([d EXCEPT !.row[c].place = slot], "card.move", c)

ArchiveCard(d, c, archived) ==
  EnqueuePending([d EXCEPT !.row[c].archived = archived],
                 IF archived THEN "card.archive" ELSE "card.unarchive", c)

\* Mutant of ReorderCards: both markers take one clock, as one reorder.
ReorderCardsOneClock(d, c1, rank1, c2, rank2) ==
  LET n == NextLocalClock([d EXCEPT !.row[c1].place.rank = rank1,
                                    !.row[c2].place.rank = rank2])
  IN  [n EXCEPT !.pending = @ \cup {[seq |-> n.clock, kind |-> "card.move",
                                    entity |-> c] : c \in {c1, c2}}]

\* ReorderColumn as swap_card_order calls it: two cards of one column get
\* new positions, and each gets a card.move marker of its own.
ReorderCards(d, c1, rank1, c2, rank2) ==
  LET placed == [d EXCEPT !.row[c1].place.rank = rank1,
                          !.row[c2].place.rank = rank2]
  IN  EnqueuePending(EnqueuePending(placed, "card.move", c1), "card.move", c2)

\* Mutant of BuryCard: the tombstone is overwritten without a comparison.
BuryCardBlindly(d, r, c, seq) ==
  [d EXCEPT !.row[c]  = NoRow,
            !.tomb[c] = [clock |-> seq, replica |-> r],
            !.pending =
              @ \cup {[seq |-> seq, kind |-> "card.delete", entity |-> c]}]

\* Deletes card c with the version reserved earlier.  If a remote delete got
\* there first the tombstone only moves forward.  The marker reuses the
\* version, so it takes no clock.
BuryCard(d, r, c, seq) ==
  LET version == [clock |-> seq, replica |-> r]
  IN  [d EXCEPT !.row[c]  = NoRow,
                !.tomb[c] = IF Newer(version, @) THEN version ELSE @,
                !.pending =
                  @ \cup {[seq |-> seq, kind |-> "card.delete", entity |-> c]}]

-----------------------------------------------------------------------------
(* Materialization of pending markers into the outbox.                     *)

\* roaming/1 has no operation for these: the marker is reported as blocked.
Unsupported(m) == m.kind = "column.create"

Blocked(d) == {m \in d.pending : Unsupported(m)}

\* Markers with no outbox row yet (looked up by source_change_id).
Unmaterialized(d) ==
  {m \in d.pending \ Blocked(d) : ~ \E e \in d.outbox : e.stamp.clock = m.seq}

EventMask(kind) ==
  CASE kind = "card.create" -> {"*"}
    [] kind = "card.move"   -> {"place"}
    [] kind \in {"card.archive", "card.unarchive"} -> {"archived"}
    [] kind = "card.delete" -> {"__lifecycle"}

Touches(mask, f) == "*" \in mask \/ f \in mask

\* The event of a marker carries the card row as it is NOW, not as it was
\* when the marker was enqueued; a delete carries no row.
MarkerEvent(d, r, m) ==
  [stamp |-> [clock |-> m.seq, replica |-> r],
   op    |-> IF m.kind = "card.delete" THEN "card.delete" ELSE "card.put",
   card  |-> m.entity,
   mask  |-> EventMask(m.kind),
   row   |-> IF m.kind = "card.delete" THEN NoRow ELSE d.row[m.entity]]

\* card_payload finds no row: InvalidEvent, and the transaction is rolled back.
Poisoned(d, m) == m.kind \in EditKind /\ ~ Present(d, m.entity)

Materializable(d) ==
  d.minted /\ \A m \in Unmaterialized(d) : ~ Poisoned(d, m)

IsLast(m, M) == m \in M /\ \A n \in M : n.seq <= m.seq

\* The version a field is left with after save_version has run for every new
\* event in sequence order: the last one's, whatever was stored before.
RecordedVersion(d, r, c, f) ==
  LET writers == {m \in Unmaterialized(d) :
                    m.entity = c /\ Touches(EventMask(m.kind), f)}
  IN  IF \E m \in writers : IsLast(m, writers)
      THEN [clock |-> (CHOOSE m \in writers : IsLast(m, writers)).seq,
            replica |-> r]
      ELSE d.ver[c][f]

\* A materialized delete raises the tombstone but never lowers it.
RecordedTomb(d, r, c) ==
  LET deletes == {m \in Unmaterialized(d) :
                    /\ m.kind = "card.delete"
                    /\ m.entity = c
                    /\ Newer([clock |-> m.seq, replica |-> r], d.tomb[c])}
  IN  IF \E m \in deletes : IsLast(m, deletes)
      THEN [clock |-> (CHOOSE m \in deletes : IsLast(m, deletes)).seq,
            replica |-> r]
      ELSE d.tomb[c]

MaterializePending(d, r) ==
  [d EXCEPT
    !.outbox = @ \cup {MarkerEvent(d, r, m) : m \in Unmaterialized(d)},
    !.ver    = [c \in Cards |-> [f \in Field |-> RecordedVersion(d, r, c, f)]],
    !.tomb   = [c \in Cards |-> RecordedTomb(d, r, c)]]

-----------------------------------------------------------------------------
(* Merge of one remote event that has not been seen before.                *)

\* Mutant of ObserveRemoteClock: the received clocks are not taken in.
IgnoreRemoteClock(d, observed) == d

\* observe_remote_clock: the clock never falls behind what was received.
ObserveRemoteClock(d, observed) ==
  [d EXCEPT !.clock = IF observed > @ THEN observed ELSE @]

\* Mutants of WinningFields: versions are ignored; an equal version wins.
AllFields(d, e) == {f \in Field : Touches(e.mask, f)}

FieldsNotBeaten(d, e) ==
  {f \in Field :
    /\ Touches(e.mask, f)
    /\ ~ Present(d, e.card) \/ ~ Newer(d.ver[e.card][f], e.stamp)}

\* The registers the event may write: all of them when it creates the row,
\* those whose stored version it beats when the row exists.
WinningFields(d, e) ==
  {f \in Field :
    /\ Touches(e.mask, f)
    /\ ~ Present(d, e.card) \/ Newer(e.stamp, d.ver[e.card][f])}

\* Mutant of ApplyCardDelete: the row goes, no tombstone is left.
DropCard(d, e) == [d EXCEPT !.row[e.card] = NoRow]

\* apply_card_delete.
ApplyCardDelete(d, e) ==
  IF Newer(e.stamp, d.tomb[e.card])
  THEN [d EXCEPT !.row[e.card] = NoRow, !.tomb[e.card] = e.stamp]
  ELSE d

\* Mutant of ApplyCardPut: the tombstone is not consulted.
PutIgnoringTombstone(d, e) ==
  LET c == e.card
      W == WinningFields(d, e)
  IN  IF ~ Present(d, c) /\ "*" \notin e.mask
      THEN d
      ELSE [d EXCEPT
             !.row[c] = IF ~ Present(d, c) THEN e.row
                        ELSE [place    |-> IF "place" \in W
                                           THEN e.row.place ELSE @.place,
                              archived |-> IF "archived" \in W
                                           THEN e.row.archived ELSE @.archived],
             !.ver[c] = [f \in Field |-> IF f \in W THEN e.stamp ELSE @[f]]]

\* apply_card_put: a tombstone blocks it, and an edit of a card this store
\* does not have changes nothing.
ApplyCardPut(d, e) ==
  LET c == e.card
      W == WinningFields(d, e)
  IN  IF Buried(d, c) \/ (~ Present(d, c) /\ "*" \notin e.mask)
      THEN d
      ELSE [d EXCEPT
             !.row[c] = IF ~ Present(d, c) THEN e.row
                        ELSE [place    |-> IF "place" \in W
                                           THEN e.row.place ELSE @.place,
                              archived |-> IF "archived" \in W
                                           THEN e.row.archived ELSE @.archived],
             !.ver[c] = [f \in Field |-> IF f \in W THEN e.stamp ELSE @[f]]]

\* Mutant of Rejects: only an edit of a card that is there checks its column.
RejectsOnlyEdits(d, e) ==
  /\ e.op = "card.put"
  /\ ~ Buried(d, e.card)
  /\ Present(d, e.card)
  /\ "place" \in WinningFields(d, e)
  /\ e.row.place.column \notin d.columns

\* The event would put a card into a column this board does not have:
\* InvalidEvent, which rolls back the whole batch.
Rejects(d, e) ==
  /\ e.op = "card.put"
  /\ ~ Buried(d, e.card)
  /\ Present(d, e.card) \/ "*" \in e.mask
  /\ "place" \in WinningFields(d, e)
  /\ e.row.place.column \notin d.columns

\* Whatever became of the event, it is recorded as seen.
ApplyRemoteEvent(d, e) ==
  LET merged == IF e.op = "card.delete" THEN ApplyCardDelete(d, e)
                                        ELSE ApplyCardPut(d, e)
  IN  [merged EXCEPT !.seen = @ \cup {e}]

=============================================================================
