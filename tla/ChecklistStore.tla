---------------------------- MODULE ChecklistStore ----------------------------
(***************************************************************************)
(* What hangs below the cards of one roaming board in the SQLite store of *)
(* one replica: checklists, their items, and the board's appearance, with *)
(* the effect of each transaction on them:                                *)
(*   - PlannerFeatureMutation and the marker each one enqueues            *)
(*     (infrastructure/sqlite/repository.rs), set_appearance              *)
(*     (infrastructure/sqlite/parity.rs),                                 *)
(*   - the events a marker becomes, and the merge of a checklist delta,   *)
(*     of an appearance and of a board.snapshot                           *)
(*     (infrastructure/sqlite/sync.rs).                                   *)
(* The cards' own registers are RoamingStore's; here a card is there or   *)
(* not.                                                                    *)
(*                                                                         *)
(* Abstraction.  A part is a card, a checklist or an item; ids are UUIDs, *)
(* created once, so the parent of an id is fixed.  Titles and positions   *)
(* are written once, by the creation; isDone is the register that is      *)
(* edited.  A board's appearance is named by the stamp of the edit that   *)
(* chose it.  Columns are a flag: the board has some or it has none.      *)
(***************************************************************************)
EXTENDS VersionStamps

CONSTANTS
  Cards, Lists, Items,
  Parent,         \* the card of a checklist, the checklist of an item
  Board,          \* the board, as the entity of its appearance
  SnapshotParts   \* the parts a board.snapshot lists

Part == Cards \cup Lists \cup Items

ASSUME PartsAssumption ==
  /\ Cards \cap Lists = {}
  /\ Items \cap (Cards \cup Lists) = {}
  /\ Board \notin Part
  /\ Parent \in [Lists \cup Items -> Cards \cup Lists]
  /\ \A l \in Lists : Parent[l] \in Cards
  /\ \A i \in Items : Parent[i] \in Lists
  /\ SnapshotParts \subseteq Part
  /\ \A p \in SnapshotParts \ Cards : Parent[p] \in SnapshotParts

Ancestors(p) == CASE p \in Cards -> {}
                  [] p \in Lists -> {Parent[p]}
                  [] p \in Items -> {Parent[p], Parent[Parent[p]]}

\* ON DELETE CASCADE: a row goes with every row below it.
Subtree(p) == {q \in Part : p = q \/ p \in Ancestors(q)}

\* The registers of sync_field_versions that this module reads.
Field == {"lifecycle", "isDone", "appearance"}

MarkerKind == {"card.create", "card.delete", "checklist.create",
               "checklist.delete", "checklist.item.create",
               "checklist.item.update", "checklist.item.delete",
               "board.appearance.put"}

Marker == [seq : Nat, kind : MarkerKind, entity : Part \cup {Board}]

\* `all`: the field mask is ["*"].  `isDone` and `settings` are the payload.
\* checklist deltas travel as card.put events of their card.
Event == [stamp  : Stamp,
          op     : {"card.put", "card.delete", "delta.put", "delta.delete",
                    "board.appearance.put", "board.snapshot"},
          entity : Part \cup {Board},
          all    : BOOLEAN,
          isDone : BOOLEAN,
          settings : StampOrNone]

Store == [clock   : Nat,
          minted  : BOOLEAN,          \* origin_id is not empty any more
          columns : BOOLEAN,
          rows    : SUBSET Part,
          done    : SUBSET Items,
          tomb    : [Part -> StampOrNone],
          ver     : [Part \cup {Board} -> [Field -> StampOrNone]],
          appearance : StampOrNone,
          pending : SUBSET Marker,
          outbox  : SUBSET Event,
          seen    : SUBSET Event]

\* A board as an import leaves it: rows without versions or markers.  Edits of
\* other boards may have minted the origin, at clock 1.
BoardStore(columns, rows, minted) ==
  [clock   |-> IF minted THEN 1 ELSE 0,
   minted  |-> minted,
   columns |-> columns,
   rows    |-> rows,
   done    |-> {},
   tomb    |-> [p \in Part |-> NoStamp],
   ver     |-> [p \in Part \cup {Board} |-> [f \in Field |-> NoStamp]],
   appearance |-> NoStamp,
   pending |-> {},
   outbox  |-> {},
   seen    |-> {}]

Present(d, p) == p \in d.rows
Buried(d, p)  == d.tomb[p] # NoStamp

RemoveRows(d, gone) == [d EXCEPT !.rows = @ \ gone, !.done = @ \ gone]

-----------------------------------------------------------------------------
(* Local mutations.                                                        *)

\* repository.rs: the clock advances, and the origin is minted on first use.
NextLocalClock(d) == [d EXCEPT !.clock = @ + 1, !.minted = TRUE]

Mark(d, kind, entity) ==
  [d EXCEPT !.pending = @ \cup {[seq |-> d.clock, kind |-> kind,
                                 entity |-> entity]}]

InsertPart(d, kind, p) ==
  Mark(NextLocalClock([d EXCEPT !.rows = @ \cup {p}]), kind, p)

UpdateDone(d, i, done) ==
  Mark(NextLocalClock([d EXCEPT !.done = IF done THEN @ \cup {i} ELSE @ \ {i}]),
       "checklist.item.update", i)

DeleteKind(p) == CASE p \in Cards -> "card.delete"
                   [] p \in Lists -> "checklist.delete"
                   [] p \in Items -> "checklist.item.delete"

\* A delete under the version reserved for it: the rows go, the tombstone only
\* moves forward, and the marker reuses the version's clock.
BuryPart(d, r, p, seq) ==
  LET version == [clock |-> seq, replica |-> r]
  IN  [RemoveRows(d, Subtree(p)) EXCEPT
        !.tomb[p] = IF Newer(version, @) THEN version ELSE @,
        !.pending = @ \cup {[seq |-> seq, kind |-> DeleteKind(p), entity |-> p]}]

\* set_appearance of parity.rs advances the clock with a routine of its own
\* and mints no origin.
ChooseAppearance(d, r) ==
  LET n == [d EXCEPT !.clock = @ + 1]
  IN  Mark([n EXCEPT !.appearance = [clock |-> n.clock, replica |-> r]],
           "board.appearance.put", Board)

-----------------------------------------------------------------------------
(* Materialization.                                                        *)

Unmaterialized(d, r) ==
  {m \in d.pending : ~ \E e \in d.outbox : e.stamp = [clock |-> m.seq, replica |-> r]}

\* The registers whose version record_local_event_versions overwrites.
WrittenFields(kind) ==
  CASE kind \in {"checklist.create", "checklist.delete", "checklist.item.delete"}
         -> {"lifecycle"}
    [] kind = "checklist.item.create" -> {"lifecycle", "isDone"}
    [] kind = "checklist.item.update" -> {"isDone"}
    [] kind = "board.appearance.put" -> {"appearance"}
    [] OTHER -> {}

\* The event carries the rows as they are NOW, not as the marker found them.
MarkerEvent(d, r, m) ==
  [stamp  |-> [clock |-> m.seq, replica |-> r],
   op     |-> CASE m.kind \in {"card.delete", "board.appearance.put"} -> m.kind
                [] m.kind = "card.create" -> "card.put"
                [] m.kind \in {"checklist.delete", "checklist.item.delete"}
                     -> "delta.delete"
                [] OTHER -> "delta.put",
   entity |-> m.entity,
   all    |-> m.kind \in {"card.create", "checklist.create", "checklist.item.create"},
   isDone |-> m.entity \in d.done,
   settings |-> IF m.entity = Board THEN d.appearance ELSE NoStamp]

\* InvalidEvent: a put finds no row, a delta's card is gone.
Poisoned(d, m) ==
  \/ /\ m.kind \in {"card.create", "checklist.create", "checklist.item.create",
                    "checklist.item.update"}
     /\ ~ Present(d, m.entity)
  \/ /\ m.kind \in {"checklist.delete", "checklist.item.delete"}
     /\ \E c \in Ancestors(m.entity) \cap Cards : ~ Present(d, c)

\* Mutant of Materializable: the origin may still be empty.
MaterializableUnminted(d, r) == \A m \in Unmaterialized(d, r) : ~ Poisoned(d, m)

Materializable(d, r) ==
  d.minted /\ \A m \in Unmaterialized(d, r) : ~ Poisoned(d, m)

\* Mutant of RecordedVersion: materializing records no versions.
VersionNotRecorded(d, r, p, f) == d.ver[p][f]

\* save_version runs for every new event in sequence order: the last one's
\* version stays, whatever was stored before.
RecordedVersion(d, r, p, f) ==
  LET writers == {m \in Unmaterialized(d, r) :
                    m.entity = p /\ f \in WrittenFields(m.kind)}
  IN  IF writers = {} THEN d.ver[p][f]
      ELSE [clock |-> (CHOOSE m \in writers : \A n \in writers : n.seq <= m.seq).seq,
            replica |-> r]

\* A card.delete event raises the card's tombstone, never lowers it.  It was
\* raised to that version already when the delete was committed.
MaterializePending(d, r) ==
  [d EXCEPT
    !.outbox = @ \cup {MarkerEvent(d, r, m) : m \in Unmaterialized(d, r)},
    !.ver = [p \in Part \cup {Board} |->
               [f \in Field |-> RecordedVersion(d, r, p, f)]]]

-----------------------------------------------------------------------------
(* Merge of one event that has not been seen before.                       *)

Wins(d, e, f) == Newer(e.stamp, d.ver[e.entity][f])

MergeCardPut(d, e) ==
  IF Buried(d, e.entity) THEN d ELSE [d EXCEPT !.rows = @ \cup {e.entity}]

MergeCardDelete(d, e) ==
  IF Newer(e.stamp, d.tomb[e.entity])
  THEN [RemoveRows(d, Subtree(e.entity)) EXCEPT !.tomb[e.entity] = e.stamp]
  ELSE d

\* Mutant of MergeDelete: whatever comes is newer.
MergeDeleteBlindly(d, e) ==
  [RemoveRows(d, Subtree(e.entity)) EXCEPT
    !.tomb[e.entity] = e.stamp,
    !.ver[e.entity]["lifecycle"] = e.stamp]

\* checklist.delete and checklist_item.delete; no row needs to exist.
MergeDelete(d, e) ==
  IF Wins(d, e, "lifecycle")
  THEN [RemoveRows(d, Subtree(e.entity)) EXCEPT
         !.tomb[e.entity] = e.stamp,
         !.ver[e.entity]["lifecycle"] = e.stamp]
  ELSE d

\* Mutant of PutAllowed: nobody looks for the checklist of an item.
PutIgnoresList(d, e) ==
  /\ Buried(d, e.entity) => (e.all /\ Newer(e.stamp, d.tomb[e.entity]))
  /\ Present(d, e.entity) \/ Wins(d, e, "lifecycle")

\* What checklist.put and checklist_item.put ask before they touch a row.  A
\* put of single fields may create the row, if there is no tombstone.
PutAllowed(d, e) ==
  /\ e.entity \in Items => /\ Present(d, Parent[e.entity])
                           /\ ~ Buried(d, Parent[e.entity])
  /\ Buried(d, e.entity) => (e.all /\ Newer(e.stamp, d.tomb[e.entity]))
  /\ Present(d, e.entity) \/ Wins(d, e, "lifecycle")

WriteDone(done, e) ==
  IF e.entity \in Items /\ e.isDone THEN done \cup {e.entity}
                                    ELSE done \ {e.entity}

\* A checklist has one register here, an item two.
Registers(p) == IF p \in Items THEN {"lifecycle", "isDone"} ELSE {"lifecycle"}

CreateFromPut(d, e) ==
  [d EXCEPT !.rows = @ \cup {e.entity},
            !.done = WriteDone(@, e),
            !.tomb[e.entity] = NoStamp,
            !.ver[e.entity] = [f \in Field |-> IF f \in Registers(e.entity)
                                              THEN e.stamp ELSE @[f]]]

\* Mutant of UpdateFromPut: the stored version is not compared.
UpdateBlindly(d, e) ==
  [d EXCEPT !.done = WriteDone(@, e), !.ver[e.entity]["isDone"] = e.stamp]

\* An item put names isDone (native code edits nothing else), a creation all.
UpdateFromPut(d, e) ==
  LET registers == {f \in Registers(e.entity) : (f = "lifecycle" => e.all)
                                                /\ Wins(d, e, f)}
  IN  [d EXCEPT !.done = IF "isDone" \in registers THEN WriteDone(@, e) ELSE @,
                !.tomb[e.entity] = IF "lifecycle" \in registers THEN NoStamp ELSE @,
                !.ver[e.entity] = [f \in Field |->
                                     IF f \in registers THEN e.stamp ELSE @[f]]]

MergePut(d, e) == IF ~ PutAllowed(d, e) THEN d
                  ELSE IF Present(d, e.entity) THEN UpdateFromPut(d, e)
                  ELSE CreateFromPut(d, e)

\* A delta below a card this store does not have, or has buried, is stale.
MergeDelta(d, e) ==
  IF \E c \in Ancestors(e.entity) \cap Cards : Buried(d, c) \/ ~ Present(d, c)
  THEN d
  ELSE IF e.op = "delta.delete" THEN MergeDelete(d, e) ELSE MergePut(d, e)

\* Mutant of MergeAppearance: the version is not compared.
MergeAppearanceBlindly(d, e) ==
  [d EXCEPT !.appearance = e.settings, !.ver[Board]["appearance"] = e.stamp]

MergeAppearance(d, e) ==
  IF Wins(d, e, "appearance")
  THEN [d EXCEPT !.appearance = e.settings, !.ver[Board]["appearance"] = e.stamp]
  ELSE d

\* Mutant of Seeded: the tombstones are not consulted.
SeededWholly(d) == SnapshotParts

\* The parts a snapshot brings in: none that is buried or below a buried one.
Seeded(d) ==
  {p \in SnapshotParts : \A q \in {p} \cup Ancestors(p) : ~ Buried(d, q)}

\* A snapshot fills a board that has neither columns nor cards, and no other.
\* Everything it brings carries its stamp.
MergeSnapshot(d, e) ==
  IF d.columns \/ d.rows \cap Cards # {} THEN d
  ELSE [d EXCEPT
         !.columns = TRUE,
         !.rows = @ \cup Seeded(d),
         !.appearance = e.stamp,
         !.ver = [p \in Part \cup {Board} |->
                    CASE p = Board -> [@[p] EXCEPT !["appearance"] = e.stamp]
                      [] p \in Seeded(d) \cap Lists ->
                           [@[p] EXCEPT !["lifecycle"] = e.stamp]
                      [] p \in Seeded(d) \cap Items ->
                           [@[p] EXCEPT !["lifecycle"] = e.stamp, !["isDone"] = e.stamp]
                      [] OTHER -> @[p]]]

\* A card can not be created in a board without columns: InvalidEvent, which
\* rolls the batch back.
Rejects(d, e) ==
  /\ e.op = "card.put"
  /\ ~ Buried(d, e.entity)
  /\ ~ Present(d, e.entity)
  /\ ~ d.columns

ApplyRemoteEvent(d, e) ==
  LET merged == CASE e.op = "card.put" -> MergeCardPut(d, e)
                  [] e.op = "card.delete" -> MergeCardDelete(d, e)
                  [] e.op = "board.snapshot" -> MergeSnapshot(d, e)
                  [] e.op = "board.appearance.put" -> MergeAppearance(d, e)
                  [] OTHER -> MergeDelta(d, e)
  IN  [merged EXCEPT !.seen = @ \cup {e}]

=============================================================================
