---------------------------- MODULE ChecklistSync ----------------------------
(***************************************************************************)
(* Devices that edit the checklists and the appearance of one roaming     *)
(* board offline and exchange roaming/1 events: RoamingSync, one level    *)
(* down.  The planner, the parity service and the sync actor of a device  *)
(* use connections of their own to one database; a delete takes two       *)
(* transactions, apply_remote_batch takes two.                            *)
(*                                                                         *)
(* `world` says what surrounds the devices.  It is chosen once, from the  *)
(* constant Worlds:                                                       *)
(*   overlap  an edit may fall between the transactions of a batch, and a *)
(*            batch or the appearance between those of a delete;          *)
(*   causal   the relay hands a delta out only with or after the          *)
(*            creation of everything it hangs below;                      *)
(*   content  "full" if every device has imported the board with its      *)
(*            content, "bare" if some may have imported it without,        *)
(*            "seeded" if an Android device has published a snapshot too;  *)
(*   roots    what that content is;                                        *)
(*   looks    the devices on which someone changes the appearance;         *)
(*   clocks   the clock's limit; u64::MAX in the code.                     *)
(***************************************************************************)
EXTENDS ChecklistStore, FiniteSets

CONSTANTS
  Natives,    \* the devices that run this program; other Replicas are Android
  Worlds,
  MaxBatch    \* events per apply_remote_batch call

World == [overlap : BOOLEAN, causal : BOOLEAN, content : {"full", "bare", "seeded"},
          roots : SUBSET Part, looks : SUBSET Natives, clocks : Nat]

ASSUME WorldAssumption ==
  /\ Natives \subseteq Replicas
  /\ Worlds \subseteq World
  /\ \A w \in Worlds : \A p \in w.roots : Ancestors(p) \subseteq w.roots
  /\ MaxBatch \in Nat

VARIABLES
  db,        \* db[r]: the committed database of device r
  deleting,  \* deleting[r]: {} or the delete whose version is reserved
  staged,    \* staged[r]: the batch between apply_remote_batch's transactions
  merge,     \* the merge transaction that is open, if any
  world

vars == <<db, deleting, staged, merge, world>>

\* As in RoamingSync: SQLite's write lock keeps every other writer of a device
\* out of an open merge, nobody sees its work before the commit, and one merge
\* at a time is enough.
Nobody == 0
NoMerge == [at |-> Nobody, todo |-> {}, work |-> BoardStore(FALSE, {}, FALSE)]

Merging(r) == merge.at = r
Idle == merge = NoMerge

Snapshot(r) == [stamp |-> [clock |-> 1, replica |-> r], op |-> "board.snapshot",
                entity |-> Board, all |-> FALSE, isDone |-> FALSE,
                settings |-> NoStamp]

Delete == [part : Part, seq : Nat]

ChecklistTypeOK ==
  /\ db \in [Natives -> Store]
  /\ deleting \in [Natives -> SUBSET Delete]
  /\ staged \in [Natives -> SUBSET Event]
  /\ merge \in [at : Natives \cup {Nobody}, todo : SUBSET Event, work : Store]
  /\ world \in World

Init ==
  /\ world \in Worlds
  /\ \E filled, minted \in [Natives -> BOOLEAN] :
       /\ world.content = "full" => \A r \in Natives : filled[r] /\ minted[r]
       /\ db = [r \in Natives |->
                 BoardStore(filled[r], IF filled[r] THEN world.roots ELSE {}, minted[r])]
  /\ deleting = [r \in Natives |-> {}]
  /\ staged = [r \in Natives |-> {}]
  /\ merge = NoMerge

-----------------------------------------------------------------------------
(* The planner and the parity service.                                     *)

\* No other device is between two transactions.  What a device does there
\* commutes with everything the others do: they see nothing but its outbox,
\* which only grows.
Turn(r) ==
  Idle /\ \A s \in Natives \ {r} : deleting[s] = {} /\ staged[s] = {}

EditorTurn(r) == Turn(r) /\ (world.overlap \/ staged[r] = {})
ClockLeft(r) == db[r].clock < world.clocks
EditorReady(r) == EditorTurn(r) /\ deleting[r] = {} /\ ClockLeft(r)

\* The parity service has a mutex of its own: it may write between the two
\* transactions of a delete.
ParityReady(r) ==
  EditorTurn(r) /\ (world.overlap \/ deleting[r] = {}) /\ ClockLeft(r)

Commit(r, d) ==
  /\ db' = [db EXCEPT ![r] = d]
  /\ UNCHANGED <<deleting, staged, merge, world>>

\* Ids are fresh UUIDs.
Fresh(p) ==
  /\ p \notin world.roots
  /\ world.content = "seeded" => p \notin SnapshotParts
  /\ \A r \in Natives : \A m \in db[r].pending :
       m.entity = p => m.kind \notin {"card.create", "checklist.create",
                                      "checklist.item.create"}

CreateCard(r, c) ==
  /\ EditorReady(r)
  /\ db[r].columns
  /\ Fresh(c)
  /\ Commit(r, InsertPart(db[r], "card.create", c))

CreateChecklist(r, l) ==
  /\ EditorReady(r)
  /\ Fresh(l)
  /\ Present(db[r], Parent[l])
  /\ ~ Buried(db[r], l)
  /\ ~ Present(db[r], l)
  /\ Commit(r, InsertPart(db[r], "checklist.create", l))

CreateChecklistItem(r, i) ==
  /\ EditorReady(r)
  /\ Fresh(i)
  /\ Present(db[r], Parent[i])
  /\ ~ Buried(db[r], i)
  /\ ~ Present(db[r], i)
  /\ Commit(r, InsertPart(db[r], "checklist.item.create", i))

SetChecklistItemDone(r, i, done) ==
  /\ EditorReady(r)
  /\ Present(db[r], i)
  /\ Commit(r, UpdateDone(db[r], i, done))

SetAppearance(r) ==
  /\ ParityReady(r)
  /\ r \in world.looks
  /\ Commit(r, ChooseAppearance(db[r], r))

\* Mutant of ReserveDelete: the transaction of allocate_local_version is dropped
\* without a commit.
ReserveUncommitted(r, p) ==
  /\ EditorReady(r)
  /\ Present(db[r], p)
  /\ deleting' = [deleting EXCEPT ![r] = {[part |-> p, seq |-> db[r].clock + 1]}]
  /\ UNCHANGED <<db, staged, merge, world>>

\* The lookup of delete_card, delete_checklist or delete_checklist_item and its
\* first transaction, allocate_local_version.
ReserveDelete(r, p) ==
  /\ EditorReady(r)
  /\ Present(db[r], p)
  /\ LET n == NextLocalClock(db[r])
     IN  /\ db' = [db EXCEPT ![r] = n]
         /\ deleting' = [deleting EXCEPT ![r] = {[part |-> p, seq |-> n.clock]}]
  /\ UNCHANGED <<staged, merge, world>>

\* Its second transaction.  If the row went in between without a tombstone,
\* with its parent, the command fails.
CommitDelete(r) ==
  /\ EditorTurn(r)
  /\ \E v \in deleting[r] :
       db' = [db EXCEPT ![r] =
                IF Present(@, v.part) \/ Buried(@, v.part)
                THEN BuryPart(@, r, v.part, v.seq) ELSE @]
  /\ deleting' = [deleting EXCEPT ![r] = {}]
  /\ UNCHANGED <<staged, merge, world>>

-----------------------------------------------------------------------------
(* The sync actor.                                                         *)

SyncReady(r) ==
  /\ Turn(r)
  /\ staged[r] = {}
  /\ world.overlap \/ deleting[r] = {}
  /\ Materializable(db[r], r)

Snapshots ==
  IF world.content = "seeded" THEN {Snapshot(a) : a \in Replicas \ Natives} ELSE {}

Published == Snapshots \cup UNION {db[r].outbox : r \in Natives}

CreationKnown(r, batch, p) ==
  \/ p \in world.roots
  \/ \E e \in batch \cup db[r].seen \cup db[r].outbox : e.entity = p /\ e.all

Deliverable(r, batch) ==
  world.causal =>
    \A e \in batch : e.op \in {"delta.put", "delta.delete"} =>
      \A p \in {e.entity} \cup Ancestors(e.entity) : CreationKnown(r, batch, p)

Materialize(r) ==
  /\ SyncReady(r)
  /\ Unmaterialized(db[r], r) # {}
  /\ Commit(r, MaterializePending(db[r], r))

\* apply_remote_batch, first transaction.
StageBatch(r, batch) ==
  /\ SyncReady(r)
  /\ Deliverable(r, batch)
  /\ db' = [db EXCEPT ![r] = MaterializePending(@, r)]
  /\ staged' = [staged EXCEPT ![r] = batch]
  /\ UNCHANGED <<deleting, merge, world>>

\* Its second transaction opens: observe_remote_clock with the batch's maximum.
ObserveRemoteClock(d, observed) ==
  [d EXCEPT !.clock = IF @ < observed THEN observed ELSE @]

OpenMerge(r) ==
  /\ Turn(r)
  /\ staged[r] # {}
  /\ \E observed \in {e.stamp.clock : e \in staged[r]} :
       /\ \A e \in staged[r] : e.stamp.clock <= observed
       /\ merge' = [at   |-> r,
                    todo |-> staged[r],
                    work |-> ObserveRemoteClock(db[r], observed)]
  /\ staged' = [staged EXCEPT ![r] = {}]
  /\ UNCHANGED <<db, deleting, world>>

IsOldest(e, events) == \A o \in events \ {e} : Newer(o.stamp, e.stamp)

\* The batch is merged in stamp order; an event that was seen is a duplicate.
MergeEvent(r, e) ==
  /\ Merging(r)
  /\ e \in merge.todo
  /\ IsOldest(e, merge.todo)
  /\ e \notin merge.work.seen => ~ Rejects(merge.work, e)
  /\ merge' = [merge EXCEPT
                 !.todo = @ \ {e},
                 !.work = IF e \in @.seen THEN @ ELSE ApplyRemoteEvent(@, e)]
  /\ UNCHANGED <<db, deleting, staged, world>>

\* One rejected event rolls the whole batch back.
AbortMerge(r) ==
  /\ Merging(r)
  /\ \E e \in merge.todo : /\ IsOldest(e, merge.todo)
                           /\ e \notin merge.work.seen
                           /\ Rejects(merge.work, e)
  /\ merge' = NoMerge
  /\ UNCHANGED <<db, deleting, staged, world>>

CommitMerge(r) ==
  /\ Merging(r)
  /\ merge.todo = {}
  /\ db' = [db EXCEPT ![r] = merge.work]
  /\ merge' = NoMerge
  /\ UNCHANGED <<deleting, staged, world>>

\* The process dies between two transactions.
Crash(r) ==
  /\ Idle \/ Merging(r)
  /\ deleting[r] # {} \/ staged[r] # {} \/ Merging(r)
  /\ deleting' = [deleting EXCEPT ![r] = {}]
  /\ staged' = [staged EXCEPT ![r] = {}]
  /\ merge' = NoMerge
  /\ UNCHANGED <<db, world>>

Editor(r) ==
  \/ \E c \in Cards : CreateCard(r, c)
  \/ \E l \in Lists : CreateChecklist(r, l)
  \/ \E i \in Items : CreateChecklistItem(r, i)
  \/ \E i \in Items, done \in BOOLEAN : SetChecklistItemDone(r, i, done)
  \/ SetAppearance(r)
  \/ \E p \in Part : ReserveDelete(r, p)
  \/ CommitDelete(r)

SmallBatch(r) ==
  {b \in SUBSET (Published \ db[r].seen) : b # {} /\ Cardinality(b) <= MaxBatch}

Sync(r) ==
  \/ Materialize(r)
  \/ \E batch \in SmallBatch(r) : StageBatch(r, batch)
  \/ OpenMerge(r)
  \/ \E e \in merge.todo : MergeEvent(r, e)
  \/ AbortMerge(r)
  \/ CommitMerge(r)

Next == \E r \in Natives : Editor(r) \/ Sync(r) \/ Crash(r)

Spec == Init /\ [][Next]_vars

-----------------------------------------------------------------------------
(* In every world.                                                         *)

\* No checklist without its card, no item without its checklist: cascades,
\* merges and seeds never leave a row whose parent is gone, so no insert ever
\* runs into the schema's foreign keys and rolls a whole batch back.
NoOrphans ==
  \A r \in Natives : \A p \in db[r].rows : Ancestors(p) \subseteq db[r].rows

\* A tombstone and a row of one id never stand side by side, and what has been
\* deleted stays deleted: neither a late put, nor an update that may create
\* the row, nor a snapshot brings it back.
DeletedPartsStayDeleted ==
  [][\A r \in Natives, p \in Part :
       Buried(db[r], p) => ~ Present(db'[r], p) /\ Buried(db'[r], p)]_vars

\* A replica without an id neither publishes nor merges; what it has recorded
\* so far, an appearance, waits for the first planner edit.
NothingLeavesAnonymously ==
  \A r \in Natives :
    /\ ~ db[r].minted => db[r].outbox = {} /\ db[r].seen = {}
    /\ \A e \in db[r].outbox : e.stamp.replica = r /\ e.stamp.clock <= db[r].clock

\* Edits, deletes and the appearance take their clocks in three routines, and a
\* delete uses its clock in a later transaction, with merges and a change of the
\* appearance in between.  No two changes of a device share a clock, the delete
\* under way included, and no two events a stamp.  No key of the schema stops
\* it: which of the two changes wins would be left to their random event ids.
ChangesHaveTheirOwnStamps ==
  /\ \A r \in Natives :
       /\ \A m, o \in db[r].pending : m.seq = o.seq => m = o
       /\ \A v \in deleting[r], m \in db[r].pending : m.seq # v.seq
  /\ \A e, o \in Published : e.stamp = o.stamp => e = o

-----------------------------------------------------------------------------
(* In a world without overlap, with a causal relay and without snapshots.  *)
(* A snapshot fills a board as it was: an appearance chosen since and a    *)
(* delete that came while its card was missing are lost on that device.    *)

InOrder == world.causal /\ ~ world.overlap /\ world.content # "seeded"

Settled(r) == Unmaterialized(db[r], r) = {} /\ staged[r] = {} /\ deleting[r] = {}
Known(r) == db[r].outbox \cup db[r].seen

\* Devices that know the same events show the same cards, checklists, items,
\* check marks and appearance, if all of them started with the content.
PartsConverge ==
  \A r1, r2 \in Natives :
    (/\ InOrder /\ world.content = "full"
     /\ Settled(r1) /\ Settled(r2) /\ Known(r1) = Known(r2))
      => /\ db[r1].rows = db[r2].rows
         /\ db[r1].done = db[r2].done
         /\ db[r1].appearance = db[r2].appearance

\* The tombstone of a checklist or item on a live card is its newest known
\* delete, whichever way the device learnt of it.
PartTombIsNewestDelete ==
  \A r \in Natives, p \in Lists \cup Items :
    (InOrder /\ Settled(r) /\ Ancestors(p) \cap Cards \subseteq db[r].rows) =>
      \A e \in Known(r) :
        (e.entity = p /\ e.op = "delta.delete") => ~ Newer(e.stamp, db[r].tomb[p])

\* The check mark of a live item is the newest one that is known.
NewestMarkWins ==
  \A r \in Natives : \A i \in Items \cap db[r].rows :
    (InOrder /\ Settled(r)) =>
      LET marks == {e \in Known(r) : e.entity = i /\ e.op = "delta.put"}
      IN  marks # {} => \E e \in marks : /\ \A o \in marks : ~ Newer(o.stamp, e.stamp)
                           /\ e.isDone <=> i \in db[r].done

\* Merging never replaces a mark or an appearance that was set here by an edit
\* that is newer than what replaces it, published or not.
LocalMarksSurvive ==
  [][\A r \in Natives :
       (InOrder /\ db'[r].pending = db[r].pending) =>
         /\ \A i \in Items \cap db[r].rows \cap db'[r].rows :
              (i \in db[r].done) # (i \in db'[r].done) =>
                \A m \in db[r].pending :
                  (m.entity = i /\ "isDone" \in WrittenFields(m.kind)) =>
                    Newer(db'[r].ver[i]["isDone"], [clock |-> m.seq, replica |-> r])
         /\ db'[r].appearance # db[r].appearance =>
              \A m \in db[r].pending :
                m.entity = Board =>
                  Newer(db'[r].ver[Board]["appearance"],
                        [clock |-> m.seq, replica |-> r])]_vars

=============================================================================
