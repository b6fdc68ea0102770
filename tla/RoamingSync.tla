------------------------------ MODULE RoamingSync ------------------------------
(***************************************************************************)
(* Replicas of one board that edit it offline and exchange roaming/1      *)
(* events.  On every replica two actors share the profile's database      *)
(* through connections of their own:                                      *)
(*   - the planner (PlannerService, one mutex), whose commands commit one *)
(*     transaction each, a delete two;                                    *)
(*   - the sync actor (SyncService, another mutex), whose                 *)
(*     apply_remote_batch runs TWO transactions, one that materializes    *)
(*     the local backlog and one that merges the batch.                   *)
(* No lock covers both actors, so a command can commit between the two    *)
(* transactions.  A batch is any small set of published events: the relay *)
(* may lose, duplicate, delay and reorder them.                           *)
(*                                                                         *)
(* Two constants narrow the environment to what a property needs; they    *)
(* are assumptions on the caller, nothing in the code enforces them:      *)
(*   PlannerOverlapsSync = FALSE  the host never runs a planner command   *)
(*                                while a batch is being applied;         *)
(*   RelayIsCausal = TRUE         an edit of a card is only delivered     *)
(*                                with or after the card's card.create.   *)
(***************************************************************************)
EXTENDS RoamingStore, FiniteSets

CONSTANTS
  BoardColumns,         \* columns every replica starts with
  PastClocks,           \* clocks a profile may have reached on other boards
  MaxClock,             \* the clock's limit; u64::MAX in the code
  MaxBatch,             \* events per apply_remote_batch call
  PlannerOverlapsSync,
  RelayIsCausal

ASSUME SyncAssumption ==
  /\ BoardColumns \subseteq Columns
  /\ PastClocks \subseteq Nat
  /\ MaxClock \in Nat
  /\ MaxBatch \in Nat
  /\ PlannerOverlapsSync \in BOOLEAN
  /\ RelayIsCausal \in BOOLEAN

VARIABLES
  db,        \* db[r]: the committed database of replica r
  deleting,  \* deleting[r]: {} or the delete that delete_card has begun and
             \*              not committed yet
  staged,    \* staged[r]: the batch held by apply_remote_batch between its
             \*            two transactions, {} when it is not running
  merge      \* the merge transaction that is open, if any

vars == <<db, deleting, staged, merge>>

\* SQLite's write lock keeps every other writer of a replica out of an open
\* merge transaction, and nobody sees its work before the commit.  Its steps
\* therefore commute with everything other replicas do, and at most one merge
\* is open at a time.
Nobody == 0
NoMerge == [at |-> Nobody, todo |-> {}, work |-> EmptyStore({}, 0)]

Merging(r) == merge.at = r
Idle == merge = NoMerge

\* A delete on its way, with the clock of its version once that is reserved.
NotReserved == 0
Delete == [card : Cards, seq : Nat]

TypeOK ==
  /\ db \in [Replicas -> Store]
  /\ deleting \in [Replicas -> SUBSET Delete]
  /\ staged \in [Replicas -> SUBSET Event]
  /\ merge \in [at : Replicas \cup {Nobody}, todo : SUBSET Event, work : Store]

Init ==
  /\ \E past \in [Replicas -> PastClocks] :
       db = [r \in Replicas |-> EmptyStore(BoardColumns, past[r])]
  /\ deleting = [r \in Replicas |-> {}]
  /\ staged = [r \in Replicas |-> {}]
  /\ merge = NoMerge

-----------------------------------------------------------------------------
(* The planner.                                                            *)

PlannerTurn(r) ==
  /\ Idle
  /\ PlannerOverlapsSync \/ staged[r] = {}

\* The planner's mutex is free: no delete_card is on its way.
PlannerReady(r) == PlannerTurn(r) /\ deleting[r] = {}

ClocksLeft(r, n) == db[r].clock + n <= MaxClock

Commit(r, d) ==
  /\ db' = [db EXCEPT ![r] = d]
  /\ UNCHANGED <<deleting, staged, merge>>

\* Ids are fresh UUIDs: no replica has ever created this entity before.
FreshId(id, kind) ==
  \A r \in Replicas : \A m \in db[r].pending : ~ (m.kind = kind /\ m.entity = id)

CreateColumn(r, k) ==
  /\ PlannerReady(r)
  /\ ClocksLeft(r, 1)
  /\ k \notin BoardColumns
  /\ FreshId(k, "column.create")
  /\ Commit(r, InsertColumn(db[r], k))

CreateCard(r, c, slot) ==
  /\ PlannerReady(r)
  /\ ClocksLeft(r, 1)
  /\ FreshId(c, "card.create")
  /\ slot.column \in db[r].columns
  /\ ~ Buried(db[r], c)
  /\ ~ Present(db[r], c)
  /\ Commit(r, InsertCard(db[r], c, slot))

\* The position is computed by next_position from rows read before the
\* transaction; any rank stands for it.
MoveCard(r, c, slot) ==
  /\ PlannerReady(r)
  /\ ClocksLeft(r, 1)
  /\ Present(db[r], c)
  /\ slot.column \in db[r].columns
  /\ Commit(r, PlaceCard(db[r], c, slot))

SetCardArchived(r, c, archived) ==
  /\ PlannerReady(r)
  /\ ClocksLeft(r, 1)
  /\ Present(db[r], c)
  /\ Commit(r, ArchiveCard(db[r], c, archived))

\* swap_card_order reads both positions before its transaction opens, so the
\* ranks it writes may be stale ones.
SwapCardOrder(r, c1, rank1, c2, rank2) ==
  /\ PlannerReady(r)
  /\ ClocksLeft(r, 2)
  /\ c1 # c2
  /\ Present(db[r], c1)
  /\ Present(db[r], c2)
  /\ db[r].row[c1].place.column = db[r].row[c2].place.column
  /\ Commit(r, ReorderCards(db[r], c1, rank1, c2, rank2))

\* delete_card looks the card up before either of its transactions.
FindDoomed(r, c) ==
  /\ PlannerReady(r)
  /\ Present(db[r], c)
  /\ deleting' = [deleting EXCEPT ![r] = {[card |-> c, seq |-> NotReserved]}]
  /\ UNCHANGED <<db, staged, merge>>

\* delete_card, first transaction: allocate_local_version.
ReserveDelete(r, c) ==
  /\ PlannerTurn(r)
  /\ ClocksLeft(r, 1)
  /\ [card |-> c, seq |-> NotReserved] \in deleting[r]
  /\ LET n == NextLocalClock(db[r])
     IN  /\ db' = [db EXCEPT ![r] = n]
         /\ deleting' = [deleting EXCEPT ![r] = {[card |-> c, seq |-> n.clock]}]
  /\ UNCHANGED <<staged, merge>>

\* delete_card, second transaction: commit.
DeleteCard(r) ==
  /\ PlannerTurn(r)
  /\ \E v \in deleting[r] :
       /\ v.seq # NotReserved
       /\ Present(db[r], v.card) \/ Buried(db[r], v.card)
       /\ db' = [db EXCEPT ![r] = BuryCard(@, r, v.card, v.seq)]
  /\ deleting' = [deleting EXCEPT ![r] = {}]
  /\ UNCHANGED <<staged, merge>>

-----------------------------------------------------------------------------
(* The sync actor.                                                         *)

SyncReady(r) ==
  /\ Idle
  /\ staged[r] = {}
  /\ PlannerOverlapsSync \/ deleting[r] = {}

\* list_outbox of every replica: what a relay may have got hold of.
Published == UNION {db[r].outbox : r \in Replicas}

CreateKnown(r, batch, c) ==
  \E e \in batch \cup db[r].seen \cup db[r].outbox :
    e.card = c /\ "*" \in e.mask

\* What the relay may hand to replica r: any published events, the replica's
\* own ones and ones it has already had among them.
Deliverable(r, batch) ==
  /\ batch \subseteq Published
  /\ batch # {}
  /\ RelayIsCausal =>
       \A e \in batch : e.op = "card.put" => CreateKnown(r, batch, e.card)

\* materialize_pending called by the host.
Materialize(r) ==
  /\ SyncReady(r)
  /\ Materializable(db[r])
  /\ Commit(r, MaterializePending(db[r], r))

\* Mutant of StageBatch: the backlog is not materialized before the merge.
StageBatchOnly(r, batch) ==
  /\ SyncReady(r)
  /\ Deliverable(r, batch)
  /\ Materializable(db[r])
  /\ Blocked(db[r]) = {}
  /\ staged' = [staged EXCEPT ![r] = batch]
  /\ UNCHANGED <<db, deleting, merge>>

\* apply_remote_batch up to the end of its first transaction.  A blocked
\* marker ends the call here (with what Materialize has done).
StageBatch(r, batch) ==
  /\ SyncReady(r)
  /\ Deliverable(r, batch)
  /\ Materializable(db[r])
  /\ Blocked(db[r]) = {}
  /\ db' = [db EXCEPT ![r] = MaterializePending(@, r)]
  /\ staged' = [staged EXCEPT ![r] = batch]
  /\ UNCHANGED <<deleting, merge>>

\* Its second transaction opens: the clock takes in the batch's maximum.
OpenMerge(r) ==
  /\ Idle
  /\ staged[r] # {}
  /\ \E observed \in {e.stamp.clock : e \in staged[r]} :
       /\ \A e \in staged[r] : e.stamp.clock <= observed
       /\ merge' = [at   |-> r,
                    todo |-> staged[r],
                    work |-> ObserveRemoteClock(db[r], observed)]
  /\ staged' = [staged EXCEPT ![r] = {}]
  /\ UNCHANGED <<db, deleting>>

\* Mutant of IsOldest: the batch is merged in the order it arrived in.
AnyOrder(e, events) == TRUE

IsOldest(e, events) == \A o \in events \ {e} : Newer(o.stamp, e.stamp)

\* The batch is merged in stamp order; an event that was seen is a duplicate.
MergeEvent(r, e) ==
  /\ Merging(r)
  /\ e \in merge.todo
  /\ IsOldest(e, merge.todo)
  /\ e \notin merge.work.seen => ~ Rejects(merge.work, e)
  /\ merge' = [merge EXCEPT
                 !.todo = @ \ {e},
                 !.work = IF e \in @.seen THEN @ ELSE ApplyRemoteEvent(@, e)]
  /\ UNCHANGED <<db, deleting, staged>>

AbortMerge(r) ==
  /\ Merging(r)
  /\ \E e \in merge.todo : /\ IsOldest(e, merge.todo)
                           /\ e \notin merge.work.seen
                           /\ Rejects(merge.work, e)
  /\ merge' = NoMerge
  /\ UNCHANGED <<db, deleting, staged>>

CommitMerge(r) ==
  /\ Merging(r)
  /\ merge.todo = {}
  /\ db' = [db EXCEPT ![r] = merge.work]
  /\ merge' = NoMerge
  /\ UNCHANGED <<deleting, staged>>

\* The process of replica r dies: a reserved delete, a staged batch and an
\* open transaction are gone, committed transactions stay.
Crash(r) ==
  /\ Idle \/ Merging(r)
  /\ deleting[r] # {} \/ staged[r] # {} \/ Merging(r)
  /\ deleting' = [deleting EXCEPT ![r] = {}]
  /\ staged' = [staged EXCEPT ![r] = {}]
  /\ merge' = NoMerge
  /\ UNCHANGED db

-----------------------------------------------------------------------------

Planner(r) ==
  \/ \E k \in Columns : CreateColumn(r, k)
  \/ \E c \in Cards, slot \in Slot : CreateCard(r, c, slot)
  \/ \E c \in Cards, slot \in Slot : MoveCard(r, c, slot)
  \/ \E c \in Cards, archived \in BOOLEAN : SetCardArchived(r, c, archived)
  \/ \E c1, c2 \in Cards, rank1, rank2 \in Ranks :
       SwapCardOrder(r, c1, rank1, c2, rank2)
  \/ \E c \in Cards : FindDoomed(r, c) \/ ReserveDelete(r, c)
  \/ DeleteCard(r)

SmallBatch == {batch \in SUBSET Published : Cardinality(batch) <= MaxBatch}

Sync(r) ==
  \/ Materialize(r)
  \/ \E batch \in SmallBatch : StageBatch(r, batch)
  \/ OpenMerge(r)
  \/ \E e \in merge.todo : MergeEvent(r, e)
  \/ AbortMerge(r)
  \/ CommitMerge(r)

Next == \E r \in Replicas : Planner(r) \/ Sync(r) \/ Crash(r)

Spec == Init /\ [][Next]_vars

-----------------------------------------------------------------------------
(* Safety in every environment: planner and sync actor overlap, the relay  *)
(* loses, duplicates and reorders, processes crash.                        *)

\* Every delete of card c that the store d of replica r has committed or merged.
KnownDeletes(d, r, c) ==
  {e.stamp : e \in {e \in d.seen : e.card = c /\ e.op = "card.delete"}}
    \cup {[clock |-> m.seq, replica |-> r] :
            m \in {m \in d.pending : m.entity = c /\ m.kind = "card.delete"}}

IsNewest(tomb, deletes) ==
  IF deletes = {} THEN tomb = NoStamp
  ELSE tomb \in deletes /\ \A s \in deletes : ~ Newer(s, tomb)

TombsAreNewest(d, r) ==
  \A c \in Cards : IsNewest(d.tomb[c], KnownDeletes(d, r, c))

\* The tombstone of a card is the newest delete the replica knows of,
\* whichever way it learnt of them: by its own two-transaction delete, by
\* materializing it, by a remote event, in any order (BuryCard, RecordedTomb
\* and ApplyCardDelete each decide on their own whether to replace it).
TombstoneIsNewestDelete == \A r \in Replicas : TombsAreNewest(db[r], r)

\* A deleted card never comes back on a replica that knows of the delete, and
\* its tombstone never moves to an older version, whatever arrives later.
DeletedStaysDeleted ==
  [][\A r \in Replicas, c \in Cards :
       Buried(db[r], c) =>
         /\ ~ Present(db'[r], c)
         /\ Buried(db'[r], c)
         /\ ~ Newer(db[r].tomb[c], db'[r].tomb[c])]_vars

\* No version the store holds is ahead of its clock, so the next clock that
\* next_local_clock allocates beats all of them: an edit always wins against
\* everything its author's device had seen.
AtOrBelow(d) ==
  /\ \A c \in Cards : /\ d.tomb[c].clock <= d.clock
                       /\ \A f \in Field : d.ver[c][f].clock <= d.clock
  /\ \A m \in d.pending : m.seq <= d.clock
  /\ \A e \in d.outbox \cup d.seen : e.stamp.clock <= d.clock

LamportFloor == \A r \in Replicas : AtOrBelow(db[r])

\* One stamp, one event: everywhere in the system two events with the same
\* (clock, replica) are the same event with the same content, so the event id
\* is never needed as a tie breaker and a retried or re-read outbox can not
\* publish a second body under a first one's identity.
KnownEvents == Published \cup UNION {db[r].seen \cup staged[r] : r \in Replicas}

StampsIdentifyEvents ==
  /\ \A e1, e2 \in KnownEvents : e1.stamp = e2.stamp => e1 = e2
  /\ \A r \in Replicas : \A m1, m2 \in db[r].pending :
       m1.seq = m2.seq => m1 = m2

\* A batch that holds nothing but the replica's own events, which any relay
\* that broadcasts hands back, changes no card, not even while newer local
\* edits of the same registers have not been materialized yet.
EchoChangesNothing ==
  [][\A r \in Replicas :
       (/\ merge.at = r
        /\ \A e \in db'[r].seen \ db[r].seen : e.stamp.replica = r)
          => db'[r].row = db[r].row]_vars

\* The rows that are merged keep the schema's reference: every card is in a
\* column of its board, though events name columns the replica never had.
CardsSitInBoardColumns ==
  \A r \in Replicas, c \in Cards :
    Present(db[r], c) => db[r].row[c].place.column \in db[r].columns

-----------------------------------------------------------------------------
(* Merging, under the two assumptions on the environment.                  *)

Settled(r) == Unmaterialized(db[r]) = {}
Known(r) == db[r].outbox \cup db[r].seen

\* Strong convergence: two replicas that know the same events and have no
\* backlog show the same cards, in whatever order and batches they got them.
Convergence ==
  \A r1, r2 \in Replicas :
    (Settled(r1) /\ Settled(r2) /\ Known(r1) = Known(r2))
      => db[r1].row = db[r2].row

\* Every register of a live card holds the value of the newest known event
\* that writes it, and carries that event's version.
LastWriterWins ==
  \A r \in Replicas, c \in Cards, f \in Field :
    (Settled(r) /\ Present(db[r], c)) =>
      LET writes == {e \in Known(r) : e.card = c /\ Touches(e.mask, f)}
      IN  \E e \in writes :
            /\ \A o \in writes : ~ Newer(o.stamp, e.stamp)
            /\ db[r].ver[c][f] = e.stamp
            /\ db[r].row[c][f] = e.row[f]

\* Merging remote events never replaces the value of a register that a local
\* edit with a newer version has written, materialized or not.
LocalEditsSurviveMerge ==
  [][\A r \in Replicas, c \in Cards, f \in Field :
       (/\ db'[r].pending = db[r].pending
        /\ Present(db[r], c)
        /\ Present(db'[r], c)
        /\ db'[r].row[c][f] # db[r].row[c][f]) =>
          \A m \in db[r].pending :
            (m.entity = c /\ Touches(EventMask(m.kind), f)) =>
              Newer(db'[r].ver[c][f], [clock |-> m.seq, replica |-> r])]_vars

\* The backlog can always be materialized: no marker is left whose row is
\* gone.  The code does not keep this.
BacklogStaysMaterializable ==
  \A r \in Replicas : \A m \in Unmaterialized(db[r]) : ~ Poisoned(db[r], m)

=============================================================================
