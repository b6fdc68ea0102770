# Verification of p2pKanban Arch Native

This directory holds TLA+ specifications of p2pKanban Arch Native, a Rust/Tauri
desktop kanban board that keeps its data in one SQLite profile and exchanges
`roaming/1` events with the same user's other devices.  The specifications are
translated from the code under `src/`; `PROJECT.json` maps each definition to
the lines it stands for.

Sections: 1 the system, 2 the plan, 3 the modules, 4 the runs, 5 the proofs,
6 what is not modelled, 7 findings, 8 how to run.

## 1. The system

Rust paths are relative to `src/src-tauri/src/`.

| Component | State it keeps | Operations | Interacts with |
|---|---|---|---|
| Planner: `application/planner.rs`, `infrastructure/sqlite/repository.rs` | board rows, `local_mutation_state` (Lamport clock, origin), `pending_local_changes`, tombstones | create/move/archive/swap/delete card, create column, checklists | shares the database with the sync actor, through another connection and another mutex |
| Roaming: `domain/sync.rs`, `application/sync.rs`, `infrastructure/sqlite/sync.rs` | `sync_outbox`, `sync_seen_events`, `sync_field_versions`, entity extensions | `materialize_pending`, `list_outbox`, `apply_remote_batch` | reads the planner's markers, writes the planner's rows |
| Parity surface: `application/parity.rs`, `infrastructure/sqlite/parity.rs` | labels, comments, appearance, activity, `parity_local_changes` | set/delete of each | allocates from the planner's clock |
| Workspace catalogue: `application/workspace.rs`, `infrastructure/sqlite/workspace.rs` | workspaces, boards | create, list | one transaction each |
| Import and device link: `domain/import.rs`, `application/import.rs`, `infrastructure/sqlite/import.rs` | receipts, principal, capability metadata | preflight, apply a plan with or without secrets | vault and database in one operation |
| Vault: `application/vault.rs`, `infrastructure/linux/secrets.rs` | encrypted record file, wrapped root | put, get, delete, persist | used by import and by sync |
| LAN bridge: `domain/`, `application/`, `infrastructure/linux/lan_bridge.rs` | listener thread, TTL, attempts, one-time capability | start, stop, serve | hands an authenticated package to the device link |
| Profile opening: `infrastructure/sqlite/migration.rs`, `infrastructure/profile.rs` | database file, WAL, migration journal | migrate, back up, roll back | runs before every repository is opened |
| Recovery: `infrastructure/sqlite/recovery.rs`, `infrastructure/linux/recovery_lock.rs` | restore points with manifests, quarantine directories | doctor, backup, restore, export | moves the profile's files |
| Instance control: `infrastructure/linux/instance.rs`, `main.rs` | profile lock, activation socket | acquire, route, release | excludes recovery and second instances |
| Deep links: `*/integration.rs`, `navigation_policy.rs` | queue of intents | parse, enqueue, take | activation socket, the window's focus |
| IPC and UI: `desktop_api.rs`, `src/src/` | none | one command per service method | all services |

What is hard in it:

* **Two writers of one database.**  `PlannerService` and `SyncService` have a
  mutex each.  SQLite serialises their transactions, not their operations:
  `delete_card` is a lookup and two transactions, `apply_remote_batch` two
  transactions, and the other actor may commit in between.
* **Two sources of order.**  Local edits are stamped from a Lamport clock when
  they are made, but become events, and versions of fields, only when the
  backlog is materialized, from the row as it is then.
* **An unordered relay.**  Batches are lost, duplicated, delayed and reordered,
  and contain the replica's own events.
* **Crashes** between any two transactions, between two file renames of a
  restore, between two steps of a migration, between the vault and the database.
* **Rules that live in three places.**  Whether a tombstone is replaced is
  decided separately by the local delete, the materialization and the remote
  delete.

What makes each part correct: for roaming, that replicas converge, that a
deleted card stays deleted, that the newest write wins and that a local edit is
never lost to an older remote one; for the planner, that every edit gets a
version that beats everything its device had seen and an identity of its own;
for opening and recovery, that no step, failing or interrupted, loses the data
that was committed; for the device link, that secrets and profile are
provisioned together or not at all; for the LAN bridge, that a capability is
used at most once and never after its time; for instance control, that one
process writes and that a link given to any launch is shown once, in order.  For
checklists, that no row outlives its parent.

## 2. The plan

In order of importance, each part built on the one before where it needs it.

1. **Roaming core**: `VersionStamps`, `RoamingStore`, `RoamingSync` (planner x
   sync actor x relay x crashes), the abstract specification `CardLifecycle` and
   the refinement in `RoamingLifecycle`.
2. **Checklists**: `ChecklistStore` and `ChecklistSync`, one level below the
   cards, with `board.appearance.put`, `board.snapshot` and profiles without an
   origin.
3. **Profile files**: `ProfileRecovery`, migration, restore points, quarantine
   and restore, with crashes between all steps.
4. **Linking**: `DeviceLink` and `LanBridge`, composed in `DevicePairing`;
   `ImportPlan`, composed with `DeviceLink` in `ProfileImport`.
5. **Instance control**: `InstanceControl`, from the profile lock to the links
   the frontend shows.

All five are built.  Open, in this order: the composition of 1 and 3, a restore
that rolls clock and outbox back, which needs stamps of three components; an
abstract specification of pairing (provisioned at most once, all or nothing) and
its refinement.

## 3. The modules

### Roaming core

`VersionStamps` has the order of `VersionStamp`: clock, then replica.  The event
id, the third component, is left out because stamps are unique without it,
which `StampsIdentifyEvents` states and the proofs show.

`RoamingStore` has one replica's database as a record and one operator per
transaction step on it:

| TLA+ | Code |
|---|---|
| `row[c]` (`place`, `archived`) | a row of `cards`: column and position, lifecycle |
| `tomb[c]`, `ver[c][f]` | `card_tombstones`, `sync_field_versions` |
| `clock`, `minted` | `local_mutation_state.logical_clock`, `origin_id` not empty |
| `pending` | `pending_local_changes`; never deleted from |
| `outbox`, `seen` | `sync_outbox`, `sync_seen_events` with its digest |
| `NextLocalClock`, `EnqueuePending` | `next_local_clock`, `enqueue_pending` |
| `InsertCard`, `PlaceCard`, `ArchiveCard`, `ReorderCards`, `BuryCard`, `InsertColumn` | the arms of `apply_mutation` and `commit_features` |
| `MaterializePending`, `MarkerEvent`, `Poisoned`, `Blocked` | `materialize_pending`, `events_for_marker`, `card_payload` |
| `ObserveRemoteClock`, `ApplyCardPut`, `ApplyCardDelete`, `Rejects` | the functions of those names, `column_in_board` |

`RoamingSync` has the replicas.  Planner actions are the methods of
`PlannerService`; `FindDoomed`, `ReserveDelete` and `DeleteCard` are the three
steps of `delete_card`.  `Materialize` is a call of `materialize_pending`;
`StageBatch`, `OpenMerge`, `MergeEvent`, `AbortMerge` and `CommitMerge` are
`apply_remote_batch`.  `Crash` ends the process at any of these points.  An open
merge transaction excludes other writers of its database and is invisible to
everyone, so it commutes with the steps of other replicas; the model lets only
one be open at a time.  The relay is not modelled as a component: a batch is any
small set of published events, which covers loss, duplication, delay and
reordering.

Data is reduced to what the properties tell apart.  A card has two registers,
the place (column and position, which `card.move` writes together) and the
archived flag; the title and the rest are written once, by the creation, and
would behave like a third register nobody writes again.  Positions are model
values because only their equality matters to the merge.

`CardLifecycle` is the abstract specification: cards are created once, deleted
by one or several replicas, learnt about, never shown again after a delete has
been learnt of, and no card disappears without one.  `RoamingLifecycle` gives
the refinement mapping; the created cards and the deletes are read off the
markers, which are never removed.

`MCRoamingSync` is what TLC runs.  `RoamingStoreLemmas`, `RoamingSyncProofs`,
`RoamingLifecycleProofs` and `RoamingConvergenceProofs` hold the proofs.

### Profile files

`ProfileRecovery` has the files of one profile and the process that owns them.
The flock of the profile (`instance.rs`, `recovery_lock.rs`) lets only one be at
work, so there is one `phase` and no interleaving; what makes the component hard
is that every step can fail or be the last one.

| TLA+ | Code |
|---|---|
| `root` (`main`, `wal`, `journal`) | `profile.db`, `profile.db-wal`, `migration-journal.json` |
| `points` | the restore points that `verify_restore_point` accepts |
| `held` | the quarantine directory of the restore under way |
| `saved` | `migration_backup(from)` |
| `target` | the verified temporary copy of the chosen restore point |
| `before`, `acked` | history: `root` when the process began; the committed edits |
| `SafeModeRequired` | the verdict of `doctor` |
| `Start` | the preflight of `run`: doctor and `create_pre_migration_backup` |
| `OpenDatabase` ... `RemoveJournal` | `open_profile` and `migrate_if_needed`, statement by statement |
| `BeginRestore`, `Quarantine`, `InstallSnapshot`, `FinishRestore` | `restore` and `quarantine_current_profile`, rename by rename |
| `FailQuarantine`, `FailInstall`, `RejectInstalled`, `RollBack` | the error paths of the two, and `rollback_quarantine` |
| `Stop` | the end of the process, its death, or an error it returns without repair |
| `Damage` | a damaged disk; it takes what is in no restore point |

A database image is its schema version, its edits and whether it passes
`inspect_database`.  SQLite is modelled by what the code relies on: a write goes
to the log, a checkpoint moves it into the database, a log is replayed over the
database beside it, and over a foreign one this gives garbage.

`MCProfileRecovery` is what TLC runs, `ProfileRecoveryProofs` holds the proofs.

### Checklists and appearance

`ChecklistStore` has what hangs below the cards of a board, again one record per
database and one operator per transaction step; `ChecklistSync` has the devices
and the relay, as `RoamingSync` does for the cards.

| TLA+ | Code |
|---|---|
| `rows`, `done` | rows of `cards`, `checklists`, `checklist_items`; `is_done` |
| `tomb`, `ver` | the tombstone tables; the fields of `sync_field_versions` that are read |
| `appearance` | the board's appearance, named by the edit that chose it |
| `minted`, `columns` | `origin_id` not empty; the board has columns |
| `pending`, `outbox`, `seen` | as in the core |
| `Subtree`, `Ancestors` | `ON DELETE CASCADE`; the rows a delta needs |
| the actions of `Editor` | the checklist methods of `PlannerService`, the deletes in two steps; `set_appearance`, which is another service's and may come between these (`ParityReady`) |
| `merge` (`at`, `todo`, `work`) | the open merge transaction: whose, what is left of its batch, its view of the database |
| `Materialize`, `StageBatch`, `OpenMerge`, `MergeEvent`, `AbortMerge`, `CommitMerge` | as in the core |

A part is a card, a checklist or an item; the card's own registers are the
core's, here it is there or not.  `world` says what surrounds the devices and is
chosen once: do operations overlap (`overlap`); is the relay causal (`causal`);
has every device imported the board with its content, or some of them a bare
board, or has an Android device's snapshot been published too (`content` is
"full", "bare" or "seeded"); what is that content (`roots`); on which devices
does someone change the appearance (`looks`); and how far may clocks go
(`clocks`).  `Turn` lets one device at a time be between two of its
transactions: what it does there commutes with the steps of the others, which
see nothing of it but its outbox.
`MCChecklistSync` is what TLC runs, `ChecklistProofs` holds the proofs.

### Device link and LAN bridge

`LanBridge` has the listener threads and `LanBridgeService`.  The thread shares
three atomics and a mutex with its handle and neither side excludes the other, so
each store is a step.  The mutex of `active` is held through a whole `start` or
`stop`, so service calls exclude each other; `service` is where the present one
is.

| TLA+ | Code |
|---|---|
| `lifecycle`, `lastResult`, `stop`, `attempts` | the fields of `SharedBridgeState` |
| `at`, `verdict` | the thread's place in its loop; the argument of `set_terminal` |
| `expired` | `Instant::now() >= deadline` |
| `LoopTop` ... `HandlerReturns`, `SetTerminal` | the thread's closure in `start`, branch by branch |
| `active`, `Start`, `BeginStop`, `EndStop` | `LanBridgeService` |
| `CheckPrior`, `StoreStop`, `Join` | `stop` of `LinuxLanBridgeHandle` |
| `DropHandle`, `FinishStart` | its `Drop` |
| `late`, `served` | history: connections after the deadline; handler calls |

`DeviceLink` is `apply_with_secrets`, put by put: a link takes the repository's
mutex, checks the profile and the vault (`Begin`, `Refuse`), writes its secrets
(`PutSecret`), commits its plan (`ApplyPlan`), and deletes what it wrote if
something failed.  `memory` and `disk` are the two copies of the vault; a persist
that fails has or has not replaced the file.  Of the database counts whether the
profile is empty and which link it belongs to; `past` has every profile there
was, which is what a restore (`RestoreProfile`) may bring back, without its vault.
A secret is the link that wrote it.

`DevicePairing` composes the two: the handler of a session runs one link on the
listener thread, and a crash ends both.  `DevicePairingProofs` holds the proofs of
this section and the next.

### Imports

`ImportPlan` has what an import brings: a portable bundle as a file, the
`ImportPlan` it is parsed to (`Parses`, `PlanOf`), `validate_graph` (`ValidGraph` and
its conjuncts), the rows SQLite's keys and references let `apply_plan` insert
(`RowsFit`), the sections it can materialize (`SectionsFit`) and the export
(`Exportable`, `FileOf`).  A row is its kind, its id and its references; of other
fields there is only which keys an entity has.

`ProfileImport` extends `DeviceLink` and `ImportPlan`: a bundle is parsed and
applied at once; a device link and a web-node link are checked, write their
secrets and are applied then.  `plan` is the plan of the link under way,
`imported` the last one applied, `answer` what the last call was told.
`MCDeviceLink` is what TLC runs.  `FilesAssumption` and `WebPlansAssumption` say what
any parsed bundle and any web-node plan have: ids that are not empty, an archived
flag in place of a date, and scopes of a workspace and a board.

### Instance control

`InstanceControl` has launches of the program on one profile, recovery commands
included, each a process that is never restarted.

| TLA+ | Code |
|---|---|
| `pc` | how far a launch has got in `acquire`, in `run` or in `Drop` |
| `lock` | the flock on the profile directory, dropped by the kernel with its holder |
| `file`, `inbox` | whose socket the activation path names; datagrams queued there |
| `world` | is there a runtime directory; which launches carry a deep link |
| `LookForSocketFile` ... `SetSocketPermissions` | `bind_activation_socket`, statement by statement |
| `FailStartup`, `RemoveSocketFile` | a startup that fails after binding; `Drop`, which unlocks first |
| `RouteActivation`, `RouteLink` | the hand-over of a refused launch |
| `Receive` | the receiver thread: show, focus, enqueue the link |
| `pending`, `TakeDeepLinks` | `pending_deep_links`, drained by the frontend |
| `focused`, `drain` | the window has the focus; the frontend is about to ask (`App.tsx` asks on focus) |
| `Die` | the end of the process, at any point |

`InstanceControlProofs` holds the proofs.


## 4. The runs

| Run | Question | Bounds | Result |
|---|---|---|---|
| `RoamingOverlap` | Are deletes final, tombstones and clocks right, and is the life cycle implemented, in every interleaving? | 2 replicas, 1 card, clock 3, batches of 1 | holds, 418k states |
| `RoamingOneDevice` | Does every event have an identity of its own, and are echoes harmless? | 1 replica, 2 cards, 2 positions, clock 4, batches of 2 | holds, 1.1M states |
| `RoamingConverge` | Do replicas converge, does the last writer win, do local edits survive, do merged cards stay in the board's columns? | 2 replicas, 1 card, 2 positions, a column to create, clock 3, batches of 2 | holds, 440k states |
| `RoamingPoison` | Can the backlog always be materialized? | as `RoamingOverlap`, clock 4 | violated, finding 1 |
| `RoamingGap` | Does a local edit survive when it is made inside a batch? | clock 4, batches of 1 | violated, finding 2 |
| `Checklists` | Are there orphans, do deleted parts come back, is anything published without an origin, do two changes ever share a clock; and in orderly worlds, do devices converge to the newest deletes and marks? | 2 devices and an Android one, 1 card, 1 checklist, 1 item, batches of 1, eleven worlds with clocks 2 to 4 | holds, 2.0M states |
| `ProfileFiles` | Is an edit ever lost, a log left beside a foreign database, a failed migration or restore not undone? | 2 edits, 2 schema versions | holds, 1.6M states |
| `ProfileStuck` | Has a profile whose journal blocks the next start always a restore point? | as above | violated, finding 3 |
| `BridgeThread` | Is a capability used once, only one bridge open, a stopped one quiet, and does every bridge close? | 2 sessions, 2 attempts | holds, 296k states |
| `LinkSecrets` | Has a linked profile its secrets, does a rejected link leave any, is only an empty profile linked; does SQLite accept what `validate_graph` accepts, are imported boards whole, does an export import again? | 3 links, 2 boards, bundles and plans of one row per kind | holds, 21k states |
| `Pairing` | Does a link happen only inside an open bridge, and does completed mean linked? | 2 sessions, 1 board, 1 attempt | holds, 1.4M states |
| `Launches` | Is there one writer, who may take a socket's name, are links kept in order, does every refused launch end? | 3 launches, queue of 2 links, 1 datagram | holds, 137k states |

All type invariants are theorems, section 5; that of `Launches`, which has the
limits of its queues, is checked by a run as well.

**Why the bounds are enough.**  Each hazard needs few edits: a create and two
concurrent writes (clock 3 with `PastClocks = {1}`, two edits per replica and a
clock taken over from the other), two replicas, one card, and for
`StampsIdentifyEvents` two cards swapped in one transaction.  A batch of one
already gives every order of delivery, because a replica may receive any number
of batches; batches of two are used where sorting within a batch or the roll-back
of a batch matters.  `PastClocks` gives replicas an origin and a clock from
earlier work on other boards; `RoamingOneDevice` uses 0, a new profile.
`MaxClock` stands for the `checked_add` limit of the clock: at the bound the
edits are refused as they would be in the code.  A replica whose clock is
exhausted and whose backlog can not be materialized really stops, so deadlock is
not checked.

In `Checklists` worlds with overlap and an unordered relay check what holds always;
worlds without them and without a snapshot what needs their absence (`InOrder`).
The worlds start from nothing, a card, a card with its checklist or a whole one,
so that few clocks reach the edits that matter: a create, a mark and a delete
(clock 3), a checklist's life from creation to a late put (clock 4), a snapshot
against an edit (clock 2).  Four worlds are orderly with the content on every
device and two with a board that may be bare and then rejects cards until it has
columns; five are not orderly, one of them with a snapshot and one with a change of
the appearance between the two transactions of a delete.  One part per
level is enough for parents and cascades; a second sibling would only add
commuting steps.

For the profile's files two edits give a restore point that is older than the
profile it replaces, and two versions a migration that fails after its first
step.  The number of restarts, backups, restores and damages is not bounded: the
state space is finite.  A profile blocked by its journal and without restore
points stops for good (finding 3), so deadlock is not checked.  Symmetry permutes
the edits.

Two sessions are an old and a new bridge, and two attempts let a rejected request
be followed by an accepted one or by the attempt limit; in `Pairing` the single
attempt leaves the limit to the second connection.  `BoardsOf` gives a link with
two boards and two links that share one of them each, so that a link meets the
orphans of another one; a link of the LAN bridge brings one board, one of
`import_web_node_link_v1` several.  When all sessions or links are used up the
system stops, so deadlock is not checked.

The bundles of `LinkSecrets` are a complete board with one row of each kind and
everything it becomes when one or several of its references, ids, keys or
sections are other ones; the plans of web-node links have two boards, with card,
checklist, item, tombstone and label at home in either of them or in none.

Three launches are an owner, its predecessor that is still dropping, and one that
is refused and hands over; each may have a link and any of them may be a recovery
command.  With a queue of 2 and three links it overflows.  When every launch has
ended the system stops, so deadlock is not checked.

**Assumptions on the environment.**  `RoamingConverge` sets
`PlannerOverlapsSync = FALSE` and `RelayIsCausal = TRUE`, and so do the orderly
worlds of `Checklists`; neither can be dropped (finding 2 and the first
observation of section 7).  Nothing in the code enforces them: no relay
coordinator exists yet, and one would have to.  `RoamingOverlap` and
`RoamingOneDevice` assume neither.  Symmetry permutes cards and positions, which
are only compared for equality; replicas are ordered and not permuted.

**Fairness.**  `EveryBridgeCloses` assumes weak fairness of each listener thread,
of its handler and of the deadline: the thread never blocks for ever, because the
listener is non-blocking and reads have a timeout, handlers return, and time goes
on.  No fairness of clients or of the user's stop is assumed.

`RefusedLaunchesEnd` assumes weak fairness of the steps a process takes by
itself: starting up and dropping, handing over, receiving, and the frontend's
request for links once it has been told.  Nobody has to start the program, to
switch windows or to close it, and processes may die.

None is assumed and no liveness property is stated for the core and the checklists:
no code in the repository schedules a synchronisation, so nothing would justify
one.

Nor is any stated for the profile's files: whether a user retries is not up to
the code.

Every property has a mutant in `PROJECT.json`, a change of one definition like a
plausible slip in the code (a dropped comparison, a shared clock, a skipped
materialization), and TLC finds each property violated under it.

## 5. The proofs

### Roaming core

Proved with TLAPS for every value of the constants that satisfies
`ReplicasAssumption`, `NoRowAssumption` and `SyncAssumption`, in every
environment (both settings of `PlannerOverlapsSync` and `RelayIsCausal`, batches
of any size):

| Theorem | Statement |
|---|---|
| `TypeCorrect` | `Spec => []TypeOK` |
| `LamportFloorHolds` | `Spec => []LamportFloor` |
| `TombstoneIsNewest` | `Spec => []TombstoneIsNewestDelete` |
| `DeletedForGood` | `Spec => DeletedStaysDeleted` |
| `StampsAreUnique` | `Spec => []StampsIdentifyEvents` |
| `ColumnsHoldCards` | `Spec => []CardsSitInBoardColumns` |
| `RoamingImplementsLifecycle` | `Spec => ImplementsLifecycle` |

The argument rests on one inductive invariant, the conjunction of

* `TypeOK`;
* `MergeInv`: the open merge works on a store that extends the committed one of
  its replica, whose clock has taken in the whole batch;
* `FloorInv`: no version, marker or event of a store is ahead of its clock, the
  reserved deletes included (gives `LamportFloor`);
* `NewestInv`: each tombstone, the working store's too, is the newest known
  delete (gives `TombstoneIsNewestDelete`);
* `LifeInv`: a buried card has no row (with the order on stamps, gives
  `DeletedStaysDeleted`);
* `StampInv`: sequences of one replica's markers are distinct and differ from
  the reserved delete's, an outbox event belongs to exactly one marker, and every
  event anywhere is in its author's outbox (gives `StampsIdentifyEvents`);
* `SitInv`: every store, the merge's working copy too, keeps its cards in its
  columns (gives `CardsSitInBoardColumns`);
* `GroundInv`: a card with a row, a marker or an event has a creation marker on
  some replica (for the refinement).

None of the stated properties is inductive alone: a delete reserves its version
long before it commits, and a merge works on a private copy, so the invariant has
to speak of both.  `RoamingStoreLemmas` states what each operator on stores
preserves, once; the step lemmas of `RoamingSyncProofs` cite them action by
action.  `RoamingLifecycleProofs` shows that each step is a `Create`, a `Delete`,
a `Learn` or a stutter of `CardLifecycle`.

`RoamingConvergenceProofs` is about the values.  Under `~ PlannerOverlapsSync` and
`RelayIsCausal`, which section 4 shows to be needed:

| Theorem | Statement |
|---|---|
| `NewestWriteWins` | `Spec => []LastWriterWins` |
| `ReplicasConverge` | `Spec => []Convergence` |
| `LocalEditsAreKept` | `Spec => LocalEditsSurviveMerge` |

and in every environment

| Theorem | Statement |
|---|---|
| `EchoIsHarmless` | `Spec => EchoChangesNothing` |

An induction over the events of a batch is not needed, because the merge is a
step per event and what the property says holds after each of them: the registers
of a store, the merge's working copy too, hold the newest of the writes that this
store knows, and an unmaterialized edit is newer than all of them.  The invariant
adds to the one above

* `MadeInv`: an event in an outbox is what its marker makes of it;
* `CreationInv`: a card's creation is older than its edits, and than the clock of
  every store that shows it;
* `QuietInv`: a staged batch and an open merge find no backlog, and a backlog is
  newer than what its store knows (the planner does not overlap a batch, and
  `observe_remote_clock` runs before the next edit);
* `CausalInv`: the creation of a card is known with or before its edits;
* `CurrentInv`: a card that is neither here nor buried is unknown here, and each
  register of a live one holds the newest known write and its version.

`EchoIsHarmless` needs neither assumption: `OwnInv` says that a replica's own
events never beat what its store has, and that its backlog follows its outbox;
`EchoInv` that a merge which has taken in own events only has changed no row.

### Profile files

Proved for every set of edits and every number of schema versions
(`LatestAssumption`, `NoFileAssumption`):

| Theorem | Statement |
|---|---|
| `ProfileTypeCorrect` | `Spec => []TypeOK` |
| `NoEditIsLost` | `Spec => []EditsHaveAWayBack` |
| `LogsStayWithDatabases` | `Spec => []LogMatchesDatabase` |
| `BlockedProfilesAreRestorable` | `Spec => []BlockedProfileIsRestorable` |
| `RollbacksAreComplete` | `Spec => []RollbackIsComplete` |
| `FailedMigrationsAreUndone` | `Spec => []FailedMigrationIsUndone` |

Again the stated properties are not inductive: that a roll-back is complete
depends on where every file was after each rename, that an edit has a way back on
what the process checked before it began to move files.  The invariant `IInv`
adds to them one conjunct for each stretch of a process:

* `PointsAreSound`, `LogsAreGood`: restore points pass `inspect_database`, and a
  log beside its own database gives a good image if the database is good;
* `FilesAreSomewhere`: during a restore each file is in the profile or in the
  quarantine, as it was at the beginning;
* `RestoreIsInsured`: what could be read when a restore began is in a restore
  point;
* `CheckedIsInsured`, `OpenedIsInsured`, `MigrationIsInsured`: a profile that is
  about to be migrated has a restore point with its edits, and the migration's
  own backup is its content;
* `RunningIsSound`: an open profile is sound and at the last version.

`IInv` was checked with TLC first; one step lemma per action shows that it is
preserved.

### Checklists and appearance

Proved for every set of devices, cards, checklists and items, every batch size and
every set of worlds (`PartsAssumption`, `WorldAssumption`), overlaps, an unordered
relay and snapshots included:

| Theorem | Statement |
|---|---|
| `ChecklistTypeCorrect` | `Spec => []ChecklistTypeOK` |
| `PartsHaveTheirParents` | `Spec => []NoOrphans` |
| `NoPartComesBack` | `Spec => DeletedPartsStayDeleted` |
| `EveryEventIsSigned` | `Spec => []NothingLeavesAnonymously` |
| `StampsAreUsedOnce` | `Spec => []ChangesHaveTheirOwnStamps` |

The merge has branches that bring a deleted row back: a put of all fields that is
newer than the tombstone clears it.  What makes the theorem true is that nobody
sends such a put, and this takes an invariant over all devices: a put of all
fields is a creation, an id is drawn once, and `SoundInv` says that the creation
of a part (`Births`) is older than whatever any device has recorded about the part
or about what hangs below it.

* `MarkersInv`: markers are not ahead of their clock, and none is older than the
  creation of its part and of the parts above it;
* `EventsInv`: the same of the events published, staged or being merged;
* `StoresInv`: a store, `Sound`, has with a row the rows above it, no tombstone
  beside a row, no check mark without its item, and no tombstone that is older than
  the creation of its part;
* `DeletesInv`: so are the versions reserved for deletes;
* `MergeInv`: an open merge works on a sound store that extends the committed one,
  whose clock has taken in the whole batch, and in which what was buried is buried;
* `AnonymousInv`: a batch is staged or merged only after the origin was minted.

`ApplySound` states what each of the five ways to merge an event preserves;
the step lemmas cite it action by action.

Under `InOrder` (no overlap, a causal relay, no snapshot), which section 4 shows to
be needed:

| Theorem | Statement |
|---|---|
| `DevicesConverge` | `Spec => []PartsConverge` |
| `TombsAreNewestDeletes` | `Spec => []PartTombIsNewestDelete` |
| `MarksAreTheNewest` | `Spec => []NewestMarkWins` |
| `NewerLocalMarksStay` | `Spec => LocalMarksSurvive` |

The plan is that of `RoamingConvergenceProofs`, with parents in it: after each event
that is merged, not only after each batch, a store is what the events it knows make
of it.  `ChecklistInv` adds to `SoundInv`

* `BooksInv`, in every world: each published event is one marker's, each marker has a
  sequence of its own, which a reserved delete does not share, and what a device has
  seen has been published; so a stamp names one event (`StampsAreUsedOnce`);
* `QuietInv`: a staged batch and an open merge find no backlog, a backlog is newer
  than what its store knows, and a delete that is reserved still finds its row;
* `CausalInv`: whatever a delta in a batch hangs below came with the content, was
  created by an event known already, or is created in the same batch, and then,
  since creations are older, is merged first;
* `OrderInv`: each store, and the working copy of a merge, is an `OrderlyStore`.

An orderly store has five parts.  A part that is neither shown nor below a
tombstone is one the device never heard of (`AbsentIsUnknown`); a part that is shown
came with the content or was created by something known (`ShownIsCreated`); a
tombstone is that of a known delete, and no known delete is newer unless the card is
gone as well, because deltas below a buried card are dropped as stale (`TombsHold`); a
tombstone and the version of the part's lifecycle agree once the delete is
materialized (`LifecyclesHold`); and the register that is edited, an item's mark or
the board's appearance, shows the newest known write and carries its version
(`RegistersHold`).  `MergedOrderly` says that a merge keeps all five; `EditOrderly`,
`BuryOrderly` and `PublishOrderly` say it of the local transactions.  `BooksInv` and the
conjuncts for orderly worlds were checked with TLC on the worlds of the run first.

### Device link

Proved for every set of links and boards (`LinksAssumption`,
`NoLinkAssumption`):

| Theorem | Statement |
|---|---|
| `LinkTypeCorrect` | `LinkSpec => []LinkTypeOK` |
| `LinkedProfilesHaveSecrets` | `LinkSpec => []LinkedProfileHasItsSecrets` |
| `OnlyEmptyProfilesAreLinked` | `LinkSpec => LinkedOnlyWhenEmpty` |
| `RejectedLinksLeaveNothing` | `LinkSpec => []RejectedLinkLeavesNothing` |

`LinkInv` adds to the first two that the link under way shares no key with any
profile that ever was linked (`PastLinks`; `Begin` sees to it, and without it a
clean-up could delete the secrets of another link), and that what it has written
is in both copies of the vault (`LinkUnderWay`; needed when the plan is
committed).  `TidyVault` says whose the secrets in the vault are as long as it
could be written and the process lived: the link under way has them among
`written`, or a profile was linked with them.

### LAN bridge and pairing

Proved for every set of sessions and every attempt limit
(`AttemptsAssumption`, `NoneAssumption`):

| Theorem | Statement |
|---|---|
| `BridgeTypeCorrect` | `BridgeSpec => []BridgeTypeOK`, the attempt limit included |
| `CapabilitiesAreOneTime` | `BridgeSpec => []CapabilityIsOneTime` |
| `BridgesExclude` | `BridgeSpec => []OneBridgeAtATime` |
| `StoppedBridgesAreQuiet` | `BridgeSpec => []StoppedBridgeIsQuiet` |
| `LateRequestsAreLast` | `BridgeSpec => []AtMostOneLateRequest` |
| `StoppedBridgesDoNotLink` | `PairSpec => []NoLinkWithoutBridge` |
| `CompletedBridgesHaveLinked` | `PairSpec => []CompletedMeansLinked` |
| `PairingKeepsItsParts` | `PairSpec => [](CapabilityIsOneTime /\ OneBridgeAtATime /\ LinkedProfileHasItsSecrets)` |

`ThreadInv` says of each thread where it may be for what its counters say: a
handler call is on the way out, a late connection is followed by no other.
`ServiceInv` says that the service knows every thread that runs, and that one
which still takes requests says "listening" until a stop has stored its own state
over that; without it two bridges could be open after a start that trusts the
lifecycle.  Steps of a thread concern the service only as `ThreadMoves`, so that
its part is proved once for all of them.

The composition has an invariant of its own, `PairInv`: `BridgeInv`, `LinkInv` and
`HandlerInv`, which ties the two together: a link is under way only in the handler
of its session, an accepted link has linked a profile, and a session that says
completed has an accepted link.  A crash is a step of neither part alone,
so that both invariants are shown again for it.

### Imports

Proved for every set of bundles, grants and plans:

| Theorem | Statement |
|---|---|
| `ImportIsLinking` | `ImportSpec => LinkSpec` |
| `ImportsKeepSecrets` | `ImportSpec => []LinkedProfileHasItsSecrets` |
| `ValidatedPlansFit` | `ImportSpec => []ValidGraphsFit` |
| `BoardsAreImportedWhole` | `ImportSpec => []ImportedBoardsAreWhole` |
| `ExportsReimport` | `ImportSpec => []ExportReimports` |

The first is a refinement by identity: whatever is parsed, validated or inserted,
vault and profile see a link or an import that `DeviceLink` allows; the second
follows from it and the theorem above.  The third rests on the invariant that the
plan of a link under way has passed `validate_graph`, the fourth on `ImportedInv`:
the plan that was applied has, and its sections could be materialized.  The fifth
is a fact about parsing: `ExportedPlansParse` shows row by row and section by
section that the file made of a parsed plan parses to that plan.

### Instance control

Proved for any number of launches and any limits (`LaunchAssumption`):

| Theorem | Statement |
|---|---|
| `InstanceTypeCorrect` | `Spec => []InstanceTypeOK` |
| `OneWriterOnly` | `Spec => []OneWriter` |
| `SocketsKeepTheirNames` | `Spec => OnlyAPredecessorTakesTheSocket` |

`OwnerInv`, that the lock's holder and nobody else is in an owning stage, is
inductive; the second theorem needs it because every step that changes the socket
path but one is taken under the lock.  `InstanceTypeOK` bounds the queues and
says that what is in them was given to a launch; `MailInv`, the types of what the
property leaves open, is what it rests on.

### What is only model-checked

`LinksKeepTheirOrder` is an order of sequences filtered with `SelectSeq`,
whose recursive definition the provers can not use.  `EveryBridgeCloses` and
`RefusedLaunchesEnd` are liveness properties, which are out of the prover's reach,
as are `ENABLED`, recursive definitions and induction over data.

## 6. What is not modelled

* Encoding and encryption of events, board tags, validation of field syntax:
  every event in the models is one the code itself produces.
* Replay conflicts (one event id, two bodies): the code never produces one, which
  `StampsIdentifyEvents` shows; a foreign one is refused by `apply_remote_batch`.
* A restored backup that takes part in roaming (`recovery.rs:997`): it rolls the
  clock back, after which only the event id tells two events with one clock and
  replica apart.  The stamps of the models have no event id.
* The access epoch: nothing changes it once a workspace exists.
* The workspace catalogue, labels, comments and activity: single transactions
  that stay on the device.  What an import brings of them is in `ImportPlan`.
* Of linking: the syntax of grants and bundles, the texts, positions and digests
  of rows, cryptography, the choice of a vault provider, a mutex poisoned by a
  panic, and HTTP.  Grants are offered once, since each names the device key of
  one session.
* Of the profile's files: the `-shm` file, which SQLite rebuilds; reordering of
  writes by a power failure, since the code syncs files and directories; file
  permissions, symbolic links and schemas newer than the program, on which all
  operations refuse to work; the logical export, which only reads.
* Of instance control: the syntax of deep links, ownership and modes of the
  runtime directory beyond whether it is usable, capability detection and the
  navigation policy, which keep no state.
* Presentation, IPC argument conversion, packaging and tools.

## 7. Findings

Each is a violated run and quotes, in `PROJECT.json`, what the repository says.

1. **An edit followed by a delete blocks synchronisation for good**
   (`RoamingPoison`).  `card_payload` needs the row that the delete has removed;
   `materialize_pending` and every later `apply_remote_batch` fail.  A checklist
   or item that is created and deleted before the next sync, or whose card is,
   does the same.
2. **An edit made between the two transactions of a batch can be overwritten by
   an older remote event** (`RoamingGap`).
3. **An interrupted first migration blocks a fresh profile for good**
   (`ProfileStuck`).  In TLC's trace the process dies while it writes the journal.  The journal asks for safe mode, nothing but `restore` removes
   it, and there is no restore point yet.

Met while modelling, and not claimed by a run:

* An edit that overtakes its card's creation is dropped but recorded as seen
  (`sync.rs:1162`), and replicas diverge; with `RelayIsCausal = FALSE` and clock 4
  TLC finds `Convergence` violated.  A checklist delta that arrives before its
  card or its checklist goes the same way (`sync.rs:767`).
* A restore that dies between quarantine and installation (`recovery.rs:1022`)
  leaves no database, and the next normal start creates an empty one.  The data is
  in the quarantine and, if it was sound, in a `pre-restore` point, but nothing
  tells the user so.
* With overlapping operations a delete of a checklist or item that commits late
  lowers the stored lifecycle version, so that an older third delete can move the
  tombstone back.
* A put of `isDone` alone may create a missing item.
* Devices that were seeded by a snapshot and devices that were not need not show
  the same, since a snapshot carries no versions; nor does the code promise it.  A
  snapshot fills a board as it was: an appearance that the device has chosen or
  learnt of meanwhile is replaced, and a delete that came while its card was missing
  was dropped as stale, so that the part comes in.  `InOrder` excludes snapshots for
  these two, both found by TLC.
* A device whose board is empty can not be seeded until an edit elsewhere in the
  profile has minted its origin: `materialize_pending` fails before the snapshot
  is looked at (`sync.rs:118`).  A10 says that empty native boards can consume one;
  the test that shows it sets the origin by hand (`sync.rs:1526`).
* A primary's `Drop` unlocks before it removes the socket file
  (`instance.rs:44`), so it may remove its successor's.  Later launches then find
  no socket, and their deep links are dropped (`main.rs:371`).
* A link for a window that has the focus is enqueued but not shown until the user
  comes back to it (`main.rs:525`, `App.tsx:140`); a datagram accepted by a primary
  that dies is lost.
* `stop` stores "stopped" over a "completed" that the thread has stored since it
  looked, so a pairing that was accepted may be reported as stopped.
* The board secret that a dead link left in the vault, which A11 calls
  unreachable, is a `VaultKeyConflict` for every later link of that board.
* A bundle that leaves a section out parses and is refused when its rows are
  inserted already (`section_array`); `validate_graph` accepts a tombstone beside a
  live row of its id; the answer `Replay` can not be reached; three import and
  export functions have no caller outside tests.

## 8. Running

`tlc -config RoamingOverlap.cfg MCRoamingSync` and likewise for the other runs;
`tlapm RoamingStoreLemmas.tla`, `tlapm RoamingSyncProofs.tla`,
`tlapm RoamingLifecycleProofs.tla`, `tlapm RoamingConvergenceProofs.tla`,
`tlapm ChecklistProofs.tla`, `tlapm ProfileRecoveryProofs.tla`,
`tlapm DevicePairingProofs.tla`, `tlapm InstanceControlProofs.tla` for the proofs.
