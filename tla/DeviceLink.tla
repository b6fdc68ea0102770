------------------------------ MODULE DeviceLink ------------------------------
(***************************************************************************)
(* Linking a device: ImportService::apply_with_secrets writes the secrets  *)
(* of a link into the vault and then its plan into the database, two       *)
(* resources without a common transaction (application/import.rs,          *)
(* linux/secrets.rs, sqlite/import.rs).  It holds the repository's mutex   *)
(* all the time, so one link is under way; the user may create workspaces  *)
(* meanwhile, through another connection, and the process may die.         *)
(*                                                                         *)
(* Abstraction.  A secret is the link that wrote it.  Of the database only *)
(* the linked principal and whether the user has work of their own matter: *)
(* the plan is one transaction, and what makes a link or its plan invalid  *)
(* is left to ProfileImport.  Each link is offered once, since a grant     *)
(* names the device key of one session.                                    *)
(***************************************************************************)
EXTENDS FiniteSets

CONSTANTS
  Links,    \* attempts to link this profile, each with a device key of its own
  Boards,
  BoardsOf, \* the boards a link brings
  NoLink

ASSUME LinksAssumption == BoardsOf \in [Links -> SUBSET Boards]
ASSUME NoLinkAssumption == NoLink \notin Links

\* SecretRecordKey.
DeviceKey(l) == <<"device", l>>
BoardKey(b) == <<"board", b>>
BoardKeys(l) == {BoardKey(b) : b \in BoardsOf[l]}
KeysOf(l) == {DeviceKey(l)} \cup BoardKeys(l)
Key == {DeviceKey(l) : l \in Links} \cup {BoardKey(b) : b \in Boards}
Vault == [Key -> Links \cup {NoLink}]

Profile == [linked : Links \cup {NoLink}, work : BOOLEAN]
EmptyProfile == [linked |-> NoLink, work |-> FALSE]

VARIABLES
  profile, \* profile_principal, and whether there are workspaces of the user
  memory,  \* EncryptedFileVault.values
  disk,    \* the vault file
  link,    \* the link under way, or NoLink
  step,    \* what it does: "write" or "clean"
  written, \* the keys it has written and not deleted
  outcome, \* per link: how it ended
  past,    \* history: all profiles there were; a backup may hold any of them
  blemish  \* history: a vault write failed, or the process died in a link

linkVars == <<profile, memory, disk, link, step, written, outcome, past, blemish>>

LinkTypeOK ==
  /\ profile \in Profile
  /\ memory \in Vault
  /\ disk \in Vault
  /\ link \in Links \cup {NoLink}
  /\ step \in {"write", "clean"}
  /\ written \subseteq IF link = NoLink THEN {} ELSE KeysOf(link)
  /\ outcome \in [Links -> {"none", "accepted", "rejected"}]
  /\ past \in SUBSET Profile
  /\ blemish \in BOOLEAN

LinkInit ==
  /\ profile \in [linked : {NoLink}, work : BOOLEAN]
  /\ memory = [k \in Key |-> NoLink]
  /\ disk = memory
  /\ link = NoLink
  /\ step = "write"
  /\ written = {}
  /\ outcome = [l \in Links |-> "none"]
  /\ past = {profile}
  /\ blemish = FALSE

-----------------------------------------------------------------------------
(* The vault.  persist writes all of memory into a new file and renames it *)
(* over the old one.                                                       *)

\* put and delete: memory is changed, and then the file.
Persisted(values) == memory' = values /\ disk' = values

\* A persist that fails is taken back in memory, but the file has been replaced
\* already when it is the fsync of the directory that failed.
NotPersisted(values) ==
  /\ disk' \in {disk, values}
  /\ memory' = memory
  /\ blemish' = TRUE

-----------------------------------------------------------------------------
(* One link.                                                               *)

PreflightPasses == profile = EmptyProfile

\* Mutant of Free: a secret that is there already is not looked for.
FreeUnchecked(l) == TRUE
Free(l) == \A k \in KeysOf(l) : memory[k] = NoLink

\* The end of a link.
Ended(result) ==
  /\ outcome' = [outcome EXCEPT ![link] = result]
  /\ link' = NoLink
  /\ step' = "write"
  /\ written' = {}

Begin(l) ==
  /\ link = NoLink
  /\ outcome[l] = "none"
  /\ PreflightPasses
  /\ Free(l)
  /\ link' = l
  /\ UNCHANGED <<profile, memory, disk, step, written, outcome, past, blemish>>

\* The envelope, the grant or the plan is not valid.
Reject(l) ==
  /\ link = NoLink
  /\ outcome[l] = "none"
  /\ outcome' = [outcome EXCEPT ![l] = "rejected"]
  /\ UNCHANGED <<profile, memory, disk, link, step, written, past, blemish>>

\* DestinationNotEmpty or VaultKeyConflict.
Refuse(l) ==
  /\ link = NoLink
  /\ outcome[l] = "none"
  /\ ~ (PreflightPasses /\ Free(l))
  /\ outcome' = [outcome EXCEPT ![l] = "rejected"]
  /\ UNCHANGED <<profile, memory, disk, link, step, written, past, blemish>>

\* The device key first, then the board capabilities.
IsNextToWrite(k) ==
  /\ link \in Links /\ step = "write"
  /\ k \in KeysOf(link) \ written
  /\ DeviceKey(link) \in written \cup {k}

PutSecret(k) ==
  /\ IsNextToWrite(k)
  /\ Persisted([memory EXCEPT ![k] = link])
  /\ written' = written \cup {k}
  /\ UNCHANGED <<profile, link, step, outcome, past, blemish>>

\* Without the device key there is nothing to clean up.
FailPut(k) ==
  /\ IsNextToWrite(k)
  /\ NotPersisted([memory EXCEPT ![k] = link])
  /\ IF k = DeviceKey(link)
     THEN Ended("rejected")
     ELSE /\ step' = "clean"
          /\ UNCHANGED <<link, written, outcome>>
  /\ UNCHANGED <<profile, past>>

AllWritten == link \in Links /\ step = "write" /\ written = KeysOf(link)

\* Mutant of ApplyPlan: the preflight inside the transaction is left out.
ApplyPlanUnchecked ==
  /\ AllWritten
  /\ profile' = [profile EXCEPT !.linked = link]
  /\ past' = past \cup {profile'}
  /\ Ended("accepted")
  /\ UNCHANGED <<memory, disk, blemish>>

\* apply_plan: the preflight once more, and all of the plan.
ApplyPlan ==
  /\ AllWritten
  /\ PreflightPasses
  /\ profile' = [profile EXCEPT !.linked = link]
  /\ past' = past \cup {profile'}
  /\ Ended("accepted")
  /\ UNCHANGED <<memory, disk, blemish>>

\* Mutant of FailApply: the secrets are left in the vault.
FailApplyUncleaned ==
  /\ AllWritten
  /\ Ended("rejected")
  /\ UNCHANGED <<profile, memory, disk, past, blemish>>

\* The preflight fails now, or the transaction is rolled back.
FailApply ==
  /\ AllWritten
  /\ step' = "clean"
  /\ UNCHANGED <<profile, memory, disk, link, written, outcome, past, blemish>>

\* cleanup_vault_writes: the device key last; a failure is ignored.
IsNextToDelete(k) ==
  /\ step = "clean"
  /\ k \in written
  /\ k = DeviceKey(link) => written = {k}

DeleteSecret(k) ==
  /\ IsNextToDelete(k)
  /\ \/ /\ Persisted([memory EXCEPT ![k] = NoLink])
        /\ UNCHANGED blemish
     \/ NotPersisted([memory EXCEPT ![k] = NoLink])
  /\ written' = written \ {k}
  /\ UNCHANGED <<profile, link, step, outcome, past>>

EndCleanup ==
  /\ step = "clean"
  /\ written = {}
  /\ Ended("rejected")
  /\ UNCHANGED <<profile, memory, disk, past, blemish>>

-----------------------------------------------------------------------------
(* What else happens to the profile.                                       *)

\* WorkspaceService::create_workspace, at any time.
CreateWorkspace ==
  /\ profile' = [profile EXCEPT !.work = TRUE]
  /\ past' = past \cup {profile'}
  /\ UNCHANGED <<memory, disk, link, step, written, outcome, blemish>>

\* The process ends or dies; the next one reads the vault file.
Restart ==
  /\ memory' = disk
  /\ IF link = NoLink
     THEN UNCHANGED <<link, step, written, outcome, blemish>>
     ELSE Ended("rejected") /\ blemish' = TRUE
  /\ UNCHANGED <<profile, disk, past>>

\* `p2pkanban restore` between two processes brings an earlier profile back.
\* The vault is not part of a restore point.
RestoreProfile ==
  /\ link = NoLink
  /\ profile' \in past
  /\ memory' = disk
  /\ UNCHANGED <<disk, link, step, written, outcome, past, blemish>>

-----------------------------------------------------------------------------

\* What a link does after it has begun.
LinkStep ==
  \/ \E k \in Key : PutSecret(k)
  \/ \E k \in Key : FailPut(k)
  \/ ApplyPlan
  \/ FailApply
  \/ \E k \in Key : DeleteSecret(k)
  \/ EndCleanup

LinkNext ==
  \/ \E l \in Links : Begin(l)
  \/ \E l \in Links : Reject(l) \/ Refuse(l)
  \/ LinkStep
  \/ CreateWorkspace
  \/ Restart
  \/ RestoreProfile

LinkSpec == LinkInit /\ [][LinkNext]_linkVars

-----------------------------------------------------------------------------

HasItsSecrets(p, vault) ==
  p.linked # NoLink => \A k \in KeysOf(p.linked) : vault[k] = p.linked

\* "This ordering prevents a committed board from becoming active without its
\* required secret": a linked profile finds all its secrets in the vault, now,
\* after any restart and after any restore, with the values its link wrote.
LinkedProfileHasItsSecrets ==
  \A p \in past : HasItsSecrets(p, disk) /\ HasItsSecrets(p, memory)

\* A link that was rejected leaves no secret behind, as long as the vault could
\* be written and the process lived.
RejectedLinkLeavesNothing ==
  (~ blemish /\ link = NoLink) =>
    \A k \in Key : memory[k] # NoLink => \E p \in past : p.linked = memory[k]

\* A profile is linked only while it is empty, also when the user starts to work
\* in it after the preflight.
LinkedOnlyWhenEmpty ==
  [][ (outcome' # outcome /\ profile'.linked # profile.linked)
        => profile = EmptyProfile ]_linkVars

=============================================================================
