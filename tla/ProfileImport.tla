----------------------------- MODULE ProfileImport -----------------------------
(***************************************************************************)
(* The operations of ImportService (application/import.rs): a portable     *)
(* bundle is parsed and applied at once; a device link and a web-node link *)
(* are checked, write their secrets, and are applied then.  DeviceLink     *)
(* says what happens to the secrets, ImportPlan what a plan is; here they  *)
(* meet in the profile's database.                                         *)
(***************************************************************************)
EXTENDS DeviceLink, ImportPlan

CONSTANTS
  Files,       \* portable bundles the user may import
  LinkFiles,   \* portable bundles a device link may bring
  Grants,      \* grants, without the device key they are made out to
  WebPlans,    \* plans of web-node links, without a principal
  NoPlan

\* Ids are not empty, and the time a card was archived at is not among its other
\* keys.
ASSUME FilesAssumption ==
  \A file \in Files : \A r \in file.rows :
    /\ r.id # NoId
    /\ r.kind = "card" => r.archived \in BOOLEAN /\ "archivedAt" \notin r.keys

\* A web-node link's plan has the fields of any plan, and a source of its own.
ASSUME WebPlansAssumption ==
  \A p \in WebPlans :
    /\ p = [source |-> "web-node-link-v1", receipt |-> p.receipt,
            principal |-> p.principal, rows |-> p.rows, tombstones |-> p.tombstones,
            capabilities |-> p.capabilities, extensions |-> p.extensions,
            sections |-> p.sections]
    /\ \A r \in p.rows : r.scope = Scope(r.scope.workspace, r.scope.board)

VARIABLES
  plan,     \* the plan of the link under way
  imported, \* the last plan applied, until a restore takes its rows away
  answer    \* what the call that has just ended was told

importVars == <<linkVars, plan, imported, answer>>

ImportInit ==
  /\ LinkInit
  /\ plan = NoPlan
  /\ imported = NoPlan
  /\ answer = "none"

Answer(result) == answer' = result

-----------------------------------------------------------------------------
(* import_portable_bundle.                                                 *)

FilePlans == {PlanOf(file) : file \in {file \in Files : Parses(file)}}

\* The file does not parse, or the profile is not empty.
TurnBundleAway ==
  /\ link = NoLink
  /\ \/ Answer("invalid")
     \/ ~ PreflightPasses /\ Answer("refused")
  /\ UNCHANGED <<linkVars, plan, imported>>

\* "constraint" is SQLite's refusal of a row, "section" a section that can not be
\* materialized; both roll the transaction back.
ImportPortableBundle(p) ==
  /\ link = NoLink
  /\ PreflightPasses
  /\ Answer(CASE ~ RowsFit(p)     -> "constraint"
              [] ~ SectionsFit(p) -> "section"
              [] OTHER            -> "imported")
  /\ IF answer' = "imported"
     THEN /\ profile' = [profile EXCEPT !.work = TRUE]
          /\ past' = past \cup {profile'}
          /\ imported' = p
     ELSE UNCHANGED <<profile, past, imported>>
  /\ UNCHANGED <<memory, disk, link, step, written, outcome, blemish, plan>>

-----------------------------------------------------------------------------
(* The links.                                                              *)

BoardsIn(p) == {c.scope.board : c \in p.capabilities}

\* A web-node link's plan is made out to the device key of this profile.
MadeOut(p, l) ==
  [p EXCEPT !.principal = l, !.capabilities = {[c EXCEPT !.subject = l] : c \in @}]

DeviceLinkPlans(l) ==
  LET To(g) == [scope |-> g, subject |-> l]
      Offers == {o \in LinkFiles \X Grants : /\ Parses(o[1])
                                             /\ BoardsOf[l] = {o[2].board}
                                             /\ GrantCovers(PlanOf(o[1]), To(o[2]))}
  IN  {Provisioned(PlanOf(o[1]), To(o[2])) : o \in Offers}

\* The secrets that come with it are those of the boards in its plan.
WebNodePlans(l) == {MadeOut(p, l) : p \in {p \in WebPlans : BoardsIn(p) = BoardsOf[l]}}

\* The links and the plans of theirs that validate_graph accepts.
AcceptedLinks ==
  UNION {{<<l, p>> : p \in {p \in DeviceLinkPlans(l) \cup WebNodePlans(l) : ValidGraph(p)}} :
           l \in Links}

BeginLink(l, p) ==
  /\ Begin(l)
  /\ plan' = p
  /\ Answer("none")
  /\ UNCHANGED imported

\* A file, a grant, an envelope or a plan that is not valid, or does not belong
\* to the other ones: nothing is looked up, nothing is changed.
RejectLink(l) ==
  /\ Reject(l)
  /\ Answer("invalid")
  /\ UNCHANGED <<plan, imported>>

RefuseLink(l) ==
  /\ Refuse(l)
  /\ Answer("refused")
  /\ UNCHANGED <<plan, imported>>

WriteSecret ==
  /\ \E k \in Key : PutSecret(k) \/ FailPut(k)
  /\ plan' = IF link' = NoLink THEN NoPlan ELSE plan
  /\ Answer("none")
  /\ UNCHANGED imported

\* apply_plan succeeds.
ApplyLink ==
  /\ ApplyPlan
  /\ RowsFit(plan)
  /\ SectionsFit(plan)
  /\ imported' = plan
  /\ plan' = NoPlan
  /\ Answer("imported")

\* It does not, for the profile, the plan or the disk.
FailLink ==
  /\ FailApply
  /\ Answer(CASE ~ PreflightPasses    -> "refused"
              [] ~ RowsFit(plan)      -> "constraint"
              [] ~ SectionsFit(plan)  -> "section"
              [] OTHER                -> "none")
  /\ UNCHANGED <<plan, imported>>

CleanUp ==
  /\ (\E k \in Key : DeleteSecret(k)) \/ EndCleanup
  /\ plan' = IF link' = NoLink THEN NoPlan ELSE plan
  /\ Answer("none")
  /\ UNCHANGED imported

-----------------------------------------------------------------------------
(* What else happens.                                                      *)

Disturb ==
  /\ CreateWorkspace \/ Restart \/ RestoreProfile
  /\ plan' = IF link' = NoLink THEN NoPlan ELSE plan
  /\ imported' = IF profile' = EmptyProfile \/ profile'.linked # profile.linked
                 THEN NoPlan ELSE imported
  /\ Answer("none")

ImportNext ==
  \/ TurnBundleAway
  \/ \E p \in FilePlans : ImportPortableBundle(p)
  \/ \E offer \in AcceptedLinks : BeginLink(offer[1], offer[2])
  \/ \E l \in Links : RejectLink(l) \/ RefuseLink(l)
  \/ WriteSecret \/ ApplyLink \/ FailLink \/ CleanUp
  \/ Disturb

ImportSpec == ImportInit /\ [][ImportNext]_importVars

-----------------------------------------------------------------------------

\* validate_graph is as strict as the schema: when a plan has passed it, and its
\* secrets are in the vault, no key and no reference makes SQLite refuse a row.
ValidGraphsFit == answer # "constraint"

\* The boards in the database are whole, which the schema does not enforce: a
\* card is in the board and the workspace its column is in, a checklist where
\* its card is, and a label on a card is a label of the card's board.
ImportedBoardsAreWhole ==
  imported # NoPlan =>
    /\ \A c \in Rows(imported, "card") :
         LET board == ParentOf(imported, "column", c.parent)
         IN  c.scope = Scope(WorkspaceOf(imported, board), board)
    /\ \A l \in Rows(imported, "checklist") :
         \E c \in Rows(imported, "card") : l.parent = c.id /\ l.scope = c.scope
    /\ \A i \in Rows(imported, "checklist_item") : i.parent \in Ids(imported, "checklist")
    /\ \A edge \in imported.sections.cardLabels.entries :
         \E l \in imported.sections.labels.entries, c \in Rows(imported, "card") :
           edge.label = l.id /\ edge.card = c.id /\ l.board = c.scope.board

\* A bundle that was imported can be exported, and what is exported can be
\* imported by another fresh profile and brings the same plan.
ExportReimports ==
  (imported # NoPlan /\ imported.source = "portable-bundle-v1") =>
    /\ Exportable(imported)
    /\ Parses(FileOf(imported))
    /\ PlanOf(FileOf(imported)) = imported

=============================================================================
