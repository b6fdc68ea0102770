------------------------------- MODULE ImportPlan -------------------------------
(***************************************************************************)
(* What an import brings: a portable bundle (version 1), the ImportPlan it *)
(* is parsed to and exported from, what ImportPlan::validate_graph accepts *)
(* and which inserts SQLite lets apply_plan make (domain/import.rs,        *)
(* infrastructure/sqlite/import.rs, the tables of migrations/).            *)
(*                                                                         *)
(* Abstraction.  A row is its kind, its id and its references; texts,      *)
(* positions and the shape of ids are valid, JSON is JSON and holds no     *)
(* forbidden key.  Of an entity's other fields there is only which keys it *)
(* has.  Two rows with one id differ in something.                         *)
(***************************************************************************)
EXTENDS Naturals, FiniteSets

CONSTANT NoId

ParentKind == [board |-> "workspace", column |-> "board", card |-> "column",
               checklist |-> "card", checklist_item |-> "checklist"]

Rows(x, kind) == {r \in x.rows : r.kind = kind}
Ids(x, kind)  == {r.id : r \in Rows(x, kind)}

\* Where a board is, and where a card is: NoId stands for a lookup that fails.
NoScope == [workspace |-> NoId, board |-> NoId]
Scope(w, b) == [workspace |-> w, board |-> b]
ParentOf(x, kind, id) ==
  IF id \in Ids(x, kind) THEN (CHOOSE r \in Rows(x, kind) : r.id = id).parent ELSE NoId
WorkspaceOf(x, board) == ParentOf(x, "board", board)

-----------------------------------------------------------------------------
(* validate_graph.                                                         *)

HasEntities(plan) == plan.rows \cup plan.tombstones # {}

IdsAreUnique(plan) ==
  \A r1, r2 \in plan.rows : r1.id = r2.id => r1 = r2

\* Mutant of ReferencesExist: the list of an item is not looked up.
ReferencesExistAbove(plan) ==
  \A r \in plan.rows : r.kind \notin {"workspace", "checklist_item"} =>
    r.parent \in Ids(plan, ParentKind[r.kind])

\* Every row names a parent that is in the plan, too.
ReferencesExist(plan) ==
  \A r \in plan.rows : r.kind # "workspace" => r.parent \in Ids(plan, ParentKind[r.kind])

\* Mutant of ScopesAgree: a card's column may be another board's.
ScopesAgreeOnWorkspace(plan) ==
  \A c \in Rows(plan, "card") : c.scope.workspace = WorkspaceOf(plan, c.scope.board)

\* Cards and checklists repeat the workspace and the board they are in.
ScopesAgree(plan) ==
  /\ \A c \in Rows(plan, "card") :
       /\ c.scope.workspace = WorkspaceOf(plan, c.scope.board)
       /\ c.scope.board = ParentOf(plan, "column", c.parent)
  /\ \A l \in Rows(plan, "checklist"), c \in Rows(plan, "card") :
       l.parent = c.id => l.scope = c.scope

\* A tombstone is in a board of the plan; whether its entity is there, as a live
\* row even, is not asked.
TombstonesValid(plan) ==
  /\ \A t \in plan.tombstones :
       /\ t.clock # 0
       /\ t.scope.board \in Ids(plan, "board")
       /\ t.scope.workspace = WorkspaceOf(plan, t.scope.board)
       /\ t.kind = "card" => t.card = NoId /\ t.checklist = NoId
       /\ t.kind = "checklist" => t.card # NoId /\ t.checklist = NoId
       /\ t.kind = "checklist_item" => t.card # NoId /\ t.checklist # NoId
  /\ \A t, u \in plan.tombstones : (t.kind = u.kind /\ t.id = u.id) => t = u

\* One capability per board, given to the principal of the plan if it has one.
CapabilitiesValid(plan) ==
  /\ \A c \in plan.capabilities :
       /\ c.scope.board \in Ids(plan, "board")
       /\ c.scope.workspace = WorkspaceOf(plan, c.scope.board)
       /\ plan.principal # NoId => c.subject = plan.principal
  /\ \A c, d \in plan.capabilities : c.scope.board = d.scope.board => c = d

ReceiptValid(plan) ==
  LET w == plan.receipt.workspace
      b == plan.receipt.board
  IN  /\ w # NoId => w \in Ids(plan, "workspace")
      /\ b # NoId => b \in Ids(plan, "board")
      /\ w # NoId /\ b # NoId => w = WorkspaceOf(plan, b)

ExtensionsValid(plan) ==
  /\ \A e \in plan.extensions : e.kind # "workspace" /\ e.id \in Ids(plan, e.kind)
  /\ \A e, f \in plan.extensions : (e.kind = f.kind /\ e.id = f.id) => e = f

ValidGraph(plan) ==
  /\ HasEntities(plan)
  /\ IdsAreUnique(plan)
  /\ ReferencesExist(plan)
  /\ ScopesAgree(plan)
  /\ TombstonesValid(plan)
  /\ CapabilitiesValid(plan)
  /\ ReceiptValid(plan)
  /\ ExtensionsValid(plan)

-----------------------------------------------------------------------------
(* parse_portable_bundle_v1: one board in one workspace.  A section that   *)
(* the file leaves out is JSON's null, which is not an empty section.      *)

Null == [null |-> TRUE]
Listed(entries) == [null |-> FALSE, entries |-> entries]
SectionNames == {"labels", "cardLabels", "comments", "appearance", "activity"}

CardScope(file, card) ==
  LET column == ParentOf(file, "card", card)
      board  == ParentOf(file, "column", column)
  IN  Scope(WorkspaceOf(file, board), board)

ScopeOfRow(file, r) ==
  CASE r.kind = "card"      -> CardScope(file, r.id)
    [] r.kind = "checklist" -> CardScope(file, r.parent)
    [] OTHER                -> NoScope

\* Mutant of KeysOfRow: the time a card was archived at is not kept.
OtherKeysOfRow(r) == r.keys

\* The keys of an entity that the plan's own fields do not hold.
KeysOfRow(r) == r.keys \cup IF r.archived THEN {"archivedAt"} ELSE {}

Extensions(file) ==
  {[kind |-> r.kind, id |-> r.id, keys |-> KeysOfRow(r)] :
     r \in {r \in file.rows : r.kind # "workspace" /\ KeysOfRow(r) # {}}}

OneBoard(file) ==
  /\ file.manifest = file.scope
  /\ Ids(file, "workspace") = {file.scope.workspace}
  /\ Ids(file, "board") = {file.scope.board}
  /\ Cardinality(Rows(file, "workspace")) = 1
  /\ Cardinality(Rows(file, "board")) = 1
  /\ WorkspaceOf(file, file.scope.board) = file.scope.workspace
  /\ \A k \in Rows(file, "column") : k.parent = file.scope.board

PlanOf(file) ==
  [source |-> "portable-bundle-v1",
   receipt |-> file.scope,
   principal |-> NoId,
   rows |-> {[kind |-> r.kind, id |-> r.id, parent |-> r.parent,
              scope |-> ScopeOfRow(file, r),
              archived |-> r.kind = "card" /\ r.archived] : r \in file.rows},
   tombstones |-> {},
   capabilities |-> {},
   extensions |-> Extensions(file),
   sections |-> file.sections]

Parses(file) ==
  /\ ~ file.localMetadata
  /\ OneBoard(file)
  /\ \A c \in Rows(file, "card") : c.parent \in Ids(file, "column")
  /\ \A l \in Rows(file, "checklist") : l.parent \in Ids(file, "card")
  /\ ValidGraph(PlanOf(file))

-----------------------------------------------------------------------------
(* provision_authenticated_device_link.                                    *)

\* A grant covers one board, and all that the plan brings is in it.
GrantCovers(plan, grant) ==
  /\ plan.receipt = grant.scope
  /\ Ids(plan, "workspace") = {grant.scope.workspace}
  /\ Ids(plan, "board") = {grant.scope.board}
  /\ WorkspaceOf(plan, grant.scope.board) = grant.scope.workspace
  /\ \A k \in Rows(plan, "column") : k.parent = grant.scope.board
  /\ \A r \in Rows(plan, "card") \cup Rows(plan, "checklist") : r.scope = grant.scope

Provisioned(plan, grant) ==
  [plan EXCEPT !.source = "device-link-v2",
               !.principal = grant.subject,
               !.capabilities = {[scope |-> grant.scope, subject |-> grant.subject]}]

-----------------------------------------------------------------------------
(* serialize_portable_bundle_v1.                                           *)

ExtensionKeys(plan, r) ==
  UNION {e.keys : e \in {e \in plan.extensions : e.kind = r.kind /\ e.id = r.id}}

\* An archived card without its time can not be written down.
Exportable(plan) ==
  /\ ValidGraph(plan)
  /\ plan.source = "portable-bundle-v1"
  /\ plan.principal = NoId
  /\ plan.capabilities = {}
  /\ plan.tombstones = {}
  /\ plan.receipt.workspace # NoId
  /\ plan.receipt.board # NoId
  /\ \A c \in Rows(plan, "card") : c.archived => "archivedAt" \in ExtensionKeys(plan, c)

HasArchivedAt(r) == r.kind \in {"board", "card"}

FileOf(plan) ==
  [manifest |-> plan.receipt,
   scope |-> plan.receipt,
   localMetadata |-> FALSE,
   rows |-> {[kind |-> r.kind, id |-> r.id, parent |-> r.parent,
              archived |-> HasArchivedAt(r) /\ "archivedAt" \in ExtensionKeys(plan, r),
              keys |-> IF HasArchivedAt(r) THEN ExtensionKeys(plan, r) \ {"archivedAt"}
                                           ELSE ExtensionKeys(plan, r)] : r \in plan.rows},
   sections |-> plan.sections]

-----------------------------------------------------------------------------
(* apply_plan into empty tables.  Parents are inserted before their        *)
(* children, so a constraint fails only if the plan itself breaks it.      *)

TableKeysFit(plan) ==
  /\ \A r1, r2 \in plan.rows : (r1.kind = r2.kind /\ r1.id = r2.id) => r1 = r2
  /\ \A t, u \in plan.tombstones : (t.kind = u.kind /\ t.id = u.id) => t = u
  /\ \A c, d \in plan.capabilities : c.scope.board = d.scope.board => c = d
  /\ \A e, f \in plan.extensions : (e.kind = f.kind /\ e.id = f.id) => e = f

ForeignKeysFit(plan) ==
  LET InTables(scope) == /\ scope.workspace \in Ids(plan, "workspace")
                         /\ scope.board \in Ids(plan, "board")
  IN  /\ \A r \in plan.rows : r.kind # "workspace" => r.parent \in Ids(plan, ParentKind[r.kind])
      /\ \A r \in Rows(plan, "card") \cup Rows(plan, "checklist") : InTables(r.scope)
      /\ \A t \in plan.tombstones : InTables(t.scope)
      /\ \A c \in plan.capabilities : InTables(c.scope)

RowsFit(plan) == TableKeysFit(plan) /\ ForeignKeysFit(plan)

BoardOfCard(plan, card) == (CHOOSE c \in Rows(plan, "card") : c.id = card).scope.board
IdIsKey(entries) == \A e, f \in entries : e.id = f.id => e = f

\* materialize_parity_sections: each section is an array, if only an empty one,
\* and each entry refers to what the plan has brought.
SectionsFit(plan) ==
  LET s == plan.sections
  IN  /\ \A name \in SectionNames : ~ s[name].null
      /\ IdIsKey(s.labels.entries)
      /\ \A l \in s.labels.entries : l.board \in Ids(plan, "board")
      /\ \A edge \in s.cardLabels.entries :
           /\ edge.card \in Ids(plan, "card")
           /\ \E l \in s.labels.entries :
                l.id = edge.label /\ l.board = BoardOfCard(plan, edge.card)
      /\ IdIsKey(s.comments.entries)
      /\ \A m \in s.comments.entries : m.card \in Ids(plan, "card")
      /\ \A a \in s.appearance.entries : a.board \in Ids(plan, "board")
      /\ \A a, b \in s.appearance.entries : a.board = b.board => a = b
      /\ IdIsKey(s.activity.entries)
      /\ \A a \in s.activity.entries :
           /\ a.board \in Ids(plan, "board")
           /\ a.card # NoId => /\ a.card \in Ids(plan, "card")
                               /\ BoardOfCard(plan, a.card) = a.board

=============================================================================
