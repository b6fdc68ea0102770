---------------------------- MODULE MCDeviceLink ----------------------------
(* ProfileImport for TLC: one complete bundle, and everything it becomes   *)
(* when one or two of its rows and one of its sections are other ones.     *)
EXTENDS ProfileImport, TLC

CONSTANTS l1, l2, l3

LinkBoards == (l1 :> {"b1", "b2"}) @@ (l2 :> {"b1"}) @@ (l3 :> {"b2"})

FileRow(kind, id, parent) ==
  [kind |-> kind, id |-> id, parent |-> parent, archived |-> FALSE, keys |-> {}]

NoEntries == [name \in SectionNames |-> Listed({})]

Bundle(rows, sections) ==
  [manifest |-> Scope("w", "b1"), scope |-> Scope("w", "b1"), localMetadata |-> FALSE,
   rows |-> rows, sections |-> sections]

Root == {FileRow("workspace", "w", NoId), FileRow("board", "b1", "w")}

\* A column, two cards, a checklist and an item.
Columns == {FileRow("column", "k", b) : b \in {"b1", "b2"}}
CardsOf(id) == {[kind |-> "card", id |-> id, parent |-> k, archived |-> a, keys |-> x] :
                  k \in {"k", "c"}, a \in BOOLEAN, x \in {{}, {"priority"}}}
Checklists == {FileRow("checklist", i, c) : i \in {"l", "k"}, c \in {"c", "d", "l"}}
Items == {FileRow("checklist_item", i, l) : i \in {"i", "l"}, l \in {"l", "m"}}

SmallFiles ==
  {Bundle(Root \cup {k, c, d, l, i}, NoEntries) :
     k \in Columns, c \in CardsOf("c"), d \in {FileRow("card", i, "k") : i \in {"c", "d"}},
     l \in Checklists, i \in Items}

Good == Root \cup {FileRow("column", "k", "b1"), FileRow("card", "c", "k"),
                   FileRow("checklist", "l", "c"), FileRow("checklist_item", "i", "l")}

SectionFiles ==
  {Bundle(Good, [labels |-> lb, cardLabels |-> cl, comments |-> cm,
                 appearance |-> ap, activity |-> ac]) :
     lb \in {Null, Listed({}), Listed({[id |-> "x", board |-> "b1"]}),
             Listed({[id |-> "x", board |-> "b2"]})},
     cl \in {Listed({}), Listed({[card |-> "c", label |-> "x"]}),
             Listed({[card |-> "d", label |-> "x"]})},
     cm \in {Listed({}), Listed({[id |-> "m", card |-> "c"], [id |-> "m", card |-> "d"]})},
     ap \in {Listed({}), Listed({[board |-> "b1", updated |-> n] : n \in {1, 2}})},
     ac \in {Null, Listed({[id |-> "a", board |-> "b1", card |-> "c"]})}}

OddFiles ==
  {[Bundle(Good, NoEntries) EXCEPT !.manifest.board = "b2"],
   [Bundle(Good, NoEntries) EXCEPT !.localMetadata = TRUE],
   Bundle(Good \cup {FileRow("board", "b2", "w")}, NoEntries),
   Bundle({}, NoEntries)}

MCFiles == SmallFiles \cup SectionFiles \cup OddFiles
MCLinkFiles == {Bundle(Good, NoEntries), Bundle(Good, [NoEntries EXCEPT !["labels"] = Null])}
MCGrants == {Scope("w", "b1"), Scope("w", "b2")}

\* Two boards in one workspace, each with a column.
PlanRow(kind, id, parent, scope) ==
  [kind |-> kind, id |-> id, parent |-> parent, scope |-> scope, archived |-> FALSE]
TwoBoardRows ==
  {PlanRow("workspace", "w", NoId, NoScope),
   PlanRow("board", "b1", "w", NoScope), PlanRow("board", "b2", "w", NoScope),
   PlanRow("column", "k1", "b1", NoScope), PlanRow("column", "k2", "b2", NoScope)}
Places == {Scope("w", "b1"), Scope("w", "b2"), Scope("v", "b1")}

\* A card, its checklist, that one's item, a tombstone and a label of the card,
\* at home in either board or in none.
MCWebPlans ==
  {[source |-> "web-node-link-v1", receipt |-> NoScope, principal |-> NoId,
    rows |-> TwoBoardRows \cup
             {PlanRow("card", "c", k, p), PlanRow("checklist", "l", "c", q),
              PlanRow("checklist_item", "i", l, NoScope)},
    tombstones |-> {[kind |-> "card", id |-> t, scope |-> r, card |-> NoId,
                     checklist |-> NoId, clock |-> 1] : t \in {"c"}},
    capabilities |-> {[scope |-> Scope("w", b), subject |-> NoId] : b \in {"b1", "b2"}},
    extensions |-> {},
    sections |-> [NoEntries EXCEPT !["labels"] = Listed({[id |-> "x", board |-> "b1"]}),
                                   !["cardLabels"] = Listed({[card |-> "c", label |-> "x"]})]] :
     k \in {"k1", "k2", "k3"}, p \in Places, q \in Places, r \in Places, l \in {"l", "m"}}

=============================================================================
