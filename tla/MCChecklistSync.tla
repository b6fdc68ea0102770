---------------------------- MODULE MCChecklistSync ----------------------------
(* ChecklistSync for TLC: one card, one checklist, one item, two devices   *)
(* that run this program (1 and 2) and an Android device (3).              *)
EXTENDS ChecklistSync, TLC

CONSTANTS c, l, i

MCParent == (l :> c) @@ (i :> l)

\* The two kinds of world: planner commands between batches and a causal
\* relay, or neither.
OrderlyWorld(content, roots, looks, clocks) ==
  [overlap |-> FALSE, causal |-> TRUE, content |-> content,
   roots |-> roots, looks |-> looks, clocks |-> clocks]
WildWorld(content, roots, looks, clocks) ==
  [overlap |-> TRUE, causal |-> FALSE, content |-> content,
   roots |-> roots, looks |-> looks, clocks |-> clocks]

MCWorlds ==
  {OrderlyWorld("full", {c, l, i}, {}, 3),     \* edits of what is there already
   OrderlyWorld("full", {c, l}, {}, 3),        \* the life of an item
   OrderlyWorld("full", {c}, {}, 3),           \* the life of a checklist
   OrderlyWorld("full", {}, {1, 2}, 3),        \* with the appearance
   OrderlyWorld("bare", {}, {1}, 2),           \* a board may lack its columns
   OrderlyWorld("bare", {c}, {1}, 2),          \* or its content
   WildWorld("full", {}, {}, 4),               \* deltas before their card
   WildWorld("full", {c, l}, {}, 3),           \* deletes and puts in any order
   WildWorld("bare", {}, {}, 2),
   WildWorld("bare", {c}, {1}, 2),             \* the appearance during a delete
   WildWorld("seeded", {}, {1, 2}, 2)}         \* boards waiting for a snapshot

=============================================================================
