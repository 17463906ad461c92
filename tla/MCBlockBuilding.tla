-------------------------- MODULE MCBlockBuilding --------------------------
(* Instances of BlockBuilding for TLC.                                     *)
EXTENDS BlockBuilding

\* "empty" weighs nothing, "huge" fits no block, "old" was in a recent one.
MCTxns  == {"small", "empty", "huge", "old"}
MCSizes == [t \in MCTxns |-> CASE t = "small" -> 2 [] t = "empty" -> 0 [] OTHER -> 4]

Refs(tx_count, last_nonempty_view) ==
    [tx_count |-> tx_count, last_nonempty_view |-> last_nonempty_view, view_number |-> 5]

\* A parent with transactions; an empty one just after such a block, long
\* after it, and with none before.
MCReferences == {Refs(1, {5}), Refs(0, {4}), Refs(0, {1}), Refs(0, {})}
============================================================================
