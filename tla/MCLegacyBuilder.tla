-------------------------- MODULE MCLegacyBuilder --------------------------
(* Instances of LegacyBuilder for TLC: a chain of two blocks and a fork.   *)
EXTENDS LegacyBuilder

Block(view, payload, leaf, justify_view, justify_leaf) ==
    [view_number |-> view, payload_commitment |-> payload, builder_commitment |-> payload,
     leaf |-> leaf, justify_view |-> justify_view, justify_leaf |-> justify_leaf]

MCBootstrap == [parent_view |-> 0, parent_commitment |-> "genesis"]
MCQuorum == {Block(1, "p", "a1", 0, "a0"),
             Block(2, "p", "a2", 1, "a1"),
             Block(2, "q", "b2", 1, "a1")}
============================================================================
