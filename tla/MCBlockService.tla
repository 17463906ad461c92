--------------------------- MODULE MCBlockService ---------------------------
(* An instance of BlockService for TLC: the first state and a fork after it. *)
EXTENDS BlockService

Id(parent_view, parent_commitment) ==
    [parent_view |-> parent_view, parent_commitment |-> parent_commitment]

MCBootstrap == Id(0, "genesis")
MCStateIds  == {MCBootstrap, Id(1, "left"), Id(1, "right")}
=============================================================================
