--------------------------- MODULE MCCoordinator ---------------------------
(* Instances of Coordinator for TLC: small block trees over four views.    *)
EXTENDS Coordinator

\* A quorum proposal whose leaf has its own name and whose VID and builder
\* commitments are those of one payload.
Block(view, payload, leaf, justify_view, justify_leaf) ==
    [view_number |-> view, payload_commitment |-> payload,
     builder_commitment |-> payload, leaf |-> leaf,
     justify_view |-> justify_view, justify_leaf |-> justify_leaf]

MCPayloads == {"p", "q"}
MCLeaves   == {"fake", "a1", "a2", "b2", "c2", "a3"}
MCEmpty    == {"q"}

\* Two proposals for view 2 on the same parent and a chain on the second;
\* the proposer of the first sends another with the same payload, and hence
\* the same ids, on an older parent.  The bootstrap state's leaf commitment
\* matches no justify QC.
MCQuorum == {Block(1, "p", "a1", 0, "a3"),
             Block(2, "p", "a2", 1, "a1"),
             Block(2, "p", "c2", 0, "a3"),
             Block(2, "q", "b2", 1, "a1"),
             Block(3, "p", "a3", 2, "b2")}

MCDa == {PropId(q) : q \in MCQuorum}
============================================================================
