----------------------------- MODULE MCTxnFlow -----------------------------
(* Instances of TxnFlow for TLC: blocks are empty or of one transaction, the *)
(* other is never in a block.                                                *)
EXTENDS TxnFlow, TLC

CONSTANT t1

MCBlocks == {{}, {t1}}

\* Builders and states but the root are interchangeable.
Symmetry == {f @@ g : f \in Permutations(Builders), g \in Permutations(Ids \ {Root})}

\* States that nobody has an Arc of any more never change and no step reads
\* them, so that what the invariants say of them is settled by then.
Reachable == <<sent, DOMAIN states, [id \in live |-> states[id]],
               stored, spawning, holding, inserting>>
============================================================================
