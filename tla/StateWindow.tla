---------------------------- MODULE StateWindow ----------------------------
(***************************************************************************)
(* What the coordinator promises about the set of builder states, whatever *)
(* the order of proposals and decides: the set is a window over the views. *)
(* It starts with the bootstrap state, gains one state at a time, and is   *)
(* only ever cut from below, never down to nothing.                        *)
(***************************************************************************)
EXTENDS Naturals

CONSTANTS Ids,        \* every id a builder state can have
          Bootstrap   \* the id of the state present from the start

WindowAssumption ==
    /\ Bootstrap \in Ids
    /\ \A id \in Ids : id.parent_view \in Nat

VARIABLE live         \* ids of the builder states that can be looked up

Init == live = {Bootstrap}

Spawn(id) == /\ id \notin live
             /\ live' = live \cup {id}

\* A decide removes everything below some cutoff, but not the last bucket.
Retire == \E gone \in SUBSET live :
    /\ gone # live
    /\ \A g \in gone, k \in live \ gone : g.parent_view < k.parent_view
    /\ live' = live \ gone

Next == Retire \/ \E id \in Ids : Spawn(id)

Spec == Init /\ [][Next]_live

----------------------------------------------------------------------------
TypeOK == live \subseteq Ids

\* There is always a builder state to fall back to: highest_view_builder
\* never answers None (coordinator/mod.rs, "decides do not prune the last
\* remaining view").
NeverEmpty == live # {}

\* The highest view never regresses: whatever was the newest state is still
\* there, or one at least as new is.
HighestKept ==
    [][\A old \in live : \E new \in live' : old.parent_view <= new.parent_view]_live

============================================================================
