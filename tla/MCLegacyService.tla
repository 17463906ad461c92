--------------------------- MODULE MCLegacyService ---------------------------
(* An instance of LegacyService for TLC: the bootstrap state and a newer one. *)
EXTENDS LegacyService, TLC

Id(view) == [parent_view |-> view]
MCBootstrap == Id(0)
MCStateIds == {Id(0), Id(2)}

\* Only invariants are checked, and clients and payloads are interchangeable.
Symmetry == Permutations(Clients) \cup Permutations(Payloads)
=============================================================================
