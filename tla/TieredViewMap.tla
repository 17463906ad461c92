--------------------------- MODULE TieredViewMap ---------------------------
(***************************************************************************)
(* The two-level map in which the coordinator keeps its builder states     *)
(* (shared/src/coordinator/tiered_view_map.rs): buckets ordered by view,   *)
(* each a non-empty hash map from the rest of the key to a value.          *)
(*                                                                         *)
(* A map is a function whose domain is a set of keys, a key a record with  *)
(* a view and a commitment (BuilderStateId).  A bucket is the set of keys  *)
(* of one view; the order inside a bucket is the hash map's, so it is      *)
(* never relied on here.                                                   *)
(***************************************************************************)
EXTENDS Naturals, FiniteSets

\* The view that `unwrap_or(Types::View::genesis())` falls back to.
Genesis == 0

\* The views that own a bucket.
Views(map) == {id.parent_view : id \in DOMAIN map}

\* Keys of the bucket of view v.
bucket(map, v) == {id \in DOMAIN map : id.parent_view = v}

\* BTreeMap::last_key_value and first_key_value on the outer map.
highest_view(map) == CHOOSE v \in Views(map) : \A w \in Views(map) : w <= v
lowest_view(map)  == CHOOSE v \in Views(map) : \A w \in Views(map) : v <= w

\* `range((Unbounded, Excluded(v))).next()`: BTreeMap::range ascends, so this
\* is the bucket of the lowest view, if that view is below v.
first_bucket_below(map, v) ==
    {id \in DOMAIN map : /\ id.parent_view < v
                         /\ \A w \in Views(map) : id.parent_view <= w}

insert(map, id, value) ==
    [i \in DOMAIN map \cup {id} |-> IF i = id THEN value ELSE map[i]]

\* What prune leaves in the map: the buckets at or above the cutoff.
prune(map, cutoff) ==
    [i \in {id \in DOMAIN map : id.parent_view >= cutoff} |-> map[i]]

============================================================================
