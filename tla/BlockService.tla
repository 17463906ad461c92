---------------------------- MODULE BlockService ----------------------------
(***************************************************************************)
(* The block API of the refactored service and its BlockStore              *)
(* (legacy_refactored/src/service.rs, block_store.rs): requests for        *)
(* available blocks, claims of the blocks offered, and the decides that    *)
(* prune the store while requests are under way.                           *)
(*                                                                         *)
(* The builder states are the abstract window that Coordinator implements. *)
(* A decide prunes the window and the store in two tasks, each of which    *)
(* may run at any time.  What build_block does with a state is             *)
(* BlockBuilding's: here it offers any payload, nothing, or fails.  The    *)
(* size limits that claims adjust are BlockSizeLimits'.                    *)
(***************************************************************************)
EXTENDS TieredViewMap

CONSTANTS
    Requests,      \* clients of the API
    StateIds,      \* ids of builder states
    BootstrapId,
    Payloads,      \* builder commitments of the payloads that can be built
    Cutoffs        \* views of leaf_chain[0] in the decides received

ASSUME ServiceAssumption ==
    /\ BootstrapId \in StateIds
    /\ \A id \in StateIds : id.parent_view \in Nat
    /\ Cutoffs \subseteq Nat
    /\ Payloads # {}

VARIABLES
    live,          \* ids of the coordinator's builder states
    blocks,        \* BlockStore.blocks: BlockId -> BlockInfo
    block_cache,   \* BlockStore.block_cache: BuilderStateId -> BlockId
    requests       \* per client, the local state of its request

store == <<blocks, block_cache>>
vars == <<live, store, requests>>

Window == INSTANCE StateWindow WITH Ids <- StateIds, Bootstrap <- BootstrapId

\* BlockId { view, hash }: TieredViewMap keeps the view under this name.
BlockId == [parent_view : {id.parent_view : id \in StateIds}, hash : Payloads]

\* A block's contents follow from its id: claims only need to find it.
BlockInfo == {"info"}

\* `block` is the id of the block built or offered, `expired` is history:
\* the store was pruned above the block's view since it was offered.
Request ==
    [phase : {"lookup", "missed", "build", "store", "failed", "done"},
     id : StateIds, builder : StateIds, block : BlockId,
     result : {"unasked", "none", "empty", "offered", "AlreadyDecided",
               "NotFound", "error", "timeout"},
     expired : BOOLEAN]

NoBlock == [parent_view |-> BootstrapId.parent_view, hash |-> CHOOSE p \in Payloads : TRUE]
NoRequest == [phase |-> "done", id |-> BootstrapId, builder |-> BootstrapId,
              block |-> NoBlock, result |-> "unasked",
              expired |-> FALSE]

Init ==
    /\ live = {BootstrapId}
    /\ blocks = [b \in {} |-> {}]
    /\ block_cache = [id \in {} |-> {}]
    /\ requests = [r \in Requests |-> NoRequest]

set_request(r, request) == requests' = [requests EXCEPT ![r] = request]
\* An answered request keeps nothing else.
finish(r, result) ==
    set_request(r, [NoRequest EXCEPT !.result = result, !.expired = requests[r].expired])

----------------------------------------------------------------------------
(* available_blocks: a state to build on *)

available_blocks(r, id) ==
    /\ requests[r].phase = "done"
    /\ set_request(r, [NoRequest EXCEPT !.phase = "lookup", !.id = id, !.result = "none"])
    /\ UNCHANGED <<live, store>>

\* lookup_builder_state, the first read.
lookup(r) ==
    /\ requests[r].phase = "lookup"
    /\ set_request(r, IF requests[r].id \in live
                      THEN [requests[r] EXCEPT !.phase = "build", !.builder = requests[r].id]
                      ELSE [requests[r] EXCEPT !.phase = "missed"])
    /\ UNCHANGED <<live, store>>

\* The second read.  NotFound sleeps and looks again.
lookup_lowest_view(r) ==
    /\ requests[r].phase = "missed"
    /\ IF \A id \in live : id.parent_view > requests[r].id.parent_view
       THEN finish(r, "AlreadyDecided")
       ELSE set_request(r, [requests[r] EXCEPT !.phase = "lookup"])
    /\ UNCHANGED <<live, store>>

\* No exact match in time: the state with the highest view instead, but the
\* block will be stored for the state that was asked for.
highest_view_builder(r) ==
    /\ requests[r].phase \in {"lookup", "missed"}
    /\ \E newest \in live :
          /\ \A id \in live : id.parent_view <= newest.parent_view
          /\ set_request(r, [requests[r] EXCEPT !.phase = "build", !.builder = newest])
    /\ UNCHANGED <<live, store>>

----------------------------------------------------------------------------
(* available_blocks: the block *)

\* Slip: the block is named after the state it was built on.
block_id_of_builder(request, payload) ==
    [parent_view |-> request.builder.parent_view, hash |-> payload]

block_id(request, payload) ==
    [parent_view |-> request.id.parent_view, hash |-> payload]

build_block(r) ==
    /\ requests[r].phase = "build"
    /\ \/ finish(r, "empty")
       \/ set_request(r, [requests[r] EXCEPT !.phase = "failed", !.builder = BootstrapId])
       \/ \E payload \in Payloads :
             set_request(r, [requests[r] EXCEPT
                !.phase = "store", !.builder = BootstrapId,
                !.block = block_id(requests[r], payload)])
    /\ UNCHANGED <<live, store>>

\* What the leader will claim: the hash it was told, in the view it asked for.
offer(r, hash) ==
    set_request(r, [NoRequest EXCEPT
       !.result = "offered",
       !.block = [parent_view |-> requests[r].id.parent_view, hash |-> hash]])

\* Slip: the block offered before for the same state makes room.
update_replacing(r) ==
    LET request == requests[r]
        rest == [b \in {b \in DOMAIN blocks : request.id \in DOMAIN block_cache
                                                => b # block_cache[request.id]} |-> blocks[b]]
    IN  /\ request.phase = "store"
        /\ blocks' = insert(rest, request.block, "info")
        /\ block_cache' = insert(block_cache, request.id, request.block)
        /\ offer(r, request.block.hash)
        /\ UNCHANGED live

update(r) ==
    LET request == requests[r]
    IN  /\ request.phase = "store"
        /\ blocks' = insert(blocks, request.block, "info")
        /\ block_cache' = insert(block_cache, request.id, request.block)
        /\ offer(r, request.block.hash)
        /\ UNCHANGED live

cached(id) == id \in DOMAIN block_cache /\ block_cache[id] \in DOMAIN blocks

\* A build that failed is answered from the cache.
respond_cached(r) ==
    LET id == requests[r].id
    IN  /\ requests[r].phase = "failed"
        /\ IF cached(id) THEN offer(r, block_cache[id].hash) ELSE finish(r, "error")
        /\ UNCHANGED <<live, store>>

\* max_api_waiting_time is over.
dropped(r) ==
    /\ requests[r].phase # "done"
    /\ finish(r, "timeout")
    /\ UNCHANGED <<live, store>>

----------------------------------------------------------------------------
(* Claims *)

\* claim_block (with num_nodes or without) and claim_block_header_input: each
\* finds the block, which can then be claimed again, or does not.
claim_block(r) ==
    /\ requests[r].result = "offered"
    /\ IF requests[r].block \in DOMAIN blocks
       THEN UNCHANGED requests
       ELSE finish(r, "NotFound")
    /\ UNCHANGED <<live, store>>

----------------------------------------------------------------------------
(* Events *)

\* The coordinator spawns a state, or prunes some on a decide.
coordinator_step == Window!Next /\ UNCHANGED <<store, requests>>

expire(cutoff) == requests' = [r \in Requests |-> [requests[r] EXCEPT
    !.expired = @ \/ (requests[r].result = "offered" /\ requests[r].block.parent_view < cutoff)]]

\* The event loop's other task for a decide.
prune_store(cutoff) ==
    /\ blocks' = prune(blocks, cutoff)
    /\ block_cache' = prune(block_cache, cutoff)
    /\ expire(cutoff)
    /\ UNCHANGED live

Next ==
    \/ \E r \in Requests :
          \/ \E id \in StateIds : available_blocks(r, id)
          \/ lookup(r) \/ lookup_lowest_view(r) \/ highest_view_builder(r)
          \/ build_block(r) \/ update(r) \/ respond_cached(r) \/ dropped(r)
          \/ claim_block(r)
    \/ coordinator_step
    \/ \E cutoff \in Cutoffs : prune_store(cutoff)

Spec == Init /\ [][Next]_vars

----------------------------------------------------------------------------
(* Properties *)

TypeOK ==
    /\ live \subseteq StateIds
    /\ DOMAIN blocks \subseteq BlockId
    /\ \A b \in DOMAIN blocks : blocks[b] \in BlockInfo
    /\ DOMAIN block_cache \subseteq StateIds
    /\ \A id \in DOMAIN block_cache :
          block_cache[id] \in BlockId /\ block_cache[id].parent_view = id.parent_view
    /\ requests \in [Requests -> Request]

\* The cache and the blocks are two maps, pruned by their keys' own views:
\* still no cached id is ever without its block (block_store.rs).
CacheNotDangling == \A id \in DOMAIN block_cache : block_cache[id] \in DOMAIN blocks

\* A block offered can be claimed until a decide prunes the store above the
\* view it was offered in, whatever else is built, overwritten, served from
\* the cache or decided meanwhile (available_blocks against claim_block).
Offered(request) == request.result = "offered" /\ ~request.expired

OfferedClaimable ==
    \A r \in Requests : Offered(requests[r]) => requests[r].block \in DOMAIN blocks

\* A claim of an offered block fails only for that reason.
NotFoundOnlyExpired ==
    \A r \in Requests : requests[r].result = "NotFound" => requests[r].expired

============================================================================
