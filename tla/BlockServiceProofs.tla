------------------------- MODULE BlockServiceProofs -------------------------
(***************************************************************************)
(* Proofs that the block API keeps what it offers, for every set of        *)
(* clients, states, payloads and decides.                                  *)
(***************************************************************************)
EXTENDS BlockService, TLAPS

\* The strengthening: what is about to be stored is named after the view of
\* the state that was asked for, as claims will name it.
StoredForAsked ==
    \A r \in Requests : requests[r].phase = "store"
        => requests[r].block.parent_view = requests[r].id.parent_view

\* A request under way has no answer yet.
AnsweredWhenDone ==
    \A r \in Requests : requests[r].phase # "done" => requests[r].result = "none"

IInv ==
    /\ TypeOK /\ StoredForAsked /\ AnsweredWhenDone
    /\ CacheNotDangling /\ OfferedClaimable /\ NotFoundOnlyExpired

----------------------------------------------------------------------------
(* Data *)

\* Every client starts with a request of the right shape.
LEMMA NoRequestType == NoRequest \in Request
BY ServiceAssumption DEF NoRequest, NoBlock, Request, BlockId

\* A block id is its view and its hash.
LEMMA BlockIdParts ==
    ASSUME NEW b \in BlockId
    PROVE  b = [parent_view |-> b.parent_view, hash |-> b.hash]
BY DEF BlockId

\* A block id is comparable with a cutoff.
LEMMA BlockViews ==
    ASSUME NEW b \in BlockId
    PROVE  b.parent_view \in Nat /\ b.hash \in Payloads
BY ServiceAssumption DEF BlockId

\* Any hash makes a block id in the view of any state.
LEMMA BlockIdOf ==
    ASSUME NEW id \in StateIds, NEW hash \in Payloads
    PROVE  [parent_view |-> id.parent_view, hash |-> hash] \in BlockId
BY DEF BlockId

----------------------------------------------------------------------------
(* One request changes and the store does not: lookups, builds, answers *)

\* The invariant survives a change of one request that keeps its own part.
LEMMA OneRequest ==
    ASSUME IInv, live' \subseteq StateIds, UNCHANGED store,
           NEW r \in Requests, NEW new \in Request, set_request(r, new),
           new.phase = "store" => new.block.parent_view = new.id.parent_view,
           new.phase # "done" => new.result = "none",
           Offered(new) => new.block \in DOMAIN blocks,
           new.result = "NotFound" => new.expired
    PROVE  IInv'
<1>1. requests' \in [Requests -> Request]
  BY DEF IInv, TypeOK, set_request
<1>2. requests'[r] = new /\ \A s \in Requests \ {r} : requests'[s] = requests[s]
  BY DEF IInv, TypeOK, set_request
<1>3. TypeOK'
  BY <1>1 DEF IInv, TypeOK, store
<1>4. StoredForAsked'
  BY <1>2 DEF IInv, StoredForAsked
<1>5. CacheNotDangling'
  BY DEF IInv, CacheNotDangling, store
<1>6. OfferedClaimable'
  BY <1>2 DEF IInv, OfferedClaimable, Offered, store
<1>7. NotFoundOnlyExpired'
  BY <1>2 DEF IInv, NotFoundOnlyExpired
<1>8. AnsweredWhenDone'
  BY <1>2 DEF IInv, AnsweredWhenDone
<1>. QED  BY <1>3, <1>4, <1>5, <1>6, <1>7, <1>8 DEF IInv

\* An answer without a block keeps the invariant, NotFound only if it is due.
LEMMA Finishing ==
    ASSUME IInv, UNCHANGED <<live, store>>, NEW r \in Requests,
           NEW result \in {"empty", "AlreadyDecided", "NotFound", "error", "timeout"},
           finish(r, result), result = "NotFound" => requests[r].expired
    PROVE  IInv'
<1>. DEFINE new == [NoRequest EXCEPT !.result = result, !.expired = requests[r].expired]
<1>1. new \in Request
  BY NoRequestType DEF IInv, TypeOK, Request
<1>2. new.phase = "done" /\ new.result = result /\ new.expired = requests[r].expired
  BY DEF NoRequest
<1>3. set_request(r, new) /\ live' \subseteq StateIds /\ UNCHANGED store
  BY DEF finish, IInv, TypeOK
<1>. HIDE DEF new
<1>. QED  BY <1>1, <1>2, <1>3, OneRequest DEF Offered

----------------------------------------------------------------------------
(* Steps *)

\* Finding a state to build on stores nothing; a request that is told the state
\* was decided ends.
LEMMA LookupSteps ==
    ASSUME IInv, NEW r \in Requests,
           \/ \E id \in StateIds : available_blocks(r, id)
           \/ lookup(r) \/ lookup_lowest_view(r) \/ highest_view_builder(r)
    PROVE  IInv'
<1>. USE DEF IInv
<1>1. requests[r] \in Request /\ live \subseteq StateIds
  BY DEF TypeOK
<1>2. ASSUME NEW id \in StateIds, available_blocks(r, id)  PROVE IInv'
  <2>. DEFINE new == [NoRequest EXCEPT !.phase = "lookup", !.id = id, !.result = "none"]
  <2>1. new \in Request
    BY NoRequestType DEF Request
  <2>2. new.phase = "lookup" /\ new.result = "none"
    BY DEF NoRequest
  <2>3. set_request(r, new) /\ live' \subseteq StateIds /\ UNCHANGED store
    BY <1>1, <1>2 DEF available_blocks
  <2>. HIDE DEF new
  <2>. QED  BY <2>1, <2>2, <2>3, OneRequest DEF Offered
\* Every other lookup keeps everything but the phase and the builder.
<1>3. ASSUME NEW phase \in {"lookup", "missed", "build"}, NEW builder \in StateIds,
             requests[r].phase # "done",
             set_request(r, [requests[r] EXCEPT !.phase = phase, !.builder = builder]),
             UNCHANGED <<live, store>>
      PROVE  IInv'
  <2>. DEFINE new == [requests[r] EXCEPT !.phase = phase, !.builder = builder]
  <2>1. /\ new \in Request /\ new.phase # "store"
        /\ new.result = requests[r].result
        /\ new.expired = requests[r].expired /\ new.block = requests[r].block
    BY <1>1 DEF Request
  <2>2. set_request(r, new) /\ live' \subseteq StateIds /\ UNCHANGED store
    BY <1>1, <1>3
  <2>. HIDE DEF new
  <2>. QED  BY <1>3, <2>1, <2>2, OneRequest DEF Offered, AnsweredWhenDone
<1>4. CASE lookup(r)
  <2>1. \E phase \in {"missed", "build"}, builder \in StateIds :
            set_request(r, [requests[r] EXCEPT !.phase = phase, !.builder = builder])
    <3>1. CASE requests[r].id \in live
      BY <1>1, <1>4, <3>1 DEF lookup, Request
    <3>2. CASE requests[r].id \notin live
      <4>1. [requests[r] EXCEPT !.phase = "missed"]
              = [requests[r] EXCEPT !.phase = "missed", !.builder = requests[r].builder]
        BY <1>1 DEF Request
      <4>. QED  BY <1>1, <1>4, <3>2, <4>1 DEF lookup, Request
    <3>. QED  BY <3>1, <3>2
  <2>. QED  BY <1>3, <1>4, <2>1 DEF lookup
<1>5. CASE lookup_lowest_view(r)
  <2>1. CASE finish(r, "AlreadyDecided")
    BY <1>5, <2>1, Finishing DEF lookup_lowest_view
  <2>2. CASE set_request(r, [requests[r] EXCEPT !.phase = "lookup"])
    <3>1. [requests[r] EXCEPT !.phase = "lookup"]
            = [requests[r] EXCEPT !.phase = "lookup", !.builder = requests[r].builder]
      BY <1>1 DEF Request
    <3>2. requests[r].builder \in StateIds
      BY <1>1 DEF Request
    <3>. QED  BY <1>3, <1>5, <2>2, <3>1, <3>2 DEF lookup_lowest_view
  <2>. QED  BY <1>5, <2>1, <2>2 DEF lookup_lowest_view
<1>6. CASE highest_view_builder(r)
  BY <1>1, <1>3, <1>6 DEF highest_view_builder
<1>. QED  BY <1>2, <1>4, <1>5, <1>6

\* A block is stored next under the view of the state asked for, whichever
\* state it was built on.
LEMMA BuildStep ==
    ASSUME IInv, NEW r \in Requests, build_block(r)
    PROVE  IInv'
<1>1. requests[r] \in Request /\ live' \subseteq StateIds /\ UNCHANGED <<live, store>>
  BY DEF IInv, TypeOK, build_block
<1>2. CASE finish(r, "empty")
  BY <1>1, <1>2, Finishing
<1>3. ASSUME NEW phase \in {"failed", "store"}, NEW block \in BlockId,
             phase = "store" => block.parent_view = requests[r].id.parent_view,
             set_request(r, [requests[r] EXCEPT
                !.phase = phase, !.builder = BootstrapId, !.block = block])
      PROVE  IInv'
  <2>. DEFINE new == [requests[r] EXCEPT
                        !.phase = phase, !.builder = BootstrapId, !.block = block]
  <2>1. /\ new \in Request /\ new.phase = phase /\ new.id = requests[r].id
        /\ new.result = requests[r].result /\ new.expired = requests[r].expired
        /\ new.block = block
    BY <1>1, ServiceAssumption DEF Request
  <2>2. set_request(r, new)
    BY <1>3
  <2>. HIDE DEF new
  <2>. QED
    BY <1>1, <1>3, <2>1, <2>2, OneRequest DEF IInv, Offered, AnsweredWhenDone, build_block
<1>4. CASE set_request(r, [requests[r] EXCEPT !.phase = "failed", !.builder = BootstrapId])
  <2>1. [requests[r] EXCEPT !.phase = "failed", !.builder = BootstrapId]
          = [requests[r] EXCEPT !.phase = "failed", !.builder = BootstrapId,
                                !.block = requests[r].block]
    BY <1>1 DEF Request
  <2>2. requests[r].block \in BlockId
    BY <1>1 DEF Request
  <2>. QED  BY <1>3, <1>4, <2>1, <2>2
<1>5. ASSUME NEW payload \in Payloads,
             set_request(r, [requests[r] EXCEPT !.phase = "store", !.builder = BootstrapId,
                !.block = block_id(requests[r], payload)])
      PROVE  IInv'
  <2>1. /\ block_id(requests[r], payload) \in BlockId
        /\ block_id(requests[r], payload).parent_view = requests[r].id.parent_view
    BY <1>1, BlockIdOf DEF block_id, Request
  <2>. QED  BY <1>3, <1>5, <2>1
<1>. QED  BY <1>2, <1>4, <1>5 DEF build_block

\* Offering a block that is stored.
LEMMA Offering ==
    ASSUME IInv, NEW r \in Requests, NEW hash \in Payloads, UNCHANGED <<live, store>>,
           offer(r, hash),
           [parent_view |-> requests[r].id.parent_view, hash |-> hash] \in DOMAIN blocks
    PROVE  IInv'
<1>. DEFINE block == [parent_view |-> requests[r].id.parent_view, hash |-> hash]
            new   == [NoRequest EXCEPT !.result = "offered", !.block = block]
<1>1. block \in BlockId
  BY BlockIdOf DEF IInv, TypeOK, Request
<1>2. /\ new \in Request /\ new.phase = "done" /\ new.result = "offered" /\ new.block = block
  BY <1>1, NoRequestType DEF Request, NoRequest
<1>3. set_request(r, new) /\ live' \subseteq StateIds /\ UNCHANGED store
  BY DEF offer, IInv, TypeOK
<1>. HIDE DEF new
<1>. QED  BY <1>2, <1>3, OneRequest DEF Offered

\* A new block displaces none and is offered under the name it is stored by.
LEMMA UpdateStep ==
    ASSUME IInv, NEW r \in Requests, update(r)
    PROVE  IInv'
<1>. DEFINE block == requests[r].block
            id    == requests[r].id
            new   == [NoRequest EXCEPT !.result = "offered", !.block = block]
<1>1. /\ requests[r] \in Request /\ block \in BlockId /\ id \in StateIds
      /\ block.parent_view = id.parent_view
      /\ requests \in [Requests -> Request] /\ live \subseteq StateIds
  BY DEF IInv, TypeOK, StoredForAsked, update, Request
<1>2. new \in Request /\ new.phase = "done" /\ new.result = "offered" /\ new.block = block
  BY <1>1, NoRequestType DEF Request, NoRequest
<1>3. set_request(r, new)
  BY <1>1, BlockIdParts DEF update, offer
<1>4. /\ requests' \in [Requests -> Request] /\ requests'[r] = new
      /\ \A s \in Requests \ {r} : requests'[s] = requests[s]
  BY <1>1, <1>2, <1>3 DEF set_request
<1>5. /\ blocks' = [b \in DOMAIN blocks \cup {block} |->
                      IF b = block THEN "info" ELSE blocks[b]]
      /\ block_cache' = [i \in DOMAIN block_cache \cup {id} |->
                           IF i = id THEN block ELSE block_cache[i]]
      /\ live' = live
  BY DEF update, insert
<1>. HIDE DEF new
<1>6. TypeOK'
  BY <1>1, <1>4, <1>5 DEF IInv, TypeOK, BlockInfo
<1>7. StoredForAsked' /\ AnsweredWhenDone' /\ NotFoundOnlyExpired'
  BY <1>2, <1>4 DEF IInv, StoredForAsked, AnsweredWhenDone, NotFoundOnlyExpired
<1>8. CacheNotDangling'
  BY <1>5 DEF IInv, CacheNotDangling
<1>9. OfferedClaimable'
  BY <1>2, <1>4, <1>5 DEF IInv, OfferedClaimable, Offered
<1>. QED  BY <1>6, <1>7, <1>8, <1>9 DEF IInv

\* An answer from the cache names a stored block, a dropped request nothing, and
\* a claim of an offered block fails only if a decide has passed it.
LEMMA AnswerSteps ==
    ASSUME IInv, NEW r \in Requests, respond_cached(r) \/ dropped(r) \/ claim_block(r)
    PROVE  IInv'
<1>1. requests[r] \in Request /\ requests \in [Requests -> Request]
  BY DEF IInv, TypeOK
<1>2. CASE respond_cached(r)
  <2>. DEFINE id == requests[r].id
  <2>1. CASE cached(id)
    <3>1. /\ block_cache[id] \in BlockId /\ block_cache[id] \in DOMAIN blocks
          /\ block_cache[id].parent_view = id.parent_view
      BY <2>1 DEF cached, IInv, TypeOK
    <3>2. block_cache[id].hash \in Payloads
      BY <3>1, BlockViews
    <3>3. [parent_view |-> id.parent_view, hash |-> block_cache[id].hash] \in DOMAIN blocks
      BY <3>1, BlockIdParts
    <3>. QED  BY <1>2, <2>1, <3>2, <3>3, Offering DEF respond_cached
  <2>2. CASE ~cached(id)
    BY <1>2, <2>2, Finishing DEF respond_cached
  <2>. QED  BY <2>1, <2>2
<1>3. CASE dropped(r)
  BY <1>3, Finishing DEF dropped
<1>4. CASE claim_block(r)
  <2>1. CASE requests[r].block \in DOMAIN blocks
    BY <1>4, <2>1 DEF claim_block, store, IInv, TypeOK, StoredForAsked, AnsweredWhenDone,
                      CacheNotDangling, OfferedClaimable, Offered, NotFoundOnlyExpired
  <2>2. CASE requests[r].block \notin DOMAIN blocks
    <3>1. requests[r].expired
      BY <1>1, <1>4, <2>2 DEF claim_block, IInv, OfferedClaimable, Offered, Request
    <3>. QED  BY <1>4, <2>2, <3>1, Finishing DEF claim_block
  <2>. QED  BY <2>1, <2>2
<1>. QED  BY <1>2, <1>3, <1>4

\* The coordinator's window changes under requests and offers alike.
LEMMA WindowStep ==
    ASSUME IInv, coordinator_step
    PROVE  IInv'
<1>1. live' \subseteq StateIds
  BY DEF coordinator_step, Window!Next, Window!Spawn, Window!Retire, IInv, TypeOK
<1>. QED
  BY <1>1 DEF coordinator_step, store, IInv, TypeOK, StoredForAsked, AnsweredWhenDone,
              CacheNotDangling, OfferedClaimable, Offered, NotFoundOnlyExpired

\* A decide cuts the blocks and the cache at the same view, and expires every
\* offer below it.
LEMMA PruneStep ==
    ASSUME IInv, NEW cutoff \in Cutoffs, prune_store(cutoff)
    PROVE  IInv'
<1>1. /\ requests \in [Requests -> Request] /\ DOMAIN blocks \subseteq BlockId
      /\ cutoff \in Nat /\ live' = live
  BY ServiceAssumption DEF IInv, TypeOK, prune_store
<1>2. /\ blocks' = [b \in {b \in DOMAIN blocks : b.parent_view >= cutoff} |-> blocks[b]]
      /\ block_cache' = [i \in {i \in DOMAIN block_cache : i.parent_view >= cutoff} |->
                           block_cache[i]]
  BY DEF prune_store, prune
<1>3. requests' \in [Requests -> Request]
  BY <1>1 DEF prune_store, expire, Request
<1>4. ASSUME NEW r \in Requests
      PROVE  /\ requests'[r].phase = requests[r].phase /\ requests'[r].id = requests[r].id
             /\ requests'[r].block = requests[r].block
             /\ requests'[r].result = requests[r].result
             /\ requests[r].expired => requests'[r].expired
             /\ Offered(requests'[r]) => ~(requests[r].block.parent_view < cutoff)
  BY <1>1 DEF prune_store, expire, Request, Offered
<1>5. TypeOK'
  BY <1>1, <1>2, <1>3 DEF IInv, TypeOK
<1>6. StoredForAsked' /\ AnsweredWhenDone' /\ NotFoundOnlyExpired'
  BY <1>4 DEF IInv, StoredForAsked, AnsweredWhenDone, NotFoundOnlyExpired
<1>7. CacheNotDangling'
  BY <1>2 DEF IInv, TypeOK, CacheNotDangling
<1>8. OfferedClaimable'
  <2>. SUFFICES ASSUME NEW r \in Requests, Offered(requests'[r])
                PROVE  requests'[r].block \in DOMAIN blocks'
    BY DEF OfferedClaimable
  <2>1. requests[r].block \in DOMAIN blocks
    BY <1>4 DEF IInv, OfferedClaimable, Offered
  <2>2. requests[r].block.parent_view \in Nat
    BY <1>1, <2>1, BlockViews
  <2>. QED  BY <1>1, <1>2, <1>4, <2>1, <2>2
<1>. QED  BY <1>5, <1>6, <1>7, <1>8 DEF IInv

----------------------------------------------------------------------------
(* The theorems *)

\* Nothing is stored and nothing offered at the start.
LEMMA Initially == Init => IInv
<1>. SUFFICES ASSUME Init PROVE IInv
  OBVIOUS
<1>1. TypeOK
  BY ServiceAssumption, NoRequestType DEF Init, TypeOK
<1>. QED
  BY <1>1 DEF Init, NoRequest, IInv, StoredForAsked, AnsweredWhenDone, CacheNotDangling,
              OfferedClaimable, Offered, NotFoundOnlyExpired

\* Every step keeps the invariant.
LEMMA Inductive == IInv /\ [Next]_vars => IInv'
<1>. SUFFICES ASSUME IInv, [Next]_vars PROVE IInv'
  OBVIOUS
<1>1. CASE UNCHANGED vars
  BY <1>1 DEF vars, store, IInv, TypeOK, StoredForAsked, AnsweredWhenDone,
              CacheNotDangling, OfferedClaimable, Offered, NotFoundOnlyExpired
<1>2. CASE Next
  BY <1>2, LookupSteps, BuildStep, UpdateStep, AnswerSteps, WindowStep, PruneStep DEF Next
<1>. QED  BY <1>1, <1>2

\* The store only ever holds blocks under ids of their own, and a cached id
\* always names a block of its state's view.
THEOREM TypeCorrect == Spec => []TypeOK
<1>1. IInv => TypeOK
  BY DEF IInv
<1>. QED  BY <1>1, Initially, Inductive, PTL DEF Spec

\* No cached id is ever without its block.
THEOREM CacheHolds == Spec => []CacheNotDangling
<1>1. IInv => CacheNotDangling
  BY DEF IInv
<1>. QED  BY <1>1, Initially, Inductive, PTL DEF Spec

\* A block offered stays claimable until a decide passes its view.
THEOREM OffersHold == Spec => []OfferedClaimable
<1>1. IInv => OfferedClaimable
  BY DEF IInv
<1>. QED  BY <1>1, Initially, Inductive, PTL DEF Spec

\* A claim of an offered block fails only after such a decide.
THEOREM ClaimsFailOnlyExpired == Spec => []NotFoundOnlyExpired
<1>1. IInv => NotFoundOnlyExpired
  BY DEF IInv
<1>. QED  BY <1>1, Initially, Inductive, PTL DEF Spec

=============================================================================
