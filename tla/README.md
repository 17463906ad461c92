# Marketplace builder core: TLA+ models and proofs

TLA+ modules for the builder services of this repository, TLC configurations
that check them on small instances, and TLAPS proofs of what matters most for
every instance. `PROJECT.json` maps every definition to the lines it stands
for and lists the runs, the findings, the hazards and the theorems.

Check a module with `tlc -config X.cfg M` and a proof with `tlapm M.tla`.

## The system

A *builder* offers blocks of transactions to the leaders of the HotShot
consensus. It follows the consensus through events, keeps a *builder state*
for every block the next block could be built on, and answers requests over
HTTP.

| component | source (src/crates) | state | operations |
|---|---|---|---|
| coordinator | shared/src/coordinator/mod.rs | map of builder states, unmatched proposal halves, status cache, transaction channel | `handle_decide`, `handle_transaction`, `handle_da_proposal`, `handle_quorum_proposal`, `lookup_builder_state`, `tx_status` |
| tiered view map | shared/src/coordinator/tiered_view_map.rs | two-level map: view, then subkey | `insert`, `get`, `bucket`, `range`, `prune`, `highest_view`, `lowest_view` |
| builder state | shared/src/state.rs | parent block references, transaction queue, receiver, recently included transactions | `new_child`, `collect_txns`, `TransactionQueue` |
| rotating set | shared/src/utils/rotating_set.rs | fresh, stale and expiring elements | `insert`, `contains`, `rotate` |
| event stream | shared/src/utils/event_serivce_wrapper.rs | a connection, or a reconnection under way | `connect`, `connect_inner`, polling: yield, skip an error, reconnect |
| refactored service | legacy_refactored/src/service.rs | the coordinator, a block store, block size limits, number of nodes | event loop, `available_blocks`, `claim_block`, `claim_block_header_input`, `submit_txns` |
| block store | legacy_refactored/src/block_store.rs | blocks by id, last block by builder state | `update`, `get_cached`, `get_block`, `prune` |
| block size limits | legacy_refactored/src/block_size_limits.rs | limit and time of its last increment | `try_increment_block_size`, `decrement_block_size` |
| marketplace service | marketplace/src/service.rs, hooks.rs | the coordinator, hooks | event loop, `bundle`, `submit_txns` |
| legacy service | legacy/src/service.rs | handles of builder tasks, block cache, gc view, statuses, size limit | `available_blocks`, `claim_block`, `claim_block_header_input`, `submit_txns`, event handlers |
| legacy builder task | legacy/src/builder_state.rs | one per parent block: proposal halves, queue, included transactions, channels | event loop, `spawn_clone_that_extends_self`, `process_block_request`, `build_block` |

How they interact: the service's event loop hands each event to a new task,
which calls a handler of the coordinator; so handlers of any number of events
interleave, and their order is not the order of the events. An API request is a
task too. It looks up a builder state (an `Arc`, so it keeps a state that is
pruned meanwhile), collects transactions from the state's receiver into the
state's queue, builds a block and stores it. Locks are per structure and are
released between the steps of one handler, and a request can be dropped by its
timeout at any `.await`.

The legacy service is built otherwise: every builder state is a task that takes
proposals, decides, transactions and block requests from channels of its own
and shares with the others, and with the API, one global state under a
read-write lock. What the coordinator decides in one place, these tasks settle
among themselves by looking at the handles in the global state.

What is hard about it:

* order: decides before the proposals of their views, halves of a proposal
  pair in any order and repeated, children before their parents;
* check and act under different locks: find a parent, insert the child; read
  a status, write it; scan a queue, pop its front; read the time of the last
  increment, increment;
* two clones that should be of one moment (queue and receiver of the parent);
* cancellation between two awaits;
* a lock held across an await that needs the lock's other users;
* a connection that is cut or silent while events go on;
* bounded things: the channel, the rotating set, the status cache;
* arithmetic at the edges: cutoffs, saturating differences, rounded tenths.

What makes each part correct:

* coordinator: the stored states are a window over the views that never loses
  its newest view; a child extends the state its justify QC names whenever
  that is stored; a matched pair is not lost for nothing;
* builder state: the queue misses no transaction and offers none twice, and
  none of a recent block;
* statuses: only what happened is reported, and a final status is overwritten
  only when updates overlap;
* size limit: stays in range, recovers;
* block building: every block holds something new, nothing is popped that could
  have been included, every request is answered;
* block store: a block offered can be claimed until a decide passes it;
* event stream: what a connection carried is yielded once, and no error ends a
  stream that has once been connected, as long as handshakes are answered;
* marketplace: hooks see everything before the builder does, every request for
  a bundle is answered;
* legacy tasks: a handle leads to a running task, a transaction reported as
  pending is with every task, only what no block can hold is dropped.

## The modules

| module | models |
|---|---|
| `TieredViewMap` | the map, as operators on functions from ids to values |
| `StateWindow` | abstract specification of the set of builder states |
| `Coordinator` | proposals, spawning, decides and lookups; refines `StateWindow` |
| `TxnFlow` | channel, receivers, queues and rotating sets across clones |
| `TxStatus` | the status cache and the tasks that update it |
| `BlockSizeLimits` | the limit and the concurrent claims that move it |
| `BlockBuilding` | concurrent `build_block` calls on one builder state |
| `BlockService` | `available_blocks`, claims and the block store, over a `StateWindow` |
| `EventStream` | the connection to the events API: cuts, silence, errors, reconnection |
| `Marketplace` | the marketplace service over an `EventStream`: event loop, hooks, submissions, bundles |
| `LegacyBuilder` | the legacy builder's tasks and the handles the service keeps of them; refines `StateWindow` |
| `LegacyService` | the legacy block API: requests by channel, the LRU cache, claims and VID triggers |
| `LegacyTxns` | legacy transactions: submission, statuses, the channel, the tasks' queues, the size limit, building and cloning |
| `CoordinatorProofs` | theorems about `Coordinator`, `StateWindow` and `TxStatus` |
| `BlockBuildingProofs` | theorems about `BlockBuilding` and `BlockSizeLimits` |
| `MarketplaceProofs` | theorems about `Marketplace`, `EventStream` included |
| `TxnFlowProofs`, `BlockServiceProofs`, `LegacyBuilderProofs`, `LegacyServiceProofs`, `LegacyTxnsProofs` | theorems about one module each |
| `MC...` | values of the constants for TLC |

One action is one critical section. Local variables of a handler that live
across an await are variables of the model (`spawning`, `lookup`, `inserting`,
`todo`, `due`, `requests`). Ids, commitments and transactions are names; equal
names are equal hashes. Variables marked *history* are not in the code and no
guard reads them, except `overlapped` and `gapped`, which record that a race
took place so that a property can say "only then".

**Coordinator.** `handle_quorum_proposal` and `handle_da_proposal` are
`handle_proposal` up to the choice of a parent; the mutex on the proposals is
held until `insert_child`, which is `spawning # Idle`. `handle_decide` and the
two reads of `lookup_builder_state` fall in between. The status updates of a
decide are `TxStatus`; the two touch no common state.

**TxnFlow.** The channel is the sequence of all that was broadcast, a receiver
a position in it, a queue the set of positions it holds (it is filled in
channel order and only loses elements otherwise). `new_child`, `clone_queue`,
`clone_receiver` and `insert_child` are the steps of one spawn, `try_recv` and
`insert_txn` those of one iteration of `collect_txns`. The choice of a parent
and of what a decide prunes is left open: any stored state, and any set but the
last. The rotation period may elapse at any spawn. `Blocks` are the transactions
a proposal can include.

**TxStatus.** A task has a list of updates to make; each reads, then writes.
The cache may evict any entry once it is over capacity.

**BlockSizeLimits.** `Word` is 2^64 and the sum of an increment wraps. The
floor, the maximum and the period are constants.

**BlockBuilding.** One iteration of `collect_txns` is one step (`TxnFlow`
splits it). The sequencer's payload builder is external: it may fail, may cut
transactions off the end, and returns nothing if the first is too large.

**BlockService.** The two modules on either side are used through what they
promise: the coordinator is any `StateWindow`, and `build_block` may offer any
payload, nothing, or fail. A decide reaches the window (`coordinator_step`) and
the store (`prune_store`) in two tasks, hence in two unrelated steps, and the
cutoffs come in any order. `block_id` is the code's: the hash of the block
built, but the view of the state *asked for*, whatever state it was built on. A
request is `dropped` at any await. Left out: `num_nodes`, which is read once
when a block is built, and the contents of a block, which its id determines.

**EventStream.** Events are numbered. A connection is a phase (`healthcheck`,
`subscribe`, `connected`, `sleep` between retries, `failed` for a first
connection that was refused) and the interval of events it has still to yield.
The API is external: it starts and stops at will, and takes its connections with
it, but what is on its way arrives. Only the healthcheck has a limit
(`CONNECTION_TIMEOUT`): `subscribe` is awaited without one, so its handshake may
stay unanswered for ever, and no fairness is assumed of it. That ten seconds
without an event end a connection is that `reconnect` is possible whenever there
is nothing to yield. `unheard` is history: what was published while nobody
listened, or came as an error.

**Marketplace.** EXTENDS `EventStream`: the loop polls it (`next_event`,
`some_event`), runs the hook (`hook` is the event it is at) and spawns a task
(`spawn_task`); tasks and calls of `submit_txns` run the other hook
(`process_transactions`) and then the coordinator's handler. That hook is
external code: the constant `filtered` gives what it makes of each batch it can
be given, which may be any sequence of approved transactions. Of the coordinator
there is what the service sees of it: stored states by view, each with its
position in the channel and its queue. `Coordinator` says which parent is
extended, so any stored one is here. A bundle request is the loop of `bundle`
(`lookup_builder_state`, `try_again`) and then that of `collect_transactions`
(`receive`, `collected`, `wake`), which reads the result of `collect_txns` the
wrong way round as the code does.

**LegacyBuilder.** A task is a record: its id, the halves it holds, how far its
three receivers are, and the proposal it forks for between two reads and one
write of the handles (`am_i_the_best_builder_state_to_extend`,
`spawn_clone_that_extends_self`). The service's side are
`handle_da_event`, `handle_quorum_event` and the broadcast of decides.
Taking a message and the first read of the handles are one step: the rest of
what happens in between is the task's own. Two tasks may fork for the same
block; the second handle then replaces the first, and the first task goes on
without one. Proposals and decides are broadcast in any order, channels have no
capacity, and transactions, requests and the block cache are left out.

**LegacyService.** The handles change as `LegacyBuilder` changes them, with the
tasks' forks left open. A request is a message that a task handles at any later
time, also when the client has given up; `process_block_request` reads the
highest view, the build follows, and `update_global_state` is one step with the
response sent after it: a client that gives up in between is answered with the
same block from `builder_state_to_last_built_block`. Locks are held for one step, with
one exception: `fall_back` takes the read lock and holds it until `broadcast`
finds room in the channel (`ChannelCapacity`), and what writes the global state
waits meanwhile. `get` is `WaitAndKeep::get`: the commitment, or an error when
nobody can pull the trigger any more. A `BlockInfo` is an index
into all that were made, so that a call can hold one the cache has replaced or
evicted. The fallback always finds a channel: the highest builder is registered
(`HighestRegistered`, proved for `LegacyBuilder`). Left out: statuses,
submission and the size limit (`LegacyTxns`), `num_nodes`, and what is in a
block.

**LegacyTxns.** A task is a record with its receiver's position in the channel,
its queue (positions in the channel) and the set of commitments kept with it,
and the three sets of included transactions. `submit_txns`,
`handle_received_txn` and `set_txn_status` are the steps of one submission: the
first two hold the read lock unless the submission is HotShot's event loop, the
last one takes the write lock. Only the highest task builds (`highest`), and
only while it builds does it take transactions from the channel. The clock's
part (how long a task collects, whether the garbage collection period is over
when it is cloned) is a choice, as is which block it is cloned for and when it
exits: that is `LegacyBuilder`'s. `blocks` and `recent` are history.

Definitions named after another one with a suffix and marked `Slip:` are that
definition with a plausible mistake. No specification uses them; each shows
that the property it is paired with in `PROJECT.json` notices that mistake.

## The runs

| run | checks | instance |
|---|---|---|
| `MCCoordinator` | type, `WindowSpec`, `PairsAttempted`, `ChildExtendsJustified`, `DecidedBelowNewest`, `PairLostOnlyBehind` | five quorum proposals: a fork, a child on it, and two that share an id; both halves of each pair, decides, a client |
| `MCTxnFlow` | type, `QueuesInSync`, `RecentNotQueued`, `LostOnlyByRace` | two transactions, one of them in blocks, up to three blocks in a row, two states in the map at once, two builders, a channel of one |
| `MCTxStatus` | type, `StatusGrounded`, `FinalUnlessOverlap` | two tasks, two transactions, a cache of one |
| `MCBlockSizeLimits` | type, `SizeWithinLimits`, `Recovers` | two claims, floor 5, maximum 24, a 6-bit word |
| `MCBlockBuilding` | type, `BlockIsNew`, `FitPoppedOnlyAfterRace`, `EveryRequestEnds` | two requests, four kinds of transactions, two limits, under `FairSpec` |
| `MCBlockService` | type, `OfferedClaimable` | two clients, two payloads, a state and a fork after it, two cutoffs |
| `MCMarketplace` | type, `MissedOnlyUnheard`, `HookFirst`, `BundleApproved`, `Reconnects`, `BundleAnswered` | two events out of transactions, a proposal and a decide, an API that comes and goes, a hook that lets one of two transactions through, one request, a channel of one, under `FairSpec` |
| `MCLegacyBuilder` | type, `HandlesRun`, `WindowSpec`, `PairLostOnlyToFork` | three proposals: a chain of two blocks and a fork; a decide; up to five tasks |
| `MCLegacyService` | type, `MissingOnlyEvicted`, `NewestNotRefused`, `StarvedOnlyRebuilt` | a client and its earlier requests, two payloads, the bootstrap state and a newer one, two decides, one below the newer state and one above it, a cache of two, three builds |
| `MCLegacyTxns` | type, `PendingKept`, `RecentNotQueued`, `DroppedOnlyOversized` | a client and HotShot, a transaction as large as the limit at first and one that no block can hold, each batch both of them, four tasks and so up to three blocks in a row, a channel of two, a status cache of one |

`StateWindow` is not run by itself: `MCCoordinator` and `MCLegacyBuilder` check
that coordinator and handles implement it, and what it promises is proved.
`MCTxnFlow` and `MCLegacyService` use symmetry: only invariants are checked
there, and the constants they permute are interchangeable (in `MCTxnFlow` the
builders, and the states but the first). `MCTxnFlow` also tells apart only what
can still be reached: a state that left the map and that no builder and no spawn
holds is never read or written again, and what the invariants say of it was
checked while it was held (`VIEW Reachable`).

Why the bounds are enough: the races take two actors and one thing they both
touch, and every instance has that and one bystander. In `MCLegacyService` the
second actor is the client's own earlier call: it gives up, and its request is
handled while it asks again. Proposals form a fork with a chain on it because
the interesting parents are: the justified one, one of its view with another
leaf, an older one, a newer one. A rotating set has its third generation only
after two rotations, so `MCTxnFlow` and `MCLegacyTxns` have three blocks in a
row, the oldest of which is then in the expiring set. In `MCLegacyService` the
two decides are handled in either order, so that
`last_garbage_collected_view_num` goes up and down. Two transactions tell order, loss and
duplication apart.

| bound | in | what it counts |
|---|---|---|
| `MaxSent` | `TxnFlow`, `BlockBuilding`, `Marketplace`, `LegacyTxns` | transactions broadcast: two, one more than a channel of one holds; one in `Marketplace`, which fills the channel |
| `MaxStored` | `TxnFlow` | states in the map at once: a parent and its child, as when decides keep up; those that builders hold on to come on top |
| `MaxProgress` | `LegacyTxns` | transactions broadcast and the highest view together: one transaction with three blocks in a row, two with two |
| `MaxEvents` | `EventStream`, `Marketplace` | events published: one before a cut and one after it |
| `MaxTime` | `BlockSizeLimits` | the clock: two increment periods |
| `MaxTasks` | `LegacyBuilder` | tasks ever started: bootstrap, one for each block, one more |
| `MaxRequests` | `LegacyService` | requests in the channels and on their way |
| `MaxInfos` | `LegacyService` | blocks ever built: one more than the cache holds, so that one is evicted |

`MCLegacyBuilder` does not check for deadlock: when all messages are sent and
consumed the system really stops. Nor does `MCLegacyStuck`, whose subject is a
part of the system that stops. The mutants show that each property can fail in
its instance. Batches of any length, with a transaction twice or more, are
left to the proofs (`LegacyTxnsProofs`).

### Where code and documentation disagree

| run | what it shows |
|---|---|
| `MCTxnLost` | a child's queue and receiver are cloned at two moments; what the parent collects in between is queued there and lost to the child, although a transaction is to be enqueued "in all builder states" |
| `MCLegacyStuck` | a legacy fallback request is sent under the read lock of the global state and waits for room in the channel of a task that waits for the write lock: the call is never answered, whatever `max_api_waiting_time` says, and nobody else gets the write lock either |

Seen in the models as well, without a run of their own:

* the fallback parent of `handle_proposal` is in the lowest stored view below
  the proposal's (shared/src/coordinator/mod.rs:451), not in the highest as the
  doc at 383-385 says;
* an id reported as `Decided` can be spawned afterwards by a late pair,
  although `BuilderStateLookup` says it will not exist again;
* `collect_txns` returns whether the queue is empty, and both services take the
  result for the opposite (marketplace/src/service.rs:240, contrary to the doc
  at 229-230): with an empty queue they do not wait for transactions, with a
  populated one they do;
* two builds that see one oversized transaction both pop, the second one a
  transaction that fits (legacy_refactored/src/service.rs:391; what
  `FitPoppedOnlyAfterRace` leaves possible);
* a request that times out between the receipt of a transaction and its insert
  into the queue takes it with it: the state's receiver is past it and no queue
  has it (shared/src/state.rs:212; the other race that `LostOnlyByRace` leaves
  possible);
* the handshake of a subscription is awaited outside `CONNECTION_TIMEOUT`
  (shared/src/utils/event_serivce_wrapper.rs:71-74): if the server never
  answers it, the stream stops reconnecting for ever (what the premise of
  `Reconnects` rules out);
* a block built again replaces its `BlockInfo` (legacy/src/service.rs:325,
  contrary to the doc at 299-301): the VID trigger the client has pulled by its
  claim was the old one's, and it waits for the commitment in vain (what
  `StarvedOnlyRebuilt` leaves possible);
* a legacy request sent to the highest builder as a fallback is dropped there
  (`accepts`), although the comment says that builder will handle it;
* `submit_txns` of the marketplace and of the refactored service stops at the
  first transaction that is refused (marketplace/src/service.rs:408): the rest
  of the batch is not tried, and what was accepted before it is not reported;
* empty blocks are built for one view after a nonempty one, not for the three
  `ALLOW_EMPTY_BLOCK_PERIOD` says (`should_prioritize_finalization` of the
  refactored service);
* a legacy task forked between the two halves of a pair never matches them, and
  if the others leave the pair to it nobody does (what `PairLostOnlyToFork`
  leaves possible);
* two legacy proposals of one view with the same builder commitment have halves
  of one name: a task drops the second while it holds the first
  (`process_quorum_proposal`), so that tasks may hold different ones and each
  leave the pair to the other (what `OnePerPayload` rules out);
* two overlapping claims make one due increment of the size limit twice
  (`BlockSizeLimits`), and a `Pending` can overwrite a `Sequenced` written since
  the status was read (what `FinalUnlessOverlap` leaves possible);
* `truncated` is set for empty blocks only, not for blocks cut off at the size
  limit.

### Fairness

* `BlockBuilding!FairSpec`: the clock passes the deadline (`time_passes`) and
  the runtime polls a request that can go on (`proceed`). That nothing else is
  assumed, no arrival in particular, is the point of `EveryRequestEnds`.
* `Marketplace!FairSpec`: the same for bundle requests, and the event loop polls
  the stream and its hook returns (`spawn_task`): it is a task of its own that
  awaits nothing else. Polling makes progress (`polled`) except in a handshake,
  which only the server can answer. Nothing is assumed of the
  API, of clients or of the tasks of events: `BundleAnswered` holds when none
  ever comes. `Reconnects` has as its
  premise (`answering`) that the API stays up at last and leaves no handshake
  unanswered.
* `LegacyService!FairSpec`: every builder task handles its messages when it can,
  and a call of `available_blocks` goes on when it can. All of that is weak
  fairness; `CallsAnswered` fails because nothing of it is enabled any more.

`Recovers` needs no fairness of the specification: it says under which
conditions on claims the limit comes back.

## The proofs

All theorems are for arbitrary constants that satisfy the modules' named
assumptions. Each follows the scheme `Init => IInv`, `IInv /\ [Next]_vars =>
IInv'`, and consequences of `IInv`, with one lemma per action or group of
actions.

* `CoordinatorProofs`, the map: the invariant `IInv` adds to `TypeOK` what the
  runs' properties need to be inductive: there always is a newest stored state,
  the id to be inserted is free, and no state justifying the proposal can have
  come since the parent was chosen, because the proposals mutex is held. From
  it: `ChildExtendsJustified`, `DecidedBelowNewest`, that no stored state is
  replaced (`StatesNotReplaced`) and, with `HalfStored` (a half received for an
  id without a spawn is the one stored), `PairsAttempted`. `PairLostOnlyBehind`
  needs two more facts: a quorum half is stored under its own id (`OwnHalf`),
  and the fallbacks find nothing only if no stored state is below the
  proposal's view (`NoCandidates`). `PrunesOnlyDecided`: a decide, clamped or
  not, removes nothing at or above the view it decides.
* `CoordinatorProofs`, refinement: every step of the coordinator is a step of
  `StateWindow` or a stutter (`ImplementsWindow`). Of any window it is proved
  that it never loses its last state (`WindowNeverEmpty`) and that its highest
  view never regresses (`WindowHighestKept`); so the coordinator always has a
  newest state and its view never regresses (`NewestViewKept`).
* `CoordinatorProofs`, statuses: every update still to be made is backed by
  history, and two writers of one transaction have been recorded as
  overlapping. From it: `StatusGrounded`, `FinalUnlessOverlap`.
* `TxnFlowProofs`: the invariant describes one good builder state (queue in
  sync, recent blocks remembered and not queued, and, unless `gapped`, every
  position the receiver is past accounted for) and holds for all states and for
  the child being cloned. From it: `QueuesInSync`, `RecentNotQueued`,
  `LostOnlyByRace`. So the two races recorded in `gapped` are the only ways a
  transaction can be lost.
* `BlockBuildingProofs`: the queue and every block on its way hold no
  transaction twice and none of a recent block; a scan takes a prefix of the
  queue's transactions (`ScanTakesPrefix`), and a payload that comes out empty
  was refused for the first transaction the scan saw. From it: `BlockIsNew`,
  `FitPoppedOnlyAfterRace`. For the size limit: type correctness, and
  `SizeWithinLimits` from `Headroom` (the sum of an increment fits the word).
* `BlockServiceProofs`: besides its properties the invariant says that a block
  about to be stored has the view of the state asked for and that a request
  under way has no answer. With these, no insert displaces a block, so an offer
  can only be lost to a prune, and block and cache entry lie on the same side of
  every cutoff. From it: `CacheNotDangling`, `OfferedClaimable`,
  `NotFoundOnlyExpired`.
* `LegacyBuilderProofs`: `TypeOK`, `HandlesRun` and `HighestRegistered` are
  inductive together. The point is that the cutoff a decide returns is the one
  the handles were cut at, so a task that exits has lost its handle in the same
  step, and that the cutoff is at most the highest view. From it:
  `ImplementsWindow`, so what is proved of any window holds here too.
  `PairLostOnlyToFork` rests on `GrowsUndecided`: before the first decide no
  handle goes or changes its leaf, each message is sent once, and a task that
  was there for both halves of a pair holds the one it has received or, having
  received both, has seen to the pair or left it to a better state (`Judged`).
  Who is left once stays left (`LeftKept`), so when all is quiet either the
  justified state or, without one, the highest below the proposal's view has
  left the pair to nobody, which is absurd. The theorem assumes
  `OnePerPayload`: no two proposals of one view share a payload. Without it the
  property is false, as two tasks may each hold another one of the two (see
  above); `MCLegacyBuilder` satisfies it.
* `LegacyTxnsProofs`: a task *has* a transaction (`Has`) if it is ahead of its
  receiver, in its queue, or known from a block or as dropped, and every step of
  a task keeps what it has; a clone has what its parent has. `PendingKept`
  alone is not inductive, as the statuses are written long after the
  broadcasts: `ResponsesKept` says of every response a submission has collected
  so far what `PendingKept` says of statuses. `Good` describes one task: queue
  and commitments in sync and without duplicates, included transactions not
  queued, and each of the last three blocks in the sets a rotation per clone
  leaves it in. From these: `PendingKept`, `RecentNotQueued`,
  `DroppedOnlyOversized` and the range of the size limit. The front of a queue
  is a minimum of a set of naturals, which exists by well-foundedness
  (`LeastPosition`).
* `LegacyServiceProofs`: what a client is offered was built for the state it
  asked for, because that is so of every message on its way (`RequestsGood`) and
  of what is remembered for a state (`LastGood`). The cache has one entry per
  block, that of the `BlockInfo` made for it last, and what was built is in it
  unless it is full (`CacheGood`; `WithoutBlock` to `CacheStep` are the lemmas
  on the LRU order). `CallGood` ties a call's local state to both. From these:
  `MissingOnlyEvicted`, `StarvedOnlyRebuilt`; and `NewestNotRefused` because the
  view collected up to never passes the highest (`HighestNotCollected`).
* `MarketplaceProofs`: what a connection has still to yield was heard
  (`StreamGood`); tasks are of events before the one whose hook runs
  (`LoopGood`); only approved transactions are in the channel and in queues, and
  none that the queue's state includes (`StatesGood`); a request's state is
  there as long as it collects (`RequestsGood`). From it: `MissedOnlyUnheard`
  (of the `EventStream` part), `HookFirst`, `BundleApproved`. All of it holds
  for every hook: `filtered` is any function to sequences of approved
  transactions.

Every safety property that a passing run checks is a theorem. Only
model-checked is liveness, which this prover does not reach (weak fairness is a
statement about `ENABLED`): `Recovers`, `EveryRequestEnds`, `Reconnects`,
`BundleAnswered`. Nor can it do induction over data: of the one fold,
`total_size` of `BlockBuilding`, only the value for no transactions is used.

## Not modelled, and the plan

Not modelled for good: signatures, keys, fees, VID computation and the web
server, which are computation and I/O without shared state; the unused
`marketplace/src/builder_state.rs`, which its crate does not declare; test
support. Left out of the modules that are near them:

* `num_nodes`, in both services: one value, read when a block is built;
* the refactored service's `submit_txns` and event loop beyond decides: calls of
  the coordinator's handlers, which `Coordinator`, `TxnFlow` and `TxStatus`
  model;
* the shared `WaitAndKeep`: a future started by whoever asks for it first, so it
  cannot be waited for in vain;
* in the legacy service, overflow of a broadcast channel (its senders refuse
  before) and that a waiting writer holds up new readers.

What would come next: a composed module of coordinator, flow and building, in
which a submitted transaction ends up in a block if requests keep coming and
nothing races.
