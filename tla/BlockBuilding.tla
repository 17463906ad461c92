--------------------------- MODULE BlockBuilding ---------------------------
(***************************************************************************)
(* build_block of legacy_refactored/src/service.rs: several API requests   *)
(* build from one builder state at the same time.  Each collects transac-  *)
(* tions for a while, scans the queue under its read lock, has a payload   *)
(* made of what it found, and if that came out empty removes the front of  *)
(* the queue under its write lock.  A request can be dropped by its time-  *)
(* out at any of these points.                                             *)
(*                                                                         *)
(* The channel is what the state's receiver has not taken yet; an itera-   *)
(* tion of collect_txns is one step here (TxnFlow splits it).  How the     *)
(* sequencer makes a payload is its own: it can cut transactions off the   *)
(* end, and one that is too big for any block leaves the payload empty.    *)
(***************************************************************************)
EXTENDS Naturals, SequencesExt

CONSTANTS
    Requests,        \* concurrent available_blocks requests
    Txns,
    min_block_size,  \* of each transaction
    Unfit,           \* transactions over the sequencer's block size limit
    Included,        \* transactions of recent blocks (state.included_txns)
    Limits,          \* values of block_size_limits.max_block_size()
    References,      \* parent_block_references the state can have
    MaxSent          \* bound: number of transactions that arrive

ASSUME BuildingAssumption ==
    /\ min_block_size \in [Txns -> Nat]
    /\ Unfit \subseteq Txns /\ Included \subseteq Txns
    /\ Limits \subseteq Nat /\ MaxSent \in Nat

ALLOW_EMPTY_BLOCK_PERIOD == 3

VARIABLES
    references,   \* parent_block_references of the builder state
    channel,      \* transactions its receiver has still to take
    arrived,      \* number of transactions broadcast
    txn_queue,    \* its TransactionQueue
    requests      \* per request, the local state of build_block

vars == <<references, channel, arrived, txn_queue, requests>>

\* `late`: timeout_after leaves no time for another iteration.  `seen` and
\* `limit` are what the scan read, `block` what will be in the payload.
NoRequest == [phase |-> "done", late |-> FALSE, queue_empty |-> TRUE,
              seen |-> <<>>, limit |-> 0, block |-> <<>>, result |-> "none"]

Init ==
    /\ references \in References
    /\ channel = <<>>
    /\ arrived = 0
    /\ txn_queue = <<>>
    /\ requests = [r \in Requests |-> [NoRequest EXCEPT !.result = "unasked"]]

set_request(r, request) == requests' = [requests EXCEPT ![r] = request]

finish(r, result) ==
    set_request(r, [requests[r] EXCEPT !.phase = "done", !.result = result])

transaction_arrives(t) ==
    /\ arrived < MaxSent
    /\ channel' = Append(channel, t)
    /\ arrived' = arrived + 1
    /\ UNCHANGED <<references, txn_queue, requests>>

----------------------------------------------------------------------------
(* The capture loop and collect_txns *)

start(r) ==
    /\ requests[r].phase = "done"
    /\ set_request(r, [NoRequest EXCEPT !.phase = "collect", !.queue_empty = txn_queue = <<>>])
    /\ UNCHANGED <<references, channel, arrived, txn_queue>>

\* The clock passes timeout_after.
time_passes(r) ==
    /\ requests[r].phase \in {"collect", "sleep"}
    /\ ~requests[r].late
    /\ set_request(r, [requests[r] EXCEPT !.late = TRUE])
    /\ UNCHANGED <<references, channel, arrived, txn_queue>>

\* Slip: a transaction in the queue already is put in once more.
receive_duplicates(r) ==
    /\ requests[r].phase = "collect"
    /\ channel # <<>>
    /\ channel' = Tail(channel)
    /\ IF Head(channel) \in Included THEN UNCHANGED <<txn_queue, requests>>
       ELSE /\ txn_queue' = Append(txn_queue, Head(channel))
            /\ set_request(r, [requests[r] EXCEPT !.queue_empty = FALSE])
    /\ UNCHANGED <<references, arrived>>

receive(r) ==
    /\ requests[r].phase = "collect"
    /\ channel # <<>>
    /\ channel' = Tail(channel)
    /\ LET t == Head(channel)
       IN  IF t \in Included THEN UNCHANGED <<txn_queue, requests>>
           ELSE /\ txn_queue' = IF t \in ToSet(txn_queue) THEN txn_queue
                                ELSE Append(txn_queue, t)
                /\ set_request(r, [requests[r] EXCEPT !.queue_empty = FALSE])
    /\ UNCHANGED <<references, arrived>>

\* collect_txns returns queue_empty, which build_block calls queue_populated.
collected(r) ==
    LET queue_populated == requests[r].queue_empty
    IN  /\ requests[r].phase = "collect"
        /\ channel = <<>> \/ requests[r].late
        /\ set_request(r, [requests[r] EXCEPT
              !.phase = IF queue_populated \/ requests[r].late THEN "scan" ELSE "sleep"])
        /\ UNCHANGED <<references, channel, arrived, txn_queue>>

\* Slip: every iteration has its own timeout_after.
wake_anew(r) ==
    /\ requests[r].phase = "sleep"
    /\ set_request(r, [requests[r] EXCEPT !.phase = "collect", !.late = FALSE,
                                          !.queue_empty = txn_queue = <<>>])
    /\ UNCHANGED <<references, channel, arrived, txn_queue>>

\* The sleep is over, and the loop goes round unless timeout_after passed.
wake(r) ==
    /\ requests[r].phase = "sleep"
    /\ set_request(r, IF requests[r].late THEN [requests[r] EXCEPT !.phase = "scan"]
                      ELSE [requests[r] EXCEPT !.phase = "collect",
                                               !.queue_empty = txn_queue = <<>>])
    /\ UNCHANGED <<references, channel, arrived, txn_queue>>

----------------------------------------------------------------------------
(* The block *)

saturating_sub(m, n) == IF m >= n THEN m - n ELSE 0

should_prioritize_finalization ==
    /\ references.tx_count # 0
    /\ \E v \in references.last_nonempty_view :
          saturating_sub(v, references.view_number) < ALLOW_EMPTY_BLOCK_PERIOD

total_size(txns) == FoldLeft(LAMBDA size, t : size + min_block_size[t], 0, txns)

\* The scan stops at the first transaction that reaches the limit, except
\* that it always takes one with something in it.
transactions_to_include(queue, limit) ==
    LET taken(n) == SubSeq(queue, 1, n)
        goes_on(n) == \/ total_size(taken(n)) < limit
                      \/ total_size(taken(n - 1)) = 0
        stop == CHOOSE n \in 0 .. Len(queue) :
                   /\ \A m \in 1 .. n : goes_on(m)
                   /\ n < Len(queue) => ~goes_on(n + 1)
    IN  taken(stop)

\* Slip: the empty queue is not noticed.
scan_empty(r) ==
    /\ requests[r].phase = "scan"
    /\ \E limit \in Limits :
          set_request(r, [requests[r] EXCEPT
             !.phase = "build", !.seen = txn_queue, !.limit = limit,
             !.block = transactions_to_include(txn_queue, limit)])
    /\ UNCHANGED <<references, channel, arrived, txn_queue>>

scan(r) ==
    /\ requests[r].phase = "scan"
    /\ \E limit \in Limits :
          set_request(r,
             IF txn_queue = <<>> /\ ~should_prioritize_finalization
             THEN [requests[r] EXCEPT !.phase = "done", !.result = "none"]
             ELSE [requests[r] EXCEPT
                     !.phase = "build", !.seen = txn_queue, !.limit = limit,
                     !.block = transactions_to_include(txn_queue, limit)])
    /\ UNCHANGED <<references, channel, arrived, txn_queue>>

\* BlockPayload::from_transactions of the sequencer.
payloads(txns) ==
    IF txns = <<>> \/ Head(txns) \in Unfit THEN {<<>>}
    ELSE {SubSeq(txns, 1, n) : n \in 1 .. Len(txns)}

\* Slip: an error is taken for an empty payload.
from_transactions_unchecked(r) ==
    /\ requests[r].phase = "build"
    /\ \E payload \in payloads(requests[r].block) \cup {<<>>} :
          set_request(r, [requests[r] EXCEPT
             !.block = payload,
             !.phase = IF payload = <<>> THEN "pop" ELSE "done",
             !.result = IF payload = <<>> THEN "none" ELSE "block"])
    /\ UNCHANGED <<references, channel, arrived, txn_queue>>

from_transactions(r) ==
    /\ requests[r].phase = "build"
    /\ \/ finish(r, "error")
       \/ \E payload \in payloads(requests[r].block) :
             set_request(r, [requests[r] EXCEPT
                !.block = payload,
                !.phase = IF payload = <<>> THEN "pop" ELSE "done",
                !.result = IF payload = <<>> THEN "none" ELSE "block"])
    /\ UNCHANGED <<references, channel, arrived, txn_queue>>

pop_front(r) ==
    /\ requests[r].phase = "pop"
    /\ txn_queue' = IF txn_queue = <<>> THEN <<>> ELSE Tail(txn_queue)
    /\ finish(r, IF should_prioritize_finalization THEN "block" ELSE "none")
    /\ UNCHANGED <<references, channel, arrived>>

\* build_block_timeout or max_api_waiting_time drops the request.
dropped(r) ==
    /\ requests[r].phase # "done"
    /\ finish(r, "dropped")
    /\ UNCHANGED <<references, channel, arrived, txn_queue>>

proceed(r) == \/ time_passes(r) \/ receive(r) \/ collected(r) \/ wake(r)
              \/ scan(r) \/ from_transactions(r) \/ pop_front(r)

Next ==
    \/ \E t \in Txns : transaction_arrives(t)
    \/ \E r \in Requests : start(r) \/ proceed(r) \/ dropped(r)

Spec == Init /\ [][Next]_vars

\* The runtime polls a request's future, and its clock goes on.
FairSpec == /\ Spec
            /\ \A r \in Requests : WF_vars(time_passes(r)) /\ WF_vars(proceed(r))

----------------------------------------------------------------------------
(* Properties *)

\* A build under way has a transaction to put in, or a block to finalize.
TypeOK ==
    /\ references \in References
    /\ channel \in Seq(Txns) /\ txn_queue \in Seq(Txns)
    /\ arrived \in 0 .. MaxSent
    /\ requests \in [Requests ->
          [phase : {"collect", "sleep", "scan", "build", "pop", "done"},
           late : BOOLEAN, queue_empty : BOOLEAN, seen : Seq(Txns),
           limit : Limits \cup {0}, block : Seq(Txns),
           result : {"unasked", "none", "block", "error", "dropped"}]]
    /\ \A r \in Requests : requests[r].phase = "build" =>
          requests[r].seen # <<>> \/ should_prioritize_finalization

\* Two builds at a time and duplicate submissions notwithstanding, no block
\* holds a transaction twice or one of a recent block.
BlockIsNew ==
    \A r \in Requests : LET block == requests[r].block
                        IN  /\ IsInjective(block)
                            /\ ToSet(block) \cap Included = {}

\* A transaction that fits a block is popped only if the queue is not what
\* the scan saw any more.
FitPoppedOnlyAfterRace ==
    [][\A r \in Requests :
          (/\ requests[r].phase = "pop" /\ requests'[r].phase = "done"
           /\ requests[r].seen = txn_queue /\ txn_queue' # txn_queue)
          => Head(txn_queue) \in Unfit]_vars

\* Every request gets an answer, whatever arrives meanwhile.
EveryRequestEnds ==
    \A r \in Requests : requests[r].phase # "done" ~> requests[r].phase = "done"

=============================================================================
