----------------------------- MODULE LegacyTxns -----------------------------
(***************************************************************************)
(* Transactions in the legacy builder: how they are submitted              *)
(* (legacy/src/service.rs), travel to the builder tasks, and are queued,   *)
(* built and forgotten there (legacy/src/builder_state.rs).                *)
(*                                                                         *)
(* A submission broadcasts first and writes statuses afterwards, under     *)
(* another lock, so two of them can overlap.  A task takes transactions    *)
(* from the channel only while it builds a block; as it does one thing at  *)
(* a time, its clone for a proposal is of one moment, and no other task    *)
(* touches its queue.  Blocks are not taken out of the queue when they are *)
(* built, but when a task is forked for them.                              *)
(*                                                                         *)
(* The channel is the log of what was ever broadcast, a receiver a         *)
(* position in it; a queue, filled in channel order, is the set of its     *)
(* elements' positions.  Which tasks fork and exit is LegacyBuilder's.     *)
(***************************************************************************)
EXTENDS Integers, FiniteSetsExt, SequencesExt

CONSTANTS
    Txns,                  \* transaction commitments
    len,                   \* minimum_block_size of each
    Oversized,             \* those over the sequencer's own block size limit
    Tasks,                 \* builder tasks, by the view they build on
    Submitters,            \* concurrent calls of submit_txns, and HotShot's event loop
    HotShot,
    Batches,               \* what can be submitted at once
    Capacity,              \* of the transaction channel
    StatusCapacity,        \* max_txn_num
    MAX_BLOCK_SIZE_FLOOR,
    protocol_max_block_size,
    MaxSent,               \* bound: number of transactions broadcast
    MaxProgress            \* bound: those and the highest view of a task together

MAX_BLOCK_SIZE_CHANGE_DIVISOR == 10
ALLOW_EMPTY_BLOCK_PERIOD == 3

ASSUME LegacyTxnsAssumption ==
    /\ len \in [Txns -> Nat \ {0}] /\ Oversized \subseteq Txns
    /\ Tasks \subseteq Nat /\ 0 \in Tasks
    /\ HotShot \in Submitters
    /\ Batches \subseteq Seq(Txns) \ {<<>>}
    /\ Capacity \in Nat /\ StatusCapacity \in Nat
    /\ MaxSent \in Nat /\ MaxProgress \in Nat
    /\ MAX_BLOCK_SIZE_FLOOR \in Nat /\ protocol_max_block_size \in Nat
    /\ MAX_BLOCK_SIZE_FLOOR <= protocol_max_block_size

VARIABLES
    sent,            \* the channel: every transaction broadcast, in order
    tasks,           \* the builder tasks ever started
    max_block_size,
    tx_status,
    submissions      \* local state of a submission

vars == <<sent, tasks, max_block_size, tx_status, submissions>>

----------------------------------------------------------------------------
\* `allow_empty_block_until` is a set with at most one view.  Two fields are
\* history: `blocks` holds the txns of all blocks of the task's branch and
\* those dropped from its queue, `recent` those of the last three blocks.
BootstrapTask ==
    [phase |-> "loop", pos |-> 0, tx_queue |-> {}, txns_in_queue |-> {},
     included_txns |-> {}, included_txns_old |-> {}, included_txns_expiring |-> {},
     allow_empty_block_until |-> {}, blocks |-> {}, recent |-> <<{}, {}, {}>>]

NoSubmission == [phase |-> "idle", limit |-> 0, txns |-> <<>>, response |-> <<>>]

Init ==
    /\ sent = <<>>
    /\ tasks = [b \in {0} |-> BootstrapTask]
    /\ max_block_size = protocol_max_block_size
    /\ tx_status = [t \in {} |-> "Pending"]
    /\ submissions = [s \in Submitters |-> NoSubmission]

live == {b \in DOMAIN tasks : tasks[b].phase # "exited"}

\* submit_txns holds a read lock on the global state while it broadcasts.
read_locked ==
    \E s \in Submitters \ {HotShot} : submissions[s].phase = "broadcast"

set_task(b, task) == tasks' = [tasks EXCEPT ![b] = task]

----------------------------------------------------------------------------
(* Submission: submit_txns, and the event loop for HotShot's transactions *)

submit_txns(s, txns) ==
    /\ submissions[s].phase = "idle"
    /\ submissions' = [submissions EXCEPT ![s] =
          [phase |-> "broadcast", limit |-> max_block_size, txns |-> txns, response |-> <<>>]]
    /\ UNCHANGED <<sent, tasks, max_block_size, tx_status>>

\* try_broadcast fails when some receiver has Capacity messages left to take.
full == \E b \in live : Len(sent) - tasks[b].pos >= Capacity

outcome(t, limit) == IF len[t] > limit \/ full THEN "Rejected" ELSE "Pending"

\* The bounds leave room for another transaction.
room == Len(sent) < MaxSent /\ \A b \in DOMAIN tasks : b + Len(sent) < MaxProgress

\* HandleReceivedTxns::next
handle_received_txn(s) ==
    LET sub == submissions[s]
        n == Len(sub.response) + 1
        t == sub.txns[n]
        result == outcome(t, sub.limit)
    IN  /\ sub.phase = "broadcast"
        /\ result = "Pending" => room
        /\ sent' = IF result = "Pending" THEN Append(sent, t) ELSE sent
        /\ submissions' = [submissions EXCEPT ![s] =
              IF n < Len(sub.txns) THEN [sub EXCEPT !.response = Append(@, result)]
              ELSE [sub EXCEPT !.response = Append(@, result), !.phase = "status", !.limit = 0]]
        /\ UNCHANGED <<tasks, max_block_size, tx_status>>

\* The last outcome in a batch is the one that stays.
written(sub, t) ==
    LET last == CHOOSE i \in DOMAIN sub.txns : /\ sub.txns[i] = t
                                               /\ \A j \in DOMAIN sub.txns :
                                                     sub.txns[j] = t => j <= i
    IN  sub.response[last]

new_status(sub, t) ==
    IF t \in {sub.txns[i] : i \in DOMAIN sub.txns} THEN written(sub, t) ELSE tx_status[t]

\* What an LRU cache of StatusCapacity keeps of the entries it is given.
kept(entries) ==
    IF Cardinality(entries) <= StatusCapacity THEN {entries}
    ELSE kSubset(StatusCapacity, entries)

\* All statuses of a submission, under the write lock.
set_txn_status(s) ==
    LET sub == submissions[s]
    IN  /\ sub.phase = "status" /\ ~read_locked
        /\ \E entries \in kept(DOMAIN tx_status \cup {sub.txns[i] : i \in DOMAIN sub.txns}) :
              tx_status' = [t \in entries |-> new_status(sub, t)]
        /\ submissions' = [submissions EXCEPT ![s] = NoSubmission]
        /\ UNCHANGED <<sent, tasks, max_block_size>>

----------------------------------------------------------------------------
(* BlockSizeLimits, changed under the write lock after a claim *)

change == (max_block_size + MAX_BLOCK_SIZE_CHANGE_DIVISOR - 1) \div MAX_BLOCK_SIZE_CHANGE_DIVISOR

\* The VID commitment came in time, and the block was cut off or the last
\* increment is increment_period ago; or it was too late.
try_increment_block_size ==
    /\ ~read_locked
    /\ max_block_size' = IF max_block_size + change <= protocol_max_block_size
                         THEN max_block_size + change ELSE protocol_max_block_size
    /\ UNCHANGED <<sent, tasks, tx_status, submissions>>

\* Slip: no floor.
decremented_freely == max_block_size - change

decremented == IF max_block_size - change >= MAX_BLOCK_SIZE_FLOOR
               THEN max_block_size - change ELSE MAX_BLOCK_SIZE_FLOOR

decrement_block_size ==
    /\ ~read_locked
    /\ max_block_size' = decremented
    /\ UNCHANGED <<sent, tasks, tx_status, submissions>>

----------------------------------------------------------------------------
(* A builder task builds a block: only the highest is let to *)

highest(b) == \A c \in DOMAIN tasks : c <= b

process_block_request(b) ==
    /\ tasks[b].phase = "loop" /\ highest(b)
    /\ set_task(b, [tasks[b] EXCEPT !.phase = "build"])
    /\ UNCHANGED <<sent, max_block_size, tx_status, submissions>>

known(task) == task.included_txns \cup task.included_txns_old
                  \cup task.included_txns_expiring \cup task.txns_in_queue

collect_txns(b) ==
    LET task == tasks[b]
        n == task.pos + 1
    IN  /\ task.phase = "build" /\ n <= Len(sent)
        /\ set_task(b, IF sent[n] \in known(task) THEN [task EXCEPT !.pos = n]
                       ELSE [task EXCEPT !.pos = n, !.tx_queue = @ \cup {n},
                                         !.txns_in_queue = @ \cup {sent[n]}])
        /\ UNCHANGED <<sent, max_block_size, tx_status, submissions>>

should_prioritize_finalization(b) ==
    \E until \in tasks[b].allow_empty_block_until : b < until

total_size(queue, n) == MapThenSumSet(LAMBDA i : len[sent[i]], {i \in queue : i <= n})

\* Slip: the first transaction is held to the limit as well.
transactions_within_limit(queue) == {n \in queue : total_size(queue, n) < max_block_size}

\* The first transaction is taken whatever its size.
transactions_to_include(queue) ==
    {n \in queue : total_size(queue, n) < max_block_size \/ \A i \in queue : n <= i}

\* How many transactions the sequencer's payload can have; an oversized one
\* leaves it empty.
num_transactions(txns) ==
    IF txns = {} \/ sent[Min(txns)] \in Oversized THEN {0} ELSE 1..Cardinality(txns)

\* The front of the queue counts as included from now on.
drop_front(task) ==
    LET t == sent[Min(task.tx_queue)]
    IN  [task EXCEPT !.tx_queue = @ \ {Min(@)}, !.txns_in_queue = @ \ {t},
                     !.included_txns = @ \cup {t}, !.blocks = @ \cup {t}]

\* The end of build_block, whatever the clock says: nothing to build, a
\* block, an empty payload, or an error of the sequencer.
build_block(b) ==
    LET task == [tasks[b] EXCEPT !.phase = "loop"]
        txns == transactions_to_include(task.tx_queue)
    IN  /\ tasks[b].phase = "build"
        /\ \/ set_task(b, task)
           \/ /\ task.tx_queue # {} /\ 0 \in num_transactions(txns)
              /\ ~should_prioritize_finalization(b)
              /\ set_task(b, drop_front(task))
        /\ UNCHANGED <<sent, max_block_size, tx_status, submissions>>

----------------------------------------------------------------------------
(* Forking and exiting *)

\* Slip: the receiver starts at the end of the channel.
clone_with_new_receiver(task) == {[task EXCEPT !.pos = Len(sent)]}

\* Slip: what was included before the last rotation is forgotten at once.
clone_forgetting(task) ==
    {task, [task EXCEPT !.included_txns = {}, !.included_txns_old = task.included_txns]}

\* Whether txn_garbage_collect_duration has passed is the clock's choice.
clone_with_receiver(task) ==
    {task, [task EXCEPT !.included_txns = {}, !.included_txns_old = task.included_txns,
                        !.included_txns_expiring = task.included_txns_old]}

\* The child of a task for a block, in the child's view.
child(task, view, block) ==
    LET txns_in_queue == task.txns_in_queue \ block
    IN  [task EXCEPT
           !.txns_in_queue = txns_in_queue,
           !.tx_queue = {n \in @ : sent[n] \in txns_in_queue},
           !.included_txns = @ \cup block,
           !.allow_empty_block_until =
               IF block = {} THEN @ ELSE {view + ALLOW_EMPTY_BLOCK_PERIOD},
           !.blocks = @ \cup block,
           !.recent = <<block, task.recent[1], task.recent[2]>>]

spawn_clone(b, view, block) ==
    /\ tasks[b].phase = "loop" /\ ~read_locked
    /\ view \in Tasks \ DOMAIN tasks /\ b < view /\ view + Len(sent) <= MaxProgress
    /\ \E clone \in clone_with_receiver(tasks[b]) :
          tasks' = [c \in DOMAIN tasks \cup {view} |->
                      IF c = view THEN child(clone, view, block) ELSE tasks[c]]
    /\ UNCHANGED <<sent, max_block_size, tx_status, submissions>>

\* A decide above the task's view: its receiver goes with it.
process_decide_event(b) ==
    /\ tasks[b].phase = "loop" /\ ~highest(b) /\ ~read_locked
    /\ set_task(b, [BootstrapTask EXCEPT !.phase = "exited"])
    /\ UNCHANGED <<sent, max_block_size, tx_status, submissions>>

Next ==
    \/ \E s \in Submitters :
          \/ \E txns \in Batches : submit_txns(s, txns)
          \/ handle_received_txn(s) \/ set_txn_status(s)
    \/ try_increment_block_size \/ decrement_block_size
    \/ \E b \in DOMAIN tasks :
          \/ process_block_request(b) \/ collect_txns(b) \/ build_block(b)
          \/ \E view \in Tasks, block \in SUBSET (Txns \ Oversized) : spawn_clone(b, view, block)
          \/ process_decide_event(b)

Spec == Init /\ [][Next]_vars

----------------------------------------------------------------------------
(* Properties *)

Task == [phase : {"loop", "build", "exited"}, pos : Nat,
         tx_queue : SUBSET Nat, txns_in_queue : SUBSET Txns,
         included_txns : SUBSET Txns, included_txns_old : SUBSET Txns,
         included_txns_expiring : SUBSET Txns, allow_empty_block_until : SUBSET Nat,
         blocks : SUBSET Txns, recent : (SUBSET Txns) \X (SUBSET Txns) \X (SUBSET Txns)]
Statuses == {"Pending", "Rejected"}
Submission == [phase : {"idle", "broadcast", "status"}, limit : Nat, txns : Seq(Txns),
               response : Seq(Statuses)]

TypeOK ==
    /\ sent \in Seq(Txns)
    /\ DOMAIN tasks \subseteq Tasks
    /\ \A b \in DOMAIN tasks : tasks[b] \in Task /\ tasks[b].pos <= Len(sent)
                                 /\ tasks[b].tx_queue \subseteq 1..tasks[b].pos
    /\ max_block_size \in MAX_BLOCK_SIZE_FLOOR..protocol_max_block_size
    /\ DOMAIN tx_status \subseteq Txns /\ \A t \in DOMAIN tx_status : tx_status[t] \in Statuses
    /\ submissions \in [Submitters -> Submission]
    /\ \A s \in Submitters : submissions[s].phase = "broadcast"
          => Len(submissions[s].response) < Len(submissions[s].txns)

\* A transaction reported as pending is with every running task: still to be
\* taken from the channel, in its queue, or known from a block of its branch
\* or as too big.  Tasks that are never asked for a block included, whatever
\* the forks, refusals and evictions in between.
PendingKept ==
    \A t \in DOMAIN tx_status : tx_status[t] = "Pending" =>
        \A b \in live : \/ \E i \in DOMAIN sent : i > tasks[b].pos /\ sent[i] = t
                       \/ t \in tasks[b].txns_in_queue \cup tasks[b].blocks

\* A transaction of one of the last three blocks of a task's branch is not in
\* its queue, however often the garbage collection of included transactions
\* strikes, nor does the queue hold one twice.
RecentNotQueued ==
    \A b \in live :
        LET task == tasks[b]
        IN  /\ \A n \in 1..3 : \A t \in task.recent[n] :
                  t \in known(task) /\ \A i \in task.tx_queue : sent[i] # t
            /\ \A i, j \in task.tx_queue : sent[i] = sent[j] => i = j

\* "the first transaction in our queue is too big to *ever* be included"
\* (legacy/src/builder_state.rs): nothing else is dropped, even when the
\* limit fell below the size of what was accepted before.
DroppedOnlyOversized ==
    [][\A b \in live : tasks[b]'.phase = "loop" =>
          \A i \in tasks[b].tx_queue \ tasks[b]'.tx_queue : sent[i] \in Oversized]_vars

=============================================================================
