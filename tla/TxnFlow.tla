------------------------------ MODULE TxnFlow ------------------------------
(***************************************************************************)
(* How transactions travel from the coordinator's broadcast channel into   *)
(* the queues of builder states (shared/src/state.rs, and handle_transac-  *)
(* tion and spawn_builder_state of shared/src/coordinator/mod.rs).         *)
(*                                                                         *)
(* Builder tasks collect transactions into a state's queue while the       *)
(* coordinator may be cloning that queue and that state's receiver for a   *)
(* child: the two clones are taken under two different locks, one after    *)
(* the other.  An iteration of collect_txns holds the receiver's lock from *)
(* try_recv to the insert, but waits for the queue's lock in between, and  *)
(* a request that times out while it waits is dropped there.               *)
(*                                                                         *)
(* The channel is the log of what was ever broadcast, a receiver a         *)
(* position in it.  A VecDeque that is filled at the back in channel order *)
(* and only ever loses elements is the set of its elements' positions in   *)
(* the log, to be read in increasing order.  Ids name builder states; the  *)
(* choice of a parent and the views are Coordinator's: here any stored     *)
(* state can be extended and any set of states but the last can go.        *)
(***************************************************************************)
EXTENDS Naturals, Sequences, FiniteSets

CONSTANTS
    Txns,       \* transaction commitments
    Ids,        \* names of builder states
    Root,       \* the bootstrap state
    Builders,   \* tasks that look up a state and collect its transactions
    Capacity,   \* txn_channel_capacity
    Blocks,     \* the transactions of a payload that can be proposed
    MaxSent,    \* bound: number of transactions broadcast
    MaxStored   \* bound: states in the map at once

ASSUME TxnFlowAssumption ==
    /\ Root \in Ids /\ Capacity \in Nat
    /\ Blocks \subseteq SUBSET Txns
    /\ MaxSent \in Nat /\ MaxStored \in Nat

NoState == "NoState"
ASSUME NoStateAssumption == NoState \notin Ids
Idle == [phase |-> "idle"]

VARIABLES
    sent,       \* the channel: every transaction broadcast, in order
    states,     \* Ids ever used -> BuilderState
    stored,     \* ids in the coordinator's map
    spawning,   \* Idle, or the progress of the one spawn_builder_state
    holding,    \* the state each builder task has an Arc of
    inserting   \* builder tasks between try_recv and the insert

vars == <<sent, states, stored, spawning, holding, inserting>>

----------------------------------------------------------------------------
(* RotatingSet (shared/src/utils/rotating_set.rs) *)

Sets == [fresh : SUBSET Txns, stale : SUBSET Txns, expiring : SUBSET Txns]

contains(set, t) == t \in set.fresh \/ t \in set.stale \/ t \in set.expiring

\* Slip: what was stale is dropped, nothing is expiring.
force_rotate_early(set) == [fresh |-> {}, stale |-> set.fresh, expiring |-> {}]

force_rotate(set) == [fresh |-> {}, stale |-> set.fresh, expiring |-> set.stale]

\* rotate: whether the period has elapsed is the clock's choice.
rotations(set) == {set, force_rotate(set)}

extend(set, txns) == [set EXCEPT !.fresh = @ \cup txns]

----------------------------------------------------------------------------
(* TransactionQueue: `commits` beside the positions in `transactions` *)

\* Slip: the commits go, the transactions stay.
queue_prune_commits(queue, txns) == [queue EXCEPT !.commits = @ \ txns]

\* prune drops the commits, then retains what still has its commit.
queue_prune(queue, txns) ==
    LET commits == queue.commits \ txns
    IN  [commits |-> commits,
         transactions |-> {i \in queue.transactions : sent[i] \in commits}]

queue_insert(queue, i) ==
    IF sent[i] \in queue.commits THEN queue
    ELSE [commits |-> queue.commits \cup {sent[i]},
          transactions |-> queue.transactions \cup {i}]

\* pop_front, of the transaction at position i.
queue_remove(queue, i) ==
    [commits |-> queue.commits \ {sent[i]}, transactions |-> queue.transactions \ {i}]

----------------------------------------------------------------------------
\* Three fields are history: `blocks` holds the txns of every block of the
\* state's branch and those popped, `recent` those of the last three blocks,
\* and `gapped` says that the state or one it descends from was cloned while
\* a builder was collecting, or that a builder was dropped while inserting.
Bootstrap == [included |-> [fresh |-> {}, stale |-> {}, expiring |-> {}],
              queue |-> [commits |-> {}, transactions |-> {}],
              pos |-> 0, blocks |-> {}, recent |-> <<{}, {}, {}>>, gapped |-> FALSE]

Init ==
    /\ sent = <<>>
    /\ states = [id \in {Root} |-> Bootstrap]
    /\ stored = {Root}
    /\ spawning = Idle
    /\ holding = [b \in Builders |-> NoState]
    /\ inserting = {}

\* States whose receiver exists: in the map, or kept alive by an Arc.
live == stored \cup ({holding[b] : b \in Builders} \ {NoState})
               \cup (IF spawning = Idle THEN {} ELSE {spawning.parent})

receivers == {states[id].pos : id \in live}
               \cup (IF spawning.phase = "insert" THEN {spawning.child.pos} ELSE {})

\* A builder has the lock on the state's receiver.
receiver_locked(id) == \E b \in inserting : holding[b] = id

\* How many transactions the state is done with.
settled(id) == IF receiver_locked(id) THEN states[id].pos - 1 ELSE states[id].pos

\* handle_transaction: try_broadcast without overflow mode fails when some
\* receiver has Capacity messages left to take.  A failure changes nothing
\* here (its status is TxStatus's).
handle_transaction(t) ==
    /\ Len(sent) < MaxSent
    /\ \A pos \in receivers : Len(sent) - pos < Capacity
    /\ sent' = Append(sent, t)
    /\ UNCHANGED <<states, stored, spawning, holding, inserting>>

\* A builder task gets hold of a stored state, and lets go of it.
acquire(b, id) ==
    /\ holding[b] = NoState
    /\ holding' = [holding EXCEPT ![b] = id]
    /\ UNCHANGED <<sent, states, stored, spawning, inserting>>

\* The request ends, or its timeout drops it wherever it waits.
release(b) ==
    /\ holding[b] # NoState
    /\ holding' = [holding EXCEPT ![b] = NoState]
    /\ inserting' = inserting \ {b}
    /\ IF b \in inserting
       THEN states' = [states EXCEPT ![holding[b]].gapped = TRUE]
       ELSE UNCHANGED states
    /\ UNCHANGED <<sent, stored, spawning>>

\* Slip: the receiver is not locked while the queue is waited for.
try_recv_unlocked(b) ==
    LET id == holding[b]
        next == states[id].pos + 1
    IN  /\ id # NoState /\ b \notin inserting
        /\ next <= Len(sent)
        /\ states' = [states EXCEPT ![id].pos = next]
        /\ inserting' = IF contains(states[id].included, sent[next]) THEN inserting
                        ELSE inserting \cup {b}
        /\ UNCHANGED <<sent, stored, spawning, holding>>

\* collect_txns, an iteration up to the wait for the queue's lock.  What was
\* included is not queued.
try_recv(b) ==
    LET id == holding[b]
        next == states[id].pos + 1
    IN  /\ id # NoState
        /\ ~receiver_locked(id)
        /\ next <= Len(sent)
        /\ states' = [states EXCEPT ![id].pos = next]
        /\ inserting' = IF contains(states[id].included, sent[next]) THEN inserting
                        ELSE inserting \cup {b}
        /\ UNCHANGED <<sent, stored, spawning, holding>>

\* collect_txns, the end of the iteration.
insert_txn(b) ==
    LET state == states[holding[b]]
    IN  /\ b \in inserting
        /\ states' = [states EXCEPT ![holding[b]].queue = queue_insert(state.queue, state.pos)]
        /\ inserting' = inserting \ {b}
        /\ UNCHANGED <<sent, stored, spawning, holding>>

\* A build that made an empty payload pops the front transaction.
pop_front(b) ==
    LET state == states[holding[b]]
        queued == state.queue.transactions
    IN  /\ holding[b] # NoState /\ b \notin inserting
        /\ \E i \in queued :
              /\ \A j \in queued : i <= j
              /\ states' = [states EXCEPT
                    ![holding[b]].queue = queue_remove(state.queue, i),
                    ![holding[b]].blocks = @ \cup {sent[i]}]
        /\ UNCHANGED <<sent, stored, spawning, holding, inserting>>

\* spawn_builder_state and new_child, up to `included_txns.rotate()`: block
\* is the set of transactions of the DA proposal's payload.
new_child(id, parent, block) ==
    /\ spawning = Idle
    /\ id \notin DOMAIN states
    /\ Cardinality(stored) < MaxStored
    /\ \E included \in rotations(states[parent].included) :
          spawning' = [phase |-> "queue", id |-> id, parent |-> parent,
                       block |-> block, included |-> included]
    /\ UNCHANGED <<sent, states, stored, holding, inserting>>

\* The parent's queue is cloned under its read lock, then pruned.
clone_queue ==
    /\ spawning.phase = "queue"
    /\ LET parent == states[spawning.parent]
       IN  spawning' = [phase |-> "receiver", id |-> spawning.id, parent |-> spawning.parent,
                        child |->
             [included |-> extend(spawning.included, spawning.block),
              queue |-> queue_prune(parent.queue, spawning.block),
              pos |-> settled(spawning.parent),
              blocks |-> parent.blocks \cup spawning.block,
              recent |-> <<spawning.block, parent.recent[1], parent.recent[2]>>,
              gapped |-> parent.gapped]]
    /\ UNCHANGED <<sent, states, stored, holding, inserting>>

\* Slip: one message too many is skipped.
clone_receiver_past_end ==
    /\ spawning.phase = "receiver"
    /\ spawning' = [spawning EXCEPT !.phase = "insert", !.child.pos = @ + 1]
    /\ UNCHANGED <<sent, states, stored, holding, inserting>>

\* The parent's receiver is cloned under its mutex.
clone_receiver ==
    /\ spawning.phase = "receiver" /\ ~receiver_locked(spawning.parent)
    /\ LET pos == states[spawning.parent].pos
       IN  spawning' = [spawning EXCEPT
             !.phase = "insert",
             !.child.pos = pos,
             !.child.gapped = @ \/ pos # spawning.child.pos]
    /\ UNCHANGED <<sent, states, stored, holding, inserting>>

insert_child ==
    /\ spawning.phase = "insert"
    /\ states' = [id \in DOMAIN states \cup {spawning.id} |->
                    IF id = spawning.id THEN spawning.child ELSE states[id]]
    /\ stored' = stored \cup {spawning.id}
    /\ spawning' = Idle
    /\ UNCHANGED <<sent, holding, inserting>>

\* The pruning at the end of handle_decide.
handle_decide(gone) ==
    /\ gone # {} /\ gone # stored
    /\ stored' = stored \ gone
    /\ UNCHANGED <<sent, states, spawning, holding, inserting>>

Next ==
    \/ \E t \in Txns : handle_transaction(t)
    \/ \E b \in Builders, id \in stored : acquire(b, id)
    \/ \E b \in Builders : release(b)
    \/ \E b \in Builders : try_recv(b) \/ insert_txn(b) \/ pop_front(b)
    \/ \E id \in Ids, parent \in stored, block \in Blocks : new_child(id, parent, block)
    \/ clone_queue
    \/ clone_receiver
    \/ insert_child
    \/ \E gone \in SUBSET stored : handle_decide(gone)

Spec == Init /\ [][Next]_vars

----------------------------------------------------------------------------
(* Properties *)

Queues == [commits : SUBSET Txns, transactions : SUBSET Nat]
BuilderState == [included : Sets, queue : Queues, pos : Nat, blocks : SUBSET Txns,
                 recent : (SUBSET Txns) \X (SUBSET Txns) \X (SUBSET Txns), gapped : BOOLEAN]

TypeOK ==
    /\ sent \in Seq(Txns)
    /\ DOMAIN states \subseteq Ids
    /\ \A id \in DOMAIN states : states[id] \in BuilderState /\ states[id].pos <= Len(sent)
    /\ stored \subseteq DOMAIN states
    /\ holding \in [Builders -> DOMAIN states \cup {NoState}]
    /\ inserting \subseteq {b \in Builders : holding[b] # NoState}
    /\ \/ spawning = Idle
       \/ /\ spawning \in [phase : {"queue"}, id : Ids, parent : DOMAIN states,
                           block : SUBSET Txns, included : Sets]
       \/ /\ spawning \in [phase : {"receiver", "insert"}, id : Ids, parent : DOMAIN states,
                           child : BuilderState]
          /\ spawning.child.pos <= Len(sent)

\* The set of commits that answers is_empty and "already queued" is exactly
\* that of the queued transactions, none of which is queued twice.
InSync(queue) ==
    /\ queue.commits = {sent[i] : i \in queue.transactions}
    /\ \A i, j \in queue.transactions : sent[i] = sent[j] => i = j

QueuesInSync == \A id \in DOMAIN states : InSync(states[id].queue)

\* A transaction of one of the last three blocks of a state's own branch is
\* remembered by the state and not offered again from its queue, however
\* fast the rotation period elapses ("guarantee that a transaction is not
\* duplicated", state.rs).
Settled(state) ==
    \A n \in 1..3 : \A t \in state.recent[n] :
        contains(state.included, t) /\ t \notin state.queue.commits

RecentNotQueued == \A id \in DOMAIN states : Settled(states[id])

\* What a state is done with, it has queued, popped or its branch included.
Complete(state, n) ==
    \A i \in 1..n : sent[i] \in state.queue.commits \cup state.blocks

\* Only a state cloned while a builder collected from its parent, one that a
\* builder left in the middle of an insert, and their descendants can miss a
\* transaction (new_child and the API's timeouts against collect_txns).
LostOnlyByRace ==
    \A id \in DOMAIN states : ~states[id].gapped => Complete(states[id], settled(id))

\* "Enqueue new transaction in all builder states managed by this
\* coordinator" (coordinator/mod.rs:168): what one state has in its queue, no
\* other state is past without having it queued or popped or its branch
\* having included it.
EnqueuedInAll ==
    \A id, other \in DOMAIN states :
        \A i \in states[id].queue.transactions :
            i <= settled(other) => sent[i] \in states[other].queue.commits \cup states[other].blocks

============================================================================
