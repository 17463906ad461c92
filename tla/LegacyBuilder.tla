---------------------------- MODULE LegacyBuilder ----------------------------
(***************************************************************************)
(* The builder tasks of the legacy builder (legacy/src/builder_state.rs)   *)
(* and the handles the service keeps of them (GlobalState in               *)
(* legacy/src/service.rs).                                                 *)
(*                                                                         *)
(* Every builder state is a task of its own, with its own receivers for DA *)
(* proposals, quorum proposals and decides.  All tasks see all messages    *)
(* sent while they run, each at its own pace; the tasks decide among       *)
(* themselves, by looking at the shared handles, which one forks for a     *)
(* pair of proposals.  Transactions and block requests are left out.       *)
(***************************************************************************)
EXTENDS Naturals, FiniteSets, Sequences

CONSTANTS
    Quorum,       \* quorum proposals: the fields builder tasks read
    BootstrapId,  \* id of the task started with the service
    Decides,      \* views of leaf_chain[0] in the decides that may be sent
    MaxTasks      \* bound on the tasks ever spawned

\* The key under which a task keeps the halves of a pair.
PropId(q) == [view_number |-> q.view_number, builder_commitment |-> q.builder_commitment]

\* BuilderStateId of the state a quorum proposal leads to.
StateId(q) == [parent_view |-> q.view_number, parent_commitment |-> q.payload_commitment]

StateIds == {BootstrapId} \cup {StateId(q) : q \in Quorum}
PropIds  == {PropId(q) : q \in Quorum}

\* The bootstrap handle has no ParentBlockReferences to compare with.
NoLeaf == [leaf |-> "None"]
Leaf(q) == [leaf |-> q.leaf]
Leaves == {NoLeaf} \cup {Leaf(q) : q \in Quorum}

ASSUME LegacyAssumption ==
    /\ BootstrapId.parent_view \in Nat
    /\ \A q \in Quorum : q.view_number \in Nat
    /\ Decides \subseteq Nat
    /\ MaxTasks \in Nat \ {0}

VARIABLES
    sent,     \* what was broadcast, in order, per channel
    tasks,    \* builder tasks in the order they were spawned
    spawned_builder_states,           \* BuilderStateId -> task and leaf
    highest_view_num_builder_id,
    last_garbage_collected_view_num

global_state ==
    <<spawned_builder_states, highest_view_num_builder_id, last_garbage_collected_view_num>>
vars == <<sent, tasks, global_state>>

Handles == DOMAIN spawned_builder_states
Channels == {"da", "quorum", "decide"}

\* `received` is how far the task's receivers are, `born` is history: how far
\* they were at the start.  A task that forks holds the proposal.
NewTask(id, received) ==
    [id |-> id, da |-> {}, quorum |-> {}, received |-> received, born |-> received,
     forking |-> {}, checked |-> FALSE, running |-> TRUE]

Init ==
    /\ sent = [c \in Channels |-> <<>>]
    /\ tasks = <<NewTask(BootstrapId, [c \in Channels |-> 0])>>
    /\ spawned_builder_states = [id \in {BootstrapId} |-> [task |-> 1, refs |-> NoLeaf]]
    /\ highest_view_num_builder_id = BootstrapId
    /\ last_garbage_collected_view_num = 0

----------------------------------------------------------------------------
(* The service's event loop broadcasts *)

Sent(c) == {sent[c][i] : i \in DOMAIN sent[c]}

broadcast(c, message) ==
    /\ message \notin Sent(c)
    /\ sent' = [sent EXCEPT ![c] = Append(@, message)]
    /\ UNCHANGED <<tasks, global_state>>

\* What is not signed by its sender is not sent.
handle_da_event(half) == broadcast("da", half)
handle_quorum_event(q) == broadcast("quorum", q)
handle_decide_event(view) == broadcast("decide", view)

----------------------------------------------------------------------------
(* Which builder states fork for a proposal *)

MaxBelow(ids, view) ==
    {id \in ids : /\ id.parent_view < view
                  /\ \A other \in ids : other.parent_view < view
                                          => other.parent_view <= id.parent_view}

ideal(q) ==
    {id \in Handles : /\ spawned_builder_states[id].refs = [leaf |-> q.justify_leaf]
                      /\ id.parent_view = q.justify_view}

\* Slip: no fallback.
best_ideal_only(q) == IF StateId(q) \in Handles THEN {} ELSE ideal(q)

best_builder_states_to_extend(q) ==
    IF StateId(q) \in Handles THEN {}
    ELSE IF ideal(q) # {} THEN ideal(q)
    ELSE IF MaxBelow(Handles, q.view_number) # {} THEN MaxBelow(Handles, q.view_number)
    ELSE IF Cardinality(Handles) = 1 THEN Handles
    ELSE {}

----------------------------------------------------------------------------
(* A task's event loop: one message at a time, from any channel *)

ready(t, c) ==
    /\ tasks[t].running /\ tasks[t].forking = {}
    /\ tasks[t].received[c] < Len(sent[c])

message(t, c) == sent[c][tasks[t].received[c] + 1]
taken(t, c) == [tasks[t] EXCEPT !.received[c] = @ + 1]

am_i_the_best_builder_state_to_extend(task, q) == task.id \in best_builder_states_to_extend(q)

\* Up to the start of spawn_clone.
spawn_clone_that_extends_self(task, q) ==
    [task EXCEPT !.forking = IF am_i_the_best_builder_state_to_extend(task, q) THEN {q} ELSE {}]

\* Slip: the half is stored although its counterpart is there.
process_da_storing(t) ==
    LET task == taken(t, "da")
        half == message(t, "da")
        pair == {q \in task.quorum : PropId(q) = half}
    IN  /\ ready(t, "da")
        /\ tasks' = [tasks EXCEPT ![t] =
              IF half \in task.da \/ pair = {} THEN [task EXCEPT !.da = @ \cup {half}]
              ELSE spawn_clone_that_extends_self([task EXCEPT !.da = @ \cup {half}],
                                                 CHOOSE q \in pair : TRUE)]
        /\ UNCHANGED <<sent, global_state>>

process_da_proposal(t) ==
    LET task == taken(t, "da")
        half == message(t, "da")
        pair == {q \in task.quorum : PropId(q) = half}
    IN  /\ ready(t, "da")
        /\ tasks' = [tasks EXCEPT ![t] =
              IF half \in task.da \/ pair = {} THEN [task EXCEPT !.da = @ \cup {half}]
              ELSE spawn_clone_that_extends_self([task EXCEPT !.quorum = @ \ pair],
                                                 CHOOSE q \in pair : TRUE)]
        /\ UNCHANGED <<sent, global_state>>

process_quorum_proposal(t) ==
    LET task == taken(t, "quorum")
        half == message(t, "quorum")
        held == {PropId(q) : q \in task.quorum}
    IN  /\ ready(t, "quorum")
        /\ tasks' = [tasks EXCEPT ![t] =
              IF PropId(half) \in held THEN task
              ELSE IF PropId(half) \in task.da
              THEN spawn_clone_that_extends_self([task EXCEPT !.da = @ \ {PropId(half)}], half)
              ELSE [task EXCEPT !.quorum = @ \cup {half}]]
        /\ UNCHANGED <<sent, global_state>>

----------------------------------------------------------------------------
(* spawn_clone: the handles are read again, and written later *)

spawn_clone(t) ==
    /\ tasks[t].forking # {} /\ ~tasks[t].checked
    /\ tasks' = [tasks EXCEPT ![t] =
          IF \E q \in tasks[t].forking : StateId(q) \in Handles
          THEN [@ EXCEPT !.forking = {}]
          ELSE [@ EXCEPT !.checked = TRUE]]
    /\ UNCHANGED <<sent, global_state>>

\* The clone's receivers are where its parent's are, its halves are empty.
register_builder_state(t) ==
    /\ tasks[t].checked
    /\ Len(tasks) < MaxTasks
    /\ \E q \in tasks[t].forking :
          /\ tasks' = Append(
                [tasks EXCEPT ![t].forking = {}, ![t].checked = FALSE],
                NewTask(StateId(q), tasks[t].received))
          /\ spawned_builder_states' =
                [id \in Handles \cup {StateId(q)} |->
                   IF id = StateId(q) THEN [task |-> Len(tasks) + 1, refs |-> Leaf(q)]
                   ELSE spawned_builder_states[id]]
          /\ highest_view_num_builder_id' =
                IF q.view_number > highest_view_num_builder_id.parent_view
                THEN StateId(q) ELSE highest_view_num_builder_id
    /\ UNCHANGED <<sent, last_garbage_collected_view_num>>

----------------------------------------------------------------------------
(* Decides *)

\* Slip: a decide ahead of every state removes them all.
cutoff_unclamped(view) == view

cutoff_of(view) ==
    IF highest_view_num_builder_id.parent_view <= view
    THEN highest_view_num_builder_id.parent_view ELSE view

remove_handles(cutoff) ==
    /\ spawned_builder_states' =
          [id \in {id \in Handles : id.parent_view >= cutoff} |-> spawned_builder_states[id]]
    /\ last_garbage_collected_view_num' = IF cutoff > 0 THEN cutoff - 1 ELSE 0
    /\ UNCHANGED highest_view_num_builder_id

\* Slip: the task goes by the view decided, not by what was removed.
process_decide_exiting(t) ==
    /\ ready(t, "decide")
    /\ remove_handles(cutoff_of(message(t, "decide")))
    /\ tasks' = [tasks EXCEPT ![t] =
          [taken(t, "decide") EXCEPT !.running =
             tasks[t].id.parent_view >= message(t, "decide")]]
    /\ UNCHANGED sent

\* A task below the cutoff exits.
process_decide_event(t) ==
    /\ ready(t, "decide")
    /\ remove_handles(cutoff_of(message(t, "decide")))
    /\ tasks' = [tasks EXCEPT ![t] =
          [taken(t, "decide") EXCEPT !.running =
             tasks[t].id.parent_view >= cutoff_of(message(t, "decide"))]]
    /\ UNCHANGED sent

Next ==
    \/ \E q \in Quorum : handle_quorum_event(q)
    \/ \E half \in PropIds : handle_da_event(half)
    \/ \E view \in Decides : handle_decide_event(view)
    \/ \E t \in DOMAIN tasks :
          \/ process_da_proposal(t) \/ process_quorum_proposal(t) \/ process_decide_event(t)
          \/ spawn_clone(t) \/ register_builder_state(t)

Spec == Init /\ [][Next]_vars

----------------------------------------------------------------------------
(* Properties *)

Messages == [da |-> PropIds, quorum |-> Quorum, decide |-> Decides]
Refs == [task : 1..MaxTasks, refs : Leaves]
Received == [Channels -> Nat]
Task == [id : StateIds, da : SUBSET PropIds, quorum : SUBSET Quorum,
         received : Received, born : Received,
         forking : SUBSET Quorum, checked : BOOLEAN, running : BOOLEAN]

\* A task never holds both halves of a pair, and is in one fork at most.
OneHalf(task) == \A q \in task.quorum : PropId(q) \notin task.da
Forks(task) == /\ task.checked => task.forking # {}
               /\ \A p, q \in task.forking : p = q

TypeOK ==
    /\ DOMAIN sent = Channels
    /\ \A c \in Channels : sent[c] \in Seq(Messages[c])
    /\ tasks \in Seq(Task) /\ Len(tasks) \in 1..MaxTasks
    /\ \A t \in DOMAIN tasks : /\ OneHalf(tasks[t]) /\ Forks(tasks[t])
                               /\ \A c \in Channels : tasks[t].received[c] <= Len(sent[c])
    /\ Handles \subseteq StateIds
    /\ spawned_builder_states \in [Handles -> Refs]
    /\ highest_view_num_builder_id \in StateIds
    /\ last_garbage_collected_view_num \in Nat

\* A handle always leads to the running task of its id: no request is sent
\* to a builder that has exited, although tasks exit and remove handles at
\* their own pace (remove_handles against process_decide_event).
HandlesRun ==
    \A id \in Handles :
        LET t == spawned_builder_states[id].task
        IN  t \in DOMAIN tasks /\ tasks[t].running /\ tasks[t].id = id

\* The builder with the highest view is registered and none is above it: the
\* fallback channel of available_blocks is always found.
HighestRegistered ==
    /\ highest_view_num_builder_id \in Handles
    /\ \A id \in Handles : id.parent_view <= highest_view_num_builder_id.parent_view

\* The handles are a window over the views, as the refactored coordinator's
\* builder states are: they only grow by one or are cut from below.
Window == INSTANCE StateWindow WITH Ids <- StateIds, Bootstrap <- BootstrapId, live <- Handles
WindowSpec == Window!Spec

\* All is received and nobody forks.
Quiet == \A t \in DOMAIN tasks : tasks[t].running =>
    tasks[t].forking = {} /\ \A c \in Channels : tasks[t].received[c] = Len(sent[c])

\* The message is among the first n sent on its channel.
Within(c, m, n) == \E i \in 1..n : sent[c][i] = m

\* The task was forked from one that had received a half of the pair already.
MissesHalf(task, q) ==
    Within("quorum", q, task.born.quorum) \/ Within("da", PropId(q), task.born.da)

\* No two proposals of a view have a payload in common: each half of a pair
\* names the other, and each id of a state the block that it extends.
OnePerPayload ==
    \A p, q \in Quorum : PropId(p) = PropId(q) \/ StateId(p) = StateId(q) => p = q

\* While nothing is decided, a pair only comes to nothing if its state exists,
\* if all states are ahead of it, or if a task was forked after its parent had
\* taken one of the halves.  Else each task, judging for itself at a moment of
\* its own, does not leave it to another that leaves it too.
PairLostOnlyToFork ==
    Quiet /\ sent["decide"] = <<>> => \A q \in Sent("quorum") :
        PropId(q) \in Sent("da")
            => \/ StateId(q) \in Handles
               \/ \A id \in Handles : id.parent_view >= q.view_number
               \/ \E t \in DOMAIN tasks : MissesHalf(tasks[t], q)

=============================================================================
