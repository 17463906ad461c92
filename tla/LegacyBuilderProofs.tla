------------------------- MODULE LegacyBuilderProofs -------------------------
(* Proofs about LegacyBuilder, for every set of proposals and decides.     *)
EXTENDS LegacyBuilder, SequenceTheorems, WellFoundedInduction, TLAPS

\* Views are numbers.
LEMMA ViewsTyped == \A id \in StateIds : id.parent_view \in Nat
  BY LegacyAssumption DEF StateIds, StateId

----------------------------------------------------------------------------
(* Type correctness *)

\* A task stays one when it takes a message from a channel that has one.
LEMMA TakenTyped ==
  ASSUME TypeOK, NEW t \in DOMAIN tasks, NEW c \in Channels, ready(t, c)
  PROVE  /\ taken(t, c) \in Task
         /\ OneHalf(taken(t, c)) /\ Forks(taken(t, c))
         /\ \A d \in Channels : taken(t, c).received[d] <= Len(sent[d])
         /\ taken(t, c).forking = {} /\ ~taken(t, c).checked
         /\ message(t, c) \in Messages[c]
<1>. DEFINE received == [tasks[t].received EXCEPT ![c] = tasks[t].received[c] + 1]
<1>1. /\ tasks[t] \in Task /\ sent[c] \in Seq(Messages[c])
      /\ OneHalf(tasks[t]) /\ Forks(tasks[t]) /\ tasks[t].forking = {}
      /\ \A d \in Channels : tasks[t].received[d] <= Len(sent[d])
      /\ tasks[t].received[c] < Len(sent[c])
  BY DEF TypeOK, ready
<1>2. /\ tasks[t].received \in [Channels -> Nat]
      /\ tasks[t].checked \in BOOLEAN
  BY <1>1 DEF Task, Received
<1>3. tasks[t].received[c] + 1 \in 1..Len(sent[c])
  BY <1>1, <1>2
<1>4. message(t, c) \in Messages[c]
  BY <1>1, <1>3 DEF message
<1>5. taken(t, c) = [tasks[t] EXCEPT !.received = received]
  BY DEF taken
<1>6. received \in [Channels -> Nat]
  BY <1>2
<1>7. taken(t, c) \in Task
  BY <1>1, <1>5, <1>6 DEF Task, Received
<1>8. /\ taken(t, c).da = tasks[t].da /\ taken(t, c).quorum = tasks[t].quorum
      /\ taken(t, c).forking = tasks[t].forking /\ taken(t, c).checked = tasks[t].checked
      /\ taken(t, c).received = received
  BY <1>1, <1>5 DEF Task
<1>9. \A d \in Channels : taken(t, c).received[d] <= Len(sent[d])
  BY <1>1, <1>2, <1>3, <1>8
<1>10. OneHalf(taken(t, c)) /\ Forks(taken(t, c)) /\ ~tasks[t].checked
  BY <1>1, <1>2, <1>8 DEF OneHalf, Forks
<1>. QED  BY <1>1, <1>4, <1>7, <1>8, <1>9, <1>10

\* Replacing one task by another that is typed keeps the tasks typed.
LEMMA TaskReplaced ==
  ASSUME TypeOK, NEW t \in DOMAIN tasks, NEW task \in Task,
         OneHalf(task), Forks(task),
         \A c \in Channels : task.received[c] <= Len(sent[c]),
         tasks' = [tasks EXCEPT ![t] = task], sent' = sent
  PROVE  /\ tasks' \in Seq(Task) /\ Len(tasks') = Len(tasks)
         /\ \A u \in DOMAIN tasks' : /\ OneHalf(tasks'[u]) /\ Forks(tasks'[u])
                                     /\ \A c \in Channels : tasks'[u].received[c] <= Len(sent'[c])
  BY DEF TypeOK

\* Nothing but the tasks changes.
LEMMA OnlyTasks ==
  ASSUME TypeOK, UNCHANGED <<sent, global_state>>,
         NEW t \in DOMAIN tasks, NEW task \in Task, OneHalf(task), Forks(task),
         \A c \in Channels : task.received[c] <= Len(sent[c]),
         tasks' = [tasks EXCEPT ![t] = task]
  PROVE  TypeOK'
<1>1. /\ tasks' \in Seq(Task) /\ Len(tasks') = Len(tasks)
      /\ \A u \in DOMAIN tasks' : /\ OneHalf(tasks'[u]) /\ Forks(tasks'[u])
                                  /\ \A c \in Channels : tasks'[u].received[c] <= Len(sent'[c])
  BY TaskReplaced DEF global_state
<1>. QED  BY <1>1 DEF TypeOK, global_state, Handles

\* Looking for the best state to extend only ever sets what a task forks for.
LEMMA ForkTyped ==
  ASSUME NEW task \in Task, NEW q \in Quorum, OneHalf(task), ~task.checked
  PROVE  /\ spawn_clone_that_extends_self(task, q) \in Task
         /\ OneHalf(spawn_clone_that_extends_self(task, q))
         /\ Forks(spawn_clone_that_extends_self(task, q))
         /\ spawn_clone_that_extends_self(task, q).received = task.received
<1>. DEFINE forking == IF task.id \in best_builder_states_to_extend(q) THEN {q} ELSE {}
<1>1. forking \in SUBSET Quorum /\ \A p, r \in forking : p = r
  OBVIOUS
<1>2. spawn_clone_that_extends_self(task, q) = [task EXCEPT !.forking = forking]
  BY DEF spawn_clone_that_extends_self, am_i_the_best_builder_state_to_extend
<1>. HIDE DEF forking
<1>. QED  BY <1>1, <1>2 DEF Task, OneHalf, Forks

\* One more message in a channel puts no task ahead of it.
LEMMA BroadcastTyped ==
  ASSUME TypeOK, NEW c \in Channels, NEW m \in Messages[c], broadcast(c, m)
  PROVE  TypeOK'
<1>1. sent' = [sent EXCEPT ![c] = Append(sent[c], m)] /\ UNCHANGED <<tasks, global_state>>
  BY DEF broadcast
<1>2. /\ DOMAIN sent' = Channels
      /\ \A d \in Channels : sent'[d] \in Seq(Messages[d]) /\ Len(sent[d]) <= Len(sent'[d])
  <2>1. DOMAIN sent = Channels /\ sent[c] \in Seq(Messages[c])
    BY DEF TypeOK
  <2>2. /\ Append(sent[c], m) \in Seq(Messages[c])
        /\ Len(sent[c]) <= Len(Append(sent[c], m))
    BY <2>1
  <2>3. ASSUME NEW d \in Channels
        PROVE  sent'[d] \in Seq(Messages[d]) /\ Len(sent[d]) <= Len(sent'[d])
    <3>1. sent[d] \in Seq(Messages[d]) /\ Len(sent[d]) <= Len(sent[d])
      BY DEF TypeOK
    <3>2. sent'[d] = IF d = c THEN Append(sent[c], m) ELSE sent[d]
      BY <1>1, <2>1
    <3>. QED  BY <2>2, <3>1, <3>2
  <2>. QED  BY <1>1, <2>1, <2>3
<1>3. \A t \in DOMAIN tasks, d \in Channels : tasks[t].received[d] <= Len(sent'[d])
  <2>. TAKE t \in DOMAIN tasks, d \in Channels
  <2>1. tasks[t] \in Task /\ tasks[t].received[d] <= Len(sent[d])
    BY DEF TypeOK
  <2>2. tasks[t].received[d] \in Nat
    BY <2>1 DEF Task, Received
  <2>3. Len(sent[d]) \in Nat /\ Len(sent'[d]) \in Nat
    BY <1>2 DEF TypeOK
  <2>. QED  BY <1>2, <2>1, <2>2, <2>3
<1>. QED  BY <1>1, <1>2, <1>3 DEF TypeOK, global_state, Handles

\* A DA half is stored, or starts a fork together with its counterpart, which
\* is taken out of the store.
LEMMA DaTyped ==
  ASSUME TypeOK, NEW t \in DOMAIN tasks, process_da_proposal(t)
  PROVE  TypeOK'
<1>. DEFINE task == taken(t, "da")
            half == message(t, "da")
            pair == {q \in task.quorum : PropId(q) = half}
            stored == [task EXCEPT !.da = task.da \cup {half}]
            matched == [task EXCEPT !.quorum = task.quorum \ pair]
            fork == spawn_clone_that_extends_self(matched, CHOOSE q \in pair : TRUE)
            next == IF half \in task.da \/ pair = {} THEN stored ELSE fork
<1>1. /\ ready(t, "da") /\ UNCHANGED <<sent, global_state>>
      /\ tasks' = [tasks EXCEPT ![t] = next]
  BY DEF process_da_proposal
<1>2. /\ task \in Task /\ OneHalf(task) /\ Forks(task)
      /\ \A d \in Channels : task.received[d] <= Len(sent[d])
      /\ task.forking = {} /\ ~task.checked
      /\ half \in PropIds
  BY <1>1, TakenTyped DEF Channels, Messages
<1>. HIDE DEF task, half
<1>3. CASE half \in task.da \/ pair = {}
  <2>1. stored \in Task /\ stored.received = task.received
    BY <1>2 DEF Task
  <2>2. OneHalf(stored) /\ Forks(stored)
    BY <1>2, <1>3 DEF OneHalf, Forks, Task
  <2>. QED  BY <1>1, <1>2, <1>3, <2>1, <2>2, OnlyTasks
<1>4. CASE half \notin task.da /\ pair # {}
  <2>1. matched \in Task /\ matched.received = task.received /\ ~matched.checked
    BY <1>2 DEF Task
  <2>2. OneHalf(matched)
    BY <1>2 DEF OneHalf, Task
  <2>3. (CHOOSE q \in pair : TRUE) \in Quorum
    BY <1>2, <1>4 DEF Task
  <2>. HIDE DEF pair, matched
  <2>4. fork \in Task /\ OneHalf(fork) /\ Forks(fork) /\ fork.received = task.received
    BY <2>1, <2>2, <2>3, ForkTyped
  <2>. QED  BY <1>1, <1>2, <1>4, <2>4, OnlyTasks
<1>. QED  BY <1>3, <1>4

\* The same for a quorum half.
LEMMA QuorumTyped ==
  ASSUME TypeOK, NEW t \in DOMAIN tasks, process_quorum_proposal(t)
  PROVE  TypeOK'
<1>. DEFINE task == taken(t, "quorum")
            half == message(t, "quorum")
            held == {PropId(q) : q \in task.quorum}
            stored == [task EXCEPT !.quorum = task.quorum \cup {half}]
            matched == [task EXCEPT !.da = task.da \ {PropId(half)}]
            fork == spawn_clone_that_extends_self(matched, half)
            next == IF PropId(half) \in held THEN task
                    ELSE IF PropId(half) \in task.da THEN fork ELSE stored
<1>1. /\ ready(t, "quorum") /\ UNCHANGED <<sent, global_state>>
      /\ tasks' = [tasks EXCEPT ![t] = next]
  BY DEF process_quorum_proposal
<1>2. /\ task \in Task /\ OneHalf(task) /\ Forks(task)
      /\ \A d \in Channels : task.received[d] <= Len(sent[d])
      /\ task.forking = {} /\ ~task.checked
      /\ half \in Quorum
  BY <1>1, TakenTyped DEF Channels, Messages
<1>. HIDE DEF task, half
<1>3. CASE PropId(half) \in held
  BY <1>1, <1>2, <1>3, OnlyTasks
<1>4. CASE PropId(half) \notin held /\ PropId(half) \notin task.da
  <2>1. stored \in Task /\ stored.received = task.received
    BY <1>2 DEF Task
  <2>2. OneHalf(stored) /\ Forks(stored)
    BY <1>2, <1>4 DEF OneHalf, Forks, Task
  <2>. QED  BY <1>1, <1>2, <1>4, <2>1, <2>2, OnlyTasks
<1>5. CASE PropId(half) \notin held /\ PropId(half) \in task.da
  <2>1. matched \in Task /\ matched.received = task.received /\ ~matched.checked
    BY <1>2 DEF Task
  <2>2. OneHalf(matched)
    BY <1>2 DEF OneHalf, Task
  <2>. HIDE DEF matched
  <2>3. fork \in Task /\ OneHalf(fork) /\ Forks(fork) /\ fork.received = task.received
    BY <1>2, <2>1, <2>2, ForkTyped
  <2>. QED  BY <1>1, <1>2, <1>5, <2>3, OnlyTasks
<1>. QED  BY <1>3, <1>4, <1>5

\* The second look at the handles ends the fork or lets it go on.
LEMMA SpawnTyped ==
  ASSUME TypeOK, NEW t \in DOMAIN tasks, spawn_clone(t)
  PROVE  TypeOK'
<1>. DEFINE given_up == [tasks[t] EXCEPT !.forking = {}]
            going_on == [tasks[t] EXCEPT !.checked = TRUE]
<1>1. /\ tasks[t] \in Task /\ OneHalf(tasks[t]) /\ Forks(tasks[t])
      /\ \A d \in Channels : tasks[t].received[d] <= Len(sent[d])
      /\ tasks[t].forking # {} /\ ~tasks[t].checked
      /\ UNCHANGED <<sent, global_state>>
  BY DEF TypeOK, spawn_clone
<1>2. \/ tasks' = [tasks EXCEPT ![t] = given_up]
      \/ tasks' = [tasks EXCEPT ![t] = going_on]
  BY DEF spawn_clone
<1>3. /\ given_up \in Task /\ OneHalf(given_up) /\ Forks(given_up)
      /\ given_up.received = tasks[t].received
  BY <1>1 DEF Task, OneHalf, Forks
<1>4. /\ going_on \in Task /\ OneHalf(going_on) /\ Forks(going_on)
      /\ going_on.received = tasks[t].received
  BY <1>1 DEF Task, OneHalf, Forks
<1>. HIDE DEF given_up, going_on
<1>5. CASE tasks' = [tasks EXCEPT ![t] = given_up]
  BY <1>1, <1>3, <1>5, OnlyTasks
<1>6. CASE tasks' = [tasks EXCEPT ![t] = going_on]
  BY <1>1, <1>4, <1>6, OnlyTasks
<1>. QED  BY <1>2, <1>5, <1>6

\* A fork adds one task, whose receivers are where its parent's are, and one
\* handle.
LEMMA RegisterTyped ==
  ASSUME TypeOK, NEW t \in DOMAIN tasks, register_builder_state(t)
  PROVE  TypeOK'
<1>. DEFINE rest == [tasks[t] EXCEPT !.forking = {}, !.checked = FALSE]
<1>1. PICK q \in tasks[t].forking :
        /\ tasks' = Append([tasks EXCEPT ![t].forking = {}, ![t].checked = FALSE],
                           NewTask(StateId(q), tasks[t].received))
        /\ spawned_builder_states' =
              [id \in Handles \cup {StateId(q)} |->
                 IF id = StateId(q) THEN [task |-> Len(tasks) + 1, refs |-> Leaf(q)]
                 ELSE spawned_builder_states[id]]
        /\ highest_view_num_builder_id' =
              IF q.view_number > highest_view_num_builder_id.parent_view
              THEN StateId(q) ELSE highest_view_num_builder_id
  BY DEF register_builder_state
<1>2. /\ Len(tasks) < MaxTasks /\ UNCHANGED <<sent, last_garbage_collected_view_num>>
  BY DEF register_builder_state
<1>3. /\ tasks[t] \in Task /\ tasks \in Seq(Task) /\ Len(tasks) \in Nat
      /\ OneHalf(tasks[t]) /\ Forks(tasks[t])
      /\ \A d \in Channels : tasks[t].received[d] <= Len(sent[d])
  BY DEF TypeOK
<1>4. q \in Quorum /\ StateId(q) \in StateIds /\ Leaf(q) \in Leaves
  BY <1>3 DEF Task, StateIds, Leaves
<1>. DEFINE child == NewTask(StateId(q), tasks[t].received)
            resting == [tasks EXCEPT ![t] = rest]
<1>5. child \in Task /\ OneHalf(child) /\ Forks(child) /\ child.received = tasks[t].received
  BY <1>3, <1>4 DEF NewTask, Task, OneHalf, Forks
<1>6. rest \in Task /\ OneHalf(rest) /\ Forks(rest) /\ rest.received = tasks[t].received
  BY <1>3 DEF Task, OneHalf, Forks
<1>7. tasks' = Append(resting, child)
  BY <1>1
<1>. HIDE DEF child, rest
<1>8. /\ resting \in Seq(Task) /\ Len(resting) = Len(tasks)
      /\ \A u \in DOMAIN tasks : resting[u] = IF u = t THEN rest ELSE tasks[u]
  BY <1>3, <1>6
<1>. HIDE DEF resting
<1>9. /\ tasks' \in Seq(Task) /\ Len(tasks') = Len(tasks) + 1
      /\ \A u \in DOMAIN tasks' : tasks'[u] = IF u = Len(tasks) + 1 THEN child
                                               ELSE IF u = t THEN rest ELSE tasks[u]
      /\ DOMAIN tasks' = 1..(Len(tasks) + 1) /\ DOMAIN tasks = 1..Len(tasks)
  BY <1>3, <1>5, <1>7, <1>8
<1>10. \A u \in DOMAIN tasks' : /\ OneHalf(tasks'[u]) /\ Forks(tasks'[u])
                                /\ \A c \in Channels : tasks'[u].received[c] <= Len(sent'[c])
  <2>. TAKE u \in DOMAIN tasks'
  <2>1. CASE u = Len(tasks) + 1
    BY <1>2, <1>3, <1>5, <1>9, <2>1
  <2>2. CASE u # Len(tasks) + 1 /\ u = t
    BY <1>2, <1>3, <1>6, <1>9, <2>2
  <2>3. CASE u # Len(tasks) + 1 /\ u # t
    <3>1. u \in DOMAIN tasks /\ tasks'[u] = tasks[u]
      BY <1>3, <1>9, <2>3
    <3>. QED  BY <1>2, <3>1 DEF TypeOK
  <2>. QED  BY <2>1, <2>2, <2>3
<1>11. Len(tasks') \in 1..MaxTasks
  BY <1>2, <1>3, <1>9, LegacyAssumption
<1>12. [task |-> Len(tasks) + 1, refs |-> Leaf(q)] \in Refs
  BY <1>4, <1>9, <1>11 DEF Refs
<1>13. /\ Handles' = Handles \cup {StateId(q)} /\ Handles' \subseteq StateIds
       /\ spawned_builder_states' \in [Handles' -> Refs]
       /\ highest_view_num_builder_id' \in StateIds
  BY <1>1, <1>4, <1>12 DEF TypeOK, Handles
<1>. QED  BY <1>2, <1>9, <1>10, <1>11, <1>13 DEF TypeOK

\* A decide is a view, and so is its cutoff.
LEMMA CutoffTyped ==
  ASSUME TypeOK, NEW t \in DOMAIN tasks, ready(t, "decide")
  PROVE  /\ message(t, "decide") \in Nat
         /\ cutoff_of(message(t, "decide")) \in Nat
         /\ cutoff_of(message(t, "decide")) <= highest_view_num_builder_id.parent_view
<1>1. message(t, "decide") \in Decides
  BY TakenTyped DEF Channels, Messages
<1>2. highest_view_num_builder_id.parent_view \in Nat
  BY ViewsTyped DEF TypeOK
<1>3. message(t, "decide") \in Nat
  BY <1>1, LegacyAssumption
<1>. QED  BY <1>2, <1>3 DEF cutoff_of

\* A decide removes handles and may end the task.
LEMMA DecideTyped ==
  ASSUME TypeOK, NEW t \in DOMAIN tasks, process_decide_event(t)
  PROVE  TypeOK'
<1>. DEFINE task == taken(t, "decide")
            cutoff == cutoff_of(message(t, "decide"))
            next == [task EXCEPT !.running = tasks[t].id.parent_view >= cutoff]
<1>1. /\ ready(t, "decide") /\ sent' = sent
      /\ tasks' = [tasks EXCEPT ![t] = next]
      /\ remove_handles(cutoff)
  BY DEF process_decide_event
<1>2. cutoff \in Nat
  BY <1>1, CutoffTyped
<1>3. /\ task \in Task /\ OneHalf(task) /\ Forks(task)
      /\ \A d \in Channels : task.received[d] <= Len(sent[d])
  BY <1>1, TakenTyped DEF Channels
<1>4. (tasks[t].id.parent_view >= cutoff) \in BOOLEAN
  <2>1. tasks[t] \in Task
    BY DEF TypeOK
  <2>2. tasks[t].id.parent_view \in Nat
    BY <2>1, ViewsTyped DEF Task
  <2>. QED  BY <1>2, <2>2
<1>. HIDE DEF task, cutoff
<1>5. next \in Task /\ OneHalf(next) /\ Forks(next) /\ next.received = task.received
  BY <1>3, <1>4 DEF Task, OneHalf, Forks
<1>. HIDE DEF next
<1>6. /\ tasks' \in Seq(Task) /\ Len(tasks') = Len(tasks)
      /\ \A u \in DOMAIN tasks' : /\ OneHalf(tasks'[u]) /\ Forks(tasks'[u])
                                  /\ \A c \in Channels : tasks'[u].received[c] <= Len(sent'[c])
  BY <1>1, <1>3, <1>5, TaskReplaced
<1>7. /\ Handles' \subseteq Handles
      /\ spawned_builder_states' \in [Handles' -> Refs]
      /\ highest_view_num_builder_id' = highest_view_num_builder_id
      /\ last_garbage_collected_view_num' \in Nat
  BY <1>1, <1>2 DEF remove_handles, TypeOK, Handles
<1>. QED  BY <1>1, <1>6, <1>7 DEF TypeOK

\* The bootstrap task and its handle have the types.
LEMMA InitTyped == Init => TypeOK
<1>. SUFFICES ASSUME Init PROVE TypeOK
  OBVIOUS
<1>. DEFINE zero == [c \in Channels |-> 0]
            first == NewTask(BootstrapId, zero)
<1>1. first \in Task /\ OneHalf(first) /\ Forks(first) /\ first.received = zero
  BY DEF NewTask, Task, Received, StateIds, OneHalf, Forks
<1>2. tasks = <<first>>
  BY DEF Init
<1>. HIDE DEF first
<1>3. /\ tasks \in Seq(Task) /\ Len(tasks) = 1 /\ \A t \in DOMAIN tasks : tasks[t] = first
  BY <1>1, <1>2
<1>4. DOMAIN sent = Channels /\ \A c \in Channels : sent[c] = <<>>
  BY DEF Init
<1>5. \A c \in Channels : sent[c] \in Seq(Messages[c]) /\ Len(sent[c]) = 0
  <2>1. \A S : <<>> \in Seq(S) /\ Len(<<>>) = 0
    BY EmptySeq
  <2>. QED  BY <1>4, <2>1, Zenon
<1>6. \A t \in DOMAIN tasks : /\ OneHalf(tasks[t]) /\ Forks(tasks[t])
                              /\ \A c \in Channels : tasks[t].received[c] <= Len(sent[c])
  BY <1>1, <1>3, <1>5
<1>7. /\ Handles \subseteq StateIds /\ spawned_builder_states \in [Handles -> Refs]
      /\ highest_view_num_builder_id \in StateIds /\ last_garbage_collected_view_num \in Nat
  BY LegacyAssumption DEF Init, Handles, StateIds, Refs, Leaves
<1>. QED  BY <1>3, <1>4, <1>5, <1>6, <1>7, LegacyAssumption DEF TypeOK

\* Every step keeps the types.
LEMMA NextTyped == TypeOK /\ [Next]_vars => TypeOK'
<1>. SUFFICES ASSUME TypeOK, [Next]_vars PROVE TypeOK'
  OBVIOUS
<1>1. CASE \E q \in Quorum : handle_quorum_event(q)
  BY <1>1, BroadcastTyped DEF Channels, Messages, handle_quorum_event
<1>2. CASE \E half \in PropIds : handle_da_event(half)
  BY <1>2, BroadcastTyped DEF Channels, Messages, handle_da_event
<1>3. CASE \E view \in Decides : handle_decide_event(view)
  BY <1>3, BroadcastTyped DEF Channels, Messages, handle_decide_event
<1>4. CASE \E t \in DOMAIN tasks : process_da_proposal(t) \/ process_quorum_proposal(t)
  BY <1>4, DaTyped, QuorumTyped
<1>5. CASE \E t \in DOMAIN tasks : process_decide_event(t)
  BY <1>5, DecideTyped
<1>6. CASE \E t \in DOMAIN tasks : spawn_clone(t) \/ register_builder_state(t)
  BY <1>6, SpawnTyped, RegisterTyped
<1>7. CASE UNCHANGED vars
  BY <1>7 DEF TypeOK, vars, global_state, Handles
<1>. QED  BY <1>1, <1>2, <1>3, <1>4, <1>5, <1>6, <1>7 DEF Next

\* Type correctness: tasks and handles stay bounded, no task holds both halves
\* of a pair or forks twice at a time.
THEOREM TypeCorrect == Spec => []TypeOK
  BY InitTyped, NextTyped, PTL DEF Spec

----------------------------------------------------------------------------
(* Handles *)

IInv == TypeOK /\ HandlesRun /\ HighestRegistered

\* Tasks that go on as who they are disturb no handle.
LEMMA HandlesUndisturbed ==
  ASSUME IInv, UNCHANGED global_state,
         DOMAIN tasks \subseteq DOMAIN tasks',
         \A t \in DOMAIN tasks : tasks'[t].id = tasks[t].id /\ tasks'[t].running = tasks[t].running
  PROVE  HandlesRun' /\ HighestRegistered'
<1>1. UNCHANGED <<spawned_builder_states, highest_view_num_builder_id>>
  BY DEF global_state
<1>. QED  BY <1>1 DEF IInv, HandlesRun, HighestRegistered, Handles

\* Judging itself changes neither the id nor the state of the task that does.
LEMMA ForkSame ==
  ASSUME NEW task \in Task, NEW q
  PROVE  /\ spawn_clone_that_extends_self(task, q).id = task.id
         /\ spawn_clone_that_extends_self(task, q).running = task.running
  BY DEF spawn_clone_that_extends_self, am_i_the_best_builder_state_to_extend, Task

\* Looking for who extends changes neither id nor state of a task.
LEMMA SameTask ==
  ASSUME TypeOK, NEW t \in DOMAIN tasks,
         \/ process_da_proposal(t)
         \/ process_quorum_proposal(t)
         \/ spawn_clone(t)
  PROVE  /\ UNCHANGED global_state /\ DOMAIN tasks' = DOMAIN tasks
         /\ \A u \in DOMAIN tasks : tasks'[u].id = tasks[u].id /\ tasks'[u].running = tasks[u].running
<1>1. tasks[t] \in Task
  BY DEF TypeOK
<1>2. ASSUME NEW c \in Channels, ready(t, c)
      PROVE  /\ taken(t, c) \in Task
             /\ taken(t, c).id = tasks[t].id /\ taken(t, c).running = tasks[t].running
  BY <1>1, <1>2, TakenTyped DEF taken, Task
<1>3. ASSUME NEW task \in Task, NEW x
      PROVE  /\ [task EXCEPT !.da = x].id = task.id
             /\ [task EXCEPT !.da = x].running = task.running
             /\ [task EXCEPT !.quorum = x].id = task.id
             /\ [task EXCEPT !.quorum = x].running = task.running
             /\ [task EXCEPT !.forking = x].id = task.id
             /\ [task EXCEPT !.forking = x].running = task.running
             /\ [task EXCEPT !.checked = x].id = task.id
             /\ [task EXCEPT !.checked = x].running = task.running
  BY DEF Task
<1>4. \E next : /\ tasks' = [tasks EXCEPT ![t] = next]
                 /\ next.id = tasks[t].id /\ next.running = tasks[t].running
  <2>1. CASE process_da_proposal(t)
    <3>. DEFINE task == taken(t, "da")
                half == message(t, "da")
                pair == {q \in task.quorum : PropId(q) = half}
                matched == [task EXCEPT !.quorum = task.quorum \ pair]
                fork == spawn_clone_that_extends_self(matched, CHOOSE q \in pair : TRUE)
                next == IF half \in task.da \/ pair = {}
                        THEN [task EXCEPT !.da = task.da \cup {half}] ELSE fork
    <3>1. ready(t, "da") /\ tasks' = [tasks EXCEPT ![t] = next]
      BY <2>1 DEF process_da_proposal
    <3>2. task \in Task /\ task.id = tasks[t].id /\ task.running = tasks[t].running
      BY <1>2, <3>1 DEF Channels
    <3>. HIDE DEF task, half, pair
    <3>3. fork.id = task.id /\ fork.running = task.running
      <4>1. matched \in Task /\ matched.id = task.id /\ matched.running = task.running
        BY <3>2 DEF Task
      <4>. HIDE DEF matched
      <4>. QED  BY <4>1, ForkSame, Zenon
    <3>4. /\ [task EXCEPT !.da = task.da \cup {half}].id = task.id
          /\ [task EXCEPT !.da = task.da \cup {half}].running = task.running
      BY <1>3, <3>2, Zenon
    <3>. HIDE DEF fork
    <3>5. next.id = task.id /\ next.running = task.running
      BY <3>3, <3>4, Zenon
    <3>. QED  BY <3>1, <3>2, <3>5
  <2>2. CASE process_quorum_proposal(t)
    <3>. DEFINE task == taken(t, "quorum")
                half == message(t, "quorum")
                held == {PropId(q) : q \in task.quorum}
                matched == [task EXCEPT !.da = task.da \ {PropId(half)}]
                fork == spawn_clone_that_extends_self(matched, half)
                next == IF PropId(half) \in held THEN task
                        ELSE IF PropId(half) \in task.da THEN fork
                        ELSE [task EXCEPT !.quorum = task.quorum \cup {half}]
    <3>1. ready(t, "quorum") /\ tasks' = [tasks EXCEPT ![t] = next]
      BY <2>2 DEF process_quorum_proposal
    <3>2. task \in Task /\ task.id = tasks[t].id /\ task.running = tasks[t].running
      BY <1>2, <3>1 DEF Channels
    <3>. HIDE DEF task, half, held
    <3>3. fork.id = task.id /\ fork.running = task.running
      <4>1. matched \in Task /\ matched.id = task.id /\ matched.running = task.running
        BY <3>2 DEF Task
      <4>. HIDE DEF matched
      <4>. QED  BY <4>1, ForkSame, Zenon
    <3>4. /\ [task EXCEPT !.quorum = task.quorum \cup {half}].id = task.id
          /\ [task EXCEPT !.quorum = task.quorum \cup {half}].running = task.running
      BY <1>3, <3>2, Zenon
    <3>. HIDE DEF fork
    <3>5. next.id = task.id /\ next.running = task.running
      BY <3>3, <3>4, Zenon
    <3>. QED  BY <3>1, <3>2, <3>5
  <2>3. CASE spawn_clone(t)
    <3>1. \/ tasks' = [tasks EXCEPT ![t] = [tasks[t] EXCEPT !.forking = {}]]
          \/ tasks' = [tasks EXCEPT ![t] = [tasks[t] EXCEPT !.checked = TRUE]]
      BY <2>3 DEF spawn_clone
    <3>2. \A x : /\ [tasks[t] EXCEPT !.forking = x].id = tasks[t].id
                 /\ [tasks[t] EXCEPT !.forking = x].running = tasks[t].running
                 /\ [tasks[t] EXCEPT !.checked = x].id = tasks[t].id
                 /\ [tasks[t] EXCEPT !.checked = x].running = tasks[t].running
      BY <1>1, <1>3, Zenon
    <3>3. CASE tasks' = [tasks EXCEPT ![t] = [tasks[t] EXCEPT !.forking = {}]]
      BY <3>2, <3>3, Zenon
    <3>4. CASE tasks' = [tasks EXCEPT ![t] = [tasks[t] EXCEPT !.checked = TRUE]]
      BY <3>2, <3>4, Zenon
    <3>. QED  BY <3>1, <3>3, <3>4
  <2>. QED  BY <2>1, <2>2, <2>3
<1>. QED  BY <1>4 DEF process_da_proposal, process_quorum_proposal, spawn_clone, global_state

\* A fork registers the task it spawns, and that task only.
LEMMA RegisterKeeps ==
  ASSUME IInv, NEW t \in DOMAIN tasks, register_builder_state(t)
  PROVE  /\ HandlesRun' /\ HighestRegistered'
         /\ \E id \in StateIds : Handles' = Handles \cup {id}
<1>1. PICK q \in tasks[t].forking :
        /\ tasks' = Append([tasks EXCEPT ![t].forking = {}, ![t].checked = FALSE],
                           NewTask(StateId(q), tasks[t].received))
        /\ spawned_builder_states' =
              [id \in Handles \cup {StateId(q)} |->
                 IF id = StateId(q) THEN [task |-> Len(tasks) + 1, refs |-> Leaf(q)]
                 ELSE spawned_builder_states[id]]
        /\ highest_view_num_builder_id' =
              IF q.view_number > highest_view_num_builder_id.parent_view
              THEN StateId(q) ELSE highest_view_num_builder_id
  BY DEF register_builder_state
<1>2. /\ tasks \in Seq(Task) /\ tasks[t] \in Task
      /\ Handles \subseteq StateIds /\ highest_view_num_builder_id \in StateIds
  BY DEF IInv, TypeOK
<1>3. q \in Quorum /\ StateId(q) \in StateIds /\ StateId(q).parent_view = q.view_number
  BY <1>2 DEF Task, StateIds, StateId
<1>4. Handles' = Handles \cup {StateId(q)}
  BY <1>1 DEF Handles
<1>5. HandlesRun'
  <2>. DEFINE child == NewTask(StateId(q), tasks[t].received)
              rest == [tasks[t] EXCEPT !.forking = {}, !.checked = FALSE]
              resting == [tasks EXCEPT ![t] = rest]
  <2>1. child.id = StateId(q) /\ child.running
    BY DEF NewTask
  <2>2. tasks' = Append(resting, child)
    BY <1>1
  <2>3. /\ resting \in Seq(Task) /\ Len(resting) = Len(tasks) /\ DOMAIN tasks = 1..Len(tasks)
        /\ \A u \in DOMAIN tasks : resting[u].id = tasks[u].id /\ resting[u].running = tasks[u].running
    <3>1. rest \in Task /\ rest.id = tasks[t].id /\ rest.running = tasks[t].running
      BY <1>2 DEF Task
    <3>. HIDE DEF rest
    <3>. QED  BY <1>2, <3>1
  <2>. HIDE DEF resting, child
  <2>4. /\ DOMAIN tasks' = 1..(Len(tasks) + 1)
        /\ tasks'[Len(tasks) + 1] = child
        /\ \A u \in DOMAIN tasks : u \in DOMAIN tasks' /\ tasks'[u] = resting[u]
        /\ Len(tasks) + 1 \in DOMAIN tasks'
    BY <2>2, <2>3
  <2>. SUFFICES ASSUME NEW id \in Handles'
                PROVE  LET u == spawned_builder_states'[id].task
                       IN  u \in DOMAIN tasks' /\ tasks'[u].running /\ tasks'[u].id = id
    BY DEF HandlesRun
  <2>5. CASE id = StateId(q)
    BY <1>1, <1>4, <2>1, <2>4, <2>5
  <2>6. CASE id # StateId(q)
    <3>1. id \in Handles /\ spawned_builder_states'[id] = spawned_builder_states[id]
      BY <1>1, <1>4, <2>6
    <3>. QED  BY <2>3, <2>4, <3>1 DEF IInv, HandlesRun
  <2>. QED  BY <2>5, <2>6
<1>6. HighestRegistered'
  <2>1. /\ \A id \in Handles' : id.parent_view \in Nat
        /\ highest_view_num_builder_id.parent_view \in Nat
    BY <1>2, <1>3, <1>4, ViewsTyped
  <2>. QED  BY <1>1, <1>3, <1>4, <2>1 DEF IInv, HighestRegistered
<1>. QED  BY <1>3, <1>4, <1>5, <1>6

\* The handles of the tasks that exit are removed first, the highest never is.
LEMMA DecideKeeps ==
  ASSUME IInv, NEW t \in DOMAIN tasks, process_decide_event(t)
  PROVE  /\ HandlesRun' /\ HighestRegistered'
         /\ \E cutoff \in Nat : Handles' = {id \in Handles : id.parent_view >= cutoff}
<1>. DEFINE cutoff == cutoff_of(message(t, "decide"))
            next == [taken(t, "decide") EXCEPT !.running = tasks[t].id.parent_view >= cutoff]
<1>1. /\ ready(t, "decide") /\ tasks' = [tasks EXCEPT ![t] = next]
      /\ remove_handles(cutoff)
  BY DEF process_decide_event
<1>2. TypeOK /\ cutoff \in Nat /\ cutoff <= highest_view_num_builder_id.parent_view
  BY <1>1, CutoffTyped DEF IInv
<1>3. next.id = tasks[t].id /\ next.running = (tasks[t].id.parent_view >= cutoff)
  <2>1. tasks[t] \in Task
    BY <1>2 DEF TypeOK
  <2>2. taken(t, "decide") \in Task /\ taken(t, "decide").id = tasks[t].id
    BY <1>1, <1>2, <2>1, TakenTyped DEF Channels, taken, Task
  <2>. QED  BY <2>2 DEF Task
<1>. HIDE DEF cutoff, next
<1>4. /\ Handles' = {id \in Handles : id.parent_view >= cutoff}
      /\ \A id \in Handles' : spawned_builder_states'[id] = spawned_builder_states[id]
      /\ highest_view_num_builder_id' = highest_view_num_builder_id
  BY <1>1 DEF remove_handles, Handles
<1>5. HandlesRun'
  <2>. SUFFICES ASSUME NEW id \in Handles'
                PROVE  LET u == spawned_builder_states'[id].task
                       IN  u \in DOMAIN tasks' /\ tasks'[u].running /\ tasks'[u].id = id
    BY DEF HandlesRun
  <2>. DEFINE u == spawned_builder_states[id].task
  <2>1. /\ id \in Handles /\ id.parent_view >= cutoff
        /\ spawned_builder_states'[id] = spawned_builder_states[id]
        /\ u \in DOMAIN tasks /\ tasks[u].running /\ tasks[u].id = id
    BY <1>4 DEF IInv, HandlesRun
  <2>2. DOMAIN tasks' = DOMAIN tasks /\ tasks'[u] = IF u = t THEN next ELSE tasks[u]
    BY <1>1, <2>1
  <2>. QED  BY <1>3, <2>1, <2>2
<1>6. HighestRegistered'
  <2>1. highest_view_num_builder_id.parent_view \in Nat
    BY <1>2, ViewsTyped DEF TypeOK
  <2>. QED  BY <1>2, <1>4, <2>1 DEF IInv, HighestRegistered
<1>. QED  BY <1>2, <1>4, <1>5, <1>6

\* Types, handles and the highest builder are inductive together.
LEMMA Invariance == Spec => []IInv
<1>1. Init => IInv
  <2>. SUFFICES ASSUME Init PROVE IInv
    OBVIOUS
  <2>1. Handles = {BootstrapId} /\ spawned_builder_states[BootstrapId].task = 1
    BY DEF Init, Handles
  <2>2. 1 \in DOMAIN tasks /\ tasks[1].running /\ tasks[1].id = BootstrapId
    BY DEF Init, NewTask
  <2>3. BootstrapId.parent_view <= BootstrapId.parent_view
    BY LegacyAssumption
  <2>. QED  BY <2>1, <2>2, <2>3, InitTyped DEF IInv, HandlesRun, HighestRegistered, Init
<1>2. IInv /\ [Next]_vars => IInv'
  <2>. SUFFICES ASSUME IInv, [Next]_vars PROVE HandlesRun' /\ HighestRegistered'
    BY NextTyped DEF IInv
  <2>1. CASE UNCHANGED <<tasks, global_state>>
    BY <2>1, HandlesUndisturbed
  <2>2. CASE \E t \in DOMAIN tasks :
               process_da_proposal(t) \/ process_quorum_proposal(t) \/ spawn_clone(t)
    BY <2>2, SameTask, HandlesUndisturbed DEF IInv
  <2>3. CASE \E t \in DOMAIN tasks : register_builder_state(t)
    BY <2>3, RegisterKeeps
  <2>4. CASE \E t \in DOMAIN tasks : process_decide_event(t)
    BY <2>4, DecideKeeps
  <2>. QED  BY <2>1, <2>2, <2>3, <2>4 DEF Next, broadcast, handle_da_event, handle_quorum_event,
                                           handle_decide_event, vars
<1>. QED  BY <1>1, <1>2, PTL DEF Spec

----------------------------------------------------------------------------
(* Results *)

\* Every handle leads to a running task of its id, in whatever order the tasks
\* get to the decides (remove_handles, process_decide_event).
THEOREM HandlesLeadToTasks == Spec => []HandlesRun
<1>1. IInv => HandlesRun
  BY DEF IInv
<1>. QED  BY <1>1, Invariance, PTL

\* The highest builder is always registered, and is the highest
\* (register_builder_state, remove_handles).
THEOREM HighestIsRegistered == Spec => []HighestRegistered
<1>1. IInv => HighestRegistered
  BY DEF IInv
<1>. QED  BY <1>1, Invariance, PTL

\* The handles are the same abstract window as the builder states of the
\* refactored coordinator.
THEOREM ImplementsWindow == Spec => WindowSpec
<1>1. Init => Window!Init
  BY DEF Init, Handles, Window!Init
<1>2. IInv /\ [Next]_vars => [Window!Next]_Handles
  <2>. SUFFICES ASSUME IInv, [Next]_vars PROVE Window!Next \/ Handles' = Handles
    OBVIOUS
  <2>1. CASE UNCHANGED global_state
    BY <2>1 DEF global_state, Handles
  <2>2. CASE \E t \in DOMAIN tasks : register_builder_state(t)
    <3>1. PICK id \in StateIds : Handles' = Handles \cup {id}
      BY <2>2, RegisterKeeps
    <3>. QED  BY <3>1 DEF Window!Next, Window!Spawn
  <2>3. CASE \E t \in DOMAIN tasks : process_decide_event(t)
    <3>1. PICK cutoff \in Nat : Handles' = {id \in Handles : id.parent_view >= cutoff}
      BY <2>3, DecideKeeps
    <3>2. HighestRegistered'
      BY <2>3, DecideKeeps
    <3>. DEFINE gone == {id \in Handles : ~(id.parent_view >= cutoff)}
    <3>3. gone \in SUBSET Handles /\ gone # Handles /\ Handles' = Handles \ gone
      BY <3>1, <3>2 DEF HighestRegistered
    <3>4. \A id \in Handles : id.parent_view \in Nat
      BY ViewsTyped DEF IInv, TypeOK
    <3>5. \A g \in gone, k \in Handles \ gone : g.parent_view < k.parent_view
      BY <3>4
    <3>. QED  BY <3>3, <3>5 DEF Window!Next, Window!Retire
  <2>4. CASE \E t \in DOMAIN tasks :
               process_da_proposal(t) \/ process_quorum_proposal(t) \/ spawn_clone(t)
    BY <2>4, SameTask DEF IInv, global_state, Handles
  <2>. QED  BY <2>1, <2>2, <2>3, <2>4 DEF Next, broadcast, handle_da_event, handle_quorum_event,
                                           handle_decide_event, vars
<1>. QED  BY <1>1, <1>2, Invariance, PTL DEF Spec, WindowSpec, Window!Spec

----------------------------------------------------------------------------
(* Lost pairs *)

\* The task has received the message.
Reached(task, c, m) == Within(c, m, task.received[c])

\* Some other state is a better one to extend by q than that of id: the one
\* that q is justified by, if it has a handle, else one of a higher view.
Left(id, q) ==
    /\ id \notin ideal(q)
    /\ ideal(q) # {} \/ id \notin MaxBelow(Handles, q.view_number)

\* The task has seen to q, or found that another one has to.
Judged(task, q) == StateId(q) \in Handles \/ q \in task.forking \/ Left(task.id, q)

\* What a task that was there for both halves has done with them.
HalvesGood(task, q) ==
    /\ Reached(task, "quorum", q) /\ ~Reached(task, "da", PropId(q)) => q \in task.quorum
    /\ Reached(task, "da", PropId(q)) /\ ~Reached(task, "quorum", q) => PropId(q) \in task.da
    /\ Reached(task, "da", PropId(q)) /\ Reached(task, "quorum", q) => Judged(task, q)

TaskGood(task) ==
    /\ task.running /\ task.id \in Handles
    /\ \A q \in task.quorum : Reached(task, "quorum", q)
    /\ \A id \in task.da : Reached(task, "da", id)
    /\ task.checked => \A q \in task.forking : StateId(q) # BootstrapId
    /\ \A q \in Quorum : ~MissesHalf(task, q) => HalvesGood(task, q)

\* A message is sent once.
SentOnce == \A c \in Channels : \A i, j \in DOMAIN sent[c] : sent[c][i] = sent[c][j] => i = j

\* A handle keeps the leaf of the proposal that its state is named after.
HandleGood(id) ==
    id = BootstrapId \/ \E q \in Quorum : id = StateId(q) /\ spawned_builder_states[id].refs = Leaf(q)

Growing ==
    /\ SentOnce
    /\ BootstrapId \in Handles
    /\ \A id \in Handles : HandleGood(id)
    /\ \A t \in DOMAIN tasks : /\ TaskGood(tasks[t])
                               /\ \A c \in Channels : tasks[t].born[c] <= Len(sent[c])

\* While nothing is decided, handles are never removed and tasks never exit.
GrowsUndecided == sent["decide"] = <<>> => Growing

\* Who is not the best one to extend by q leaves it to a better one.
LEMMA NotBestLeaves ==
  ASSUME NEW q, NEW id, id \notin best_builder_states_to_extend(q)
  PROVE  StateId(q) \in Handles \/ Left(id, q)
  BY DEF best_builder_states_to_extend, Left

\* Handles that come to be do not make a state the better one again.
LEMMA LeftKept ==
  ASSUME Handles \subseteq Handles',
         \A id \in Handles : spawned_builder_states'[id].refs = spawned_builder_states[id].refs,
         NEW id \in Handles, NEW q, Left(id, q)
  PROVE  Left(id, q)'
<1>1. id \notin ideal(q)'
  BY DEF Left, ideal
<1>2. CASE ideal(q) # {}
  <2>1. ideal(q)' # {}
    BY <1>2 DEF ideal
  <2>. QED  BY <1>1, <2>1 DEF Left
<1>3. CASE id \notin MaxBelow(Handles, q.view_number)
  <2>1. id \notin MaxBelow(Handles', q.view_number)
    BY <1>3 DEF MaxBelow
  <2>. QED  BY <1>1, <2>1 DEF Left
<1>. QED  BY <1>2, <1>3 DEF Left

\* What was received does not change when messages are added to a channel.
LEMMA WithinKept ==
  ASSUME TypeOK, NEW c \in Channels, NEW n \in Nat, n <= Len(sent[c]), NEW m,
         \/ sent' = sent
         \/ \E d \in Channels : \E x : sent' = [sent EXCEPT ![d] = Append(@, x)]
  PROVE  Within(c, m, n)' <=> Within(c, m, n)
<1>1. sent[c] \in Seq(Messages[c]) /\ DOMAIN sent = Channels
  BY DEF TypeOK
<1>2. \A i \in 1..n : sent'[c][i] = sent[c][i]
  <2>1. CASE sent' = sent
    BY <2>1
  <2>2. ASSUME NEW d \in Channels, NEW x, sent' = [sent EXCEPT ![d] = Append(@, x)]
        PROVE  \A i \in 1..n : sent'[c][i] = sent[c][i]
    <3>1. CASE c = d
      BY <1>1, <2>2, <3>1
    <3>2. CASE c # d
      BY <1>1, <2>2, <3>2
    <3>. QED  BY <3>1, <3>2
  <2>. QED  BY <2>1, <2>2
<1>. QED  BY <1>2 DEF Within

\* Taking a message that is sent once makes it, and no other, received.
LEMMA WithinOneMore ==
  ASSUME TypeOK, SentOnce, NEW c \in Channels, NEW n \in Nat, n + 1 <= Len(sent[c])
  PROVE  /\ ~Within(c, sent[c][n + 1], n)
         /\ \A m : Within(c, m, n + 1) <=> (m = sent[c][n + 1] \/ Within(c, m, n))
<1>1. sent[c] \in Seq(Messages[c])
  BY DEF TypeOK
<1>2. 1..(n + 1) \subseteq DOMAIN sent[c] /\ 1..(n + 1) = 1..n \cup {n + 1}
  BY <1>1
<1>3. \A i \in 1..n : i # n + 1
  OBVIOUS
<1>. QED  BY <1>2, <1>3 DEF Within, SentOnce

\* The fields of a task that takes a message.
LEMMA TakenFields ==
  ASSUME TypeOK, NEW t \in DOMAIN tasks, NEW c \in Channels, ready(t, c)
  PROVE  LET task == tasks[t]
             next == taken(t, c)
         IN  /\ next \in Task /\ task \in Task
             /\ next.id = task.id /\ next.running = task.running /\ next.born = task.born
             /\ next.da = task.da /\ next.quorum = task.quorum
             /\ next.forking = task.forking /\ next.checked = task.checked
             /\ next.received = [task.received EXCEPT ![c] = task.received[c] + 1]
             /\ task.received \in [Channels -> Nat]
             /\ task.received[c] + 1 <= Len(sent[c])
             /\ task.forking = {} /\ ~task.checked
             /\ message(t, c) = sent[c][task.received[c] + 1]
             /\ message(t, c) \in Messages[c]
<1>1. tasks[t] \in Task /\ tasks[t].received \in [Channels -> Nat]
  <2>1. tasks[t] \in Task
    BY DEF TypeOK
  <2>. QED  BY <2>1 DEF Task, Received
<1>2. taken(t, c) \in Task /\ ~taken(t, c).checked /\ message(t, c) \in Messages[c]
  BY TakenTyped
<1>3. sent[c] \in Seq(Messages[c]) /\ tasks[t].received[c] < Len(sent[c])
  BY DEF TypeOK, ready
<1>4. tasks[t].received[c] + 1 <= Len(sent[c])
  BY <1>1, <1>3
<1>5. /\ taken(t, c).id = tasks[t].id /\ taken(t, c).running = tasks[t].running
      /\ taken(t, c).born = tasks[t].born
      /\ taken(t, c).da = tasks[t].da /\ taken(t, c).quorum = tasks[t].quorum
      /\ taken(t, c).forking = tasks[t].forking /\ taken(t, c).checked = tasks[t].checked
      /\ taken(t, c).received = [tasks[t].received EXCEPT ![c] = tasks[t].received[c] + 1]
  <2>. DEFINE received == [tasks[t].received EXCEPT ![c] = tasks[t].received[c] + 1]
  <2>1. taken(t, c) = [tasks[t] EXCEPT !.received = received]
    BY DEF taken
  <2>. HIDE DEF received
  <2>2. /\ taken(t, c).id = tasks[t].id /\ taken(t, c).running = tasks[t].running
        /\ taken(t, c).born = tasks[t].born
        /\ taken(t, c).da = tasks[t].da /\ taken(t, c).quorum = tasks[t].quorum
        /\ taken(t, c).forking = tasks[t].forking /\ taken(t, c).checked = tasks[t].checked
        /\ taken(t, c).received = received
    BY <1>1, <2>1 DEF Task
  <2>. QED  BY <2>2 DEF received
<1>. QED  BY <1>1, <1>2, <1>4, <1>5 DEF message, ready

\* A task that takes a DA half stores it, or has seen to its pair.
LEMMA DaGood ==
  ASSUME OnePerPayload, TypeOK, SentOnce, NEW task, NEW next, NEW half \in PropIds,
         task.received \in [Channels -> Nat], task.quorum \subseteq Quorum,
         task.received["da"] + 1 <= Len(sent["da"]),
         half = sent["da"][task.received["da"] + 1],
         next.received = [task.received EXCEPT !["da"] = task.received["da"] + 1],
         next.id = task.id, next.running = task.running, next.born = task.born,
         ~next.checked, task.forking = {}, TaskGood(task),
         \/ /\ half \in task.da \/ ~(\E q \in task.quorum : PropId(q) = half)
            /\ next.da = task.da \cup {half} /\ next.quorum = task.quorum
         \/ \E p \in task.quorum :
               /\ PropId(p) = half
               /\ next.da = task.da /\ next.quorum = {q \in task.quorum : PropId(q) # half}
               /\ p \in next.forking \/ task.id \notin best_builder_states_to_extend(p)
  PROVE  TaskGood(next)
<1>1. /\ "da" \in Channels /\ "quorum" \in Channels
      /\ task.received["da"] \in Nat
      /\ next.received["da"] = task.received["da"] + 1
      /\ next.received["quorum"] = task.received["quorum"]
  BY DEF Channels
<1>2. /\ ~Reached(task, "da", half)
      /\ \A id : Reached(next, "da", id) <=> (id = half \/ Reached(task, "da", id))
      /\ \A q : Reached(next, "quorum", q) <=> Reached(task, "quorum", q)
  BY <1>1, WithinOneMore DEF Reached
<1>3. /\ half \notin task.da
      /\ \A q \in task.quorum : Reached(task, "quorum", q)
      /\ \A id \in task.da : Reached(task, "da", id)
      /\ \A q : MissesHalf(next, q) <=> MissesHalf(task, q)
  BY <1>2 DEF TaskGood, MissesHalf
<1>4. \A q : Judged(task, q) => Judged(next, q)
  BY DEF Judged
<1>5. CASE /\ ~(\E q \in task.quorum : PropId(q) = half)
           /\ next.da = task.da \cup {half} /\ next.quorum = task.quorum
  <2>1. ASSUME NEW q \in Quorum, ~MissesHalf(next, q)
        PROVE  HalvesGood(next, q)
    <3>1. HalvesGood(task, q)
      BY <1>3, <2>1 DEF TaskGood
    <3>2. CASE PropId(q) = half
      <4>1. ~Reached(task, "quorum", q)
        BY <1>2, <1>5, <3>1, <3>2 DEF HalvesGood
      <4>. QED  BY <1>2, <1>5, <3>2, <4>1 DEF HalvesGood
    <3>3. CASE PropId(q) # half
      BY <1>2, <1>4, <1>5, <3>1, <3>3 DEF HalvesGood
    <3>. QED  BY <3>2, <3>3
  <2>2. /\ \A q \in next.quorum : Reached(next, "quorum", q)
        /\ \A id \in next.da : Reached(next, "da", id)
    BY <1>2, <1>3, <1>5
  <2>. QED  BY <2>1, <2>2 DEF TaskGood
<1>6. CASE \E p \in task.quorum :
              /\ PropId(p) = half
              /\ next.da = task.da /\ next.quorum = {q \in task.quorum : PropId(q) # half}
              /\ p \in next.forking \/ task.id \notin best_builder_states_to_extend(p)
  <2>1. PICK p \in task.quorum :
              /\ PropId(p) = half
              /\ next.da = task.da /\ next.quorum = {q \in task.quorum : PropId(q) # half}
              /\ p \in next.forking \/ task.id \notin best_builder_states_to_extend(p)
    BY <1>6
  <2>2. Judged(next, p)
    BY <2>1, NotBestLeaves DEF Judged
  <2>3. ASSUME NEW q \in Quorum, ~MissesHalf(next, q)
        PROVE  HalvesGood(next, q)
    <3>1. HalvesGood(task, q)
      BY <1>3, <2>3 DEF TaskGood
    <3>2. CASE PropId(q) = half
      <4>1. q = p
        BY <2>1, <3>2 DEF OnePerPayload
      <4>. QED  BY <1>2, <1>3, <2>1, <2>2, <4>1 DEF HalvesGood
    <3>3. CASE PropId(q) # half
      BY <1>2, <1>4, <2>1, <3>1, <3>3 DEF HalvesGood
    <3>. QED  BY <3>2, <3>3
  <2>4. /\ \A q \in next.quorum : Reached(next, "quorum", q)
        /\ \A id \in next.da : Reached(next, "da", id)
    BY <1>2, <1>3, <2>1
  <2>. QED  BY <2>3, <2>4 DEF TaskGood
<1>. QED  BY <1>3, <1>5, <1>6

\* A task that takes a quorum half stores it, or has seen to its pair; it does
\* not hold another one of the same name.
LEMMA QuorumGood ==
  ASSUME OnePerPayload, TypeOK, SentOnce, NEW task, NEW next, NEW half \in Quorum,
         task.received \in [Channels -> Nat], task.quorum \subseteq Quorum,
         task.received["quorum"] + 1 <= Len(sent["quorum"]),
         half = sent["quorum"][task.received["quorum"] + 1],
         next.received = [task.received EXCEPT !["quorum"] = task.received["quorum"] + 1],
         next.id = task.id, next.running = task.running, next.born = task.born,
         ~next.checked, task.forking = {}, TaskGood(task),
         \/ \E q \in task.quorum : PropId(q) = PropId(half)
         \/ /\ PropId(half) \in task.da
            /\ next.da = task.da \ {PropId(half)} /\ next.quorum = task.quorum
            /\ half \in next.forking \/ task.id \notin best_builder_states_to_extend(half)
         \/ /\ PropId(half) \notin task.da
            /\ next.da = task.da /\ next.quorum = task.quorum \cup {half}
  PROVE  TaskGood(next)
<1>1. /\ "da" \in Channels /\ "quorum" \in Channels
      /\ task.received["quorum"] \in Nat
      /\ next.received["quorum"] = task.received["quorum"] + 1
      /\ next.received["da"] = task.received["da"]
  BY DEF Channels
<1>2. /\ ~Reached(task, "quorum", half)
      /\ \A q : Reached(next, "quorum", q) <=> (q = half \/ Reached(task, "quorum", q))
      /\ \A id : Reached(next, "da", id) <=> Reached(task, "da", id)
  BY <1>1, WithinOneMore DEF Reached
<1>3. /\ \A q \in task.quorum : Reached(task, "quorum", q)
      /\ \A id \in task.da : Reached(task, "da", id)
      /\ \A q : MissesHalf(next, q) <=> MissesHalf(task, q)
  BY DEF TaskGood, MissesHalf
<1>4. \A q : Judged(task, q) => Judged(next, q)
  BY DEF Judged
<1>5. ~(\E q \in task.quorum : PropId(q) = PropId(half))
  BY <1>2, <1>3 DEF OnePerPayload
<1>6. CASE /\ PropId(half) \in task.da
           /\ next.da = task.da \ {PropId(half)} /\ next.quorum = task.quorum
           /\ half \in next.forking \/ task.id \notin best_builder_states_to_extend(half)
  <2>1. Judged(next, half)
    BY <1>6, NotBestLeaves DEF Judged
  <2>2. ASSUME NEW q \in Quorum, ~MissesHalf(next, q)
        PROVE  HalvesGood(next, q)
    <3>1. HalvesGood(task, q)
      BY <1>3, <2>2 DEF TaskGood
    <3>2. CASE q = half
      BY <1>2, <1>3, <1>6, <2>1, <3>2 DEF HalvesGood
    <3>3. CASE q # half
      <4>1. PropId(q) # PropId(half)
        BY <3>3 DEF OnePerPayload
      <4>. QED  BY <1>2, <1>4, <1>6, <3>1, <3>3, <4>1 DEF HalvesGood
    <3>. QED  BY <3>2, <3>3
  <2>3. /\ \A q \in next.quorum : Reached(next, "quorum", q)
        /\ \A id \in next.da : Reached(next, "da", id)
    BY <1>2, <1>3, <1>6
  <2>. QED  BY <2>2, <2>3 DEF TaskGood
<1>7. CASE /\ PropId(half) \notin task.da
           /\ next.da = task.da /\ next.quorum = task.quorum \cup {half}
  <2>1. ASSUME NEW q \in Quorum, ~MissesHalf(next, q)
        PROVE  HalvesGood(next, q)
    <3>1. HalvesGood(task, q)
      BY <1>3, <2>1 DEF TaskGood
    <3>. QED  BY <1>2, <1>4, <1>7, <3>1 DEF HalvesGood
  <2>2. /\ \A q \in next.quorum : Reached(next, "quorum", q)
        /\ \A id \in next.da : Reached(next, "da", id)
    BY <1>2, <1>3, <1>7
  <2>. QED  BY <2>1, <2>2 DEF TaskGood
<1>. QED  BY <1>5, <1>6, <1>7

\* What a task does with a half keeps it good.
LEMMA TakeGood ==
  ASSUME OnePerPayload, TypeOK, Growing, NEW t \in DOMAIN tasks,
         process_da_proposal(t) \/ process_quorum_proposal(t)
  PROVE  /\ UNCHANGED <<sent, global_state>>
         /\ \E next : /\ tasks' = [tasks EXCEPT ![t] = next]
                      /\ TaskGood(next) /\ next.born = tasks[t].born
<1>0. SentOnce /\ TaskGood(tasks[t]) /\ Channels = {"da", "quorum", "decide"}
  BY DEF Growing, Channels
<1>1. CASE process_da_proposal(t)
  <2>. DEFINE task == taken(t, "da")
              half == message(t, "da")
              pair == {q \in task.quorum : PropId(q) = half}
              stored == [task EXCEPT !.da = task.da \cup {half}]
              matched == [task EXCEPT !.quorum = task.quorum \ pair]
              p == CHOOSE q \in pair : TRUE
              forking == IF task.id \in best_builder_states_to_extend(p) THEN {p} ELSE {}
              fork == [matched EXCEPT !.forking = forking]
              next == IF half \in task.da \/ pair = {} THEN stored ELSE fork
  <2>1. /\ ready(t, "da") /\ tasks' = [tasks EXCEPT ![t] = next]
        /\ UNCHANGED <<sent, global_state>>
    <3>1. matched.id = task.id
      <4>1. ready(t, "da")
        BY <1>1 DEF process_da_proposal
      <4>2. task \in Task
        BY <1>0, <4>1, TakenFields
      <4>. HIDE DEF task
      <4>. QED  BY <4>2 DEF Task
    <3>2. spawn_clone_that_extends_self(matched, p) = fork
      BY <3>1, Zenon DEF spawn_clone_that_extends_self, am_i_the_best_builder_state_to_extend
    <3>. QED  BY <1>1, <3>2, Zenon DEF process_da_proposal
  <2>2. /\ task \in Task /\ tasks[t] \in Task
        /\ task.id = tasks[t].id /\ task.running = tasks[t].running /\ task.born = tasks[t].born
        /\ task.da = tasks[t].da /\ task.quorum = tasks[t].quorum /\ ~task.checked
        /\ task.received = [tasks[t].received EXCEPT !["da"] = tasks[t].received["da"] + 1]
        /\ tasks[t].received \in [Channels -> Nat]
        /\ tasks[t].received["da"] + 1 <= Len(sent["da"])
        /\ tasks[t].forking = {}
        /\ half = sent["da"][tasks[t].received["da"] + 1]
        /\ half \in PropIds
    BY <1>0, <2>1, TakenFields DEF Messages
  <2>3. tasks[t].quorum \subseteq Quorum
    BY <2>2 DEF Task
  <2>. HIDE DEF task, half
  <2>4. CASE half \in task.da \/ pair = {}
    <3>1. next = stored
      BY <2>4
    <3>2. /\ stored.id = task.id /\ stored.running = task.running /\ stored.born = task.born
          /\ stored.da = task.da \cup {half} /\ stored.quorum = task.quorum
          /\ stored.checked = task.checked /\ stored.received = task.received
      BY <2>2 DEF Task
    <3>. HIDE DEF stored
    <3>3. /\ half \in tasks[t].da \/ ~(\E q \in tasks[t].quorum : PropId(q) = half)
          /\ stored.da = tasks[t].da \cup {half} /\ stored.quorum = tasks[t].quorum
      BY <2>2, <2>4, <3>2
    <3>4. /\ stored.id = tasks[t].id /\ stored.running = tasks[t].running
          /\ stored.born = tasks[t].born /\ ~stored.checked
          /\ stored.received = [tasks[t].received EXCEPT !["da"] = tasks[t].received["da"] + 1]
      BY <2>2, <3>2
    <3>5. TaskGood(stored)
      BY <1>0, <2>2, <2>3, <3>3, <3>4, DaGood
    <3>. QED  BY <2>1, <3>1, <3>4, <3>5
  <2>5. CASE ~(half \in task.da \/ pair = {})
    <3>1. p \in task.quorum /\ PropId(p) = half /\ next = fork
      BY <2>5
    <3>2. task.quorum \ pair = {q \in task.quorum : PropId(q) # half}
      OBVIOUS
    <3>. HIDE DEF p, pair
    <3>3. /\ forking \in SUBSET Quorum
          /\ p \in forking \/ task.id \notin best_builder_states_to_extend(p)
      BY <2>2, <2>3, <3>1
    <3>. HIDE DEF forking
    <3>4. /\ fork.id = task.id /\ fork.running = task.running /\ fork.born = task.born
          /\ fork.da = task.da /\ fork.quorum = task.quorum \ pair
          /\ fork.checked = task.checked /\ fork.received = task.received
          /\ fork.forking = forking
      BY <2>2 DEF Task
    <3>. HIDE DEF fork
    <3>5. \E r \in tasks[t].quorum :
             /\ PropId(r) = half
             /\ fork.da = tasks[t].da
             /\ fork.quorum = {q \in tasks[t].quorum : PropId(q) # half}
             /\ r \in fork.forking \/ tasks[t].id \notin best_builder_states_to_extend(r)
      BY <2>2, <3>1, <3>2, <3>3, <3>4
    <3>6. TaskGood(fork)
      BY <1>0, <2>2, <2>3, <3>4, <3>5, DaGood
    <3>. QED  BY <2>1, <2>2, <3>1, <3>4, <3>6
  <2>. QED  BY <2>1, <2>4, <2>5
<1>2. CASE process_quorum_proposal(t)
  <2>. DEFINE task == taken(t, "quorum")
              half == message(t, "quorum")
              held == {PropId(q) : q \in task.quorum}
              matched == [task EXCEPT !.da = task.da \ {PropId(half)}]
              stored == [task EXCEPT !.quorum = task.quorum \cup {half}]
              forking == IF task.id \in best_builder_states_to_extend(half) THEN {half} ELSE {}
              fork == [matched EXCEPT !.forking = forking]
              next == IF PropId(half) \in held THEN task
                      ELSE IF PropId(half) \in task.da THEN fork ELSE stored
  <2>1. /\ ready(t, "quorum") /\ tasks' = [tasks EXCEPT ![t] = next]
        /\ UNCHANGED <<sent, global_state>>
    <3>1. matched.id = task.id
      <4>1. ready(t, "quorum")
        BY <1>2 DEF process_quorum_proposal
      <4>2. task \in Task
        BY <1>0, <4>1, TakenFields
      <4>. HIDE DEF task
      <4>. QED  BY <4>2 DEF Task
    <3>2. spawn_clone_that_extends_self(matched, half) = fork
      BY <3>1, Zenon DEF spawn_clone_that_extends_self, am_i_the_best_builder_state_to_extend
    <3>. QED  BY <1>2, <3>2, Zenon DEF process_quorum_proposal
  <2>2. /\ task \in Task /\ tasks[t] \in Task
        /\ task.id = tasks[t].id /\ task.running = tasks[t].running /\ task.born = tasks[t].born
        /\ task.da = tasks[t].da /\ task.quorum = tasks[t].quorum /\ ~task.checked
        /\ task.received = [tasks[t].received EXCEPT !["quorum"] = tasks[t].received["quorum"] + 1]
        /\ tasks[t].received \in [Channels -> Nat]
        /\ tasks[t].received["quorum"] + 1 <= Len(sent["quorum"])
        /\ tasks[t].forking = {}
        /\ half = sent["quorum"][tasks[t].received["quorum"] + 1]
        /\ half \in Quorum
    BY <1>0, <2>1, TakenFields DEF Messages
  <2>3. tasks[t].quorum \subseteq Quorum
    BY <2>2 DEF Task
  <2>. HIDE DEF task, half
  <2>4. CASE PropId(half) \in held
    <3>1. next = task /\ \E q \in tasks[t].quorum : PropId(q) = PropId(half)
      BY <2>2, <2>4
    <3>2. TaskGood(task)
      BY <1>0, <2>2, <2>3, <3>1, QuorumGood
    <3>. QED  BY <2>1, <2>2, <3>1, <3>2
  <2>5. CASE PropId(half) \notin held /\ PropId(half) \in task.da
    <3>1. next = fork
      BY <2>5
    <3>2. half \in forking \/ task.id \notin best_builder_states_to_extend(half)
      OBVIOUS
    <3>. HIDE DEF forking
    <3>3. /\ fork.id = task.id /\ fork.running = task.running /\ fork.born = task.born
          /\ fork.da = task.da \ {PropId(half)} /\ fork.quorum = task.quorum
          /\ fork.checked = task.checked /\ fork.received = task.received
          /\ fork.forking = forking
      BY <2>2 DEF Task
    <3>. HIDE DEF fork
    <3>4. TaskGood(fork)
      BY <1>0, <2>2, <2>3, <2>5, <3>2, <3>3, QuorumGood
    <3>. QED  BY <2>1, <2>2, <3>1, <3>3, <3>4
  <2>6. CASE PropId(half) \notin held /\ PropId(half) \notin task.da
    <3>1. next = stored
      BY <2>6
    <3>2. /\ stored.id = task.id /\ stored.running = task.running /\ stored.born = task.born
          /\ stored.da = task.da /\ stored.quorum = task.quorum \cup {half}
          /\ stored.checked = task.checked /\ stored.received = task.received
      BY <2>2 DEF Task
    <3>. HIDE DEF stored
    <3>3. TaskGood(stored)
      BY <1>0, <2>2, <2>3, <2>6, <3>2, QuorumGood
    <3>. QED  BY <2>1, <2>2, <3>1, <3>2, <3>3
  <2>. QED  BY <2>4, <2>5, <2>6
<1>. QED  BY <1>1, <1>2

\* So does reading the handles again before it registers a clone.
LEMMA SpawnGood ==
  ASSUME TypeOK, Growing, NEW t \in DOMAIN tasks, spawn_clone(t)
  PROVE  /\ UNCHANGED <<sent, global_state>>
         /\ \E next : /\ tasks' = [tasks EXCEPT ![t] = next]
                      /\ TaskGood(next) /\ next.born = tasks[t].born
<1>1. tasks[t] \in Task /\ Forks(tasks[t]) /\ TaskGood(tasks[t])
  BY DEF TypeOK, Growing
<1>2. ~tasks[t].checked /\ BootstrapId \in Handles
  BY DEF spawn_clone, Growing
<1>3. CASE \E q \in tasks[t].forking : StateId(q) \in Handles
  <2>. DEFINE next == [tasks[t] EXCEPT !.forking = {}]
  <2>1. tasks' = [tasks EXCEPT ![t] = next]
    BY <1>3 DEF spawn_clone
  <2>2. /\ next.id = tasks[t].id /\ next.running = tasks[t].running
        /\ next.born = tasks[t].born /\ next.received = tasks[t].received
        /\ next.da = tasks[t].da /\ next.quorum = tasks[t].quorum
        /\ next.checked = tasks[t].checked
    BY <1>1 DEF Task
  <2>. HIDE DEF next
  <2>3. \A q : Judged(tasks[t], q) => Judged(next, q)
    BY <1>1, <1>3, <2>2 DEF Judged, Forks
  <2>4. TaskGood(next)
    BY <1>1, <1>2, <2>2, <2>3 DEF TaskGood, HalvesGood, Reached, MissesHalf
  <2>. QED  BY <2>1, <2>2, <2>4 DEF spawn_clone
<1>4. CASE ~(\E q \in tasks[t].forking : StateId(q) \in Handles)
  <2>. DEFINE next == [tasks[t] EXCEPT !.checked = TRUE]
  <2>1. tasks' = [tasks EXCEPT ![t] = next]
    BY <1>4 DEF spawn_clone
  <2>2. /\ next.id = tasks[t].id /\ next.running = tasks[t].running
        /\ next.born = tasks[t].born /\ next.received = tasks[t].received
        /\ next.da = tasks[t].da /\ next.quorum = tasks[t].quorum
        /\ next.forking = tasks[t].forking
    BY <1>1 DEF Task
  <2>. HIDE DEF next
  <2>3. \A q : Judged(tasks[t], q) => Judged(next, q)
    BY <2>2 DEF Judged
  <2>4. \A q \in next.forking : StateId(q) # BootstrapId
    BY <1>2, <1>4, <2>2
  <2>5. TaskGood(next)
    BY <1>1, <2>2, <2>3, <2>4 DEF TaskGood, HalvesGood, Reached, MissesHalf
  <2>. QED  BY <2>1, <2>2, <2>5 DEF spawn_clone
<1>. QED  BY <1>3, <1>4

\* Neither new messages nor new handles spoil what a task has done.
LEMMA GoodKept ==
  ASSUME TypeOK, NEW task, TaskGood(task),
         task.received \in [Channels -> Nat], task.born \in [Channels -> Nat],
         \A c \in Channels : task.received[c] <= Len(sent[c]) /\ task.born[c] <= Len(sent[c]),
         \/ sent' = sent
         \/ \E d \in Channels : \E x : sent' = [sent EXCEPT ![d] = Append(@, x)],
         Handles \subseteq Handles',
         \A id \in Handles : spawned_builder_states'[id].refs = spawned_builder_states[id].refs
  PROVE  TaskGood(task)'
<1>1. "da" \in Channels /\ "quorum" \in Channels
  BY DEF Channels
<1>2. ASSUME NEW c \in Channels, NEW m
      PROVE  /\ Reached(task, c, m)' <=> Reached(task, c, m)
             /\ Within(c, m, task.born[c])' <=> Within(c, m, task.born[c])
  BY WithinKept DEF Reached
<1>3. \A q : MissesHalf(task, q)' <=> MissesHalf(task, q)
  BY <1>1, <1>2 DEF MissesHalf
<1>4. ASSUME NEW q, Judged(task, q) PROVE Judged(task, q)'
  <2>1. CASE StateId(q) \in Handles
    BY <2>1 DEF Judged, StateId
  <2>2. CASE q \in task.forking
    BY <2>2 DEF Judged
  <2>3. CASE Left(task.id, q)
    <3>1. Left(task.id, q)'
      BY <2>3, LeftKept DEF TaskGood
    <3>. QED  BY <3>1 DEF Judged
  <2>. QED  BY <1>4, <2>1, <2>2, <2>3 DEF Judged
<1>5. ASSUME NEW q \in Quorum, ~MissesHalf(task, q)' PROVE HalvesGood(task, q)'
  <2>1. HalvesGood(task, q)
    BY <1>3, <1>5 DEF TaskGood
  <2>2. /\ Reached(task, "quorum", q)' <=> Reached(task, "quorum", q)
        /\ Reached(task, "da", PropId(q))' <=> Reached(task, "da", PropId(q))
    BY <1>1, <1>2
  <2>3. PropId(q)' = PropId(q)
    BY DEF PropId
  <2>. QED  BY <1>4, <2>1, <2>2, <2>3 DEF HalvesGood
<1>6. /\ \A q \in task.quorum : Reached(task, "quorum", q)'
      /\ \A id \in task.da : Reached(task, "da", id)'
  BY <1>1, <1>2 DEF TaskGood
<1>. QED  BY <1>5, <1>6 DEF TaskGood, StateId

\* The types a task's progress has, and where it can be at most.
LEMMA ProgressTyped ==
  ASSUME TypeOK, Growing, NEW t \in DOMAIN tasks
  PROVE  /\ tasks[t].received \in [Channels -> Nat] /\ tasks[t].born \in [Channels -> Nat]
         /\ \A c \in Channels : /\ tasks[t].received[c] <= Len(sent[c])
                                /\ tasks[t].born[c] <= Len(sent[c])
<1>1. tasks[t] \in Task
  BY DEF TypeOK
<1>2. tasks[t].received \in [Channels -> Nat] /\ tasks[t].born \in [Channels -> Nat]
  BY <1>1 DEF Task, Received
<1>. QED  BY <1>2 DEF TypeOK, Growing

\* A message that was not sent yet is sent once.
LEMMA BroadcastGrows ==
  ASSUME TypeOK, Growing, NEW c \in Channels, NEW m \in Messages[c], broadcast(c, m)
  PROVE  Growing'
<1>1. /\ m \notin Sent(c) /\ sent' = [sent EXCEPT ![c] = Append(@, m)]
      /\ UNCHANGED <<tasks, global_state>>
      /\ UNCHANGED spawned_builder_states /\ Handles' = Handles
  BY DEF broadcast, global_state, Handles
<1>2. DOMAIN sent = Channels /\ sent[c] \in Seq(Messages[c])
  BY DEF TypeOK
<1>3. \A d \in Channels : sent'[d] = IF d = c THEN Append(sent[c], m) ELSE sent[d]
  BY <1>1, <1>2
<1>4. ASSUME NEW d \in Channels PROVE Len(sent[d]) \in Nat /\ Len(sent[d]) <= Len(sent'[d])
  <2>1. sent[d] \in Seq(Messages[d])
    BY DEF TypeOK
  <2>2. CASE d = c
    <3>1. /\ Len(sent[c]) \in Nat /\ Len(Append(sent[c], m)) = Len(sent[c]) + 1
      BY <1>2
    <3>2. Len(sent'[d]) = Len(sent[c]) + 1
      BY <1>3, <2>2, <3>1
    <3>. QED  BY <2>2, <3>1, <3>2
  <2>3. CASE d # c
    BY <1>3, <2>1, <2>3
  <2>. QED  BY <2>2, <2>3
<1>5. SentOnce'
  <2>. SUFFICES ASSUME NEW d \in Channels, NEW i \in DOMAIN sent'[d], NEW j \in DOMAIN sent'[d],
                       sent'[d][i] = sent'[d][j]
                PROVE  i = j
    BY DEF SentOnce
  <2>1. CASE d # c
    BY <1>3, <2>1 DEF Growing, SentOnce
  <2>2. CASE d = c
    <3>1. sent'[d] = Append(sent[c], m)
      BY <1>3, <2>2
    <3>2. /\ DOMAIN sent[c] = 1..Len(sent[c]) /\ DOMAIN sent'[d] = 1..(Len(sent[c]) + 1)
          /\ \A k \in 1..Len(sent[c]) : sent'[d][k] = sent[c][k] /\ sent[c][k] # m
          /\ sent'[d][Len(sent[c]) + 1] = m
      BY <1>1, <1>2, <3>1 DEF Sent
    <3>. QED  BY <1>2, <3>2 DEF Growing, SentOnce
  <2>. QED  BY <2>1, <2>2
<1>6. ASSUME NEW t \in DOMAIN tasks'
      PROVE  TaskGood(tasks[t])' /\ \A d \in Channels : tasks'[t].born[d] <= Len(sent'[d])
  <2>1. t \in DOMAIN tasks /\ tasks'[t] = tasks[t]
    BY <1>1, <1>6
  <2>2. /\ tasks[t].received \in [Channels -> Nat] /\ tasks[t].born \in [Channels -> Nat]
        /\ \A d \in Channels : /\ tasks[t].received[d] <= Len(sent[d])
                               /\ tasks[t].born[d] <= Len(sent[d])
    BY <2>1, ProgressTyped
  <2>3. PICK task : task = tasks[t]
    OBVIOUS
  <2>4. TaskGood(task)'
    BY <1>1, <2>1, <2>2, <2>3, GoodKept DEF Growing
  <2>5. \A d \in Channels : tasks[t].born[d] \in Nat /\ Len(sent'[d]) \in Nat
    BY <1>2, <1>3, <1>4, <2>2
  <2>. QED  BY <1>4, <2>1, <2>2, <2>3, <2>4, <2>5
<1>7. ASSUME NEW id \in Handles' PROVE HandleGood(id)'
  BY <1>1, <1>7 DEF Growing, HandleGood, StateId, Leaf
<1>. QED  BY <1>1, <1>5, <1>6, <1>7 DEF Growing

\* One task goes on, the others and the handles stay.
LEMMA OneGrows ==
  ASSUME TypeOK, Growing, NEW t \in DOMAIN tasks, UNCHANGED <<sent, global_state>>,
         NEW next, tasks' = [tasks EXCEPT ![t] = next],
         TaskGood(next), next.born = tasks[t].born
  PROVE  Growing'
<1>1. UNCHANGED <<sent, spawned_builder_states>> /\ Handles' = Handles
  BY DEF global_state, Handles
<1>2. ASSUME NEW task, TaskGood(task) PROVE TaskGood(task)'
  <2>1. \A c, m, n : Within(c, m, n)' <=> Within(c, m, n)
    BY <1>1 DEF Within
  <2>2. \A q : /\ MissesHalf(task, q)' <=> MissesHalf(task, q)
               /\ \A c : Reached(task, c, q)' <=> Reached(task, c, q)
    BY <2>1 DEF MissesHalf, Reached
  <2>3. \A q : Judged(task, q)' <=> Judged(task, q)
    BY <1>1 DEF Judged, Left, ideal, MaxBelow, StateId
  <2>4. \A q : HalvesGood(task, q)' <=> HalvesGood(task, q)
    BY <2>2, <2>3 DEF HalvesGood
  <2>. QED  BY <1>1, <1>2, <2>2, <2>4 DEF TaskGood, StateId
<1>3. ASSUME NEW u \in DOMAIN tasks'
      PROVE  TaskGood(tasks[u])' /\ \A c \in Channels : tasks'[u].born[c] <= Len(sent'[c])
  <2>1. PICK task : task = tasks'[u]
    OBVIOUS
  <2>2. u \in DOMAIN tasks /\ ((tasks'[u] = next /\ u = t) \/ tasks'[u] = tasks[u])
    BY <1>3
  <2>3. TaskGood(task) /\ task.born = tasks[u].born
    BY <2>1, <2>2 DEF Growing
  <2>4. TaskGood(task)'
    BY <1>2, <2>3
  <2>. QED  BY <1>1, <2>1, <2>2, <2>3, <2>4 DEF Growing
<1>4. ASSUME NEW id \in Handles' PROVE HandleGood(id)'
  BY <1>1, <1>4 DEF Growing, HandleGood, StateId, Leaf
<1>. QED  BY <1>1, <1>3, <1>4 DEF Growing, SentOnce

\* A clone starts where its parent is: it misses what the parent has received.
\* Its parent has seen to the pair, and no handle gets another leaf.
LEMMA RegisterGrows ==
  ASSUME OnePerPayload, TypeOK, Growing, NEW t \in DOMAIN tasks, register_builder_state(t)
  PROVE  Growing'
<1>1. PICK q \in tasks[t].forking :
        /\ tasks' = Append([tasks EXCEPT ![t].forking = {}, ![t].checked = FALSE],
                           NewTask(StateId(q), tasks[t].received))
        /\ spawned_builder_states' =
              [id \in Handles \cup {StateId(q)} |->
                 IF id = StateId(q) THEN [task |-> Len(tasks) + 1, refs |-> Leaf(q)]
                 ELSE spawned_builder_states[id]]
  BY DEF register_builder_state
<1>2. /\ tasks \in Seq(Task) /\ tasks[t] \in Task /\ tasks[t].checked /\ sent' = sent
      /\ \A r \in tasks[t].forking : r = q
  BY DEF register_builder_state, TypeOK, Forks
<1>3. q \in Quorum /\ StateId(q) # BootstrapId
  BY <1>2 DEF Task, Growing, TaskGood
<1>4. Handles' = Handles \cup {StateId(q)} /\ StateId(q)' = StateId(q)
  BY <1>1 DEF Handles, StateId
<1>5. ASSUME NEW id \in Handles
      PROVE  spawned_builder_states'[id].refs = spawned_builder_states[id].refs
  <2>1. CASE id = StateId(q)
    <3>1. PICK p \in Quorum : id = StateId(p) /\ spawned_builder_states[id].refs = Leaf(p)
      BY <1>3, <2>1 DEF Growing, HandleGood
    <3>2. p = q
      BY <1>3, <2>1, <3>1 DEF OnePerPayload
    <3>3. spawned_builder_states'[id] = [task |-> Len(tasks) + 1, refs |-> Leaf(q)]
      BY <1>1, <2>1
    <3>. QED  BY <3>1, <3>2, <3>3
  <2>2. CASE id # StateId(q)
    BY <1>1, <2>2
  <2>. QED  BY <2>1, <2>2
<1>6. ASSUME NEW id \in Handles' PROVE HandleGood(id)'
  <2>1. CASE id \in Handles
    <3>1. HandleGood(id)
      BY <2>1 DEF Growing
    <3>. QED  BY <1>5, <2>1, <3>1 DEF HandleGood, StateId, Leaf
  <2>2. CASE id = StateId(q)
    <3>1. spawned_builder_states'[id] = [task |-> Len(tasks) + 1, refs |-> Leaf(q)]
      BY <1>1, <2>2
    <3>2. spawned_builder_states'[id].refs = Leaf(q)
      BY <3>1
    <3>. QED  BY <1>3, <2>2, <3>2 DEF HandleGood, StateId, Leaf
  <2>. QED  BY <1>4, <2>1, <2>2
<1>a. PICK child : child = NewTask(StateId(q), tasks[t].received)
  OBVIOUS
<1>b. PICK rest : rest = [tasks[t] EXCEPT !.forking = {}, !.checked = FALSE]
  OBVIOUS
<1>. DEFINE resting == [tasks EXCEPT ![t] = rest]
<1>7. /\ child.id = StateId(q) /\ child.running /\ child.da = {} /\ child.quorum = {}
      /\ child.received = tasks[t].received /\ child.born = tasks[t].received
      /\ ~child.checked
  BY <1>a DEF NewTask
<1>8. /\ rest.id = tasks[t].id /\ rest.running = tasks[t].running
      /\ rest.born = tasks[t].born /\ rest.received = tasks[t].received
      /\ rest.da = tasks[t].da /\ rest.quorum = tasks[t].quorum /\ ~rest.checked
      /\ rest \in Task
  BY <1>2, <1>b DEF Task
<1>9. tasks' = Append(resting, child)
  BY <1>1, <1>a, <1>b, Zenon
<1>10. resting \in Seq(Task) /\ Len(resting) = Len(tasks) /\ DOMAIN tasks = 1..Len(tasks)
  BY <1>2, <1>8
<1>11. ASSUME NEW u \in DOMAIN tasks'
       PROVE  \/ u \in DOMAIN tasks /\ tasks'[u] = IF u = t THEN rest ELSE tasks[u]
              \/ tasks'[u] = child
  <2>1. \/ u \in DOMAIN tasks /\ tasks'[u] = resting[u]
        \/ tasks'[u] = child
    <3>. HIDE DEF resting
    <3>. QED  BY <1>9, <1>10, <1>11
  <2>. QED  BY <2>1
<1>12. TaskGood(child)'
  <2>1. ASSUME NEW r PROVE Reached(child, "quorum", r)' => MissesHalf(child, r)'
    BY <1>7 DEF Reached, MissesHalf
  <2>2. ASSUME NEW r PROVE Reached(child, "da", PropId(r))' => MissesHalf(child, r)'
    BY <1>7 DEF Reached, MissesHalf, PropId
  <2>3. ASSUME NEW r \in Quorum, ~MissesHalf(child, r)' PROVE HalvesGood(child, r)'
    BY <2>1, <2>2, <2>3 DEF HalvesGood
  <2>. QED  BY <1>4, <1>7, <2>3 DEF TaskGood
<1>13. ASSUME NEW u \in DOMAIN tasks PROVE TaskGood(tasks[u]) /\ \A d \in Channels :
                                               tasks[u].born[d] <= Len(sent[d])
  BY DEF Growing
<1>14. ASSUME NEW task, NEW u \in DOMAIN tasks, task = tasks[u] PROVE TaskGood(task)'
  <2>1. /\ task.received \in [Channels -> Nat] /\ task.born \in [Channels -> Nat]
        /\ \A d \in Channels : task.received[d] <= Len(sent[d]) /\ task.born[d] <= Len(sent[d])
    BY <1>14, ProgressTyped
  <2>2. TaskGood(task)
    BY <1>13, <1>14
  <2>. QED  BY <1>2, <1>4, <1>5, <2>1, <2>2, GoodKept
<1>15. TaskGood(rest)'
  <2>1. PICK task : task = tasks[t]
    OBVIOUS
  <2>2. TaskGood(task)'
    BY <1>14, <2>1
  <2>3. /\ \A r : MissesHalf(rest, r)' <=> MissesHalf(task, r)'
        /\ \A c, m : Reached(rest, c, m)' <=> Reached(task, c, m)'
    BY <1>8, <2>1 DEF MissesHalf, Reached
  <2>4. ASSUME NEW r, Judged(task, r)' PROVE Judged(rest, r)'
    BY <1>2, <1>4, <1>8, <2>1, <2>4 DEF Judged
  <2>5. ASSUME NEW r, HalvesGood(task, r)' PROVE HalvesGood(rest, r)'
    BY <1>8, <2>1, <2>3, <2>4, <2>5 DEF HalvesGood
  <2>. QED  BY <1>8, <2>1, <2>2, <2>3, <2>5 DEF TaskGood
<1>16. ASSUME NEW u \in DOMAIN tasks'
       PROVE  TaskGood(tasks[u])' /\ \A d \in Channels : tasks'[u].born[d] <= Len(sent'[d])
  <2>1. CASE tasks'[u] = child
    <3>1. \A d \in Channels : tasks[t].received[d] <= Len(sent[d])
      BY ProgressTyped
    <3>. QED  BY <1>2, <1>7, <1>12, <2>1, <3>1
  <2>2. CASE u \in DOMAIN tasks /\ u = t /\ tasks'[u] = rest
    BY <1>2, <1>8, <1>13, <1>15, <2>2
  <2>3. CASE u \in DOMAIN tasks /\ u # t /\ tasks'[u] = tasks[u]
    <3>1. PICK task : task = tasks[u]
      OBVIOUS
    <3>2. TaskGood(task)'
      BY <1>14, <2>3, <3>1
    <3>. QED  BY <1>2, <1>13, <2>3, <3>1, <3>2
  <2>. QED  BY <1>11, <2>1, <2>2, <2>3
<1>. QED  BY <1>2, <1>4, <1>6, <1>16 DEF Growing, SentOnce

\* At the start there is the bootstrap task, and nothing was sent.
LEMMA InitGrows == Init => GrowsUndecided
<1>. SUFFICES ASSUME Init PROVE Growing
  BY DEF GrowsUndecided
<1>1. /\ \A c \in Channels : sent[c] = <<>>
      /\ Handles = {BootstrapId}
      /\ tasks = <<NewTask(BootstrapId, [c \in Channels |-> 0])>>
  BY DEF Init, Handles
<1>2. /\ DOMAIN tasks = {1} /\ tasks[1].id = BootstrapId /\ tasks[1].running
      /\ tasks[1].da = {} /\ tasks[1].quorum = {} /\ ~tasks[1].checked
      /\ tasks[1].received = [c \in Channels |-> 0] /\ tasks[1].born = [c \in Channels |-> 0]
  BY <1>1 DEF NewTask
<1>3. \A c \in Channels : \A m : ~Reached(tasks[1], c, m)
  BY <1>2 DEF Reached, Within
<1>4. "da" \in Channels /\ "quorum" \in Channels
  BY DEF Channels
<1>5. TaskGood(tasks[1])
  BY <1>1, <1>2, <1>3, <1>4 DEF TaskGood, HalvesGood
<1>6. SentOnce /\ \A id \in Handles : HandleGood(id)
  BY <1>1 DEF SentOnce, HandleGood
<1>. QED  BY <1>1, <1>2, <1>5, <1>6 DEF Growing

\* No step before the first decide undoes anything.
LEMMA NextGrows ==
  ASSUME OnePerPayload, TypeOK, GrowsUndecided, [Next]_vars
  PROVE  GrowsUndecided'
<1>. SUFFICES ASSUME sent'["decide"] = <<>> PROVE Growing'
  BY DEF GrowsUndecided
<1>0. /\ DOMAIN sent = Channels /\ sent["decide"] \in Seq(Decides)
      /\ "da" \in Channels /\ "quorum" \in Channels /\ "decide" \in Channels
      /\ \A t \in DOMAIN tasks : tasks[t].received["decide"] \in Nat
  <2>1. "da" \in Channels /\ "quorum" \in Channels /\ "decide" \in Channels
    BY DEF Channels
  <2>2. \A t \in DOMAIN tasks : tasks[t] \in Task
    BY DEF TypeOK
  <2>. QED  BY <2>1, <2>2 DEF TypeOK, Messages, Task, Received
<1>1. ASSUME NEW view \in Decides PROVE ~handle_decide_event(view)
  <2>1. ASSUME handle_decide_event(view) PROVE FALSE
    <3>1. sent'["decide"] = Append(sent["decide"], view)
      BY <1>0, <2>1 DEF handle_decide_event, broadcast
    <3>. QED  BY <1>0, <3>1
  <2>. QED  BY <2>1
<1>2. sent["decide"] = <<>>
  <2>1. CASE sent' = sent
    BY <2>1
  <2>2. CASE \E half \in PropIds : handle_da_event(half)
    BY <1>0, <2>2 DEF handle_da_event, broadcast
  <2>3. CASE \E q \in Quorum : handle_quorum_event(q)
    BY <1>0, <2>3 DEF handle_quorum_event, broadcast
  <2>. QED  BY <1>1, <2>1, <2>2, <2>3 DEF Next, vars, process_da_proposal,
              process_quorum_proposal, process_decide_event, spawn_clone, register_builder_state
<1>3. Growing
  BY <1>2 DEF GrowsUndecided
<1>4. ASSUME NEW t \in DOMAIN tasks PROVE ~process_decide_event(t)
  BY <1>0, <1>2 DEF process_decide_event, ready
<1>5. CASE \E half \in PropIds : handle_da_event(half)
  BY <1>0, <1>3, <1>5, BroadcastGrows DEF handle_da_event, Messages
<1>6. CASE \E q \in Quorum : handle_quorum_event(q)
  BY <1>0, <1>3, <1>6, BroadcastGrows DEF handle_quorum_event, Messages
<1>7. ASSUME NEW t \in DOMAIN tasks, process_da_proposal(t) \/ process_quorum_proposal(t)
      PROVE  Growing'
  BY <1>3, <1>7, TakeGood, OneGrows
<1>8. ASSUME NEW t \in DOMAIN tasks, spawn_clone(t) PROVE Growing'
  BY <1>3, <1>8, SpawnGood, OneGrows
<1>9. ASSUME NEW t \in DOMAIN tasks, register_builder_state(t) PROVE Growing'
  BY <1>3, <1>9, RegisterGrows
<1>10. CASE UNCHANGED vars
  <2>1. 1 \in DOMAIN tasks
    BY DEF TypeOK
  <2>2. PICK next : next = tasks[1]
    OBVIOUS
  <2>3. tasks \in Seq(Task) /\ tasks' = tasks /\ UNCHANGED <<sent, global_state>>
    BY <1>10 DEF TypeOK, vars
  <2>4. tasks' = [tasks EXCEPT ![1] = next]
    BY <2>1, <2>2, <2>3
  <2>5. TaskGood(next)
    BY <1>3, <2>1, <2>2 DEF Growing
  <2>. QED  BY <1>3, <2>1, <2>2, <2>3, <2>4, <2>5, OneGrows
<1>. QED  BY <1>1, <1>4, <1>5, <1>6, <1>7, <1>8, <1>9, <1>10 DEF Next

\* Among the states below a view there is one of the highest view.
LEMMA HighestBelow ==
  ASSUME NEW ids, \A id \in ids : id.parent_view \in Nat, NEW view \in Nat,
         \E id \in ids : id.parent_view < view
  PROVE  MaxBelow(ids, view) # {}
<1>. DEFINE below == {id \in ids : id.parent_view < view}
            gaps == {view - id.parent_view : id \in below}
<1>1. gaps \in SUBSET Nat /\ gaps # {}
  OBVIOUS
<1>2. PICK g \in gaps : \A h \in gaps : ~(<<h, g>> \in OpToRel(<, Nat))
  BY <1>1, WFMin, NatLessThanWellFounded, Zenon
<1>3. g \in Nat /\ \A h \in gaps : h \in Nat /\ ~(h < g)
  BY <1>1, <1>2 DEF OpToRel
<1>4. PICK id \in below : g = view - id.parent_view
  OBVIOUS
<1>5. ASSUME NEW other \in ids, other.parent_view < view
      PROVE  other.parent_view <= id.parent_view
  <2>1. view - other.parent_view \in gaps
    BY <1>5
  <2>2. ~(view - other.parent_view < view - id.parent_view)
    BY <1>3, <1>4, <2>1
  <2>. QED  BY <1>4, <1>5, <2>2
<1>. QED  BY <1>4, <1>5 DEF MaxBelow

\* A pair is lost before the first decide only if its state exists, if all
\* states are ahead of it, or to a fork between its halves: the best state to
\* extend does not leave the pair to another (am_i_the_best_builder_state_to_extend).
THEOREM PairIsLostOnlyToFork ==
  ASSUME OnePerPayload
  PROVE  Spec => []PairLostOnlyToFork
<1>1. TypeOK /\ GrowsUndecided /\ [Next]_vars => GrowsUndecided'
  BY NextGrows
<1>2. TypeOK /\ HandlesRun /\ GrowsUndecided => PairLostOnlyToFork
  <2>. SUFFICES ASSUME TypeOK, HandlesRun, Growing, Quiet,
                       NEW q \in Sent("quorum"), PropId(q) \in Sent("da"),
                       StateId(q) \notin Handles,
                       ~(\A id \in Handles : id.parent_view >= q.view_number),
                       \A t \in DOMAIN tasks : ~MissesHalf(tasks[t], q)
                PROVE  FALSE
    BY DEF PairLostOnlyToFork, GrowsUndecided
  <2>1. /\ q \in Quorum /\ "da" \in Channels /\ "quorum" \in Channels
        /\ \A c \in Channels : sent[c] \in Seq(Messages[c])
    <3>1. "da" \in Channels /\ "quorum" \in Channels
      BY DEF Channels
    <3>2. \A c \in Channels : sent[c] \in Seq(Messages[c])
      BY DEF TypeOK
    <3>3. sent["quorum"] \in Seq(Quorum)
      BY <3>1, <3>2 DEF Messages
    <3>4. q \in Quorum
      BY <3>3 DEF Sent
    <3>. QED  BY <3>1, <3>2, <3>4
  <2>2. q.view_number \in Nat /\ \A id \in Handles : id.parent_view \in Nat
    BY <2>1, LegacyAssumption, ViewsTyped DEF TypeOK
  <2>3. ASSUME NEW id \in Handles PROVE Left(id, q)
    <3>1. PICK t \in DOMAIN tasks : tasks[t].running /\ tasks[t].id = id
      BY DEF HandlesRun
    <3>2. /\ tasks[t].forking = {}
          /\ \A c \in Channels : tasks[t].received[c] = Len(sent[c])
      BY <3>1 DEF Quiet
    <3>3. Reached(tasks[t], "quorum", q) /\ Reached(tasks[t], "da", PropId(q))
      BY <2>1, <3>2 DEF Reached, Within, Sent
    <3>4. Judged(tasks[t], q)
      BY <2>1, <3>1, <3>3 DEF Growing, TaskGood, HalvesGood
    <3>. QED  BY <3>1, <3>2, <3>4 DEF Judged
  <2>4. ideal(q) = {}
    BY <2>3 DEF Left, ideal
  <2>5. PICK id : id \in MaxBelow(Handles, q.view_number)
    BY <2>2, HighestBelow
  <2>. QED  BY <2>3, <2>4, <2>5 DEF Left, MaxBelow
<1>3. Spec => []GrowsUndecided
  BY <1>1, InitGrows, TypeCorrect, PTL DEF Spec
<1>. QED  BY <1>2, <1>3, TypeCorrect, HandlesLeadToTasks, PTL

=============================================================================
