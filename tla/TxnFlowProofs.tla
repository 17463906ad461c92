--------------------------- MODULE TxnFlowProofs ---------------------------
(***************************************************************************)
(* Theorems about TxnFlow, for every number of transactions, states and    *)
(* builder tasks and every channel capacity.  What is claimed of a stored  *)
(* state must also hold of the child that is put together under locks      *)
(* taken one after the other, so IInv speaks of both.                      *)
(***************************************************************************)
EXTENDS TxnFlow, TLAPS

\* A queue only holds what its state is done with: n transactions.
Positions(state, n) == state.queue.transactions \subseteq 1 .. n

\* Where the transactions of the last three blocks are remembered: a block
\* moves on by one set at most per child.
Remembered(state) ==
    /\ state.recent[1] \subseteq state.included.fresh
    /\ state.recent[2] \subseteq state.included.fresh \cup state.included.stale
    /\ \A t \in state.recent[3] : contains(state.included, t)

\* Nothing remembered is queued.
Disjoint(state) == \A t \in state.queue.commits : ~contains(state.included, t)

\* Only transactions of the branch's blocks are remembered.
InBlocks(state) == \A t \in Txns : contains(state.included, t) => t \in state.blocks

\* What holds of a state that is done with n transactions.
Good(state, n) == /\ state \in BuilderState
                  /\ n \in Nat /\ n <= state.pos
                  /\ state.pos <= Len(sent)
                  /\ Positions(state, n)
                  /\ InSync(state.queue)
                  /\ Remembered(state)
                  /\ Disjoint(state)
                  /\ InBlocks(state)
                  /\ ~state.gapped => Complete(state, n)

StatesGood == \A id \in DOMAIN states : Good(states[id], settled(id))

\* The child between the clone of the queue and the insert.
ChildGood ==
    spawning.phase \in {"receiver", "insert"} => Good(spawning.child, spawning.child.pos)

\* The receiver's lock keeps the other builders out, and what is waiting to
\* be inserted is not remembered as included.
OneInserter == \A b, c \in inserting : holding[b] = holding[c] => b = c

InsertingNew ==
    \A b \in inserting : LET state == states[holding[b]]
                         IN  state.pos > 0 /\ ~contains(state.included, sent[state.pos])

\* The state a spawned child gets its id from is not there yet.
ChildIsNew == spawning # Idle => spawning.id \notin DOMAIN states

\* The included set a spawn starts from is its parent's, rotated or not.
RotatedFromParent ==
    spawning.phase = "queue" =>
        spawning.included \in rotations(states[spawning.parent].included)

\* The parent moves on from the position at which its queue was cloned.
ChildBehindParent ==
    spawning.phase = "receiver" => spawning.child.pos <= states[spawning.parent].pos

IInv == /\ TypeOK
        /\ StatesGood
        /\ ChildGood
        /\ OneInserter
        /\ InsertingNew
        /\ ChildIsNew
        /\ RotatedFromParent
        /\ ChildBehindParent

----------------------------------------------------------------------------
(* Lemmas on queues and states *)

\* What prune leaves of a queue in sync is in sync, without the pruned.
LEMMA PruneInSync ==
  ASSUME NEW queue, InSync(queue), NEW txns
  PROVE  /\ InSync(queue_prune(queue, txns))
         /\ queue_prune(queue, txns).commits = queue.commits \ txns
         /\ queue_prune(queue, txns).transactions \subseteq queue.transactions
  BY DEF InSync, queue_prune

\* insert keeps a queue in sync, and the transaction is in it afterwards.
LEMMA InsertInSync ==
  ASSUME NEW queue \in Queues, InSync(queue), NEW i \in Nat, sent[i] \in Txns
  PROVE  /\ queue_insert(queue, i) \in Queues
         /\ InSync(queue_insert(queue, i))
         /\ queue_insert(queue, i).commits = queue.commits \cup {sent[i]}
         /\ queue_insert(queue, i).transactions \subseteq queue.transactions \cup {i}
  BY DEF InSync, queue_insert, Queues

\* pop_front keeps a queue in sync.
LEMMA RemoveInSync ==
  ASSUME NEW queue \in Queues, InSync(queue), NEW i \in queue.transactions
  PROVE  /\ queue_remove(queue, i) \in Queues
         /\ InSync(queue_remove(queue, i))
         /\ queue_remove(queue, i).commits = queue.commits \ {sent[i]}
         /\ queue_remove(queue, i).transactions = queue.transactions \ {i}
  BY DEF InSync, queue_remove, Queues

\* A broadcast changes nothing about states: they refer to what was sent.
LEMMA GoodAfterBroadcast ==
  ASSUME sent \in Seq(Txns), NEW t \in Txns, sent' = Append(sent, t),
         NEW CONSTANT state, NEW CONSTANT n, Good(state, n)
  PROVE  Good(state, n)'
<1>1. Len(sent') = Len(sent) + 1 /\ \A i \in 1 .. Len(sent) : sent'[i] = sent[i]
  OBVIOUS
<1>2. state.pos \in Nat /\ state.pos <= Len(sent) /\ n \in Nat /\ n <= state.pos
  BY DEF Good, BuilderState
<1>3. \A i \in 1 .. n : sent'[i] = sent[i]
  BY <1>1, <1>2
<1>4. state.queue.transactions \subseteq 1 .. n
  BY DEF Good, Positions
<1>5. InSync(state.queue)'
  <2>1. \A i \in state.queue.transactions : sent'[i] = sent[i]
    BY <1>3, <1>4
  <2>2. {sent'[i] : i \in state.queue.transactions}
           = {sent[i] : i \in state.queue.transactions}
    BY <2>1
  <2>. QED  BY <2>1, <2>2 DEF Good, InSync
<1>6. (~state.gapped => Complete(state, n))'
  BY <1>3 DEF Good, Complete
<1>7. (state.pos <= Len(sent))'
  BY <1>1, <1>2
<1>. QED  BY <1>5, <1>6, <1>7 DEF Good, Positions, Remembered, Disjoint, InBlocks

\* A state that a step does not touch stays good if nothing is broadcast.
LEMMA GoodKept ==
  ASSUME UNCHANGED sent, NEW CONSTANT state, NEW CONSTANT n, Good(state, n)
  PROVE  Good(state, n)'
  BY DEF Good, Positions, InSync, Remembered, Disjoint, InBlocks, Complete

\* try_recv: the state is done with a transaction only if its branch has
\* included it.
LEMMA GoodAfterRecv ==
  ASSUME sent \in Seq(Txns), NEW state, Good(state, state.pos), state.pos + 1 <= Len(sent)
  PROVE  LET next == state.pos + 1
             new == [state EXCEPT !.pos = next]
         IN  Good(new, IF contains(state.included, sent[next]) THEN next ELSE state.pos)
<1>. DEFINE next == state.pos + 1
            new == [state EXCEPT !.pos = next]
            n == IF contains(state.included, sent[next]) THEN next ELSE state.pos
<1>1. state \in BuilderState /\ state.pos \in Nat /\ next \in Nat /\ next \in 1 .. Len(sent)
  BY DEF Good, BuilderState
<1>2. sent[next] \in Txns
  BY <1>1
<1>3. /\ new \in BuilderState /\ new.pos = next /\ new.queue = state.queue
      /\ new.included = state.included /\ new.blocks = state.blocks
      /\ new.recent = state.recent /\ new.gapped = state.gapped
  BY <1>1 DEF BuilderState
<1>4. n \in Nat /\ n <= next /\ state.pos <= n
  BY <1>1
<1>5. Positions(new, n)
  BY <1>1, <1>3, <1>4 DEF Good, Positions
<1>6. ~new.gapped => Complete(new, n)
  <2>. SUFFICES ASSUME ~state.gapped, NEW i \in 1 .. n
                PROVE  sent[i] \in state.queue.commits \cup state.blocks
    BY <1>3 DEF Complete
  <2>1. CASE i = next
    <3>1. contains(state.included, sent[next])
      BY <1>1, <2>1
    <3>. QED  BY <1>2, <2>1, <3>1 DEF Good, InBlocks
  <2>2. CASE i # next
    <3>1. i \in 1 .. state.pos
      BY <1>1, <1>4, <2>2
    <3>. QED  BY <3>1 DEF Good, Complete
  <2>. QED  BY <2>1, <2>2
<1>. HIDE DEF new, n
<1>7. Good(new, n)
  BY <1>1, <1>3, <1>4, <1>5, <1>6 DEF Good, Remembered, Disjoint, InBlocks, contains
<1>. QED  BY <1>7 DEF new, n

\* insert: the state is done with what it received.
LEMMA GoodAfterInsert ==
  ASSUME sent \in Seq(Txns), NEW state, Good(state, state.pos - 1), state.pos > 0,
         ~contains(state.included, sent[state.pos])
  PROVE  Good([state EXCEPT !.queue = queue_insert(state.queue, state.pos)], state.pos)
<1>. DEFINE queue == queue_insert(state.queue, state.pos)
            new == [state EXCEPT !.queue = queue]
<1>1. /\ state \in BuilderState /\ state.pos \in Nat /\ state.pos \in 1 .. Len(sent)
      /\ state.queue \in Queues
  BY DEF Good, BuilderState
<1>2. sent[state.pos] \in Txns
  BY <1>1
<1>3. /\ queue \in Queues
      /\ InSync(queue)
      /\ queue.commits = state.queue.commits \cup {sent[state.pos]}
      /\ queue.transactions \subseteq state.queue.transactions \cup {state.pos}
  BY <1>1, <1>2, InsertInSync DEF Good
<1>. HIDE DEF queue
<1>4. /\ new \in BuilderState /\ new.pos = state.pos /\ new.queue = queue
      /\ new.included = state.included /\ new.blocks = state.blocks
      /\ new.recent = state.recent /\ new.gapped = state.gapped
  BY <1>1, <1>3 DEF BuilderState
<1>5. Positions(new, state.pos)
  BY <1>1, <1>3, <1>4 DEF Good, Positions
<1>6. Disjoint(new)
  BY <1>3, <1>4 DEF Good, Disjoint, contains
<1>7. ~new.gapped => Complete(new, state.pos)
  <2>. SUFFICES ASSUME ~state.gapped, NEW i \in 1 .. state.pos
                PROVE  sent[i] \in queue.commits \cup state.blocks
    BY <1>4 DEF Complete
  <2>1. CASE i = state.pos
    BY <1>3, <2>1
  <2>2. CASE i # state.pos
    <3>1. i \in 1 .. (state.pos - 1)
      BY <1>1, <2>2
    <3>. QED  BY <1>3, <3>1 DEF Good, Complete
  <2>. QED  BY <2>1, <2>2
<1>. HIDE DEF new
<1>8. Good(new, state.pos)
  BY <1>1, <1>3, <1>4, <1>5, <1>6, <1>7 DEF Good, Remembered, InBlocks, contains
<1>. QED  BY <1>8 DEF new, queue

\* pop_front: what is popped is accounted for.
LEMMA GoodAfterPop ==
  ASSUME sent \in Seq(Txns), NEW state, NEW n, Good(state, n),
         NEW i \in state.queue.transactions
  PROVE  Good([state EXCEPT !.queue = queue_remove(state.queue, i),
                            !.blocks = state.blocks \cup {sent[i]}], n)
<1>. DEFINE queue == queue_remove(state.queue, i)
            new == [state EXCEPT !.queue = queue, !.blocks = state.blocks \cup {sent[i]}]
<1>1. /\ state \in BuilderState /\ state.pos \in Nat /\ n \in Nat /\ n <= Len(sent)
      /\ state.queue \in Queues
  BY DEF Good, BuilderState
<1>2. i \in 1 .. Len(sent)
  BY <1>1 DEF Good, Positions
<1>3. sent[i] \in Txns
  BY <1>2
<1>4. /\ queue \in Queues
      /\ InSync(queue)
      /\ queue.commits = state.queue.commits \ {sent[i]}
      /\ queue.transactions \subseteq state.queue.transactions
  BY <1>1, RemoveInSync DEF Good
<1>. HIDE DEF queue
<1>5. /\ new \in BuilderState /\ new.pos = state.pos /\ new.queue = queue
      /\ new.included = state.included /\ new.blocks = state.blocks \cup {sent[i]}
      /\ new.recent = state.recent /\ new.gapped = state.gapped
  BY <1>1, <1>3, <1>4 DEF BuilderState
<1>6. Positions(new, n) /\ Disjoint(new) /\ InBlocks(new)
  BY <1>4, <1>5 DEF Good, Positions, Disjoint, InBlocks, contains
<1>7. ~new.gapped => Complete(new, n)
  BY <1>4, <1>5 DEF Good, Complete
<1>. HIDE DEF new
<1>8. Good(new, n)
  BY <1>4, <1>5, <1>6, <1>7 DEF Good, Remembered, contains
<1>. QED  BY <1>8 DEF new, queue

\* The child is good as long as the position it has is the one its queue was
\* cloned at, for any choice to rotate or not.
LEMMA GoodAfterClone ==
  ASSUME NEW parent, NEW n, Good(parent, n), NEW included \in rotations(parent.included),
         NEW block \in SUBSET Txns
  PROVE  Good([included |-> extend(included, block),
               queue |-> queue_prune(parent.queue, block),
               pos |-> n,
               blocks |-> parent.blocks \cup block,
               recent |-> <<block, parent.recent[1], parent.recent[2]>>,
               gapped |-> parent.gapped], n)
<1>. DEFINE queue == queue_prune(parent.queue, block)
            set == extend(included, block)
            child == [included |-> set, queue |-> queue, pos |-> n,
                      blocks |-> parent.blocks \cup block,
                      recent |-> <<block, parent.recent[1], parent.recent[2]>>,
                      gapped |-> parent.gapped]
<1>1. /\ parent \in BuilderState
      /\ parent.included \in Sets
      /\ parent.queue \in Queues
      /\ parent.recent \in (SUBSET Txns) \X (SUBSET Txns) \X (SUBSET Txns)
      /\ parent.blocks \in SUBSET Txns /\ n \in Nat /\ n <= Len(sent) /\ parent.gapped \in BOOLEAN
  BY DEF Good, BuilderState
<1>2. /\ InSync(queue)
      /\ queue.commits = parent.queue.commits \ block
      /\ queue.transactions \subseteq parent.queue.transactions
  BY PruneInSync DEF Good
<1>3. queue \in Queues
  <2>1. queue = [commits |-> queue.commits, transactions |-> queue.transactions]
    BY DEF queue_prune
  <2>. QED  BY <1>1, <1>2, <2>1 DEF Queues
<1>4. included \in Sets
  BY <1>1 DEF rotations, force_rotate, Sets
<1>5. /\ set \in Sets
      /\ set.fresh = included.fresh \cup block
      /\ set.stale = included.stale /\ set.expiring = included.expiring
  BY <1>4 DEF extend, Sets
<1>6. /\ \A t : contains(included, t) => contains(parent.included, t)
      /\ parent.recent[1] \subseteq included.fresh \cup included.stale
      /\ \A t \in parent.recent[2] : contains(included, t)
  BY DEF rotations, force_rotate, Good, Remembered, contains
<1>. HIDE DEF queue, set
<1>7. child \in BuilderState
  BY <1>1, <1>3, <1>5 DEF BuilderState
<1>8. child.pos = n /\ Positions(child, n)
  BY <1>2 DEF Good, Positions
<1>9. Remembered(child)
  BY <1>5, <1>6 DEF Remembered, contains
<1>10. Disjoint(child) /\ InBlocks(child)
  BY <1>1, <1>2, <1>5, <1>6 DEF Good, Disjoint, InBlocks, contains, Queues
<1>11. ~child.gapped => Complete(child, n)
  BY <1>2 DEF Good, Complete
<1>12. Good(child, n)
  BY <1>1, <1>2, <1>7, <1>8, <1>9, <1>10, <1>11 DEF Good
<1>. QED  BY <1>12 DEF queue, set

----------------------------------------------------------------------------
(* Every action keeps the invariant *)

\* Builders that keep what they hold and insert leave `settled` as it is.
LEMMA SettledKept ==
  ASSUME NEW i, inserting' = inserting,
         \A b \in inserting : holding'[b] = holding[b],
         states'[i].pos = states[i].pos
  PROVE  settled(i)' = settled(i)
  BY DEF settled, receiver_locked

\* Steps that leave the channel, the states and the spawn alone.
LEMMA QuietStep ==
  ASSUME IInv, UNCHANGED <<sent, states, spawning, inserting>>,
         \A b \in inserting : holding'[b] = holding[b],
         stored' \subseteq DOMAIN states,
         holding' \in [Builders -> DOMAIN states \cup {NoState}]
  PROVE  IInv'
<1>1. TypeOK'
  BY DEF IInv, TypeOK
<1>2. \A i \in DOMAIN states : settled(i)' = settled(i)
  BY SettledKept
<1>3. StatesGood' /\ ChildGood'
  BY <1>2 DEF IInv, StatesGood, ChildGood, Good, Positions, InSync, Remembered, Disjoint,
              InBlocks, Complete
<1>4. RotatedFromParent' /\ ChildBehindParent' /\ ChildIsNew'
  BY DEF IInv, RotatedFromParent, ChildBehindParent, ChildIsNew
<1>5. OneInserter' /\ InsertingNew'
  BY DEF IInv, OneInserter, InsertingNew
<1>. QED  BY <1>1, <1>3, <1>4, <1>5 DEF IInv

\* handle_transaction: every state and the child stay good.
LEMMA BroadcastStep ==
  ASSUME IInv, NEW t \in Txns, handle_transaction(t)
  PROVE  IInv'
<1>1. /\ sent \in Seq(Txns) /\ sent' = Append(sent, t)
      /\ UNCHANGED <<states, stored, spawning, holding, inserting>>
  BY DEF IInv, TypeOK, handle_transaction
<1>2. /\ sent' \in Seq(Txns) /\ Len(sent') = Len(sent) + 1
      /\ \A i \in 1 .. Len(sent) : sent'[i] = sent[i]
  BY <1>1
<1>3. TypeOK'
  <2>1. \A id \in DOMAIN states : states[id].pos \in Nat /\ states[id].pos <= Len(sent)
    BY DEF IInv, TypeOK, BuilderState
  <2>2. spawning.phase \in {"receiver", "insert"} => spawning.child.pos <= Len(sent')
    BY <1>1, <1>2 DEF IInv, ChildGood, Good, BuilderState
  <2>3. spawning \in [phase : {"receiver", "insert"}, id : Ids, parent : DOMAIN states,
                      child : BuilderState] => spawning.phase \in {"receiver", "insert"}
    OBVIOUS
  <2>. QED  BY <1>1, <1>2, <2>1, <2>2, <2>3 DEF IInv, TypeOK
<1>4. ASSUME NEW id \in DOMAIN states'
      PROVE  Good(states[id], settled(id))'
  <2>1. PICK state : state = states[id] /\ state = states'[id]
    BY <1>1
  <2>2. PICK n : n = settled(id) /\ n = settled(id)'
    BY <1>1, SettledKept
  <2>3. Good(state, n)
    BY <1>1, <1>4, <2>1, <2>2 DEF IInv, StatesGood
  <2>4. Good(state, n)'
    BY <1>1, <2>3, GoodAfterBroadcast
  <2>. QED  BY <2>1, <2>2, <2>4
<1>5. ChildGood'
  <2>. SUFFICES ASSUME spawning.phase \in {"receiver", "insert"}
                PROVE  Good(spawning.child, spawning.child.pos)'
    BY <1>1 DEF ChildGood
  <2>1. PICK state : state = spawning.child /\ state = spawning'.child
    BY <1>1
  <2>2. Good(state, state.pos)
    BY <2>1 DEF IInv, ChildGood
  <2>3. Good(state, state.pos)'
    BY <1>1, <2>2, GoodAfterBroadcast
  <2>. QED  BY <2>1, <2>3
<1>6. RotatedFromParent' /\ ChildBehindParent' /\ ChildIsNew' /\ OneInserter'
  BY <1>1 DEF IInv, RotatedFromParent, ChildBehindParent, ChildIsNew, OneInserter
<1>7. InsertingNew'
  <2>. SUFFICES ASSUME NEW b \in inserting
                PROVE  /\ states[holding[b]].pos > 0
                       /\ ~contains(states[holding[b]].included, sent'[states[holding[b]].pos])
    BY <1>1 DEF InsertingNew
  <2>1. holding[b] \in DOMAIN states
    BY DEF IInv, TypeOK
  <2>2. states[holding[b]].pos \in 1 .. Len(sent)
    BY <2>1 DEF IInv, InsertingNew, TypeOK, BuilderState
  <2>. QED  BY <1>2, <2>2 DEF IInv, InsertingNew
<1>. QED  BY <1>3, <1>4, <1>5, <1>6, <1>7 DEF IInv, StatesGood

\* A builder's step on one state: if that state is good again and the others
\* are done with as much as before, the invariant is kept.
LEMMA BuilderStep ==
  ASSUME IInv, NEW CONSTANT id \in DOMAIN states, NEW CONSTANT new, NEW CONSTANT n,
         UNCHANGED <<sent, stored, spawning>>,
         states' = [states EXCEPT ![id] = new],
         holding' \in [Builders -> DOMAIN states \cup {NoState}],
         inserting' \subseteq {b \in Builders : holding'[b] # NoState},
         Good(new, n), settled(id)' = n,
         \A i \in DOMAIN states \ {id} : settled(i)' = settled(i),
         new.included = states[id].included, states[id].pos <= new.pos,
         OneInserter', InsertingNew'
  PROVE  IInv'
<1>1. /\ DOMAIN states' = DOMAIN states
      /\ \A i \in DOMAIN states : states'[i] = IF i = id THEN new ELSE states[i]
  OBVIOUS
<1>2. TypeOK'
  BY <1>1 DEF IInv, TypeOK, Good
<1>3. ASSUME NEW i \in DOMAIN states'
      PROVE  Good(states[i], settled(i))'
  <2>1. PICK state : state = states'[i]
    OBVIOUS
  <2>2. PICK m : m = settled(i)'
    OBVIOUS
  <2>3. Good(state, m)
    BY <1>1, <1>3, <2>1, <2>2 DEF IInv, StatesGood
  <2>4. Good(state, m)'
    BY <2>3, GoodKept
  <2>. QED  BY <2>1, <2>2, <2>4
<1>4. ChildGood'
  <2>. SUFFICES ASSUME spawning.phase \in {"receiver", "insert"}
                PROVE  Good(spawning.child, spawning.child.pos)'
    BY DEF ChildGood
  <2>1. PICK state : state = spawning.child /\ state = spawning'.child
    OBVIOUS
  <2>2. Good(state, state.pos)
    BY <2>1 DEF IInv, ChildGood
  <2>3. Good(state, state.pos)'
    BY <2>2, GoodKept
  <2>. QED  BY <2>1, <2>3
<1>5. RotatedFromParent'
  <2>. SUFFICES ASSUME spawning.phase = "queue"
                PROVE  spawning.included \in rotations(states'[spawning.parent].included)
    BY DEF RotatedFromParent
  <2>1. spawning.parent \in DOMAIN states
    BY DEF IInv, TypeOK, Idle
  <2>. QED  BY <1>1, <2>1 DEF IInv, RotatedFromParent
<1>6. ChildBehindParent'
  <2>. SUFFICES ASSUME spawning.phase = "receiver"
                PROVE  spawning.child.pos <= states'[spawning.parent].pos
    BY DEF ChildBehindParent
  <2>1. spawning.parent \in DOMAIN states /\ spawning.child.pos \in Nat
    BY DEF IInv, TypeOK, Idle, BuilderState
  <2>2. spawning.child.pos <= states[spawning.parent].pos
    BY DEF IInv, ChildBehindParent
  <2>3. states[spawning.parent].pos \in Nat /\ new.pos \in Nat
    BY <2>1 DEF IInv, TypeOK, BuilderState, Good
  <2>. QED  BY <1>1, <2>1, <2>2, <2>3
<1>7. ChildIsNew'
  BY <1>1 DEF IInv, ChildIsNew
<1>. QED  BY <1>2, <1>3, <1>4, <1>5, <1>6, <1>7 DEF IInv, StatesGood

\* try_recv: the state moves on, and the builder may start to insert.
LEMMA RecvStep ==
  ASSUME IInv, NEW b \in Builders, try_recv(b)
  PROVE  IInv'
<1>. DEFINE next == states[holding[b]].pos + 1
<1>1. PICK id : id = holding[b]
  OBVIOUS
<1>2. PICK new : new = [states[id] EXCEPT !.pos = states[id].pos + 1]
  OBVIOUS
<1>3. /\ id \in DOMAIN states
      /\ ~receiver_locked(id)
      /\ states[id].pos + 1 <= Len(sent)
      /\ states' = [states EXCEPT ![id] = new]
      /\ UNCHANGED <<sent, stored, spawning, holding>>
  BY <1>1, <1>2 DEF IInv, TypeOK, try_recv
<1>4. inserting' = IF contains(states[id].included, sent[next]) THEN inserting
                   ELSE inserting \cup {b}
  BY <1>1 DEF try_recv
<1>5. settled(id) = states[id].pos /\ Good(states[id], states[id].pos) /\ sent \in Seq(Txns)
  BY <1>3 DEF IInv, TypeOK, StatesGood, settled
<1>6. PICK n : n = IF contains(states[id].included, sent[next]) THEN next ELSE states[id].pos
  OBVIOUS
<1>7. Good(new, n)
  BY <1>1, <1>2, <1>3, <1>5, <1>6, GoodAfterRecv
<1>8. /\ new.pos = next /\ new.included = states[id].included /\ states[id].pos \in Nat
  BY <1>1, <1>2, <1>5 DEF Good, BuilderState
<1>9. states'[id] = new /\ \A i \in DOMAIN states \ {id} : states'[i] = states[i]
  BY <1>3
<1>10. settled(id)' = n
  BY <1>1, <1>3, <1>4, <1>6, <1>8, <1>9 DEF settled, receiver_locked
<1>11. \A i \in DOMAIN states \ {id} : settled(i)' = settled(i)
  BY <1>1, <1>3, <1>4, <1>9 DEF settled, receiver_locked
<1>12. OneInserter'
  BY <1>1, <1>3, <1>4 DEF IInv, OneInserter, receiver_locked
<1>13. InsertingNew'
  <2>. SUFFICES ASSUME NEW c \in inserting'
                PROVE  LET state == states'[holding[c]]
                       IN  state.pos > 0 /\ ~contains(state.included, sent[state.pos])
    BY <1>3 DEF InsertingNew
  <2>1. CASE c \in inserting
    <3>1. holding[c] \in DOMAIN states \ {id}
      BY <1>3, <2>1 DEF IInv, TypeOK, receiver_locked
    <3>. QED  BY <1>9, <2>1, <3>1 DEF IInv, InsertingNew
  <2>2. CASE c \notin inserting
    <3>1. c = b /\ ~contains(states[id].included, sent[next])
      BY <1>4, <2>2
    <3>. QED  BY <1>1, <1>8, <1>9, <3>1 DEF contains
  <2>. QED  BY <2>1, <2>2
<1>14. inserting' \subseteq {c \in Builders : holding'[c] # NoState}
  BY <1>1, <1>3, <1>4 DEF IInv, TypeOK, try_recv
<1>15. holding' \in [Builders -> DOMAIN states \cup {NoState}] /\ states[id].pos <= new.pos
  BY <1>1, <1>3, <1>8 DEF IInv, TypeOK
<1>. QED  BY <1>3, <1>7, <1>8, <1>10, <1>11, <1>12, <1>13, <1>14, <1>15, BuilderStep

\* A builder that leaves the inserting ones gives up its state's lock.
LEMMA UnlockOutcome ==
  ASSUME IInv, NEW CONSTANT b \in inserting, NEW CONSTANT id, id = holding[b],
         inserting' = inserting \ {b},
         \A c \in inserting \ {b} : holding'[c] = holding[c]
  PROVE  /\ receiver_locked(id) /\ ~receiver_locked(id)'
         /\ \A i : i # id => receiver_locked(i)' = receiver_locked(i)
         /\ OneInserter'
<1>1. receiver_locked(id) /\ ~receiver_locked(id)'
  BY DEF IInv, OneInserter, receiver_locked
<1>2. ASSUME NEW i, i # id
      PROVE  receiver_locked(i)' <=> receiver_locked(i)
  BY <1>2 DEF receiver_locked
<1>3. OneInserter'
  BY DEF IInv, OneInserter
<1>. QED  BY <1>1, <1>2, <1>3 DEF receiver_locked

\* What is inserted into the other states is as new to them as before.
LEMMA OthersInsertNew ==
  ASSUME IInv, NEW CONSTANT b \in inserting, NEW CONSTANT id, id = holding[b],
         inserting' = inserting \ {b}, UNCHANGED sent,
         \A c \in inserting \ {b} : holding'[c] = holding[c],
         \A i \in DOMAIN states \ {id} : states'[i] = states[i]
  PROVE  InsertingNew'
<1>. SUFFICES ASSUME NEW c \in inserting \ {b}
              PROVE  LET state == states'[holding'[c]]
                     IN  state.pos > 0 /\ ~contains(state.included, sent[state.pos])
  BY DEF InsertingNew
<1>1. holding[c] \in DOMAIN states \ {id}
  BY DEF IInv, TypeOK, OneInserter
<1>. QED  BY <1>1 DEF IInv, InsertingNew

\* insert_txn: the state is done with what it received.
LEMMA InsertTxnStep ==
  ASSUME IInv, NEW b \in Builders, insert_txn(b)
  PROVE  IInv'
<1>1. PICK id : id = holding[b]
  OBVIOUS
<1>2. PICK new : new = [states[id] EXCEPT !.queue = queue_insert(states[id].queue, states[id].pos)]
  OBVIOUS
<1>3. /\ b \in inserting /\ id \in DOMAIN states
      /\ inserting' = inserting \ {b}
      /\ states' = [states EXCEPT ![id] = new]
      /\ UNCHANGED <<sent, stored, spawning, holding>>
  BY <1>1, <1>2 DEF IInv, TypeOK, insert_txn
<1>4. /\ receiver_locked(id) /\ ~receiver_locked(id)' /\ OneInserter'
      /\ \A i : i # id => receiver_locked(i)' = receiver_locked(i)
  BY <1>1, <1>3, UnlockOutcome
<1>5. /\ Good(states[id], states[id].pos - 1) /\ sent \in Seq(Txns)
      /\ states[id].pos > 0 /\ ~contains(states[id].included, sent[states[id].pos])
  BY <1>1, <1>3, <1>4 DEF IInv, TypeOK, StatesGood, settled, InsertingNew
<1>6. Good(new, states[id].pos)
  BY <1>2, <1>5, GoodAfterInsert
<1>7. PICK n : n = states[id].pos
  OBVIOUS
<1>8. new.pos = n /\ new.included = states[id].included /\ n \in Nat
  BY <1>2, <1>5, <1>7 DEF Good, BuilderState
<1>9. states'[id] = new /\ \A i \in DOMAIN states \ {id} : states'[i] = states[i]
  BY <1>3
<1>10. settled(id)' = n /\ \A i \in DOMAIN states \ {id} : settled(i)' = settled(i)
  BY <1>4, <1>8, <1>9 DEF settled
<1>11. InsertingNew'
  BY <1>1, <1>3, <1>9, OthersInsertNew
<1>12. /\ inserting' \subseteq {c \in Builders : holding'[c] # NoState}
       /\ holding' \in [Builders -> DOMAIN states \cup {NoState}]
  BY <1>3 DEF IInv, TypeOK
<1>13. Good(new, n) /\ states[id].pos <= new.pos
  BY <1>6, <1>7, <1>8
<1>. QED  BY <1>3, <1>4, <1>8, <1>10, <1>11, <1>12, <1>13, BuilderStep

\* release: a builder dropped while it inserts leaves a gap behind.
LEMMA ReleaseStep ==
  ASSUME IInv, NEW b \in Builders, release(b), b \in inserting
  PROVE  IInv'
<1>1. PICK id : id = holding[b]
  OBVIOUS
<1>2. PICK new : new = [states[id] EXCEPT !.gapped = TRUE]
  OBVIOUS
<1>3. /\ id \in DOMAIN states
      /\ inserting' = inserting \ {b}
      /\ holding' = [holding EXCEPT ![b] = NoState]
      /\ states' = [states EXCEPT ![id] = new]
      /\ UNCHANGED <<sent, stored, spawning>>
  BY <1>1, <1>2 DEF IInv, TypeOK, release
<1>4. \A c \in Builders \ {b} : holding'[c] = holding[c]
  BY <1>3 DEF IInv, TypeOK
<1>5. inserting \subseteq Builders
  BY DEF IInv, TypeOK
<1>6. /\ receiver_locked(id) /\ ~receiver_locked(id)' /\ OneInserter'
      /\ \A i : i # id => receiver_locked(i)' = receiver_locked(i)
  BY <1>1, <1>3, <1>4, <1>5, UnlockOutcome
<1>7. Good(states[id], states[id].pos - 1) /\ states[id].pos > 0
  BY <1>1, <1>3, <1>6 DEF IInv, StatesGood, settled, InsertingNew
<1>8. PICK n : n = states[id].pos
  OBVIOUS
<1>9. /\ new \in BuilderState /\ new.pos = n /\ new.queue = states[id].queue
      /\ new.included = states[id].included /\ new.blocks = states[id].blocks
      /\ new.recent = states[id].recent /\ new.gapped = TRUE /\ n \in Nat
  BY <1>2, <1>7, <1>8 DEF Good, BuilderState
<1>10. Positions(new, n)
  <2>1. 1 .. (n - 1) \subseteq 1 .. n
    BY <1>9
  <2>. QED  BY <1>7, <1>8, <1>9, <2>1 DEF Good, Positions
<1>11. Good(new, n)
  BY <1>7, <1>8, <1>9, <1>10 DEF Good, Remembered, Disjoint, InBlocks
<1>12. states'[id] = new /\ \A i \in DOMAIN states \ {id} : states'[i] = states[i]
  BY <1>3
<1>13. settled(id)' = n /\ \A i \in DOMAIN states \ {id} : settled(i)' = settled(i)
  BY <1>6, <1>9, <1>12 DEF settled
<1>14. InsertingNew'
  BY <1>1, <1>3, <1>4, <1>5, <1>12, OthersInsertNew
<1>15. /\ inserting' \subseteq {c \in Builders : holding'[c] # NoState}
       /\ holding' \in [Builders -> DOMAIN states \cup {NoState}]
  BY <1>3, <1>4 DEF IInv, TypeOK
<1>16. states[id].pos <= new.pos
  BY <1>8, <1>9
<1>. QED  BY <1>3, <1>6, <1>9, <1>11, <1>13, <1>14, <1>15, <1>16, BuilderStep

\* pop_front: what is popped is accounted for.
LEMMA PopStep ==
  ASSUME IInv, NEW b \in Builders, pop_front(b)
  PROVE  IInv'
<1>1. PICK id : id = holding[b]
  OBVIOUS
<1>2. PICK i \in states[id].queue.transactions :
         states' = [states EXCEPT ![id].queue = queue_remove(states[id].queue, i),
                                  ![id].blocks = @ \cup {sent[i]}]
  BY <1>1 DEF pop_front
<1>3. PICK new : new = [states[id] EXCEPT !.queue = queue_remove(states[id].queue, i),
                                          !.blocks = states[id].blocks \cup {sent[i]}]
  OBVIOUS
<1>4. /\ id \in DOMAIN states
      /\ UNCHANGED <<sent, stored, spawning, holding, inserting>>
  BY <1>1 DEF IInv, TypeOK, pop_front
<1>5. states' = [states EXCEPT ![id] = new]
  BY <1>2, <1>3, <1>4
<1>6. PICK n : n = settled(id)
  OBVIOUS
<1>7. Good(states[id], n) /\ sent \in Seq(Txns)
  BY <1>4, <1>6 DEF IInv, TypeOK, StatesGood
<1>8. Good(new, n)
  BY <1>2, <1>3, <1>7, GoodAfterPop
<1>9. /\ new.pos = states[id].pos /\ new.included = states[id].included
      /\ states[id].pos \in Nat
  BY <1>3, <1>7 DEF Good, BuilderState
<1>10. states'[id] = new /\ \A j \in DOMAIN states \ {id} : states'[j] = states[j]
  BY <1>4, <1>5
<1>11. settled(id)' = n /\ \A j \in DOMAIN states \ {id} : settled(j)' = settled(j)
  BY <1>4, <1>6, <1>9, <1>10, SettledKept
<1>12. OneInserter' /\ InsertingNew'
  BY <1>4, <1>9, <1>10 DEF IInv, TypeOK, OneInserter, InsertingNew
<1>13. /\ inserting' \subseteq {c \in Builders : holding'[c] # NoState}
       /\ holding' \in [Builders -> DOMAIN states \cup {NoState}]
  BY <1>4 DEF IInv, TypeOK
<1>14. states[id].pos <= new.pos
  BY <1>9
<1>. QED  BY <1>4, <1>5, <1>8, <1>9, <1>11, <1>12, <1>13, <1>14, BuilderStep

\* The states stay as they are through the steps of a spawn that only touch
\* the spawn itself.
LEMMA StatesKept ==
  ASSUME IInv, UNCHANGED <<sent, states, holding, inserting>>
  PROVE  StatesGood' /\ OneInserter' /\ InsertingNew'
<1>1. \A i \in DOMAIN states : settled(i)' = settled(i)
  BY SettledKept
<1>2. StatesGood'
  BY <1>1 DEF IInv, StatesGood, Good, Positions, InSync, Remembered, Disjoint, InBlocks,
              Complete
<1>. QED  BY <1>2 DEF IInv, OneInserter, InsertingNew

\* new_child: the included set is the parent's, rotated or not.
LEMMA SpawnStep ==
  ASSUME IInv, NEW id \in Ids, NEW parent \in stored, NEW block \in Blocks,
         new_child(id, parent, block)
  PROVE  IInv'
<1>1. PICK included \in rotations(states[parent].included) :
         spawning' = [phase |-> "queue", id |-> id, parent |-> parent,
                      block |-> block, included |-> included]
  BY DEF new_child
<1>2. UNCHANGED <<sent, states, stored, holding, inserting>>
  BY DEF new_child
<1>3. parent \in DOMAIN states /\ states[parent].included \in Sets
  BY DEF IInv, TypeOK, BuilderState
<1>4. included \in Sets
  BY <1>1, <1>3 DEF rotations, force_rotate, Sets
<1>5. TypeOK'
  <2>1. block \in SUBSET Txns
    BY TxnFlowAssumption
  <2>. QED  BY <1>1, <1>2, <1>3, <1>4, <2>1 DEF IInv, TypeOK
<1>6. ChildGood' /\ RotatedFromParent' /\ ChildBehindParent' /\ ChildIsNew'
  BY <1>1, <1>2 DEF ChildGood, RotatedFromParent, ChildBehindParent, ChildIsNew, new_child
<1>. QED  BY <1>2, <1>5, <1>6, StatesKept DEF IInv

\* clone_queue: the child is good at the position of its parent.
LEMMA CloneQueueStep ==
  ASSUME IInv, clone_queue
  PROVE  IInv'
<1>. DEFINE parent == states[spawning.parent]
            child == [included |-> extend(spawning.included, spawning.block),
                      queue |-> queue_prune(parent.queue, spawning.block),
                      pos |-> settled(spawning.parent),
                      blocks |-> parent.blocks \cup spawning.block,
                      recent |-> <<spawning.block, parent.recent[1], parent.recent[2]>>,
                      gapped |-> parent.gapped]
<1>1. /\ spawning.phase = "queue"
      /\ spawning' = [phase |-> "receiver", id |-> spawning.id,
                      parent |-> spawning.parent, child |-> child]
      /\ UNCHANGED <<sent, states, stored, holding, inserting>>
  BY DEF clone_queue
<1>2. /\ spawning.parent \in DOMAIN states /\ spawning.id \in Ids
      /\ spawning.block \in SUBSET Txns
      /\ spawning.included \in rotations(parent.included)
  BY <1>1 DEF IInv, TypeOK, Idle, RotatedFromParent
<1>3. Good(parent, settled(spawning.parent))
  BY <1>2 DEF IInv, StatesGood
<1>4. Good(child, child.pos)
  BY <1>2, <1>3, GoodAfterClone
<1>5. child.pos <= states[spawning.parent].pos
  BY <1>3 DEF Good
<1>. HIDE DEF child
<1>6. TypeOK'
  BY <1>1, <1>2, <1>4 DEF IInv, TypeOK, Good
<1>7. ChildGood'
  <2>1. PICK state : state = spawning'.child
    OBVIOUS
  <2>2. Good(state, state.pos)'
    BY <1>1, <1>4, <2>1, GoodKept
  <2>. QED  BY <2>1, <2>2 DEF ChildGood
<1>8. RotatedFromParent' /\ ChildBehindParent' /\ ChildIsNew'
  BY <1>1, <1>5 DEF IInv, RotatedFromParent, ChildBehindParent, ChildIsNew, Idle
<1>. QED  BY <1>1, <1>6, <1>7, <1>8, StatesKept DEF IInv

\* clone_receiver: if the parent has moved on since its queue was cloned,
\* the child is marked as gapped.
LEMMA CloneReceiverStep ==
  ASSUME IInv, clone_receiver
  PROVE  IInv'
<1>. DEFINE old == spawning.child
            pos == states[spawning.parent].pos
<1>1. /\ spawning.phase = "receiver"
      /\ spawning' = [spawning EXCEPT !.phase = "insert",
                                      !.child.pos = pos,
                                      !.child.gapped = @ \/ pos # old.pos]
      /\ UNCHANGED <<sent, states, stored, holding, inserting>>
  BY DEF clone_receiver
<1>2. /\ spawning \in [phase : {"receiver", "insert"}, id : Ids, parent : DOMAIN states,
                       child : BuilderState]
      /\ Good(old, old.pos)
      /\ old.pos <= pos
  BY <1>1 DEF IInv, TypeOK, Idle, ChildGood, ChildBehindParent
<1>3. /\ states[spawning.parent] \in BuilderState
      /\ pos \in Nat /\ pos <= Len(sent)
  BY <1>2 DEF IInv, TypeOK, BuilderState
<1>. DEFINE new == [old EXCEPT !.pos = pos, !.gapped = old.gapped \/ pos # old.pos]
<1>4. spawning' = [phase |-> "insert", id |-> spawning.id, parent |-> spawning.parent,
                   child |-> new]
  BY <1>1, <1>2 DEF BuilderState
<1>5. old \in BuilderState
  BY <1>2
<1>6. /\ new \in BuilderState
      /\ new.pos = pos /\ new.gapped = (old.gapped \/ pos # old.pos)
      /\ new.queue = old.queue /\ new.included = old.included
      /\ new.recent = old.recent /\ new.blocks = old.blocks
  BY <1>3, <1>5 DEF BuilderState
<1>. HIDE DEF new
<1>7. Positions(new, pos)
  <2>1. 1 .. old.pos \subseteq 1 .. pos
    BY <1>2, <1>3, <1>5 DEF BuilderState
  <2>. QED  BY <1>2, <1>6, <2>1 DEF Good, Positions
<1>8. ~new.gapped => Complete(new, pos)
  BY <1>2, <1>6 DEF Good, Complete
<1>9. Good(new, pos)
  BY <1>2, <1>3, <1>6, <1>7, <1>8 DEF Good, Remembered, Disjoint, InBlocks
<1>10. TypeOK'
  <2>1. /\ spawning' \in [phase : {"receiver", "insert"}, id : Ids,
                          parent : DOMAIN states, child : BuilderState]
        /\ spawning'.child.pos <= Len(sent)
    BY <1>2, <1>3, <1>4, <1>6
  <2>. QED  BY <1>1, <2>1 DEF IInv, TypeOK
<1>11. ChildGood'
  <2>1. PICK state : state = spawning'.child
    OBVIOUS
  <2>2. Good(state, state.pos)'
    BY <1>1, <1>4, <1>6, <1>9, <2>1, GoodKept
  <2>. QED  BY <2>1, <2>2 DEF ChildGood
<1>12. RotatedFromParent' /\ ChildBehindParent' /\ ChildIsNew'
  BY <1>1, <1>4 DEF IInv, RotatedFromParent, ChildBehindParent, ChildIsNew, Idle
<1>. QED  BY <1>1, <1>10, <1>11, <1>12, StatesKept DEF IInv

\* insert_child: a good child becomes a good state.
LEMMA InsertStep ==
  ASSUME IInv, insert_child
  PROVE  IInv'
<1>1. /\ spawning.phase = "insert"
      /\ states' = [id \in DOMAIN states \cup {spawning.id} |->
                      IF id = spawning.id THEN spawning.child ELSE states[id]]
      /\ stored' = stored \cup {spawning.id}
      /\ spawning' = Idle
      /\ UNCHANGED <<sent, holding, inserting>>
  BY DEF insert_child
<1>2. /\ Good(spawning.child, spawning.child.pos)
      /\ spawning.id \in Ids /\ spawning.id \notin DOMAIN states
  BY <1>1 DEF IInv, TypeOK, Idle, ChildGood, ChildIsNew
<1>3. /\ DOMAIN states' = DOMAIN states \cup {spawning.id}
      /\ \A id \in DOMAIN states' :
            states'[id] = IF id = spawning.id THEN spawning.child ELSE states[id]
  BY <1>1
<1>4. TypeOK'
  <2>1. \A id \in DOMAIN states' : /\ states'[id] \in BuilderState
                                   /\ states'[id].pos <= Len(sent)
    BY <1>2, <1>3 DEF IInv, TypeOK, Good
  <2>2. holding' \in [Builders -> DOMAIN states' \cup {NoState}]
    BY <1>1, <1>3 DEF IInv, TypeOK
  <2>. QED  BY <1>1, <1>2, <1>3, <2>1, <2>2 DEF IInv, TypeOK
<1>5. ASSUME NEW id \in DOMAIN states'
      PROVE  Good(states[id], settled(id))'
  <2>1. PICK state : state = states'[id]
    OBVIOUS
  <2>2. PICK n : n = settled(id)'
    OBVIOUS
  <2>3. CASE id = spawning.id
    <3>1. ~receiver_locked(id)'
      BY <1>1, <1>2, <2>3, NoStateAssumption DEF IInv, TypeOK, receiver_locked
    <3>2. n = spawning.child.pos /\ state = spawning.child
      BY <1>3, <2>1, <2>2, <2>3, <3>1 DEF settled
    <3>3. Good(state, n)
      BY <1>2, <3>2
    <3>. QED  BY <1>1, <2>1, <2>2, <3>3, GoodKept
  <2>4. CASE id # spawning.id
    <3>1. id \in DOMAIN states /\ states'[id] = states[id]
      BY <1>3, <2>4
    <3>2. n = settled(id)
      BY <1>1, <2>2, <3>1, SettledKept
    <3>3. Good(state, n)
      BY <2>1, <3>1, <3>2 DEF IInv, StatesGood
    <3>. QED  BY <1>1, <2>1, <2>2, <3>3, GoodKept
  <2>. QED  BY <2>3, <2>4
<1>6. ChildGood' /\ RotatedFromParent' /\ ChildBehindParent' /\ ChildIsNew'
  BY <1>1 DEF ChildGood, RotatedFromParent, ChildBehindParent, ChildIsNew, Idle
<1>7. OneInserter' /\ InsertingNew'
  BY <1>1, <1>2, <1>3 DEF IInv, TypeOK, OneInserter, InsertingNew
<1>. QED  BY <1>4, <1>5, <1>6, <1>7 DEF IInv, StatesGood

----------------------------------------------------------------------------
(* Theorems *)

\* The bootstrap state, which has received nothing, is good.
LEMMA InitIInv == Init => IInv
<1>. SUFFICES ASSUME Init PROVE IInv
  OBVIOUS
<1>. USE DEF Init
<1>1. /\ Bootstrap.included \in Sets /\ Bootstrap.queue \in Queues
      /\ Bootstrap.recent \in (SUBSET Txns) \X (SUBSET Txns) \X (SUBSET Txns)
  BY DEF Bootstrap, Sets, Queues
<1>2. Bootstrap \in BuilderState
  BY <1>1 DEF Bootstrap, BuilderState
<1>3. /\ Bootstrap.queue.commits = {} /\ Bootstrap.queue.transactions = {}
      /\ Bootstrap.included = [fresh |-> {}, stale |-> {}, expiring |-> {}]
      /\ Bootstrap.recent = <<{}, {}, {}>> /\ Bootstrap.pos = 0
  BY DEF Bootstrap
<1>4. InSync(Bootstrap.queue) /\ Complete(Bootstrap, 0)
  BY <1>3 DEF InSync, Complete
<1>5. /\ Remembered(Bootstrap) /\ Disjoint(Bootstrap) /\ InBlocks(Bootstrap)
      /\ Positions(Bootstrap, 0)
  BY <1>3 DEF Remembered, Disjoint, InBlocks, Positions, contains
<1>6. sent \in Seq(Txns) /\ Len(sent) = 0
  OBVIOUS
<1>7. Good(Bootstrap, 0)
  BY <1>2, <1>3, <1>4, <1>5, <1>6 DEF Good
<1>8. TypeOK
  BY <1>2, <1>3, <1>6, TxnFlowAssumption DEF TypeOK
<1>9. ChildGood /\ RotatedFromParent /\ ChildBehindParent /\ ChildIsNew
  BY DEF ChildGood, RotatedFromParent, ChildBehindParent, ChildIsNew, Idle
<1>10. OneInserter /\ InsertingNew
  BY DEF OneInserter, InsertingNew
<1>11. StatesGood
  BY <1>3, <1>7 DEF StatesGood, settled, receiver_locked
<1>. QED  BY <1>8, <1>9, <1>10, <1>11 DEF IInv

\* Every step keeps the invariant.
LEMMA NextIInv == IInv /\ [Next]_vars => IInv'
<1>. SUFFICES ASSUME IInv, [Next]_vars PROVE IInv'
  OBVIOUS
<1>1. CASE \E t \in Txns : handle_transaction(t)
  BY <1>1, BroadcastStep
<1>2. CASE \/ \E b \in Builders, id \in stored : acquire(b, id)
           \/ \E b \in Builders : release(b) /\ b \notin inserting
           \/ \E gone \in SUBSET stored : handle_decide(gone)
           \/ UNCHANGED vars
  <2>1. UNCHANGED <<sent, states, spawning, inserting>>
    BY <1>2 DEF acquire, release, handle_decide, vars
  <2>2. /\ stored' \subseteq DOMAIN states
        /\ holding' \in [Builders -> DOMAIN states \cup {NoState}]
        /\ \A b \in inserting : holding'[b] = holding[b]
    BY <1>2 DEF IInv, TypeOK, acquire, release, handle_decide, vars
  <2>. QED  BY <2>1, <2>2, QuietStep
<1>3. CASE \E b \in Builders : \/ release(b) /\ b \in inserting
                               \/ try_recv(b) \/ insert_txn(b) \/ pop_front(b)
  BY <1>3, ReleaseStep, RecvStep, InsertTxnStep, PopStep
<1>4. CASE \E id \in Ids, parent \in stored, block \in Blocks :
              new_child(id, parent, block)
  BY <1>4, SpawnStep
<1>5. CASE clone_queue
  BY <1>5, CloneQueueStep
<1>6. CASE clone_receiver
  BY <1>6, CloneReceiverStep
<1>7. CASE insert_child
  BY <1>7, InsertStep
<1>. QED  BY <1>1, <1>2, <1>3, <1>4, <1>5, <1>6, <1>7 DEF Next

\* IInv holds in every reachable state.
THEOREM Invariance == Spec => []IInv
  BY InitIInv, NextIInv, PTL DEF Spec

\* No receiver is ever ahead of the channel, the task between try_recv and its
\* insert holds a state, and a child is spawned from a state that exists.
THEOREM TypeCorrect == Spec => []TypeOK
<1>1. IInv => TypeOK
  BY DEF IInv
<1>. QED  BY <1>1, Invariance, PTL

\* TransactionQueue's two fields never disagree (state.rs, "should be kept
\* up-to-date with the queue").
THEOREM QueuesAreInSync == Spec => []QueuesInSync
<1>1. IInv => QueuesInSync
  BY DEF IInv, QueuesInSync, StatesGood, Good
<1>. QED  BY <1>1, Invariance, PTL

\* A transaction of the branch's last three blocks is in no queue.
THEOREM RecentIsNotQueued == Spec => []RecentNotQueued
<1>1. IInv => RecentNotQueued
  <2>. SUFFICES ASSUME IInv, NEW id \in DOMAIN states
                PROVE  Settled(states[id])
    BY DEF RecentNotQueued
  <2>1. Remembered(states[id]) /\ Disjoint(states[id])
    BY DEF IInv, StatesGood, Good
  <2>2. \A n \in 1..3 : n = 1 \/ n = 2 \/ n = 3
    OBVIOUS
  <2>3. \A n \in 1..3 : \A t \in states[id].recent[n] : contains(states[id].included, t)
    BY <2>1, <2>2 DEF Remembered, contains
  <2>. QED  BY <2>1, <2>3 DEF Settled, Disjoint
<1>. QED  BY <1>1, Invariance, PTL

\* The races of new_child and of a dropped request with collect_txns are the
\* only ways in which a builder state can miss a transaction.
THEOREM OnlyRaceLoses == Spec => []LostOnlyByRace
<1>1. IInv => LostOnlyByRace
  BY DEF IInv, LostOnlyByRace, StatesGood, Good
<1>. QED  BY <1>1, Invariance, PTL

============================================================================
