-------------------------- MODULE LegacyTxnsProofs --------------------------
(***************************************************************************)
(* Theorems about LegacyTxns, for every set of transactions, tasks and     *)
(* submitters and every limit and capacity.                                *)
(*                                                                         *)
(* What a submission is about to report must be true until it writes the   *)
(* statuses, and a transaction a task has, it keeps: IInv says the first   *)
(* of every submission's responses, Has is what every step preserves.      *)
(***************************************************************************)
EXTENDS LegacyTxns, TLAPS, WellFoundedInduction

\* A task has yet to take the transaction from the log, or it has it queued,
\* or it knows it from a block or as dropped.
Has(task, t, log) ==
    \/ \E i \in DOMAIN log : i > task.pos /\ log[i] = t
    \/ t \in task.txns_in_queue \cup task.blocks

Kept(t) == \A b \in live : Has(tasks[b], t, sent)

Included(task) ==
    task.included_txns \cup task.included_txns_old \cup task.included_txns_expiring

\* The queue's set of commitments is that of its transactions, each once.
InSync(task, log) ==
    /\ task.txns_in_queue = {log[i] : i \in task.tx_queue}
    /\ \A i, j \in task.tx_queue : log[i] = log[j] => i = j

\* A block moves on by one set at most per clone.
Remembered(task) ==
    /\ task.recent[1] \subseteq task.included_txns
    /\ task.recent[2] \subseteq task.included_txns \cup task.included_txns_old
    /\ task.recent[3] \subseteq Included(task)

Good(task, log) ==
    /\ task.pos <= Len(log) /\ task.tx_queue \subseteq 1..task.pos
    /\ InSync(task, log)
    /\ Remembered(task)
    /\ Included(task) \cap task.txns_in_queue = {}
    /\ Included(task) \subseteq task.blocks

TasksGood == \A b \in DOMAIN tasks : Good(tasks[b], sent)

\* A submission has a response per transaction it is done with, and what it
\* will report as pending is with every task already.
ResponsesKept ==
    \A s \in Submitters :
        LET sub == submissions[s]
        IN  /\ Len(sub.response) <= Len(sub.txns)
            /\ sub.phase = "status" => Len(sub.response) = Len(sub.txns)
            /\ \A n \in DOMAIN sub.response : sub.response[n] = "Pending" => Kept(sub.txns[n])

IInv == TypeOK /\ TasksGood /\ PendingKept /\ ResponsesKept

----------------------------------------------------------------------------
(* Lemmas on tasks *)

\* The front of a queue is the least of its positions.
LEMMA LeastPosition ==
  ASSUME NEW S \in SUBSET Nat, S # {}
  PROVE  Min(S) \in S /\ \A n \in S : Min(S) <= n
<1>1. PICK m \in S : \A n \in S : ~(<<n, m>> \in OpToRel(<, Nat))
  BY WFMin, NatLessThanWellFounded, Zenon
<1>2. \A n \in S : ~(n < m)
  BY <1>1, Zenon DEF OpToRel
<1>3. \A n \in S : m <= n
  BY <1>2
<1>. QED  BY <1>3, Zenon DEF Min

\* A longer log takes nothing from a task.
LEMMA LongerLog ==
  ASSUME NEW log \in Seq(Txns), NEW t \in Txns, NEW task \in Task, Good(task, log)
  PROVE  /\ Good(task, Append(log, t))
         /\ Has(task, t, Append(log, t))
         /\ \A u \in Txns : Has(task, u, log) => Has(task, u, Append(log, t))
<1>. DEFINE longer == Append(log, t)
<1>1. /\ Len(longer) = Len(log) + 1 /\ longer[Len(log) + 1] = t
      /\ \A i \in 1..Len(log) : longer[i] = log[i]
      /\ DOMAIN longer = 1..Len(log) + 1 /\ DOMAIN log = 1..Len(log)
  OBVIOUS
<1>2. task.pos \in Nat /\ task.pos <= Len(log) /\ task.tx_queue \subseteq 1..task.pos
  BY DEF Good, Task
<1>3. \A i \in task.tx_queue : longer[i] = log[i]
  BY <1>1, <1>2
<1>4. InSync(task, longer)
  <2>1. {longer[i] : i \in task.tx_queue} = {log[i] : i \in task.tx_queue}
    BY <1>3
  <2>. QED  BY <1>3, <2>1 DEF Good, InSync
<1>5. Good(task, longer)
  BY <1>1, <1>2, <1>4 DEF Good
<1>6. Has(task, t, longer)
  BY <1>1, <1>2 DEF Has
<1>7. \A u \in Txns : Has(task, u, log) => Has(task, u, longer)
  BY <1>1 DEF Has
<1>. QED  BY <1>5, <1>6, <1>7

\* Taking a transaction that is known, or queueing one that is not.
LEMMA TakeOne ==
  ASSUME NEW log \in Seq(Txns), NEW task \in Task, Good(task, log), task.pos < Len(log)
  PROVE  LET n == task.pos + 1
             new == IF log[n] \in known(task) THEN [task EXCEPT !.pos = n]
                    ELSE [task EXCEPT !.pos = n, !.tx_queue = @ \cup {n},
                                      !.txns_in_queue = @ \cup {log[n]}]
         IN  /\ new \in Task /\ Good(new, log)
             /\ \A t \in Txns : Has(task, t, log) => Has(new, t, log)
<1>. DEFINE n == task.pos + 1
<1>1. /\ task.pos \in Nat /\ n \in 1..Len(log) /\ log[n] \in Txns
      /\ task.tx_queue \subseteq 1..task.pos /\ task.txns_in_queue \subseteq Txns
      /\ DOMAIN log = 1..Len(log)
  BY DEF Good, Task
<1>2. CASE log[n] \in known(task)
  <2>. DEFINE new == [task EXCEPT !.pos = n]
  <2>1. /\ new \in Task /\ new.pos = n /\ new.tx_queue = task.tx_queue
        /\ new.txns_in_queue = task.txns_in_queue /\ new.blocks = task.blocks
        /\ new.recent = task.recent /\ new.included_txns = task.included_txns
        /\ new.included_txns_old = task.included_txns_old
        /\ new.included_txns_expiring = task.included_txns_expiring
    BY <1>1 DEF Task
  <2>2. Good(new, log)
    BY <1>1, <2>1 DEF Good, InSync, Remembered, Included
  <2>3. ASSUME NEW t \in Txns, Has(task, t, log) PROVE Has(new, t, log)
    <3>1. log[n] \in task.txns_in_queue \cup task.blocks
      BY <1>2 DEF known, Good, Included
    <3>. QED  BY <1>1, <2>1, <2>3, <3>1 DEF Has
  <2>. QED  BY <1>2, <2>1, <2>2, <2>3
<1>3. CASE log[n] \notin known(task)
  <2>. DEFINE new == [task EXCEPT !.pos = n, !.tx_queue = @ \cup {n},
                                  !.txns_in_queue = @ \cup {log[n]}]
  <2>1. /\ new.pos = n /\ new.tx_queue = task.tx_queue \cup {n}
        /\ new.txns_in_queue = task.txns_in_queue \cup {log[n]} /\ new.blocks = task.blocks
        /\ new.recent = task.recent /\ new.included_txns = task.included_txns
        /\ new.included_txns_old = task.included_txns_old
        /\ new.included_txns_expiring = task.included_txns_expiring
    BY DEF Task
  <2>2. new \in Task
    <3>1. /\ n \in Nat /\ task.tx_queue \cup {n} \in SUBSET Nat
          /\ task.txns_in_queue \cup {log[n]} \in SUBSET Txns
      BY <1>1 DEF Task
    <3>. QED  BY <3>1 DEF Task
  <2>3. InSync(new, log)
    <3>1. log[n] \notin task.txns_in_queue
      BY <1>3 DEF known
    <3>2. {log[i] : i \in task.tx_queue \cup {n}} = {log[i] : i \in task.tx_queue} \cup {log[n]}
      OBVIOUS
    <3>3. \A i \in task.tx_queue : log[i] # log[n]
      BY <3>1 DEF Good, InSync
    <3>. QED  BY <2>1, <3>2, <3>3 DEF Good, InSync
  <2>4. Good(new, log)
    BY <1>1, <1>3, <2>1, <2>3 DEF Good, Remembered, Included, known
  <2>5. \A t \in Txns : Has(task, t, log) => Has(new, t, log)
    BY <1>1, <2>1 DEF Has
  <2>. QED  BY <1>3, <2>2, <2>4, <2>5
<1>. QED  BY <1>2, <1>3

\* Dropping the front of the queue.
LEMMA DropOne ==
  ASSUME NEW task \in Task, Good(task, sent), sent \in Seq(Txns), task.tx_queue # {}
  PROVE  /\ Min(task.tx_queue) \in task.tx_queue
         /\ drop_front(task) \in Task /\ Good(drop_front(task), sent)
         /\ drop_front(task).tx_queue = task.tx_queue \ {Min(task.tx_queue)}
         /\ \A t \in Txns : Has(task, t, sent) => Has(drop_front(task), t, sent)
<1>. DEFINE n == Min(task.tx_queue)
            new == drop_front(task)
<1>1. task.tx_queue \in SUBSET Nat /\ task.pos \in Nat
  BY DEF Task
<1>2. n \in task.tx_queue
  BY <1>1, LeastPosition
<1>3. sent[n] \in Txns /\ sent[n] \in task.txns_in_queue
  BY <1>1, <1>2 DEF Good, InSync
<1>4. /\ new.pos = task.pos /\ new.tx_queue = task.tx_queue \ {n}
      /\ new.txns_in_queue = task.txns_in_queue \ {sent[n]}
      /\ new.blocks = task.blocks \cup {sent[n]}
      /\ new.recent = task.recent /\ new.included_txns = task.included_txns \cup {sent[n]}
      /\ new.included_txns_old = task.included_txns_old
      /\ new.included_txns_expiring = task.included_txns_expiring
  BY DEF drop_front, Task
<1>5. new \in Task
  BY <1>2, <1>3 DEF drop_front, Task
<1>6. InSync(new, sent)
  BY <1>2, <1>4 DEF Good, InSync
<1>7. Good(new, sent)
  BY <1>4, <1>6 DEF Good, Remembered, Included
<1>8. \A t \in Txns : Has(task, t, sent) => Has(new, t, sent)
  BY <1>4 DEF Has
<1>. QED  BY <1>2, <1>4, <1>5, <1>7, <1>8

\* A child of a good task is good: the clone rotates by one set at most, and
\* the block leaves the queue for the first of them.
LEMMA ChildGood ==
  ASSUME sent \in Seq(Txns), NEW task \in Task, Good(task, sent),
         NEW clone \in clone_with_receiver(task), NEW view \in Nat, NEW block \in SUBSET Txns
  PROVE  /\ child(clone, view, block) \in Task /\ Good(child(clone, view, block), sent)
         /\ child(clone, view, block).phase = task.phase
         /\ \A t \in Txns : Has(task, t, sent) => Has(child(clone, view, block), t, sent)
<1>. DEFINE new == child(clone, view, block)
<1>1. /\ clone \in Task /\ clone.phase = task.phase
      /\ clone.pos = task.pos /\ clone.tx_queue = task.tx_queue
      /\ clone.txns_in_queue = task.txns_in_queue /\ clone.blocks = task.blocks
      /\ clone.recent = task.recent
  BY DEF clone_with_receiver, Task
<1>2. /\ Included(clone) \subseteq Included(task)
      /\ clone.recent[1] \subseteq clone.included_txns \cup clone.included_txns_old
      /\ clone.recent[2] \subseteq Included(clone)
  BY DEF clone_with_receiver, Task, Good, Remembered, Included
<1>3. /\ new.pos = clone.pos /\ new.phase = clone.phase
      /\ new.txns_in_queue = clone.txns_in_queue \ block
      /\ new.tx_queue = {n \in clone.tx_queue : sent[n] \in new.txns_in_queue}
      /\ new.included_txns = clone.included_txns \cup block
      /\ new.included_txns_old = clone.included_txns_old
      /\ new.included_txns_expiring = clone.included_txns_expiring
      /\ new.blocks = clone.blocks \cup block
      /\ new.recent = <<block, clone.recent[1], clone.recent[2]>>
  BY <1>1 DEF child, Task
<1>4. new \in Task
  <2>1. (IF block = {} THEN clone.allow_empty_block_until
         ELSE {view + ALLOW_EMPTY_BLOCK_PERIOD}) \in SUBSET Nat
    BY <1>1 DEF Task, ALLOW_EMPTY_BLOCK_PERIOD
  <2>2. <<block, clone.recent[1], clone.recent[2]>>
           \in (SUBSET Txns) \X (SUBSET Txns) \X (SUBSET Txns)
    BY <1>1 DEF Task
  <2>. QED  BY <1>1, <2>1, <2>2 DEF child, Task
<1>5. InSync(new, sent)
  BY <1>1, <1>3 DEF Good, InSync
<1>6. Remembered(new)
  BY <1>2, <1>3 DEF Remembered, Included
<1>7. Good(new, sent)
  BY <1>1, <1>2, <1>3, <1>5, <1>6 DEF Good, Included
<1>8. \A t \in Txns : Has(task, t, sent) => Has(new, t, sent)
  BY <1>1, <1>3 DEF Has
<1>. QED  BY <1>1, <1>3, <1>4, <1>7, <1>8

----------------------------------------------------------------------------
(* Steps *)

\* If no task that runs afterwards misses what was reported, the rest of the
\* invariant is not concerned with the tasks.
LEMMA TasksStep ==
  ASSUME IInv, UNCHANGED <<sent, max_block_size, tx_status, submissions>>,
         DOMAIN tasks' \subseteq Tasks,
         \A b \in DOMAIN tasks' : tasks'[b] \in Task /\ Good(tasks'[b], sent),
         \A t \in Txns : Kept(t) => Kept(t)'
  PROVE  IInv'
<1>1. TypeOK'
  BY DEF IInv, TypeOK, Good
<1>2. TasksGood'
  BY DEF TasksGood
<1>3. PendingKept'
  <2>1. \A t \in Txns : Kept(t) <=> \A b \in live : Has(tasks[b], t, sent)
    BY DEF Kept
  <2>. QED  BY <2>1 DEF IInv, TypeOK, PendingKept, Kept, Has
<1>4. ResponsesKept'
  <2>. SUFFICES ASSUME NEW s \in Submitters, NEW n \in DOMAIN submissions[s].response,
                       submissions[s].response[n] = "Pending"
                PROVE  Kept(submissions[s].txns[n])'
    BY DEF IInv, ResponsesKept
  <2>1. submissions[s].txns[n] \in Txns
    BY DEF IInv, TypeOK, Submission, ResponsesKept
  <2>. QED  BY <2>1 DEF IInv, ResponsesKept
<1>. QED  BY <1>1, <1>2, <1>3, <1>4 DEF IInv

\* One task changes, and keeps what it has.
LEMMA TaskStep ==
  ASSUME IInv, UNCHANGED <<sent, max_block_size, tx_status, submissions>>,
         NEW b \in live, NEW new \in Task, Good(new, sent), set_task(b, new),
         \A t \in Txns : Has(tasks[b], t, sent) => Has(new, t, sent)
  PROVE  IInv'
<1>1. /\ DOMAIN tasks' = DOMAIN tasks /\ tasks'[b] = new
      /\ \A c \in DOMAIN tasks \ {b} : tasks'[c] = tasks[c]
  BY DEF set_task, live
<1>2. \A c \in DOMAIN tasks' : tasks'[c] \in Task /\ Good(tasks'[c], sent)
  BY <1>1 DEF IInv, TypeOK, TasksGood
<1>3. live' \subseteq live
  BY <1>1 DEF live
<1>4. \A t \in Txns : Kept(t) => Kept(t)'
  BY <1>1, <1>3 DEF Kept, live
<1>. QED  BY <1>1, <1>2, <1>4, TasksStep DEF IInv, TypeOK

\* Where tasks and channel are as they were, they have what they had.
LEMMA SameTasks ==
  ASSUME UNCHANGED <<sent, tasks>>
  PROVE  /\ \A t : Kept(t)' <=> Kept(t)
         /\ TasksGood => TasksGood'
<1>1. \A t : Kept(t)' <=> Kept(t)
  BY DEF Kept, live, Has
<1>2. TasksGood => TasksGood'
  BY DEF TasksGood
<1>. QED  BY <1>1, <1>2

\* The limit stays between its floor and the protocol's maximum.
LEMMA LimitStep ==
  ASSUME IInv, try_increment_block_size \/ decrement_block_size
  PROVE  IInv'
<1>1. /\ UNCHANGED <<sent, tasks, tx_status, submissions>>
      /\ max_block_size \in MAX_BLOCK_SIZE_FLOOR..protocol_max_block_size
      /\ MAX_BLOCK_SIZE_FLOOR \in Nat /\ protocol_max_block_size \in Nat
  BY LegacyTxnsAssumption DEF try_increment_block_size, decrement_block_size, IInv, TypeOK
<1>2. change \in Nat
  BY <1>1 DEF change, MAX_BLOCK_SIZE_CHANGE_DIVISOR
<1>3. max_block_size' \in MAX_BLOCK_SIZE_FLOOR..protocol_max_block_size
  BY <1>1, <1>2, LegacyTxnsAssumption
     DEF try_increment_block_size, decrement_block_size, decremented
<1>4. TypeOK'
  BY <1>1, <1>3 DEF IInv, TypeOK
<1>5. PendingKept' /\ TasksGood'
  BY <1>1, SameTasks DEF IInv, PendingKept, live
<1>6. ResponsesKept'
  BY <1>1, SameTasks DEF IInv, ResponsesKept
<1>. QED  BY <1>4, <1>5, <1>6 DEF IInv

\* A submission starts without responses.
LEMMA SubmitStep ==
  ASSUME IInv, NEW s \in Submitters, NEW txns \in Batches, submit_txns(s, txns)
  PROVE  IInv'
<1>. DEFINE new == [phase |-> "broadcast", limit |-> max_block_size, txns |-> txns,
                    response |-> <<>>]
<1>1. /\ UNCHANGED <<sent, tasks, max_block_size, tx_status>>
      /\ submissions' = [submissions EXCEPT ![s] = new]
  BY DEF submit_txns
<1>2. txns \in Seq(Txns) /\ Len(txns) > 0
  BY LegacyTxnsAssumption
<1>3. max_block_size \in Nat
  BY LegacyTxnsAssumption DEF IInv, TypeOK
<1>4. new \in Submission
  BY <1>2, <1>3 DEF Submission
<1>5. /\ submissions'[s] = new
      /\ \A other \in Submitters \ {s} : submissions'[other] = submissions[other]
  BY <1>1 DEF IInv, TypeOK
<1>6. TypeOK'
  BY <1>1, <1>2, <1>4, <1>5 DEF IInv, TypeOK
<1>7. PendingKept' /\ TasksGood'
  BY <1>1, SameTasks DEF IInv, PendingKept, live
<1>8. ResponsesKept'
  BY <1>1, <1>2, <1>5, SameTasks DEF IInv, ResponsesKept
<1>. QED  BY <1>6, <1>7, <1>8 DEF IInv

\* A transaction that is broadcast is with every task, one that is refused
\* is not reported as pending.
LEMMA ReceiveStep ==
  ASSUME IInv, NEW s \in Submitters, handle_received_txn(s)
  PROVE  IInv'
<1>. DEFINE sub == submissions[s]
            n == Len(sub.response) + 1
            t == sub.txns[n]
            result == outcome(t, sub.limit)
            response == Append(sub.response, result)
<1>1. /\ sub.phase = "broadcast"
      /\ sent' = IF result = "Pending" THEN Append(sent, t) ELSE sent
      /\ submissions' = [submissions EXCEPT ![s] =
            IF n < Len(sub.txns) THEN [sub EXCEPT !.response = response]
            ELSE [sub EXCEPT !.response = response, !.phase = "status", !.limit = 0]]
      /\ UNCHANGED <<tasks, max_block_size, tx_status>>
  BY DEF handle_received_txn
<1>2. /\ sub \in Submission /\ sub.txns \in Seq(Txns) /\ sub.response \in Seq(Statuses)
      /\ n \in 1..Len(sub.txns) /\ t \in Txns /\ sent \in Seq(Txns)
  BY <1>1 DEF IInv, TypeOK, Submission
<1>3. result \in Statuses
  BY DEF outcome, Statuses
<1>4. /\ response \in Seq(Statuses) /\ Len(response) = n /\ response[n] = result
      /\ DOMAIN response = 1..n /\ \A i \in 1..n - 1 : response[i] = sub.response[i]
      /\ DOMAIN sub.response = 1..n - 1
  BY <1>2, <1>3
<1>5. /\ submissions'[s] \in Submission
      /\ submissions'[s].txns = sub.txns /\ submissions'[s].response = response
      /\ submissions'[s].phase = IF n < Len(sub.txns) THEN "broadcast" ELSE "status"
      /\ \A other \in Submitters \ {s} : submissions'[other] = submissions[other]
  BY <1>1, <1>2, <1>4 DEF IInv, TypeOK, Submission
<1>6. sent' \in Seq(Txns) /\ Len(sent) <= Len(sent')
  BY <1>1, <1>2
<1>7. \A b \in DOMAIN tasks : /\ tasks[b] \in Task /\ Good(tasks[b], sent)
                               /\ tasks[b].pos \in Nat
  BY DEF IInv, TypeOK, TasksGood, Task
<1>8. TypeOK'
  <2>1. submissions' \in [Submitters -> Submission]
    BY <1>1, <1>5 DEF IInv, TypeOK
  <2>2. \A other \in Submitters : submissions'[other].phase = "broadcast"
           => Len(submissions'[other].response) < Len(submissions'[other].txns)
    BY <1>4, <1>5 DEF IInv, TypeOK
  <2>3. \A b \in DOMAIN tasks' : tasks'[b] \in Task /\ tasks'[b].pos <= Len(sent')
                                   /\ tasks'[b].tx_queue \subseteq 1..tasks'[b].pos
    BY <1>1, <1>2, <1>6, <1>7 DEF IInv, TypeOK
  <2>. QED  BY <1>1, <1>6, <2>1, <2>2, <2>3 DEF IInv, TypeOK
<1>9. \A b \in DOMAIN tasks :
         /\ Good(tasks[b], sent')
         /\ result = "Pending" => Has(tasks[b], t, sent')
         /\ \A u \in Txns : Has(tasks[b], u, sent) => Has(tasks[b], u, sent')
  <2>1. CASE result = "Pending"
    BY <1>1, <1>2, <1>7, <2>1, LongerLog
  <2>2. CASE result # "Pending"
    BY <1>1, <1>7, <2>2
  <2>. QED  BY <2>1, <2>2
<1>10. TasksGood'
  BY <1>1, <1>9 DEF TasksGood
<1>. DEFINE KeptThen(u) == \A b \in live : Has(tasks[b], u, sent')
<1>11. /\ live' = live /\ live \subseteq DOMAIN tasks
       /\ result = "Pending" => KeptThen(t)
       /\ \A u \in Txns : Kept(u) => KeptThen(u)
  <2>1. live' = live /\ live \subseteq DOMAIN tasks
    BY <1>1 DEF live
  <2>2. result = "Pending" => KeptThen(t)
    <3>. HIDE DEF result, t
    <3>. QED  BY <1>9, <2>1
  <2>3. \A u \in Txns : Kept(u) => KeptThen(u)
    BY <1>9, <2>1, Zenon DEF Kept
  <2>. QED  BY <2>1, <2>2, <2>3
<1>12. PendingKept'
  BY <1>1, <1>9, <1>11 DEF IInv, TypeOK, PendingKept, Has, live
<1>13. ASSUME NEW other \in Submitters
       PROVE  /\ Len(submissions'[other].response) <= Len(submissions'[other].txns)
              /\ submissions'[other].phase = "status" =>
                    Len(submissions'[other].response) = Len(submissions'[other].txns)
              /\ \A i \in DOMAIN submissions'[other].response :
                    submissions'[other].response[i] = "Pending" =>
                       KeptThen(submissions'[other].txns[i])
  <2>1. submissions[other] \in Submission
    BY DEF IInv, TypeOK
  <2>2. /\ Len(submissions[other].response) <= Len(submissions[other].txns)
        /\ submissions[other].phase = "status" =>
              Len(submissions[other].response) = Len(submissions[other].txns)
        /\ \A i \in DOMAIN submissions[other].response :
              submissions[other].response[i] = "Pending" => Kept(submissions[other].txns[i])
    BY DEF IInv, ResponsesKept
  <2>3. \A i \in DOMAIN submissions[other].response : submissions[other].txns[i] \in Txns
    BY <2>1, <2>2 DEF Submission
  <2>. HIDE DEF KeptThen
  <2>4. \A i \in DOMAIN submissions[other].response :
           submissions[other].response[i] = "Pending" => KeptThen(submissions[other].txns[i])
    BY <1>11, <2>2, <2>3
  <2>5. CASE other = s
    <3>1. Len(response) <= Len(sub.txns) /\ (~(n < Len(sub.txns)) => Len(response) = Len(sub.txns))
      BY <1>2, <1>4
    <3>2. ASSUME NEW i \in 1..n, response[i] = "Pending"
          PROVE  KeptThen(sub.txns[i])
      <4>1. CASE i = n
        BY <1>4, <1>11, <3>2, <4>1
      <4>2. CASE i # n
        <5>1. i \in 1..n - 1
          BY <1>2, <4>2
        <5>. QED  BY <1>4, <2>4, <2>5, <3>2, <5>1
      <4>. QED  BY <4>1, <4>2
    <3>. HIDE DEF response, n
    <3>. QED  BY <1>4, <1>5, <2>5, <3>1, <3>2
  <2>6. CASE other # s
    BY <1>5, <2>2, <2>4, <2>6
  <2>. QED  BY <2>5, <2>6
<1>14. ResponsesKept'
  <2>. SUFFICES ASSUME NEW other \in Submitters
                PROVE  /\ Len(submissions'[other].response) <= Len(submissions'[other].txns)
                       /\ submissions'[other].phase = "status" =>
                             Len(submissions'[other].response) = Len(submissions'[other].txns)
                       /\ \A i \in DOMAIN submissions'[other].response :
                             submissions'[other].response[i] = "Pending" =>
                                KeptThen(submissions'[other].txns[i])
    BY <1>1, <1>11 DEF ResponsesKept, Kept
  <2>. QED  BY <1>13
<1>. QED  BY <1>8, <1>10, <1>12, <1>14 DEF IInv

\* The statuses written are those of responses.
LEMMA StatusStep ==
  ASSUME IInv, NEW s \in Submitters, set_txn_status(s)
  PROVE  IInv'
<1>. DEFINE sub == submissions[s]
            batch == {sub.txns[i] : i \in DOMAIN sub.txns}
<1>1. /\ sub.phase = "status"
      /\ submissions' = [submissions EXCEPT ![s] = NoSubmission]
      /\ UNCHANGED <<sent, tasks, max_block_size>>
  BY DEF set_txn_status
<1>2. PICK entries \in kept(DOMAIN tx_status \cup batch) :
         tx_status' = [t \in entries |-> new_status(sub, t)]
  BY DEF set_txn_status
<1>3. entries \subseteq DOMAIN tx_status \cup batch
  BY <1>2 DEF kept, kSubset
<1>4. /\ sub.txns \in Seq(Txns) /\ sub.response \in Seq(Statuses)
      /\ Len(sub.response) = Len(sub.txns)
      /\ DOMAIN sub.txns = 1..Len(sub.txns) /\ DOMAIN sub.response = 1..Len(sub.txns)
  BY <1>1 DEF IInv, TypeOK, ResponsesKept, Submission
<1>5. ASSUME NEW t \in batch
      PROVE  written(sub, t) \in Statuses /\ (written(sub, t) = "Pending" => Kept(t))
  <2>. DEFINE positions == {i \in DOMAIN sub.txns : sub.txns[i] = t}
              last == CHOOSE i \in DOMAIN sub.txns : /\ sub.txns[i] = t
                                                     /\ \A j \in DOMAIN sub.txns :
                                                           sub.txns[j] = t => j <= i
  <2>1. \E i \in DOMAIN sub.txns : /\ sub.txns[i] = t
                                   /\ \A j \in DOMAIN sub.txns : sub.txns[j] = t => j <= i
    <3>. DEFINE distances == {Len(sub.txns) - i : i \in positions}
    <3>1. distances \in SUBSET Nat /\ distances # {}
      <4>1. PICK i \in DOMAIN sub.txns : sub.txns[i] = t
        OBVIOUS
      <4>2. i \in positions /\ \A j \in positions : j \in 1..Len(sub.txns)
        BY <1>4, <4>1
      <4>3. Len(sub.txns) \in Nat
        BY <1>4
      <4>4. Len(sub.txns) - i \in distances
        BY <4>2
      <4>5. \A d \in distances : d \in Nat
        BY <4>2, <4>3
      <4>. QED  BY <4>4, <4>5
    <3>2. Min(distances) \in distances /\ \A d \in distances : Min(distances) <= d
      BY <3>1, LeastPosition
    <3>. HIDE DEF distances
    <3>3. PICK i \in positions : Min(distances) = Len(sub.txns) - i
      BY <3>2 DEF distances
    <3>4. \A j \in positions : Len(sub.txns) - i <= Len(sub.txns) - j
      BY <3>2, <3>3 DEF distances
    <3>. QED  BY <1>4, <3>4
  <2>2. last \in DOMAIN sub.txns /\ sub.txns[last] = t
    BY <2>1, Zenon
  <2>3. written(sub, t) = sub.response[last]
    BY DEF written
  <2>. HIDE DEF last
  <2>. QED  BY <1>4, <2>2, <2>3 DEF IInv, ResponsesKept
<1>6. ASSUME NEW t \in entries
      PROVE  /\ t \in Txns /\ new_status(sub, t) \in Statuses
             /\ new_status(sub, t) = "Pending" => Kept(t)
  <2>1. CASE t \in batch
    BY <1>4, <1>5, <2>1 DEF new_status
  <2>2. CASE t \notin batch
    <3>1. t \in DOMAIN tx_status /\ new_status(sub, t) = tx_status[t]
      BY <1>3, <2>2 DEF new_status
    <3>. QED  BY <3>1 DEF IInv, TypeOK, PendingKept, Kept, Has
  <2>. QED  BY <2>1, <2>2
<1>7. NoSubmission \in Submission
  BY DEF NoSubmission, Submission
<1>8. /\ submissions'[s] = NoSubmission
      /\ \A other \in Submitters \ {s} : submissions'[other] = submissions[other]
  BY <1>1 DEF IInv, TypeOK
<1>9. TypeOK'
  BY <1>1, <1>2, <1>6, <1>7, <1>8 DEF IInv, TypeOK, NoSubmission
<1>10. TasksGood'
  BY <1>1, SameTasks DEF IInv
<1>11. PendingKept'
  BY <1>1, <1>2, <1>6 DEF PendingKept, Kept, Has, live
<1>12. ResponsesKept'
  BY <1>1, <1>8, SameTasks DEF IInv, ResponsesKept, NoSubmission
<1>. QED  BY <1>9, <1>10, <1>11, <1>12 DEF IInv

\* What a task does by itself: it starts to build, takes a transaction from
\* the channel, drops the front of its queue or nothing.
LEMMA BuilderStep ==
  ASSUME IInv, NEW b \in DOMAIN tasks,
         process_block_request(b) \/ collect_txns(b) \/ build_block(b)
  PROVE  IInv'
<1>1. tasks[b] \in Task /\ Good(tasks[b], sent) /\ sent \in Seq(Txns)
  BY DEF IInv, TypeOK, TasksGood
<1>2. UNCHANGED <<sent, max_block_size, tx_status, submissions>>
  BY DEF process_block_request, collect_txns, build_block
<1>3. b \in live
  BY DEF process_block_request, collect_txns, build_block, live
<1>4. ASSUME NEW phase \in {"loop", "build", "exited"}
      PROVE  LET moved == [tasks[b] EXCEPT !.phase = phase]
             IN  /\ moved \in Task /\ Good(moved, sent) /\ moved.tx_queue = tasks[b].tx_queue
                 /\ \A t \in Txns : Has(tasks[b], t, sent) => Has(moved, t, sent)
  BY <1>1 DEF Task, Good, InSync, Remembered, Included, Has
<1>5. CASE process_block_request(b)
  <2>. DEFINE moved == [tasks[b] EXCEPT !.phase = "build"]
  <2>1. set_task(b, moved)
    BY <1>5 DEF process_block_request
  <2>2. /\ moved \in Task /\ Good(moved, sent)
        /\ \A t \in Txns : Has(tasks[b], t, sent) => Has(moved, t, sent)
    BY <1>4
  <2>. HIDE DEF moved
  <2>. QED  BY <1>2, <1>3, <2>1, <2>2, TaskStep
<1>6. CASE collect_txns(b)
  <2>. DEFINE n == tasks[b].pos + 1
              new == IF sent[n] \in known(tasks[b]) THEN [tasks[b] EXCEPT !.pos = n]
                     ELSE [tasks[b] EXCEPT !.pos = n, !.tx_queue = @ \cup {n},
                                           !.txns_in_queue = @ \cup {sent[n]}]
  <2>1. set_task(b, new) /\ n <= Len(sent)
    BY <1>6 DEF collect_txns
  <2>2. tasks[b].pos < Len(sent)
    BY <1>1, <2>1 DEF Task
  <2>3. /\ new \in Task /\ Good(new, sent)
        /\ \A t \in Txns : Has(tasks[b], t, sent) => Has(new, t, sent)
    BY <1>1, <2>2, TakeOne
  <2>. HIDE DEF new
  <2>. QED  BY <1>2, <1>3, <2>1, <2>3, TaskStep
<1>7. CASE build_block(b)
  <2>. DEFINE task == [tasks[b] EXCEPT !.phase = "loop"]
  <2>1. /\ task \in Task /\ Good(task, sent)
        /\ \A t \in Txns : Has(tasks[b], t, sent) => Has(task, t, sent)
    BY <1>4
  <2>2. \/ set_task(b, task)
        \/ task.tx_queue # {} /\ set_task(b, drop_front(task))
    BY <1>7 DEF build_block
  <2>. HIDE DEF task
  <2>3. CASE set_task(b, task)
    BY <1>2, <1>3, <2>1, <2>3, TaskStep
  <2>4. CASE task.tx_queue # {} /\ set_task(b, drop_front(task))
    <3>1. /\ drop_front(task) \in Task /\ Good(drop_front(task), sent)
          /\ \A t \in Txns : Has(task, t, sent) => Has(drop_front(task), t, sent)
      BY <1>1, <2>1, <2>4, DropOne
    <3>. QED  BY <1>2, <1>3, <2>1, <2>4, <3>1, TaskStep
  <2>. QED  BY <2>2, <2>3, <2>4
<1>. QED  BY <1>5, <1>6, <1>7

\* The child has what its parent has; the parent stays as it is.
LEMMA SpawnStep ==
  ASSUME IInv, NEW b \in DOMAIN tasks, NEW view \in Tasks,
         NEW block \in SUBSET (Txns \ Oversized), spawn_clone(b, view, block)
  PROVE  IInv'
<1>1. /\ tasks[b] \in Task /\ Good(tasks[b], sent) /\ sent \in Seq(Txns)
      /\ DOMAIN tasks \subseteq Tasks
  BY DEF IInv, TypeOK, TasksGood
<1>2. PICK clone \in clone_with_receiver(tasks[b]) :
         tasks' = [c \in DOMAIN tasks \cup {view} |->
                     IF c = view THEN child(clone, view, block) ELSE tasks[c]]
  BY DEF spawn_clone
<1>3. /\ UNCHANGED <<sent, max_block_size, tx_status, submissions>>
      /\ view \notin DOMAIN tasks /\ tasks[b].phase = "loop"
  BY DEF spawn_clone
<1>. DEFINE new == child(clone, view, block)
<1>4. /\ new \in Task /\ Good(new, sent)
      /\ \A t \in Txns : Has(tasks[b], t, sent) => Has(new, t, sent)
  <2>1. view \in Nat /\ block \in SUBSET Txns
    BY LegacyTxnsAssumption
  <2>. QED  BY <1>1, <2>1, ChildGood
<1>5. /\ DOMAIN tasks' = DOMAIN tasks \cup {view} /\ tasks'[view] = new
      /\ \A c \in DOMAIN tasks : tasks'[c] = tasks[c]
  BY <1>2, <1>3
<1>. HIDE DEF new
<1>6. \A c \in DOMAIN tasks' : tasks'[c] \in Task /\ Good(tasks'[c], sent)
  BY <1>4, <1>5 DEF IInv, TypeOK, TasksGood
<1>7. \A t \in Txns : Kept(t) => Kept(t)'
  <2>1. b \in live /\ live' \subseteq live \cup {view}
    BY <1>3, <1>5 DEF live
  <2>2. live \subseteq DOMAIN tasks
    BY DEF live
  <2>. QED  BY <1>3, <1>4, <1>5, <2>1, <2>2 DEF Kept
<1>. QED  BY <1>1, <1>3, <1>5, <1>6, <1>7, TasksStep

\* A task that exits has nothing to keep.
LEMMA ExitStep ==
  ASSUME IInv, NEW b \in DOMAIN tasks, process_decide_event(b)
  PROVE  IInv'
<1>. DEFINE new == [BootstrapTask EXCEPT !.phase = "exited"]
<1>1. /\ UNCHANGED <<sent, max_block_size, tx_status, submissions>>
      /\ DOMAIN tasks' = DOMAIN tasks /\ tasks'[b] = new
      /\ \A c \in DOMAIN tasks \ {b} : tasks'[c] = tasks[c]
  BY DEF process_decide_event, set_task
<1>2. sent \in Seq(Txns) /\ Len(sent) \in Nat /\ DOMAIN tasks \subseteq Tasks
  BY DEF IInv, TypeOK
<1>3. new \in Task /\ Good(new, sent) /\ new.phase = "exited"
  BY <1>2 DEF BootstrapTask, Task, Good, InSync, Remembered, Included
<1>. HIDE DEF new
<1>4. \A c \in DOMAIN tasks' : tasks'[c] \in Task /\ Good(tasks'[c], sent)
  BY <1>1, <1>3 DEF IInv, TypeOK, TasksGood
<1>5. \A t \in Txns : Kept(t) => Kept(t)'
  <2>1. live' \subseteq live \ {b} /\ live \subseteq DOMAIN tasks
    BY <1>1, <1>3 DEF live
  <2>. QED  BY <1>1, <2>1 DEF Kept
<1>. QED  BY <1>1, <1>2, <1>4, <1>5, TasksStep

\* At first nothing is sent, reported or queued.
LEMMA InitIInv == Init => IInv
<1>. SUFFICES ASSUME Init PROVE IInv
  OBVIOUS
<1>1. /\ BootstrapTask \in Task /\ Good(BootstrapTask, <<>>) /\ BootstrapTask.pos = 0
      /\ BootstrapTask.tx_queue = {}
  BY DEF BootstrapTask, Task, Good, InSync, Remembered, Included
<1>2. NoSubmission \in Submission /\ NoSubmission.phase = "idle" /\ NoSubmission.response = <<>>
      /\ NoSubmission.txns = <<>>
  BY DEF NoSubmission, Submission
<1>3. /\ DOMAIN tasks = {0} /\ tasks[0] = BootstrapTask /\ sent = <<>> /\ DOMAIN tx_status = {}
      /\ \A s \in Submitters : submissions[s] = NoSubmission
  BY DEF Init
<1>4. TypeOK
  BY <1>1, <1>2, <1>3, LegacyTxnsAssumption DEF Init, TypeOK
<1>5. TasksGood
  BY <1>1, <1>3 DEF TasksGood
<1>6. PendingKept
  BY <1>3 DEF PendingKept
<1>7. ResponsesKept
  BY <1>2, <1>3 DEF ResponsesKept
<1>. QED  BY <1>4, <1>5, <1>6, <1>7 DEF IInv

\* One case per action.
LEMMA NextIInv == IInv /\ [Next]_vars => IInv'
<1>. SUFFICES ASSUME IInv, [Next]_vars PROVE IInv'
  OBVIOUS
<1>1. CASE UNCHANGED vars
  BY <1>1 DEF vars, IInv, TypeOK, TasksGood, PendingKept, ResponsesKept, Kept, live, Has
<1>2. ASSUME NEW s \in Submitters, NEW txns \in Batches, submit_txns(s, txns) PROVE IInv'
  BY <1>2, SubmitStep
<1>3. ASSUME NEW s \in Submitters, handle_received_txn(s) PROVE IInv'
  BY <1>3, ReceiveStep
<1>4. ASSUME NEW s \in Submitters, set_txn_status(s) PROVE IInv'
  BY <1>4, StatusStep
<1>5. CASE try_increment_block_size \/ decrement_block_size
  BY <1>5, LimitStep
<1>6. ASSUME NEW b \in DOMAIN tasks,
             process_block_request(b) \/ collect_txns(b) \/ build_block(b)
      PROVE  IInv'
  BY <1>6, BuilderStep
<1>7. ASSUME NEW b \in DOMAIN tasks, NEW view \in Tasks,
             NEW block \in SUBSET (Txns \ Oversized), spawn_clone(b, view, block)
      PROVE  IInv'
  BY <1>7, SpawnStep
<1>8. ASSUME NEW b \in DOMAIN tasks, process_decide_event(b) PROVE IInv'
  BY <1>8, ExitStep
<1>. QED  BY <1>1, <1>2, <1>3, <1>4, <1>5, <1>6, <1>7, <1>8 DEF Next

----------------------------------------------------------------------------
(* Theorems *)

\* The invariant holds in every reachable state.
THEOREM Invariance == Spec => []IInv
<1>. QED  BY InitIInv, NextIInv, PTL DEF Spec

\* Every field keeps its type, and the size limit stays between its floor and
\* the protocol's maximum.
THEOREM TypeCorrect == Spec => []TypeOK
<1>1. IInv => TypeOK
  BY DEF IInv
<1>. QED  BY Invariance, <1>1, PTL

\* A transaction the builder reports as pending is with every running task.
THEOREM PendingIsKept == Spec => []PendingKept
<1>1. IInv => PendingKept
  BY DEF IInv
<1>. QED  BY Invariance, <1>1, PTL

\* The queue of a task holds nothing twice and nothing of a recent block.
THEOREM RecentIsNotQueued == Spec => []RecentNotQueued
<1>1. IInv => RecentNotQueued
  <2>. SUFFICES ASSUME IInv, NEW b \in live PROVE
         LET task == tasks[b]
         IN  /\ \A n \in 1..3 : \A t \in task.recent[n] :
                   t \in known(task) /\ \A i \in task.tx_queue : sent[i] # t
             /\ \A i, j \in task.tx_queue : sent[i] = sent[j] => i = j
    BY DEF RecentNotQueued
  <2>1. Good(tasks[b], sent)
    BY DEF IInv, TasksGood, live
  <2>2. \A n \in 1..3 : tasks[b].recent[n] \subseteq Included(tasks[b])
    <3>1. \A n \in 1..3 : n = 1 \/ n = 2 \/ n = 3
      OBVIOUS
    <3>. QED  BY <2>1, <3>1 DEF Good, Remembered, Included
  <2>3. Included(tasks[b]) \subseteq known(tasks[b])
    BY DEF Included, known
  <2>4. \A i \in tasks[b].tx_queue : sent[i] \notin Included(tasks[b])
    BY <2>1 DEF Good, InSync
  <2>5. \A i, j \in tasks[b].tx_queue : sent[i] = sent[j] => i = j
    BY <2>1 DEF Good, InSync
  <2>. QED  BY <2>2, <2>3, <2>4, <2>5
<1>. QED  BY Invariance, <1>1, PTL

\* The first of the transactions to include is the front of the queue.
LEMMA FrontIncluded ==
  ASSUME NEW queue \in SUBSET Nat, queue # {}
  PROVE  /\ transactions_to_include(queue) # {}
         /\ Min(transactions_to_include(queue)) = Min(queue)
<1>. DEFINE txns == transactions_to_include(queue)
<1>1. Min(queue) \in queue /\ \A n \in queue : Min(queue) <= n
  BY LeastPosition
<1>2. txns \subseteq queue /\ Min(queue) \in txns
  BY <1>1 DEF transactions_to_include
<1>3. txns \in SUBSET Nat /\ txns # {}
  BY <1>2
<1>. HIDE DEF txns
<1>4. Min(txns) \in txns /\ \A n \in txns : Min(txns) <= n
  BY <1>3, LeastPosition
<1>5. Min(txns) <= Min(queue) /\ Min(queue) <= Min(txns)
  BY <1>1, <1>2, <1>4
<1>6. Min(txns) \in Nat /\ Min(queue) \in Nat
  BY <1>1, <1>3, <1>4
<1>. QED  BY <1>3, <1>5, <1>6 DEF txns

\* Only a transaction too big for the sequencer leaves the queue of a task
\* that goes on, however the limit has changed since it was accepted.
THEOREM OnlyOversizedDropped == Spec => DroppedOnlyOversized
<1>. DEFINE Drops == \A b \in live : tasks[b]'.phase = "loop" =>
                        \A i \in tasks[b].tx_queue \ tasks[b]'.tx_queue : sent[i] \in Oversized
<1>1. IInv /\ [Next]_vars => [Drops]_vars
  <2>. SUFFICES ASSUME IInv, Next, NEW c \in live, tasks'[c].phase = "loop",
                       NEW i \in tasks[c].tx_queue \ tasks'[c].tx_queue
                PROVE  sent[i] \in Oversized
    OBVIOUS
  <2>. SUFFICES ASSUME tasks' # tasks PROVE sent[i] \in Oversized
    OBVIOUS
  <2>1. c \in DOMAIN tasks /\ tasks[c] \in Task
    BY DEF live, IInv, TypeOK
  <2>3. ASSUME NEW b \in DOMAIN tasks, process_block_request(b) PROVE FALSE
    <3>1. set_task(b, [tasks[b] EXCEPT !.phase = "build"]) /\ tasks[b] \in Task
      BY <2>3 DEF process_block_request, IInv, TypeOK
    <3>2. tasks'[c].tx_queue = tasks[c].tx_queue
      BY <2>1, <3>1 DEF set_task, Task
    <3>. QED  BY <3>2
  <2>4. ASSUME NEW b \in DOMAIN tasks, collect_txns(b) PROVE FALSE
    <3>1. tasks[b] \in Task /\ tasks[c].tx_queue \subseteq tasks'[c].tx_queue
      BY <2>1, <2>4 DEF collect_txns, set_task, Task, IInv, TypeOK
    <3>. QED  BY <3>1
  <2>5. ASSUME NEW b \in DOMAIN tasks, NEW view \in Tasks \ DOMAIN tasks,
               NEW block, spawn_clone(b, view, block)
        PROVE  FALSE
    <3>1. tasks'[c] = tasks[c]
      BY <2>1, <2>5 DEF spawn_clone
    <3>. QED  BY <3>1
  <2>6. ASSUME NEW b \in DOMAIN tasks, process_decide_event(b) PROVE FALSE
    <3>1. tasks'[c].phase = "exited" \/ tasks'[c] = tasks[c]
      BY <2>1, <2>6 DEF process_decide_event, set_task, BootstrapTask
    <3>. QED  BY <3>1
  <2>7. ASSUME NEW b \in DOMAIN tasks, build_block(b) PROVE sent[i] \in Oversized
    <3>. DEFINE task == [tasks[b] EXCEPT !.phase = "loop"]
                queue == tasks[b].tx_queue
    <3>1. tasks[b] \in Task /\ task \in Task /\ task.tx_queue = queue /\ queue \in SUBSET Nat
      BY DEF IInv, TypeOK, Task
    <3>2. \/ set_task(b, task)
          \/ /\ queue # {} /\ 0 \in num_transactions(transactions_to_include(queue))
             /\ set_task(b, drop_front(task))
      BY <2>7, <3>1 DEF build_block
    <3>3. drop_front(task).tx_queue = queue \ {Min(queue)}
      BY <3>1 DEF drop_front, Task
    <3>. HIDE DEF task
    <3>4. c = b /\ ~set_task(b, task)
      BY <2>1, <3>1, <3>2 DEF set_task
    <3>5. i = Min(queue)
      BY <2>1, <3>2, <3>3, <3>4 DEF set_task
    <3>6. sent[Min(queue)] \in Oversized
      <4>1. 0 \in num_transactions(transactions_to_include(queue)) /\ queue # {}
        BY <3>2, <3>4
      <4>2. 0 \notin 1..Cardinality(transactions_to_include(queue))
        OBVIOUS
      <4>. QED  BY <3>1, <4>1, <4>2, FrontIncluded, Zenon DEF num_transactions
    <3>. QED  BY <3>5, <3>6
  <2>8. ASSUME NEW s \in Submitters,
               \/ \E txns \in Batches : submit_txns(s, txns)
               \/ handle_received_txn(s) \/ set_txn_status(s)
        PROVE  FALSE
    BY <2>8 DEF submit_txns, handle_received_txn, set_txn_status
  <2>9. CASE try_increment_block_size \/ decrement_block_size
    BY <2>9 DEF try_increment_block_size, decrement_block_size
  <2>10. \A b, view, block : spawn_clone(b, view, block) => view \in Tasks \ DOMAIN tasks
    BY DEF spawn_clone
  <2>. QED  BY <2>3, <2>4, <2>5, <2>6, <2>7, <2>8, <2>9, <2>10 DEF Next
<1>. QED  BY Invariance, <1>1, PTL DEF Spec, DroppedOnlyOversized

=============================================================================
