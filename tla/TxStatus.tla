----------------------------- MODULE TxStatus -----------------------------
(***************************************************************************)
(* The status cache of BuilderStateCoordinator                             *)
(* (shared/src/coordinator/mod.rs): handle_transaction and handle_decide   *)
(* run as tasks, and each update_txn_status they make reads the cache and  *)
(* later writes it, with nothing held in between.                          *)
(*                                                                         *)
(* The part of handle_decide that follows its updates is Coordinator's,    *)
(* the channel behind try_broadcast is TxnFlow's: here a broadcast may     *)
(* succeed or fail.                                                        *)
(***************************************************************************)
EXTENDS Naturals, Sequences, FiniteSets

CONSTANTS
    Txns,        \* transaction commitments
    Tasks,       \* tasks handling an event
    LeafChains,  \* per decide, the commitments in the order of its leaves
    Capacity     \* tx_status_cache_capacity

ASSUME TxStatusAssumption == LeafChains \subseteq Seq(Txns) /\ Capacity \in Nat

Unknown == "Unknown"     \* no entry
Final   == {"Rejected", "Sequenced"}
Status  == {Unknown, "Pending"} \cup Final

VARIABLES
    tx_status,   \* what the cache answers
    todo,        \* per task, the updates it still has to make
    writing,     \* tasks between the read and the write of an update
    accepted,    \* history: transactions ever broadcast
    refused,     \* history: transactions ever refused
    sequenced,   \* history: transactions of the decides handled
    overlapped   \* history: transactions two updates of which overlapped

happened == <<accepted, refused, sequenced>>
status_vars == <<tx_status, todo, writing, happened, overlapped>>

Update(t, status) == [txn |-> t, status |-> status]
Updates == [txn : Txns, status : Status \ {Unknown}]

StatusInit ==
    /\ tx_status = [t \in Txns |-> Unknown]
    /\ todo = [k \in Tasks |-> <<>>]
    /\ writing = {}
    /\ accepted = {} /\ refused = {} /\ sequenced = {} /\ overlapped = {}

\* Tasks between the read and the write of an update of t.
writers(t) == {k \in writing : Head(todo[k]).txn = t}

----------------------------------------------------------------------------
\* handle_transaction after a successful try_broadcast.
accept_transaction(k, t) ==
    /\ todo[k] = <<>>
    /\ todo' = [todo EXCEPT ![k] = <<Update(t, "Pending")>>]
    /\ accepted' = accepted \cup {t}
    /\ UNCHANGED <<tx_status, writing, refused, sequenced, overlapped>>

\* Slip: a refused transaction is reported as accepted.
refuse_transaction_pending(k, t) ==
    /\ todo[k] = <<>>
    /\ todo' = [todo EXCEPT ![k] = <<Update(t, "Pending")>>]
    /\ refused' = refused \cup {t}
    /\ UNCHANGED <<tx_status, writing, accepted, sequenced, overlapped>>

\* handle_transaction after a failed one.  A service that finds the
\* transaction too big makes the same update without broadcasting.
refuse_transaction(k, t) ==
    /\ todo[k] = <<>>
    /\ todo' = [todo EXCEPT ![k] = <<Update(t, "Rejected")>>]
    /\ refused' = refused \cup {t}
    /\ UNCHANGED <<tx_status, writing, accepted, sequenced, overlapped>>

\* handle_decide, its first loop: an update per transaction of each leaf.
handle_decide_leaves(k, chain) ==
    /\ todo[k] = <<>>
    /\ todo' = [todo EXCEPT ![k] = [n \in DOMAIN chain |-> Update(chain[n], "Sequenced")]]
    /\ sequenced' = sequenced \cup {chain[n] : n \in DOMAIN chain}
    /\ UNCHANGED <<tx_status, writing, accepted, refused, overlapped>>

\* Slip: a final status is not looked for.
get_status_unchecked(k) ==
    /\ todo[k] # <<>> /\ k \notin writing
    /\ LET t == Head(todo[k]).txn
       IN  overlapped' = IF writers(t) = {} THEN overlapped ELSE overlapped \cup {t}
    /\ writing' = writing \cup {k}
    /\ UNCHANGED <<tx_status, todo, happened>>

\* update_txn_status, the read: a final status is left as it is.
get_status(k) ==
    /\ todo[k] # <<>> /\ k \notin writing
    /\ LET t == Head(todo[k]).txn
       IN  IF tx_status[t] \in Final
           THEN /\ todo' = [todo EXCEPT ![k] = Tail(@)]
                /\ UNCHANGED <<writing, overlapped>>
           ELSE /\ writing' = writing \cup {k}
                /\ overlapped' = IF writers(t) = {} THEN overlapped ELSE overlapped \cup {t}
                /\ UNCHANGED todo
    /\ UNCHANGED <<tx_status, happened>>

\* What the cache may keep after an insert: once it is full some entry goes.
evictions(status) ==
    LET entries == {t \in Txns : status[t] # Unknown}
    IN  IF Cardinality(entries) <= Capacity THEN {status}
        ELSE {[status EXCEPT ![t] = Unknown] : t \in entries}

\* Slip: the task never leaves the update.
insert_status_lingering(k) ==
    /\ k \in writing
    /\ LET update == Head(todo[k])
       IN  tx_status' \in evictions([tx_status EXCEPT ![update.txn] = update.status])
    /\ todo' = [todo EXCEPT ![k] = Tail(@)]
    /\ UNCHANGED <<writing, happened, overlapped>>

\* update_txn_status, the write.
insert_status(k) ==
    /\ k \in writing
    /\ LET update == Head(todo[k])
       IN  tx_status' \in evictions([tx_status EXCEPT ![update.txn] = update.status])
    /\ todo' = [todo EXCEPT ![k] = Tail(@)]
    /\ writing' = writing \ {k}
    /\ UNCHANGED <<happened, overlapped>>

StatusNext == \E k \in Tasks :
    \/ \E t \in Txns : accept_transaction(k, t) \/ refuse_transaction(k, t)
    \/ \E chain \in LeafChains : handle_decide_leaves(k, chain)
    \/ get_status(k)
    \/ insert_status(k)

StatusSpec == StatusInit /\ [][StatusNext]_status_vars

----------------------------------------------------------------------------
(* Properties *)

StatusTypeOK ==
    /\ tx_status \in [Txns -> Status]
    /\ todo \in [Tasks -> Seq(Updates)]
    /\ writing \subseteq Tasks
    /\ \A k \in writing : todo[k] # <<>>
    /\ accepted \subseteq Txns /\ refused \subseteq Txns
    /\ sequenced \subseteq Txns /\ overlapped \subseteq Txns

\* Whatever races there are, a status is only reported for what happened:
\* nothing is Pending that was not broadcast, nothing Sequenced that was
\* not decided, nothing Rejected that was not refused.
StatusGrounded ==
    \A t \in Txns : /\ tx_status[t] = "Pending" => t \in accepted
                    /\ tx_status[t] = "Rejected" => t \in refused
                    /\ tx_status[t] = "Sequenced" => t \in sequenced

\* A final status only changes if the entry is evicted, or if two updates
\* of the transaction overlapped: the one then acts on what it read before
\* the other wrote.
FinalUnlessOverlap ==
    [][\A t \in Txns : (tx_status[t] \in Final /\ t \notin overlapped)
          => tx_status'[t] \in {tx_status[t], Unknown}]_status_vars

============================================================================
