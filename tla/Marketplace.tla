----------------------------- MODULE Marketplace -----------------------------
(***************************************************************************)
(* The marketplace builder service (marketplace/src/service.rs and         *)
(* hooks.rs) on top of the event stream: an event loop that runs a hook    *)
(* and then spawns a task for every event, private submissions, and the    *)
(* requests for bundles.                                                   *)
(*                                                                         *)
(* The coordinator is reduced to what they see of it: the stored builder   *)
(* states, one per view, and per state how far its receiver is in the      *)
(* channel of transactions and what is in its queue.  (How states are      *)
(* spawned and cloned is Coordinator's and TxnFlow's.)  A loop polls the   *)
(* stream only when it has nothing else to do.                             *)
(***************************************************************************)
EXTENDS EventStream, FiniteSets, SequencesExt

CONSTANTS
    Events,      \* what events can be about
    Txns,
    Approved,    \* those that the hook process_transactions lets through
    filtered,    \* what that hook makes of the transactions it is given
    Views,       \* of builder states; 0 is the bootstrap state's
    Requests,    \* concurrent calls of bundle
    Batches,     \* what a client can submit
    Capacity,    \* txn_channel_capacity
    MaxSent      \* bound: number of transactions broadcast

Given == Batches \cup {e.txns : e \in {event \in Events : event.type = "raw"}}

ASSUME MarketplaceAssumption ==
    /\ Approved \subseteq Txns /\ 0 \in Views /\ Views \subseteq Nat
    /\ Events \subseteq [type : {"raw"}, txns : Seq(Txns)]
                          \cup [type : {"proposal"}, view : Views, txns : SUBSET Txns]
                          \cup [type : {"decide"}, view : Nat]
    /\ Batches \subseteq Seq(Txns) /\ Capacity \in Nat /\ MaxSent \in Nat
    /\ filtered \in [Given -> Seq(Approved)]

VARIABLES
    contents,    \* the events published
    hook,        \* the event handle_hotshot_event is at work on; 0: none
    tasks,       \* spawned for an event, or a call of submit_txns (event 0)
    sent,        \* the coordinator's channel: all that was broadcast
    states,      \* builder states ever spawned
    stored,      \* views of those in the coordinator's map
    requests     \* local state of a bundle request

coordinator == <<sent, states, stored>>
vars == <<stream_vars, contents, hook, tasks, coordinator, requests>>

NoRequest == [phase |-> "done", view |-> 0, expired |-> FALSE, late |-> FALSE,
              queue_empty |-> TRUE, result |-> "unasked", bundle |-> {}]

Init ==
    /\ StreamInit
    /\ contents = <<>> /\ hook = 0 /\ tasks = {}
    /\ sent = <<>>
    /\ states = [v \in {0} |-> [pos |-> 0, txn_queue |-> {}, included_txns |-> {}]]
    /\ stored = {0}
    /\ requests = [r \in Requests |-> NoRequest]

----------------------------------------------------------------------------
(* The event loop *)

published_as(event) ==
    /\ publish
    /\ contents' = Append(contents, event)
    /\ UNCHANGED <<hook, tasks, coordinator, requests>>

outage ==
    /\ service_starts \/ service_stops
    /\ UNCHANGED <<contents, hook, tasks, coordinator, requests>>

\* event_stream.next().await
next_event ==
    /\ hook = 0
    /\ connect_inner \/ retry \/ reconnect \/ skip_error
    /\ UNCHANGED <<contents, hook, tasks, coordinator, requests>>

task_for(e) == [event |-> e, content |-> contents[e]]

\* Slip: the task is spawned before the hook is run.
some_event_spawning ==
    /\ hook = 0 /\ yield_event
    /\ hook' = connection.next
    /\ tasks' = tasks \cup {task_for(connection.next)}
    /\ UNCHANGED <<contents, coordinator, requests>>

some_event ==
    /\ hook = 0 /\ yield_event
    /\ hook' = connection.next
    /\ UNCHANGED <<contents, tasks, coordinator, requests>>

\* handle_hotshot_event is done with the event; a task of its own goes on.
spawn_task ==
    /\ hook # 0
    /\ tasks' = tasks \cup {task_for(hook)}
    /\ hook' = 0
    /\ UNCHANGED <<stream_vars, contents, coordinator, requests>>

submit_txns(txns) ==
    /\ \A task \in tasks : task.event # 0
    /\ tasks' = tasks \cup {[event |-> 0, content |-> [type |-> "raw", txns |-> txns]]}
    /\ UNCHANGED <<stream_vars, contents, hook, coordinator, requests>>

----------------------------------------------------------------------------
(* The tasks *)

done_with(task) == tasks' = tasks \ {task}
going_on(task, content) == tasks' = (tasks \ {task}) \cup {[task EXCEPT !.content = content]}

\* Slip: only private transactions are shown to the hook.
processed_private(task) ==
    IF task.event = 0 THEN filtered[task.content.txns] ELSE task.content.txns

processed(task) == filtered[task.content.txns]

process_transactions(task) ==
    /\ task.content.type = "raw"
    /\ going_on(task, [type |-> "transactions", txns |-> processed(task)])
    /\ UNCHANGED <<stream_vars, contents, hook, coordinator, requests>>

held == {requests[r].view : r \in {q \in Requests : requests[q].phase \in {"collect", "sleep", "read"}}}

\* try_broadcast
full == \E v \in stored \cup held : Len(sent) - states[v].pos >= Capacity

\* Transactions of an event are all tried, those of a client up to the first
\* that is refused.
handle_transaction(task) ==
    LET txns == task.content.txns
    IN  /\ task.content.type = "transactions"
        /\ IF txns = <<>> THEN done_with(task) /\ UNCHANGED sent
           ELSE /\ full \/ Len(sent) < MaxSent
                /\ sent' = IF full THEN sent ELSE Append(sent, Head(txns))
                /\ IF full /\ task.event = 0 THEN done_with(task)
                   ELSE going_on(task, [type |-> "transactions", txns |-> Tail(txns)])
        /\ UNCHANGED <<stream_vars, contents, hook, states, stored, requests>>

\* A pair of proposals is complete: Coordinator says which state is extended.
spawn_builder_state(task, parent) ==
    LET view == task.content.view
        block == task.content.txns
    IN  /\ task.content.type = "proposal"
        /\ done_with(task)
        /\ IF view \in DOMAIN states \/ view <= parent THEN UNCHANGED <<states, stored>>
           ELSE /\ states' = [v \in DOMAIN states \cup {view} |->
                                IF v # view THEN states[v]
                                ELSE [states[parent] EXCEPT !.txn_queue = @ \ block,
                                                            !.included_txns = @ \cup block]]
                /\ stored' = stored \cup {view}
        /\ UNCHANGED <<stream_vars, contents, hook, sent, requests>>

\* Slip: the state of the highest view is not kept.
decide_clearing(task) ==
    /\ task.content.type = "decide"
    /\ done_with(task)
    /\ stored' = {v \in stored : v >= task.content.view}
    /\ UNCHANGED <<stream_vars, contents, hook, sent, states, requests>>

handle_decide(task) ==
    LET highest == CHOOSE v \in stored : \A w \in stored : w <= v
    IN  /\ task.content.type = "decide"
        /\ done_with(task)
        /\ stored' = {v \in stored : v >= task.content.view \/ v = highest}
        /\ UNCHANGED <<stream_vars, contents, hook, sent, states, requests>>

----------------------------------------------------------------------------
(* bundle *)

set_request(r, request) == requests' = [requests EXCEPT ![r] = request]

\* The last conjunct of every step of a request.
only_requests == UNCHANGED <<stream_vars, contents, hook, tasks, coordinator>>

bundle(r, view) ==
    /\ requests[r].phase = "done"
    /\ set_request(r, [NoRequest EXCEPT !.phase = "lookup", !.view = view, !.result = "none"])
    /\ only_requests

\* The clock passes start + api_timeout, or timeout_after.
time_passes(r) ==
    /\ \/ /\ requests[r].phase \in {"lookup", "wait"} /\ ~requests[r].expired
          /\ set_request(r, [requests[r] EXCEPT !.expired = TRUE])
       \/ /\ requests[r].phase \in {"collect", "sleep"} /\ ~requests[r].late
          /\ set_request(r, [requests[r] EXCEPT !.late = TRUE])
    /\ only_requests

answer(r, result, txns) ==
    set_request(r, [NoRequest EXCEPT !.view = requests[r].view, !.result = result,
                                     !.bundle = txns])

collecting(r) == [requests[r] EXCEPT !.phase = "collect",
                                     !.queue_empty = states[requests[r].view].txn_queue = {}]

\* Slip: the loop starts anew with every lookup.
lookup_unbounded(r) ==
    LET view == requests[r].view
    IN  /\ requests[r].phase = "lookup"
        /\ IF view \in stored THEN set_request(r, collecting(r))
           ELSE IF \A v \in stored : v > view THEN answer(r, "Decided", {})
           ELSE set_request(r, [requests[r] EXCEPT !.phase = "wait"])
        /\ only_requests

\* An iteration of the loop: too late, found, decided, or not yet there.
lookup_builder_state(r) ==
    LET view == requests[r].view
    IN  /\ requests[r].phase = "lookup"
        /\ IF requests[r].expired THEN answer(r, "NotFound", {})
           ELSE IF view \in stored THEN set_request(r, collecting(r))
           ELSE IF \A v \in stored : v > view THEN answer(r, "Decided", {})
           ELSE set_request(r, [requests[r] EXCEPT !.phase = "wait"])
        /\ only_requests

try_again(r) ==
    /\ requests[r].phase = "wait"
    /\ set_request(r, [requests[r] EXCEPT !.phase = "lookup"])
    /\ only_requests

\* collect_txns, an iteration that finds a transaction.
receive(r) ==
    LET view == requests[r].view
        state == states[view]
        t == sent[state.pos + 1]
    IN  /\ requests[r].phase = "collect" /\ state.pos < Len(sent)
        /\ IF t \in state.included_txns
           THEN /\ states' = [states EXCEPT ![view] = [state EXCEPT !.pos = @ + 1]]
                /\ UNCHANGED requests
           ELSE /\ states' = [states EXCEPT ![view] = [state EXCEPT !.pos = @ + 1, !.txn_queue = @ \cup {t}]]
                /\ set_request(r, [requests[r] EXCEPT !.queue_empty = FALSE])
        /\ UNCHANGED <<stream_vars, contents, hook, tasks, sent, stored>>

\* collect_txns returns queue_empty, collect_transactions takes it for
\* queue_populated.
collected(r) ==
    /\ requests[r].phase = "collect"
    /\ states[requests[r].view].pos = Len(sent) \/ requests[r].late
    /\ set_request(r, [requests[r] EXCEPT
          !.phase = IF requests[r].queue_empty \/ requests[r].late THEN "read" ELSE "sleep"])
    /\ only_requests

wake(r) ==
    /\ requests[r].phase = "sleep"
    /\ set_request(r, IF requests[r].late THEN [requests[r] EXCEPT !.phase = "read"]
                      ELSE collecting(r))
    /\ only_requests

\* All that is queued goes into the bundle and stays in the queue.
assemble_bundle(r) ==
    /\ requests[r].phase = "read"
    /\ answer(r, "bundle", states[requests[r].view].txn_queue)
    /\ only_requests

proceed(r) == \/ lookup_builder_state(r) \/ try_again(r) \/ receive(r) \/ collected(r)
              \/ wake(r) \/ assemble_bundle(r)

Next ==
    \/ \E event \in Events : published_as(event)
    \/ outage \/ next_event \/ some_event \/ spawn_task
    \/ \E txns \in Batches : submit_txns(txns)
    \/ \E task \in tasks : \/ process_transactions(task) \/ handle_transaction(task)
                           \/ \E parent \in stored : spawn_builder_state(task, parent)
                           \/ handle_decide(task)
    \/ \E r \in Requests : \/ \E view \in Views : bundle(r, view)
                           \/ time_passes(r) \/ proceed(r)

Spec == Init /\ [][Next]_vars

\* The loop is polled and hooks return; the clock goes on and a request that
\* can go on does.  Nothing is assumed of the API, which need not answer a
\* handshake, of clients or of tasks.
polled == (next_event \/ some_event) /\ ~in_phase("subscribe")

FairSpec ==
    /\ Spec
    /\ WF_vars(polled) /\ WF_vars(spawn_task)
    /\ \A r \in Requests : WF_vars(time_passes(r)) /\ WF_vars(proceed(r))

----------------------------------------------------------------------------
(* Properties *)

Task == [event : 0..MaxEvents,
         content : [type : {"raw", "transactions"}, txns : Seq(Txns)]
                      \cup [type : {"proposal"}, view : Views, txns : SUBSET Txns]
                      \cup [type : {"decide"}, view : Nat]]
Request == [phase : {"done", "lookup", "wait", "collect", "sleep", "read"}, view : Views,
            expired : BOOLEAN, late : BOOLEAN, queue_empty : BOOLEAN,
            result : {"unasked", "none", "NotFound", "Decided", "bundle"}, bundle : SUBSET Txns]

TypeOK ==
    /\ StreamTypeOK
    /\ contents \in Seq(Events) /\ Len(contents) = published
    /\ hook \in delivered \cup {0}
    /\ tasks \subseteq Task
    /\ sent \in Seq(Txns)
    /\ DOMAIN states \subseteq Views
    /\ \A v \in DOMAIN states :
          states[v] \in [pos : 0..Len(sent), txn_queue : SUBSET Txns, included_txns : SUBSET Txns]
    /\ stored \subseteq DOMAIN states /\ stored # {}
    /\ requests \in [Requests -> Request]
    /\ held \subseteq DOMAIN states

\* "the builder will process this event _after_ the hooks have finished
\* processing it" (marketplace/src/hooks.rs).
HookFirst == \A task \in tasks : hook # 0 => task.event < hook

\* However it got to the builder, from HotShot or from a client, a bundle
\* holds what the hooks let through, and nothing of a block its state knows.
BundleApproved ==
    \A r \in Requests : \A t \in requests[r].bundle :
        t \in Approved /\ t \notin states[requests[r].view].included_txns

\* Every request for a bundle is answered, whether the state asked for is
\* there, gone or never comes, and whatever arrives or does not.
BundleAnswered == \A r \in Requests : requests[r].phase # "done" ~> requests[r].phase = "done"
=============================================================================
