-------------------------- MODULE MarketplaceProofs --------------------------
(***************************************************************************)
(* Theorems about Marketplace and the EventStream it consumes, for every   *)
(* set of events, transactions, views and requests, and every hook.        *)
(*                                                                         *)
(* What a connection has still to yield is neither delivered nor unheard   *)
(* (StreamGood), so that the event yielded next is later than that of any  *)
(* task (LoopGood).  What a hook let through is all that tasks broadcast,  *)
(* and a queue holds nothing else (StatesGood); a request holds on to a    *)
(* state that exists, and takes its bundle from it (RequestsGood).         *)
(***************************************************************************)
EXTENDS Marketplace, TLAPS, WellFoundedInduction

Phases == {"healthcheck", "subscribe", "sleep", "connected", "failed"}

Connection == [phase : Phases, initial : BOOLEAN, alive : BOOLEAN, next : Nat, last : Nat]

StreamGood ==
    /\ StreamTypeOK /\ connection \in Connection
    /\ MissedOnlyUnheard
    /\ in_phase("connected") => \A e \in connection.next .. connection.last : e \notin unheard

TaskGood(task) ==
    /\ task.event \in delivered \cup {0}
    /\ task.content.type = "raw" => task.content.txns \in Given
    /\ task.content.type = "transactions" => task.content.txns \in Seq(Approved)

LoopGood ==
    /\ contents \in Seq(Events) /\ Len(contents) = published
    /\ hook \in delivered \cup {0}
    /\ tasks \subseteq Task
    /\ \A task \in tasks : TaskGood(task) /\ (hook # 0 => task.event < hook)

State == [pos : Nat, txn_queue : SUBSET Approved, included_txns : SUBSET Txns]

StatesGood ==
    /\ sent \in Seq(Approved)
    /\ DOMAIN states \subseteq Views
    /\ \A v \in DOMAIN states :
          /\ states[v] \in State /\ states[v].pos <= Len(sent)
          /\ states[v].txn_queue \cap states[v].included_txns = {}
    /\ stored \subseteq DOMAIN states /\ stored # {}

\* The state a request is for is there as long as it collects from it, and if
\* it got a bundle from it.
RequestGood(request) ==
    /\ request.phase \in {"collect", "sleep", "read"} => request.view \in DOMAIN states
    /\ request.bundle # {} => request.view \in DOMAIN states
    /\ request.bundle \subseteq Approved
    /\ \A t \in request.bundle : t \notin states[request.view].included_txns

RequestsGood ==
    /\ requests \in [Requests -> Request]
    /\ \A r \in Requests : RequestGood(requests[r])

IInv == StreamGood /\ LoopGood /\ StatesGood /\ RequestsGood

----------------------------------------------------------------------------
(* The stream *)

\* What the stream's invariant says of the events got and lost, with a
\* connection that has those from `next` to `last` still to yield.
Carried(p, phase, next, last, got, lost) ==
    /\ last \in 0 .. p /\ next \in 1 .. last + 1
    /\ got \subseteq 1 .. p /\ lost \subseteq 1 .. p
    /\ \A e \in 1 .. p :
          e \in got \cup lost \/ (phase = "connected" /\ e \in next .. last)
    /\ got \cap lost = {}
    /\ phase = "connected" => \A e \in next .. p : e \notin got
    /\ phase = "connected" => \A e \in next .. last : e \notin lost

\* An open connection is one to a serving API, and has all there is.
Open(up, p, conn) ==
    conn.alive => up /\ conn.phase = "connected" /\ conn.last = p

StreamParts(p, up, conn, got, lost) ==
    /\ p \in 0 .. MaxEvents /\ up \in BOOLEAN /\ conn \in Connection
    /\ Open(up, p, conn)
    /\ Carried(p, conn.phase, conn.next, conn.last, got, lost)

\* Together that is the invariant.
LEMMA StreamInParts ==
  /\ StreamGood => StreamParts(published, serving, connection, delivered, unheard)
  /\ StreamParts(published, serving, connection, delivered, unheard)' => StreamGood'
<1>1. StreamGood => StreamParts(published, serving, connection, delivered, unheard)
  <2>. SUFFICES ASSUME StreamGood
                PROVE  StreamParts(published, serving, connection, delivered, unheard)
    OBVIOUS
  <2>1. /\ published \in 0 .. MaxEvents /\ serving \in BOOLEAN /\ connection \in Connection
        /\ connection.last \in 0 .. published /\ connection.next \in 1 .. connection.last + 1
        /\ delivered \subseteq 1 .. published /\ unheard \subseteq 1 .. published
    BY Zenon DEF StreamGood, StreamTypeOK
  <2>2. Open(serving, published, connection)
    BY Zenon DEF StreamGood, StreamTypeOK, in_phase, Open
  <2>3. Carried(published, connection.phase, connection.next, connection.last, delivered, unheard)
    BY <2>1, Zenon DEF StreamGood, MissedOnlyUnheard, in_phase, Carried
  <2>. QED  BY <2>1, <2>2, <2>3 DEF StreamParts
<1>2. StreamParts(published, serving, connection, delivered, unheard) => StreamGood
  <2>. SUFFICES ASSUME StreamParts(published, serving, connection, delivered, unheard)
                PROVE  StreamGood
    OBVIOUS
  <2>1. connection.phase \in Phases /\ connection.initial \in BOOLEAN /\ connection.alive \in BOOLEAN
    BY DEF StreamParts, Connection
  <2>. QED
    BY <2>1, Zenon DEF StreamGood, StreamTypeOK, MissedOnlyUnheard, in_phase, StreamParts, Carried,
                       Open, Phases
<1>3. StreamParts(published, serving, connection, delivered, unheard)' => StreamGood'
  BY <1>2, PTL
<1>. QED  BY <1>1, <1>3

\* An event is published: an open connection carries it, and else it is unheard.
LEMMA PublishStep ==
  ASSUME StreamGood, publish
  PROVE  StreamGood'
<1>1. /\ Carried(published, connection.phase, connection.next, connection.last, delivered, unheard)
      /\ Open(serving, published, connection) /\ serving \in BOOLEAN
  BY StreamInParts DEF StreamParts
<1>2. published \in Nat /\ connection \in Connection /\ published' = published + 1
      /\ published' \in 0 .. MaxEvents
  BY <1>1, StreamInParts, EventStreamAssumption DEF publish, StreamParts
<1>3. CASE connection.alive
  <2>1. /\ connection' = [connection EXCEPT !.last = published + 1]
        /\ unheard' = unheard /\ serving' = serving /\ delivered' = delivered
    BY <1>3 DEF publish
  <2>2. /\ connection' \in Connection /\ connection'.last = published + 1
        /\ connection'.next = connection.next /\ connection'.phase = connection.phase
        /\ connection'.alive = connection.alive
    BY <1>2, <2>1 DEF Connection
  <2>3. connection.phase = "connected" /\ connection.last = published
    BY <1>1, <1>3 DEF Open
  <2>4. Carried(published', connection'.phase, connection'.next, connection'.last, delivered', unheard')
    BY <1>1, <1>2, <2>1, <2>2, <2>3 DEF Carried
  <2>5. Open(serving', published', connection')
    BY <1>1, <1>2, <2>1, <2>2 DEF Open
  <2>. QED  BY <1>1, <1>2, <2>1, <2>2, <2>4, <2>5, StreamInParts DEF StreamParts
<1>4. CASE ~connection.alive
  <2>1. /\ connection' = connection /\ unheard' = unheard \cup {published + 1}
        /\ serving' = serving /\ delivered' = delivered
    BY <1>4 DEF publish
  <2>2. Carried(published', connection'.phase, connection'.next, connection'.last, delivered', unheard')
    BY <1>1, <1>2, <2>1 DEF Carried
  <2>3. Open(serving', published', connection')
    BY <1>4, <2>1 DEF Open
  <2>. QED  BY <1>1, <1>2, <2>1, <2>2, <2>3, StreamInParts DEF StreamParts
<1>. QED  BY <1>3, <1>4

\* The API goes down and comes up.
LEMMA OutageStep ==
  ASSUME StreamGood, service_starts \/ service_stops
  PROVE  StreamGood'
<1>1. /\ Carried(published, connection.phase, connection.next, connection.last, delivered, unheard)
      /\ Open(serving, published, connection) /\ connection \in Connection
  BY StreamInParts DEF StreamParts
<1>2. CASE service_starts
  BY <1>1, <1>2, StreamInParts DEF StreamParts, service_starts, Open
<1>3. CASE service_stops
  <2>1. /\ connection' = [connection EXCEPT !.alive = FALSE] /\ serving' = FALSE
        /\ published' = published /\ delivered' = delivered /\ unheard' = unheard
    BY <1>3 DEF service_stops
  <2>2. /\ connection' \in Connection /\ ~connection'.alive /\ connection'.last = connection.last
        /\ connection'.next = connection.next /\ connection'.phase = connection.phase
    BY <1>1, <2>1 DEF Connection
  <2>3. Carried(published', connection'.phase, connection'.next, connection'.last, delivered', unheard')
    BY <1>1, <2>1, <2>2 DEF Carried
  <2>. QED  BY <2>1, <2>2, <2>3, StreamInParts DEF StreamParts, Open
<1>. QED  BY <1>2, <1>3

\* A connection that is being made, or given up with nothing left on it,
\* carries nothing.
LEMMA NotConnected ==
  ASSUME StreamGood, ~(in_phase("connected") /\ available),
         connection' \in Connection, connection'.phase # "connected", ~connection'.alive,
         connection'.last \in 0 .. published, connection'.next \in 1 .. connection'.last + 1,
         UNCHANGED <<published, serving, delivered, unheard>>
  PROVE  StreamGood'
<1>1. /\ Carried(published, connection.phase, connection.next, connection.last, delivered, unheard) /\ serving \in BOOLEAN
  BY StreamInParts DEF StreamParts
<1>2. \A e \in 1 .. published : e \in delivered \cup unheard
  BY <1>1 DEF Carried, Connection, in_phase, available
<1>3. Carried(published', connection'.phase, connection'.next, connection'.last, delivered', unheard')
  BY <1>1, <1>2 DEF Carried
<1>. QED  BY <1>1, <1>3, StreamInParts DEF StreamParts, Open

\* Connecting, and giving up a connection, neither loses nor repeats an event.
LEMMA ConnectStep ==
  ASSUME StreamGood, connect_inner \/ retry \/ reconnect
  PROVE  StreamGood'
<1>1. /\ Carried(published, connection.phase, connection.next, connection.last, delivered, unheard)
      /\ Open(serving, published, connection) /\ connection \in Connection
      /\ published \in Nat /\ serving \in BOOLEAN
      /\ connection.last \in 0 .. published /\ connection.next \in 1 .. connection.last + 1
  BY StreamInParts, EventStreamAssumption DEF StreamParts, Carried
<1>2. ASSUME NEW phase \in Phases \ {"connected"}, ~in_phase("connected"),
             connection' = [connection EXCEPT !.phase = phase],
             UNCHANGED <<published, serving, delivered, unheard>>
      PROVE  StreamGood'
  <2>1. /\ connection' \in Connection /\ connection'.phase = phase
        /\ connection'.last = connection.last /\ connection'.next = connection.next
        /\ connection'.alive = connection.alive
    BY <1>1, <1>2 DEF Connection
  <2>2. ~connection.alive
    BY <1>1, <1>2 DEF Open, in_phase
  <2>. QED  BY <1>1, <1>2, <2>1, <2>2, NotConnected
<1>3. CASE healthcheck \/ connection_timeout \/ retry
  <2>1. PICK phase \in {"subscribe", "failed", "sleep", "healthcheck"} :
           connection' = [connection EXCEPT !.phase = phase]
    BY <1>3 DEF healthcheck, connection_timeout, retry, set_connection, connect_error
  <2>2. UNCHANGED <<published, serving, delivered, unheard>> /\ ~in_phase("connected")
    BY <1>3 DEF healthcheck, connection_timeout, retry, in_phase
  <2>. QED  BY <1>2, <2>1, <2>2 DEF Phases
<1>4. CASE subscribe /\ ~serving
  <2>1. PICK phase \in {"failed", "sleep"} : connection' = [connection EXCEPT !.phase = phase]
    BY <1>4 DEF subscribe, set_connection, connect_error
  <2>2. UNCHANGED <<published, serving, delivered, unheard>> /\ ~in_phase("connected")
    BY <1>4 DEF subscribe, in_phase
  <2>. QED  BY <1>2, <2>1, <2>2 DEF Phases
<1>5. CASE subscribe /\ serving
  <2>1. /\ connection' = [phase |-> "connected", initial |-> FALSE, alive |-> TRUE,
                          next |-> published + 1, last |-> published]
        /\ published' = published /\ serving' = serving /\ delivered' = delivered
        /\ unheard' = unheard /\ connection.phase # "connected"
    BY <1>5 DEF subscribe, in_phase
  <2>2. /\ connection' \in Connection /\ connection'.phase = "connected"
        /\ connection'.next = published + 1 /\ connection'.last = published
    BY <1>1, <2>1 DEF Connection, Phases
  <2>3. Carried(published', connection'.phase, connection'.next, connection'.last, delivered', unheard')
    BY <1>1, <2>1, <2>2 DEF Carried
  <2>4. Open(serving', published', connection')
    BY <1>5, <2>1, <2>2 DEF Open
  <2>. QED  BY <1>1, <2>1, <2>2, <2>3, <2>4, StreamInParts DEF StreamParts
<1>6. CASE reconnect
  <2>1. /\ connection' = Connecting /\ ~available
        /\ UNCHANGED <<published, serving, delivered, unheard>>
    BY <1>6 DEF reconnect
  <2>2. /\ connection' \in Connection /\ connection'.phase = "healthcheck" /\ ~connection'.alive
        /\ connection'.last \in 0 .. published /\ connection'.next \in 1 .. connection'.last + 1
    BY <1>1, <2>1 DEF Connecting, Connection, Phases
  <2>. QED  BY <2>1, <2>2, NotConnected
<1>. QED  BY <1>3, <1>4, <1>5, <1>6 DEF connect_inner

\* The next item of a connection is delivered, or is an error; it was
\* neither before.
LEMMA YieldStep ==
  ASSUME StreamGood, yield_event \/ skip_error
  PROVE  /\ StreamGood' /\ connection.next \in 1 .. published
         /\ \A e \in delivered : e < connection.next
<1>1. /\ Carried(published, connection.phase, connection.next, connection.last, delivered, unheard)
      /\ Open(serving, published, connection) /\ connection \in Connection
      /\ published \in Nat /\ serving \in BOOLEAN
  BY StreamInParts, EventStreamAssumption DEF StreamParts, Carried
<1>2. /\ connection.phase = "connected" /\ connection.next <= connection.last
      /\ connection' = [connection EXCEPT !.next = @ + 1]
      /\ published' = published /\ serving' = serving
      /\ \/ delivered' = delivered \cup {connection.next} /\ unheard' = unheard
         \/ unheard' = unheard \cup {connection.next} /\ delivered' = delivered
  BY DEF yield_event, skip_error, in_phase, available
<1>3. /\ connection' \in Connection /\ connection'.next = connection.next + 1
      /\ connection'.last = connection.last /\ connection'.phase = connection.phase
      /\ connection'.alive = connection.alive
  BY <1>1, <1>2 DEF Connection
<1>4. connection.next \in 1 .. published /\ \A e \in delivered : e < connection.next
  BY <1>1, <1>2 DEF Carried, Connection
<1>5. Carried(published', connection'.phase, connection'.next, connection'.last, delivered', unheard')
  BY <1>1, <1>2, <1>3, <1>4 DEF Carried
<1>6. Open(serving', published', connection')
  BY <1>1, <1>2, <1>3 DEF Open
<1>. QED  BY <1>1, <1>2, <1>3, <1>4, <1>5, <1>6, StreamInParts DEF StreamParts

----------------------------------------------------------------------------
(* The event loop and its tasks *)

\* A step of the stream that delivers nothing, and touches nothing else.
LEMMA StreamOnly ==
  ASSUME IInv, StreamGood', delivered' = delivered,
         contents' \in Seq(Events), Len(contents') = published',
         UNCHANGED <<hook, tasks, coordinator, requests>>
  PROVE  IInv'
<1>1. LoopGood'
  BY DEF IInv, LoopGood, TaskGood
<1>2. StatesGood' /\ RequestsGood'
  BY DEF IInv, StatesGood, RequestsGood, RequestGood, coordinator
<1>. QED  BY <1>1, <1>2 DEF IInv

\* An event is published.
LEMMA PublishedStep ==
  ASSUME IInv, NEW event \in Events, published_as(event)
  PROVE  IInv'
<1>1. StreamGood'
  BY PublishStep DEF IInv, published_as
<1>2. delivered' = delivered /\ published' = published + 1
  BY DEF published_as, publish
<1>3. contents \in Seq(Events) /\ Len(contents) = published
  BY DEF IInv, LoopGood
<1>4. contents' = Append(contents, event)
  BY DEF published_as
<1>5. contents' \in Seq(Events) /\ Len(contents') = published'
  BY <1>2, <1>3, <1>4
<1>. QED  BY <1>1, <1>2, <1>5, StreamOnly DEF published_as

\* The API comes and goes, and the stream is polled without an event.
LEMMA NoEventStep ==
  ASSUME IInv, outage \/ next_event
  PROVE  IInv'
<1>1. /\ service_starts \/ service_stops \/ connect_inner \/ retry \/ reconnect \/ skip_error
      /\ UNCHANGED <<contents, hook, tasks, coordinator, requests>>
  BY DEF outage, next_event
<1>2. StreamGood'
  BY <1>1, OutageStep, ConnectStep, YieldStep DEF IInv
<1>3. delivered' = delivered /\ published' = published
  BY <1>1 DEF service_starts, service_stops, connect_inner, healthcheck, connection_timeout, subscribe,
              retry, reconnect, skip_error
<1>. QED  BY <1>1, <1>2, <1>3, StreamOnly DEF IInv, LoopGood

\* The event the hook is called with is later than that of any task.
LEMMA SomeEventStep ==
  ASSUME IInv, some_event
  PROVE  IInv'
<1>1. /\ yield_event /\ hook' = connection.next /\ contents' = contents /\ tasks' = tasks
      /\ UNCHANGED <<coordinator, requests>>
      /\ delivered' = delivered \cup {connection.next} /\ published' = published
  BY DEF some_event, yield_event
<1>2. /\ StreamGood' /\ connection.next \in 1 .. published
      /\ \A e \in delivered : e < connection.next
  BY <1>1, YieldStep DEF IInv
<1>3. ASSUME NEW task \in tasks'
      PROVE  TaskGood(task)' /\ task.event < hook'
  <2>1. TaskGood(task)
    BY <1>1 DEF IInv, LoopGood
  <2>2. published \in Nat
    BY EventStreamAssumption DEF IInv, StreamGood, StreamTypeOK
  <2>. QED  BY <1>1, <1>2, <2>1, <2>2 DEF TaskGood
<1>4. LoopGood'
  BY <1>1, <1>3 DEF IInv, LoopGood
<1>5. StatesGood' /\ RequestsGood'
  BY <1>1 DEF IInv, StatesGood, RequestsGood, RequestGood, coordinator
<1>. QED  BY <1>2, <1>4, <1>5 DEF IInv

\* A step that leaves the loop alone and adds at most one task, of an event
\* before the one at the hook.
LEMMA TasksStep ==
  ASSUME IInv, NEW task \in Task, TaskGood(task), hook # 0 => task.event < hook,
         tasks' \subseteq tasks \cup {task}, UNCHANGED <<stream_vars, contents, hook>>
  PROVE  StreamGood' /\ LoopGood'
<1>1. /\ published' = published /\ serving' = serving /\ connection' = connection
      /\ delivered' = delivered /\ unheard' = unheard /\ contents' = contents /\ hook' = hook
  BY DEF stream_vars
<1>2. StreamGood'
  BY <1>1 DEF IInv, StreamGood, StreamTypeOK, MissedOnlyUnheard, in_phase
<1>3. \A t \in tasks' : TaskGood(t) /\ (hook # 0 => t.event < hook) /\ t \in Task
  BY DEF IInv, LoopGood
<1>4. LoopGood'
  BY <1>1, <1>3 DEF IInv, LoopGood, TaskGood
<1>. QED  BY <1>2, <1>4

\* So it is when tasks are only done.
LEMMA TasksFewer ==
  ASSUME IInv, tasks' \subseteq tasks, UNCHANGED <<stream_vars, contents, hook>>
  PROVE  StreamGood' /\ LoopGood'
<1>1. CASE tasks' = {}
  <2>1. /\ published' = published /\ serving' = serving /\ connection' = connection
        /\ delivered' = delivered /\ unheard' = unheard /\ contents' = contents /\ hook' = hook
    BY DEF stream_vars
  <2>2. StreamGood'
    BY <2>1 DEF IInv, StreamGood, StreamTypeOK, MissedOnlyUnheard, in_phase
  <2>. QED  BY <1>1, <2>1, <2>2 DEF IInv, LoopGood
<1>2. CASE tasks' # {}
  <2>1. PICK task \in tasks' : TRUE
    BY <1>2
  <2>2. task \in Task /\ TaskGood(task) /\ (hook # 0 => task.event < hook)
    BY <2>1 DEF IInv, LoopGood
  <2>. QED  BY <2>1, <2>2, TasksStep
<1>. QED  BY <1>1, <1>2

\* What events can be about.
LEMMA EventsTyped ==
  ASSUME NEW e \in Events
  PROVE  /\ \A n \in 0 .. MaxEvents : [event |-> n, content |-> e] \in Task
         /\ e.type # "transactions" /\ (e.type = "raw" => e.txns \in Given)
<1>1. e \in [type : {"raw"}, txns : Seq(Txns)]
             \cup [type : {"proposal"}, view : Views, txns : SUBSET Txns]
             \cup [type : {"decide"}, view : Nat]
  BY MarketplaceAssumption
<1>2. e \in [type : {"raw", "transactions"}, txns : Seq(Txns)]
             \cup [type : {"proposal"}, view : Views, txns : SUBSET Txns]
             \cup [type : {"decide"}, view : Nat]
  BY <1>1
<1>3. e.type # "transactions" /\ (e.type = "raw" => e.txns \in Given)
  BY <1>1 DEF Given
<1>. QED  BY <1>2, <1>3 DEF Task

\* The hook is done: a task goes on with the event.
LEMMA SpawnTaskStep ==
  ASSUME IInv, spawn_task
  PROVE  IInv'
<1>1. /\ hook # 0 /\ tasks' = tasks \cup {task_for(hook)} /\ hook' = 0
      /\ UNCHANGED <<stream_vars, contents, coordinator, requests>>
  BY DEF spawn_task
<1>2. /\ published' = published /\ serving' = serving /\ connection' = connection
      /\ delivered' = delivered /\ unheard' = unheard /\ contents' = contents
  BY <1>1 DEF stream_vars
<1>3. StreamGood'
  BY <1>2 DEF IInv, StreamGood, StreamTypeOK, MissedOnlyUnheard, in_phase
<1>4. hook \in 1 .. published /\ published \in 0 .. MaxEvents /\ hook \in delivered
  BY <1>1 DEF IInv, LoopGood, StreamGood, StreamTypeOK
<1>5. contents[hook] \in Events /\ hook \in 0 .. MaxEvents
  BY <1>4, EventStreamAssumption DEF IInv, LoopGood
<1>6. PICK task : task = task_for(hook)
  OBVIOUS
<1>7. task \in Task /\ TaskGood(task) /\ tasks' = tasks \cup {task}
  BY <1>1, <1>4, <1>5, <1>6, EventsTyped DEF task_for, TaskGood
<1>8. LoopGood'
  BY <1>1, <1>2, <1>7 DEF IInv, LoopGood, TaskGood
<1>9. StatesGood' /\ RequestsGood'
  BY <1>1 DEF IInv, StatesGood, RequestsGood, RequestGood, coordinator
<1>. QED  BY <1>3, <1>8, <1>9 DEF IInv

\* A client submits transactions: a task that has nothing to do with events.
LEMMA SubmitStep ==
  ASSUME IInv, NEW txns \in Batches, submit_txns(txns)
  PROVE  IInv'
<1>1. PICK task : task = [event |-> 0, content |-> [type |-> "raw", txns |-> txns]]
  OBVIOUS
<1>2. task \in Task /\ TaskGood(task) /\ task.event = 0
  <2>1. txns \in Seq(Txns) /\ txns \in Given /\ 0 \in 0 .. MaxEvents
    BY MarketplaceAssumption, EventStreamAssumption DEF Given
  <2>. QED  BY <1>1, <2>1 DEF Task, TaskGood
<1>3. hook # 0 => 0 < hook
  BY EventStreamAssumption DEF IInv, LoopGood, StreamGood, StreamTypeOK
<1>4. tasks' = tasks \cup {task} /\ UNCHANGED <<stream_vars, contents, hook, coordinator, requests>>
  BY <1>1 DEF submit_txns
<1>5. StreamGood' /\ LoopGood'
  BY <1>2, <1>3, <1>4, TasksStep
<1>6. StatesGood' /\ RequestsGood'
  BY <1>4 DEF IInv, StatesGood, RequestsGood, RequestGood, coordinator
<1>. QED  BY <1>5, <1>6 DEF IInv

\* Transactions that were let through are transactions.
LEMMA ApprovedTyped ==
  ASSUME NEW txns \in Seq(Approved)
  PROVE  txns \in Seq(Txns)
  BY MarketplaceAssumption

\* A task goes on with transactions that were let through.
LEMMA GoingOn ==
  ASSUME IInv, NEW task \in tasks, NEW txns \in Seq(Approved),
         going_on(task, [type |-> "transactions", txns |-> txns]),
         UNCHANGED <<stream_vars, contents, hook>>
  PROVE  StreamGood' /\ LoopGood'
<1>1. PICK content : content = [type |-> "transactions", txns |-> txns]
  OBVIOUS
<1>2. PICK next : next = [task EXCEPT !.content = content]
  OBVIOUS
<1>3. task \in Task /\ TaskGood(task) /\ (hook # 0 => task.event < hook)
  BY DEF IInv, LoopGood
<1>4. content \in [type : {"raw", "transactions"}, txns : Seq(Txns)]
  BY <1>1, ApprovedTyped
<1>5. next \in Task /\ next.event = task.event /\ next.content = content
  BY <1>2, <1>3, <1>4 DEF Task
<1>6. TaskGood(next)
  BY <1>1, <1>3, <1>5 DEF TaskGood
<1>7. tasks' = (tasks \ {task}) \cup {next}
  BY <1>1, <1>2 DEF going_on
<1>. QED  BY <1>3, <1>5, <1>6, <1>7, TasksStep

\* The hook makes of transactions what it will; the rest is approved.
LEMMA ProcessStep ==
  ASSUME IInv, NEW task \in tasks, process_transactions(task)
  PROVE  IInv'
<1>1. processed(task) \in Seq(Approved)
  <2>1. task.content.txns \in Given
    BY DEF process_transactions, IInv, LoopGood, TaskGood
  <2>. QED  BY <2>1, MarketplaceAssumption DEF processed
<1>2. UNCHANGED <<stream_vars, contents, hook, coordinator, requests>>
  BY DEF process_transactions
<1>3. StreamGood' /\ LoopGood'
  BY <1>1, <1>2, GoingOn DEF process_transactions
<1>4. StatesGood' /\ RequestsGood'
  BY <1>2 DEF IInv, StatesGood, RequestsGood, RequestGood, coordinator
<1>. QED  BY <1>3, <1>4 DEF IInv

----------------------------------------------------------------------------
(* The coordinator *)

\* Requests are not disturbed by a step that keeps the states there are.
LEMMA RequestsKept ==
  ASSUME RequestsGood, UNCHANGED requests, DOMAIN states \subseteq DOMAIN states',
         \A v \in DOMAIN states : states'[v].included_txns = states[v].included_txns
  PROVE  RequestsGood'
  BY DEF RequestsGood, RequestGood

\* The first of a task's transactions is broadcast, or refused.
LEMMA HandleTransactionStep ==
  ASSUME IInv, NEW task \in tasks, handle_transaction(task)
  PROVE  IInv'
<1>. DEFINE txns == task.content.txns
<1>1. /\ txns \in Seq(Approved) /\ sent \in Seq(Approved)
      /\ UNCHANGED <<stream_vars, contents, hook, states, stored, requests>>
  BY DEF handle_transaction, IInv, LoopGood, TaskGood, StatesGood
<1>2. StatesGood'
  <2>1. PICK next : next = sent'
    OBVIOUS
  <2>2. next = sent \/ (txns # <<>> /\ next = Append(sent, Head(txns)))
    BY <2>1 DEF handle_transaction
  <2>3. next \in Seq(Approved) /\ Len(next) >= Len(sent) /\ Len(next) \in Nat /\ Len(sent) \in Nat
    <3>. HIDE DEF txns
    <3>1. CASE next = sent
      BY <1>1, <3>1
    <3>2. CASE txns # <<>> /\ next = Append(sent, Head(txns))
      <4>1. Head(txns) \in Approved
        BY <1>1, <3>2
      <4>. QED  BY <1>1, <3>2, <4>1
    <3>. QED  BY <2>2, <3>1, <3>2
  <2>4. \A v \in DOMAIN states : states[v].pos \in Nat /\ states[v].pos <= Len(sent)
    BY DEF IInv, StatesGood, State
  <2>5. \A v \in DOMAIN states : states[v].pos <= Len(next)
    BY <2>3, <2>4
  <2>. QED  BY <1>1, <2>1, <2>3, <2>5 DEF IInv, StatesGood
<1>3. StreamGood' /\ LoopGood'
  <2>1. CASE done_with(task)
    BY <1>1, <2>1, TasksFewer DEF done_with
  <2>2. CASE going_on(task, [type |-> "transactions", txns |-> Tail(txns)]) /\ txns # <<>>
    <3>1. Tail(txns) \in Seq(Approved)
      <4>. HIDE DEF txns
      <4>. QED  BY <1>1, <2>2
    <3>. QED  BY <1>1, <2>2, <3>1, GoingOn
  <2>. QED  BY <2>1, <2>2 DEF handle_transaction
<1>4. RequestsGood'
  BY <1>1, RequestsKept DEF IInv
<1>. QED  BY <1>2, <1>3, <1>4 DEF IInv

\* A state for a proposal has none of its block's transactions queued.
LEMMA SpawnStep ==
  ASSUME IInv, NEW task \in tasks, NEW parent \in stored, spawn_builder_state(task, parent)
  PROVE  IInv'
<1>. DEFINE view == task.content.view
            block == task.content.txns
<1>1. /\ task \in Task /\ task.content.type = "proposal" /\ tasks' = tasks \ {task}
      /\ UNCHANGED <<stream_vars, contents, hook, sent, requests>>
  BY DEF spawn_builder_state, done_with, IInv, LoopGood
<1>2. view \in Views /\ block \subseteq Txns
  BY <1>1 DEF Task
<1>3. StreamGood' /\ LoopGood'
  BY <1>1, TasksFewer
<1>4. parent \in DOMAIN states /\ states[parent] \in State
  BY DEF IInv, StatesGood
<1>5. PICK child : child = [states[parent] EXCEPT !.txn_queue = @ \ block, !.included_txns = @ \cup block]
  OBVIOUS
<1>6. /\ child \in State /\ child.pos = states[parent].pos
      /\ child.txn_queue \cap child.included_txns = {}
  <2>1. states[parent].txn_queue \cap states[parent].included_txns = {}
    BY <1>4 DEF IInv, StatesGood
  <2>. HIDE DEF block
  <2>2. /\ child.txn_queue = states[parent].txn_queue \ block
        /\ child.included_txns = states[parent].included_txns \cup block
        /\ child.pos = states[parent].pos /\ child \in State
    BY <1>2, <1>4, <1>5 DEF State
  <2>. QED  BY <2>1, <2>2
<1>7. CASE states' = states /\ stored' = stored
  <2>1. StatesGood' /\ RequestsGood'
    BY <1>1, <1>7, RequestsKept DEF IInv, StatesGood
  <2>. QED  BY <1>3, <2>1 DEF IInv
<1>8. CASE ~(view \in DOMAIN states \/ view <= parent)
  <2>1. /\ states' = [v \in DOMAIN states \cup {view} |-> IF v # view THEN states[v] ELSE child]
        /\ stored' = stored \cup {view}
    BY <1>5, <1>8 DEF spawn_builder_state
  <2>. HIDE DEF view
  <2>2. /\ (DOMAIN states)' = DOMAIN states \cup {view}
        /\ \A v \in DOMAIN states : states'[v] = states[v]
        /\ states'[view] = child
    BY <1>8, <2>1
  <2>3. StatesGood'
    BY <1>1, <1>2, <1>4, <1>6, <2>1, <2>2 DEF IInv, StatesGood
  <2>4. RequestsGood'
    BY <1>1, <2>2, RequestsKept DEF IInv
  <2>. QED  BY <1>3, <2>3, <2>4 DEF IInv
<1>. QED  BY <1>7, <1>8 DEF spawn_builder_state

\* Every non-empty set of naturals has a least element.
LEMMA LeastNatural ==
  ASSUME NEW S \in SUBSET Nat, S # {}
  PROVE  \E m \in S : \A n \in S : m <= n
<1>1. PICK m \in S : \A n \in S : ~(<<n, m>> \in OpToRel(<, Nat))
  BY WFMin, NatLessThanWellFounded, Zenon
<1>2. \A n \in S : ~(n < m)
  BY <1>1, Zenon DEF OpToRel
<1>. QED  BY <1>2

\* A set of naturals below some number has a greatest element.
LEMMA GreatestBelow ==
  ASSUME NEW S \in SUBSET Nat, S # {}, NEW bound \in Nat, \A n \in S : n <= bound
  PROVE  \E m \in S : \A n \in S : n <= m
<1>. DEFINE bounds == {b \in Nat : \A n \in S : n <= b}
<1>1. PICK m \in bounds : \A b \in bounds : m <= b
  <2>1. bounds \in SUBSET Nat /\ bound \in bounds
    OBVIOUS
  <2>. HIDE DEF bounds
  <2>. QED  BY <2>1, LeastNatural
<1>2. m \in S
  <2>. SUFFICES ASSUME m \notin S PROVE FALSE
    OBVIOUS
  <2>1. \A n \in S : n <= m - 1
    <3>1. m \in Nat /\ \A n \in S : n <= m /\ n # m
      BY <1>1
    <3>. QED  BY <3>1
  <2>2. m - 1 \in Nat /\ m \in Nat
    <3>1. PICK n \in S : n \in Nat /\ n <= m - 1
      BY <2>1
    <3>2. m \in Nat
      BY <1>1
    <3>. QED  BY <3>1, <3>2
  <2>3. m - 1 \in bounds
    BY <2>1, <2>2
  <2>. QED  BY <1>1, <2>2, <2>3
<1>. QED  BY <1>1, <1>2

\* Whatever view is decided, a state is left.
LEMMA DecideStep ==
  ASSUME IInv, NEW task \in tasks, handle_decide(task)
  PROVE  IInv'
<1>. DEFINE view == task.content.view
<1>1. /\ task \in Task /\ task.content.type = "decide" /\ tasks' = tasks \ {task}
      /\ UNCHANGED <<stream_vars, contents, hook, sent, states, requests>>
  BY DEF handle_decide, done_with, IInv, LoopGood
<1>2. view \in Nat
  BY <1>1 DEF Task
<1>3. PICK highest : /\ highest = CHOOSE v \in stored : \A w \in stored : w <= v
                     /\ stored' = {v \in stored : v >= view \/ v = highest}
  BY DEF handle_decide
<1>4. stored \in SUBSET Nat /\ stored # {}
  BY MarketplaceAssumption DEF IInv, StatesGood
<1>. HIDE DEF view
<1>5. stored' # {}
  <2>1. CASE \E v \in stored : v >= view
    BY <1>3, <2>1
  <2>2. CASE ~ \E v \in stored : v >= view
    <3>1. \A v \in stored : v <= view
      BY <1>2, <1>4, <2>2
    <3>2. \E v \in stored : \A w \in stored : w <= v
      BY <1>2, <1>4, <3>1, GreatestBelow
    <3>3. highest \in stored
      BY <1>3, <3>2
    <3>. QED  BY <1>3, <3>3
  <2>. QED  BY <2>1, <2>2
<1>6. StreamGood' /\ LoopGood'
  BY <1>1, TasksFewer
<1>7. StatesGood' /\ RequestsGood'
  BY <1>1, <1>3, <1>5, RequestsKept DEF IInv, StatesGood
<1>. QED  BY <1>6, <1>7 DEF IInv

----------------------------------------------------------------------------
(* Requests *)

\* A step of a request that leaves everything else alone.
LEMMA RequestStep ==
  ASSUME IInv, NEW r \in Requests, NEW request \in Request, RequestGood(request),
         set_request(r, request), only_requests
  PROVE  IInv'
<1>1. /\ UNCHANGED <<stream_vars, contents, hook, tasks>>
      /\ sent' = sent /\ states' = states /\ stored' = stored
  BY DEF only_requests, coordinator
<1>2. StreamGood' /\ LoopGood'
  BY <1>1, TasksFewer
<1>3. StatesGood'
  BY <1>1 DEF IInv, StatesGood
<1>4. /\ requests' \in [Requests -> Request] /\ requests'[r] = request
      /\ \A q \in Requests : q # r => requests'[q] = requests[q]
  BY DEF set_request, IInv, RequestsGood
<1>5. RequestsGood'
  BY <1>1, <1>4 DEF IInv, RequestsGood, RequestGood
<1>. QED  BY <1>2, <1>3, <1>5 DEF IInv

\* A request as it starts, and as it ends.
LEMMA RequestForms ==
  ASSUME IInv, NEW view \in Views
  PROVE  /\ [NoRequest EXCEPT !.phase = "lookup", !.view = view, !.result = "none"] \in Request
         /\ RequestGood([NoRequest EXCEPT !.phase = "lookup", !.view = view, !.result = "none"])
         /\ \A result \in {"NotFound", "Decided"} :
               LET ended == [NoRequest EXCEPT !.view = view, !.result = result, !.bundle = {}]
               IN  ended \in Request /\ RequestGood(ended)
  BY DEF NoRequest, Request, RequestGood

\* A request collects from a state that exists.
LEMMA CollectStep ==
  ASSUME IInv, NEW r \in Requests, requests[r].view \in DOMAIN states,
         set_request(r, collecting(r)), only_requests
  PROVE  IInv'
<1>1. requests[r] \in Request /\ RequestGood(requests[r])
  BY DEF IInv, RequestsGood
<1>2. PICK empty \in BOOLEAN : empty = (states[requests[r].view].txn_queue = {})
  OBVIOUS
<1>3. PICK request : request = [requests[r] EXCEPT !.phase = "collect", !.queue_empty = empty]
  OBVIOUS
<1>4. request \in Request /\ RequestGood(request)
  BY <1>1, <1>3 DEF Request, RequestGood
<1>. QED  BY <1>2, <1>3, <1>4, RequestStep DEF collecting

\* A request starts.
LEMMA BundleStep ==
  ASSUME IInv, NEW r \in Requests, NEW view \in Views, bundle(r, view)
  PROVE  IInv'
  BY RequestForms, RequestStep DEF bundle

\* The state is looked up: it is there, gone, or to be waited for.
LEMMA LookupStep ==
  ASSUME IInv, NEW r \in Requests, lookup_builder_state(r)
  PROVE  IInv'
<1>1. /\ requests[r] \in Request /\ RequestGood(requests[r]) /\ requests[r].phase = "lookup"
      /\ only_requests /\ requests[r].view \in Views
  BY DEF IInv, RequestsGood, lookup_builder_state, Request
<1>2. CASE \E result \in {"NotFound", "Decided"} : answer(r, result, {})
  BY <1>1, <1>2, RequestForms, RequestStep DEF answer
<1>3. CASE requests[r].view \in stored /\ set_request(r, collecting(r))
  BY <1>1, <1>3, CollectStep DEF IInv, StatesGood
<1>4. CASE set_request(r, [requests[r] EXCEPT !.phase = "wait"])
  <2>1. PICK request : request = [requests[r] EXCEPT !.phase = "wait"]
    OBVIOUS
  <2>2. request \in Request /\ RequestGood(request)
    BY <1>1, <2>1 DEF Request, RequestGood
  <2>. QED  BY <1>1, <1>4, <2>1, <2>2, RequestStep
<1>. QED  BY <1>2, <1>3, <1>4 DEF lookup_builder_state

\* A flag or the phase of a request changes.
LEMMA WaitStep ==
  ASSUME IInv, NEW r \in Requests, time_passes(r) \/ try_again(r) \/ collected(r)
  PROVE  IInv'
<1>1. requests[r] \in Request /\ RequestGood(requests[r]) /\ only_requests
  BY DEF IInv, RequestsGood, time_passes, try_again, collected
<1>2. CASE time_passes(r)
  <2>1. PICK request : /\ set_request(r, request)
                       /\ \/ request = [requests[r] EXCEPT !.expired = TRUE]
                          \/ request = [requests[r] EXCEPT !.late = TRUE]
    BY <1>2 DEF time_passes
  <2>2. request \in Request /\ RequestGood(request)
    BY <1>1, <2>1 DEF Request, RequestGood
  <2>. QED  BY <1>1, <2>1, <2>2, RequestStep
<1>3. CASE try_again(r)
  <2>1. PICK request : request = [requests[r] EXCEPT !.phase = "lookup"]
    OBVIOUS
  <2>2. request \in Request /\ RequestGood(request)
    BY <1>1, <2>1 DEF Request, RequestGood
  <2>. QED  BY <1>1, <1>3, <2>1, <2>2, RequestStep DEF try_again
<1>4. CASE collected(r)
  <2>1. PICK phase \in {"read", "sleep"} : set_request(r, [requests[r] EXCEPT !.phase = phase])
    BY <1>4 DEF collected
  <2>2. PICK request : request = [requests[r] EXCEPT !.phase = phase]
    OBVIOUS
  <2>3. requests[r].phase = "collect"
    BY <1>4 DEF collected
  <2>4. request \in Request /\ RequestGood(request)
    BY <1>1, <2>2, <2>3 DEF Request, RequestGood
  <2>. QED  BY <1>1, <2>1, <2>2, <2>4, RequestStep
<1>. QED  BY <1>2, <1>3, <1>4

\* It is woken to collect again, or to read what there is.
LEMMA WakeStep ==
  ASSUME IInv, NEW r \in Requests, wake(r)
  PROVE  IInv'
<1>1. /\ requests[r] \in Request /\ RequestGood(requests[r]) /\ only_requests
      /\ requests[r].phase = "sleep"
  BY DEF IInv, RequestsGood, wake
<1>2. requests[r].view \in DOMAIN states
  BY <1>1 DEF RequestGood
<1>3. PICK request : request = [requests[r] EXCEPT !.phase = "read"]
  OBVIOUS
<1>4. request \in Request /\ RequestGood(request)
  BY <1>1, <1>3 DEF Request, RequestGood
<1>. QED  BY <1>1, <1>2, <1>3, <1>4, RequestStep, CollectStep DEF wake

\* A queue holds approved transactions, none of a block of its state; so does
\* the bundle that is made of it.
LEMMA AssembleStep ==
  ASSUME IInv, NEW r \in Requests, assemble_bundle(r)
  PROVE  IInv'
<1>1. /\ requests[r] \in Request /\ RequestGood(requests[r]) /\ only_requests
      /\ requests[r].phase = "read"
  BY DEF IInv, RequestsGood, assemble_bundle
<1>2. PICK view : view = requests[r].view
  OBVIOUS
<1>3. view \in DOMAIN states /\ view \in Views
  BY <1>1, <1>2 DEF RequestGood, Request
<1>4. PICK queue : queue = states[view].txn_queue
  OBVIOUS
<1>5. /\ queue \subseteq Approved /\ queue \subseteq Txns
      /\ \A t \in queue : t \notin states[view].included_txns
  BY <1>3, <1>4, MarketplaceAssumption DEF IInv, StatesGood, State
<1>6. PICK request : request = [NoRequest EXCEPT !.view = view, !.result = "bundle", !.bundle = queue]
  OBVIOUS
<1>7. request \in Request /\ RequestGood(request)
  BY <1>3, <1>5, <1>6 DEF NoRequest, Request, RequestGood
<1>. QED  BY <1>1, <1>2, <1>4, <1>6, <1>7, RequestStep DEF assemble_bundle, answer

\* A transaction is queued unless a block of the state holds it.
LEMMA ReceiveStep ==
  ASSUME IInv, NEW r \in Requests, receive(r)
  PROVE  IInv'
<1>1. /\ requests[r] \in Request /\ RequestGood(requests[r]) /\ requests[r].phase = "collect"
      /\ UNCHANGED <<stream_vars, contents, hook, tasks, sent, stored>>
  BY DEF IInv, RequestsGood, receive
<1>2. PICK view : view = requests[r].view
  OBVIOUS
<1>3. /\ view \in DOMAIN states /\ states[view] \in State /\ states[view].pos < Len(sent)
      /\ states[view].txn_queue \cap states[view].included_txns = {}
      /\ sent \in Seq(Approved) /\ Len(sent) \in Nat
  BY <1>1, <1>2 DEF RequestGood, receive, IInv, StatesGood
<1>4. PICK t : t = sent[states[view].pos + 1]
  OBVIOUS
<1>5. t \in Approved
  <2>1. states[view].pos + 1 \in 1 .. Len(sent)
    BY <1>3 DEF State
  <2>. QED  BY <1>3, <1>4, <2>1
<1>6. PICK next : /\ states' = [states EXCEPT ![view] = next]
                  /\ next \in State /\ next.pos = states[view].pos + 1
                  /\ next.included_txns = states[view].included_txns
                  /\ next.txn_queue \cap next.included_txns = {}
  <2>1. CASE t \in states[view].included_txns
    <3>1. PICK next : next = [states[view] EXCEPT !.pos = @ + 1]
      OBVIOUS
    <3>2. /\ next \in State /\ next.pos = states[view].pos + 1
          /\ next.included_txns = states[view].included_txns /\ next.txn_queue = states[view].txn_queue
      BY <1>3, <3>1 DEF State
    <3>3. states' = [states EXCEPT ![view] = next]
      BY <1>2, <1>4, <2>1, <3>1 DEF receive
    <3>. QED  BY <1>3, <3>2, <3>3
  <2>2. CASE t \notin states[view].included_txns
    <3>1. PICK next : next = [states[view] EXCEPT !.pos = @ + 1, !.txn_queue = @ \cup {t}]
      OBVIOUS
    <3>2. /\ next \in State /\ next.pos = states[view].pos + 1
          /\ next.included_txns = states[view].included_txns
          /\ next.txn_queue = states[view].txn_queue \cup {t}
      <4>1. PICK old, queue : old = states[view] /\ queue = old.txn_queue \cup {t}
        OBVIOUS
      <4>2. old \in State /\ queue \in SUBSET Approved
        BY <1>3, <1>5, <4>1 DEF State
      <4>3. next = [[old EXCEPT !.pos = old.pos + 1] EXCEPT !.txn_queue = queue]
        BY <3>1, <4>1, Zenon
      <4>4. /\ next \in State /\ next.pos = old.pos + 1
            /\ next.included_txns = old.included_txns /\ next.txn_queue = queue
        <5>1. old.pos + 1 \in Nat
          BY <4>2 DEF State
        <5>2. PICK moved, pos : pos = old.pos + 1 /\ moved = [old EXCEPT !.pos = pos]
          OBVIOUS
        <5>3. /\ moved \in State /\ moved.pos = pos /\ moved.included_txns = old.included_txns
          BY <4>2, <5>1, <5>2 DEF State
        <5>4. next = [moved EXCEPT !.txn_queue = queue]
          BY <4>3, <5>2
        <5>5. /\ next \in State /\ next.pos = moved.pos
              /\ next.included_txns = moved.included_txns /\ next.txn_queue = queue
          BY <4>2, <5>3, <5>4 DEF State
        <5>. QED  BY <5>2, <5>3, <5>5
      <4>. QED  BY <4>1, <4>4
    <3>3. states' = [states EXCEPT ![view] = next]
      BY <1>2, <1>4, <2>2, <3>1 DEF receive
    <3>. QED  BY <1>3, <2>2, <3>2, <3>3
  <2>. QED  BY <2>1, <2>2
<1>7. /\ (DOMAIN states)' = DOMAIN states /\ states'[view] = next
      /\ \A v \in DOMAIN states : v # view => states'[v] = states[v]
  BY <1>3, <1>6
<1>8. StatesGood'
  BY <1>1, <1>3, <1>6, <1>7 DEF IInv, StatesGood, State
<1>9. /\ (DOMAIN states)' = DOMAIN states
      /\ \A v \in DOMAIN states : states'[v].included_txns = states[v].included_txns
  BY <1>6, <1>7
<1>10. RequestsGood'
  <2>1. CASE UNCHANGED requests
    BY <1>9, <2>1, RequestsKept DEF IInv
  <2>2. CASE set_request(r, [requests[r] EXCEPT !.queue_empty = FALSE])
    <3>1. PICK request : request = [requests[r] EXCEPT !.queue_empty = FALSE]
      OBVIOUS
    <3>2. request \in Request /\ RequestGood(request)
      BY <1>1, <3>1 DEF Request, RequestGood
    <3>3. /\ requests' \in [Requests -> Request] /\ requests'[r] = request
          /\ \A q \in Requests : q # r => requests'[q] = requests[q]
      BY <2>2, <3>1, <3>2 DEF set_request, IInv, RequestsGood
    <3>. QED  BY <1>9, <3>2, <3>3 DEF IInv, RequestsGood, RequestGood
  <2>. QED  BY <2>1, <2>2 DEF receive
<1>11. StreamGood' /\ LoopGood'
  BY <1>1, TasksFewer
<1>. QED  BY <1>8, <1>10, <1>11 DEF IInv

----------------------------------------------------------------------------
(* The invariant *)

\* In the initial state nothing is published, broadcast or asked for.
LEMMA InitIInv == Init => IInv
<1>. SUFFICES ASSUME Init PROVE IInv
  OBVIOUS
<1>1. StreamGood
  <2>1. /\ published = 0 /\ serving \in BOOLEAN /\ delivered = {} /\ unheard = {}
        /\ connection = [Connecting EXCEPT !.initial = TRUE]
    BY DEF Init, StreamInit
  <2>2. /\ connection \in Connection /\ connection.phase = "healthcheck" /\ ~connection.alive
        /\ connection.next = 1 /\ connection.last = 0 /\ connection.initial = TRUE
    BY <2>1 DEF Connecting, Connection, Phases
  <2>3. published \in 0 .. MaxEvents
    BY <2>1, EventStreamAssumption
  <2>4. StreamTypeOK
    <3>1. /\ connection.last \in 0 .. published /\ connection.next \in 1 .. connection.last + 1
          /\ connection.phase \in Phases /\ connection.initial \in BOOLEAN
          /\ connection.alive \in BOOLEAN
      BY <2>1, <2>2 DEF Connection
    <3>. QED  BY <2>1, <2>2, <2>3, <3>1, Zenon DEF StreamTypeOK, Phases
  <2>5. MissedOnlyUnheard /\ ~in_phase("connected")
    BY <2>1, <2>2 DEF MissedOnlyUnheard, in_phase
  <2>. QED  BY <2>2, <2>4, <2>5 DEF StreamGood
<1>2. LoopGood
  BY DEF Init, StreamInit, LoopGood
<1>3. StatesGood
  <2>1. PICK bootstrap : bootstrap = [pos |-> 0, txn_queue |-> {}, included_txns |-> {}]
    OBVIOUS
  <2>2. bootstrap \in State /\ bootstrap.pos = 0 /\ bootstrap.txn_queue = {}
    BY <2>1 DEF State
  <2>3. /\ sent \in Seq(Approved) /\ Len(sent) = 0 /\ DOMAIN states = {0} /\ stored = {0}
        /\ states[0] = bootstrap
    BY <2>1 DEF Init
  <2>. QED  BY <2>2, <2>3, MarketplaceAssumption DEF StatesGood
<1>4. RequestsGood
  <2>1. NoRequest \in Request /\ RequestGood(NoRequest)
    BY MarketplaceAssumption DEF NoRequest, Request, RequestGood
  <2>. QED  BY <2>1 DEF Init, RequestsGood
<1>. QED  BY <1>1, <1>2, <1>3, <1>4 DEF IInv

\* Every step keeps the invariant.
LEMMA NextIInv == IInv /\ [Next]_vars => IInv'
<1>. SUFFICES ASSUME IInv, [Next]_vars PROVE IInv'
  OBVIOUS
<1>1. CASE UNCHANGED vars
  <2>1. /\ UNCHANGED <<stream_vars, contents, hook, coordinator, requests>> /\ tasks' = tasks
    BY <1>1 DEF vars
  <2>2. StreamGood' /\ LoopGood'
    BY <2>1, TasksFewer
  <2>3. StatesGood' /\ RequestsGood'
    BY <2>1 DEF IInv, StatesGood, RequestsGood, RequestGood, coordinator
  <2>. QED  BY <2>2, <2>3 DEF IInv
<1>2. ASSUME NEW event \in Events, published_as(event) PROVE IInv'
  BY <1>2, PublishedStep
<1>3. CASE outage \/ next_event
  BY <1>3, NoEventStep
<1>4. CASE some_event
  BY <1>4, SomeEventStep
<1>5. CASE spawn_task
  BY <1>5, SpawnTaskStep
<1>6. ASSUME NEW txns \in Batches, submit_txns(txns) PROVE IInv'
  BY <1>6, SubmitStep
<1>7. ASSUME NEW task \in tasks, process_transactions(task) PROVE IInv'
  BY <1>7, ProcessStep
<1>8. ASSUME NEW task \in tasks, handle_transaction(task) PROVE IInv'
  BY <1>8, HandleTransactionStep
<1>9. ASSUME NEW task \in tasks, NEW parent \in stored, spawn_builder_state(task, parent) PROVE IInv'
  BY <1>9, SpawnStep
<1>10. ASSUME NEW task \in tasks, handle_decide(task) PROVE IInv'
  BY <1>10, DecideStep
<1>11. ASSUME NEW r \in Requests, NEW view \in Views, bundle(r, view) PROVE IInv'
  BY <1>11, BundleStep
<1>12. ASSUME NEW r \in Requests, time_passes(r) \/ try_again(r) \/ collected(r) PROVE IInv'
  BY <1>12, WaitStep
<1>13. ASSUME NEW r \in Requests, lookup_builder_state(r) PROVE IInv'
  BY <1>13, LookupStep
<1>14. ASSUME NEW r \in Requests, receive(r) \/ wake(r) \/ assemble_bundle(r) PROVE IInv'
  BY <1>14, ReceiveStep, WakeStep, AssembleStep
<1>. QED
  BY <1>1, <1>2, <1>3, <1>4, <1>5, <1>6, <1>7, <1>8, <1>9, <1>10, <1>11, <1>12, <1>13, <1>14, Zenon
     DEF Next, proceed

\* IInv holds in every reachable state.
THEOREM Invariance == Spec => []IInv
  BY InitIInv, NextIInv, PTL DEF Spec

\* Every variable keeps its type: no receiver is ahead of the channel, a state
\* is left whatever is decided, and requests collect from states that exist.
THEOREM TypeCorrect == Spec => []TypeOK
<1>1. IInv => TypeOK
  <2>. SUFFICES ASSUME IInv PROVE TypeOK
    OBVIOUS
  <2>1. sent \in Seq(Txns)
    BY ApprovedTyped DEF IInv, StatesGood
  <2>2. \A v \in DOMAIN states :
           states[v] \in [pos : 0 .. Len(sent), txn_queue : SUBSET Txns, included_txns : SUBSET Txns]
    <3>1. ASSUME NEW v \in DOMAIN states
          PROVE  states[v] \in [pos : 0 .. Len(sent), txn_queue : SUBSET Txns,
                                included_txns : SUBSET Txns]
      <4>1. states[v] \in State /\ states[v].pos <= Len(sent)
        BY DEF IInv, StatesGood
      <4>2. Len(sent) \in Nat
        BY <2>1
      <4>3. states[v].pos \in 0 .. Len(sent)
        BY <4>1, <4>2 DEF State
      <4>4. states[v].txn_queue \in SUBSET Txns
        BY <4>1, MarketplaceAssumption DEF State
      <4>. QED  BY <4>1, <4>3, <4>4 DEF State
    <3>. QED  BY <3>1
  <2>3. held \subseteq DOMAIN states
    BY DEF held, IInv, RequestsGood, RequestGood
  <2>. QED  BY <2>1, <2>2, <2>3 DEF IInv, StreamGood, LoopGood, StatesGood, RequestsGood, TypeOK
<1>. QED  BY <1>1, Invariance, PTL

\* An event is missed only if nobody was connected when it was published, or
\* it came as an error; and none is delivered twice.
THEOREM MissedOnlyIfUnheard == Spec => []MissedOnlyUnheard
<1>1. IInv => MissedOnlyUnheard
  BY DEF IInv, StreamGood
<1>. QED  BY <1>1, Invariance, PTL

\* The builder processes an event after the hooks are done with it.
THEOREM HooksAreFirst == Spec => []HookFirst
<1>1. IInv => HookFirst
  BY DEF IInv, LoopGood, HookFirst
<1>. QED  BY <1>1, Invariance, PTL

\* A bundle holds what the hooks let through, and nothing of a block its state
\* knows.
THEOREM BundlesAreApproved == Spec => []BundleApproved
<1>1. IInv => BundleApproved
  BY DEF IInv, RequestsGood, RequestGood, BundleApproved
<1>. QED  BY <1>1, Invariance, PTL
=============================================================================
