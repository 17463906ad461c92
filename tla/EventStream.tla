----------------------------- MODULE EventStream -----------------------------
(***************************************************************************)
(* EventServiceStream (shared/src/utils/event_serivce_wrapper.rs): the     *)
(* stream of HotShot events that the builder services consume.  It wraps   *)
(* a connection to the events API and replaces it when it ends or is       *)
(* silent for too long.                                                    *)
(*                                                                         *)
(* The API is external: it goes down and comes up, and a subscription      *)
(* carries what is published from then on until it is cut.  It may leave   *)
(* the handshake of a subscription unanswered, for any time or for ever.   *)
(* Events are numbered in the order of their publication.                  *)
(***************************************************************************)
EXTENDS Naturals

CONSTANT MaxEvents    \* bound: number of events published

ASSUME EventStreamAssumption == MaxEvents \in Nat

VARIABLES
    published,     \* number of events so far
    serving,       \* the API answers health checks and subscriptions
    connection,
    delivered,     \* events the stream has yielded
    unheard        \* history: events no connection was there to carry, or
                   \* that came out of one as an error

stream_vars == <<published, serving, connection, delivered, unheard>>

\* `next` and `last` are the first and the last event a connection has still
\* to yield; `initial` says that `connect` has not returned yet.
Connecting == [phase |-> "healthcheck", initial |-> FALSE, alive |-> FALSE, next |-> 1, last |-> 0]

StreamInit ==
    /\ published = 0 /\ serving \in BOOLEAN
    /\ connection = [Connecting EXCEPT !.initial = TRUE]
    /\ delivered = {} /\ unheard = {}

in_phase(phase) == connection.phase = phase
set_connection(phase) == connection' = [connection EXCEPT !.phase = phase]

----------------------------------------------------------------------------
(* The events API *)

publish ==
    /\ published < MaxEvents
    /\ published' = published + 1
    /\ connection' = IF connection.alive THEN [connection EXCEPT !.last = published + 1]
                     ELSE connection
    /\ unheard' = IF connection.alive THEN unheard ELSE unheard \cup {published + 1}
    /\ UNCHANGED <<serving, delivered>>

service_starts ==
    /\ ~serving /\ serving' = TRUE
    /\ UNCHANGED <<published, connection, delivered, unheard>>

\* It takes the connection with it.  What is on its way still arrives.
service_stops ==
    /\ serving /\ serving' = FALSE
    /\ connection' = [connection EXCEPT !.alive = FALSE]
    /\ UNCHANGED <<published, delivered, unheard>>

----------------------------------------------------------------------------
(* connect_inner *)

healthcheck ==
    /\ in_phase("healthcheck") /\ serving
    /\ set_connection("subscribe")
    /\ UNCHANGED <<published, serving, delivered, unheard>>

\* Slip: an error of a reconnection ends the stream, as that of `connect` does.
connect_error_final == set_connection("failed")

\* The first connection is not tried again.
connect_error == set_connection(IF connection.initial THEN "failed" ELSE "sleep")

\* No health check was answered within CONNECTION_TIMEOUT.
connection_timeout ==
    /\ in_phase("healthcheck") /\ ~serving
    /\ connect_error
    /\ UNCHANGED <<published, serving, delivered, unheard>>

\* The handshake is answered or fails.  CONNECTION_TIMEOUT does not cover it:
\* until the API does something about it, and only then, is there this step.
subscribe ==
    /\ in_phase("subscribe")
    /\ IF serving
       THEN connection' = [phase |-> "connected", initial |-> FALSE, alive |-> TRUE,
                           next |-> published + 1, last |-> published]
       ELSE connect_error
    /\ UNCHANGED <<published, serving, delivered, unheard>>

\* RETRY_PERIOD is over.
retry ==
    /\ in_phase("sleep")
    /\ set_connection("healthcheck")
    /\ UNCHANGED <<published, serving, delivered, unheard>>

----------------------------------------------------------------------------
(* The stream is polled *)

available == connection.next <= connection.last

yield_event ==
    /\ in_phase("connected") /\ available
    /\ connection' = [connection EXCEPT !.next = @ + 1]
    /\ delivered' = delivered \cup {connection.next}
    /\ UNCHANGED <<published, serving, unheard>>

\* An item that is an error is skipped.
skip_error ==
    /\ in_phase("connected") /\ available
    /\ connection' = [connection EXCEPT !.next = @ + 1]
    /\ unheard' = unheard \cup {connection.next}
    /\ UNCHANGED <<published, serving, delivered>>

\* Slip: the end of the connection is noticed before what it still carries.
reconnect_eagerly ==
    /\ in_phase("connected") /\ (~available \/ ~connection.alive)
    /\ connection' = Connecting
    /\ UNCHANGED <<published, serving, delivered, unheard>>

\* The connection ended, or nothing came for MAX_WAIT_PERIOD, be it that the
\* API is silent or that the connection silently went down.  From here until
\* `subscribe` nobody listens.
reconnect ==
    /\ in_phase("connected") /\ ~available
    /\ connection' = Connecting
    /\ UNCHANGED <<published, serving, delivered, unheard>>

connect_inner == healthcheck \/ connection_timeout \/ subscribe

----------------------------------------------------------------------------
(* Properties *)

StreamTypeOK ==
    /\ published \in 0..MaxEvents /\ serving \in BOOLEAN
    /\ connection.phase \in {"healthcheck", "subscribe", "sleep", "connected", "failed"}
    /\ connection.initial \in BOOLEAN /\ connection.alive \in BOOLEAN
    /\ connection.alive => serving /\ in_phase("connected") /\ connection.last = published
    /\ connection.last \in 0..published /\ connection.next \in 1..connection.last + 1
    /\ delivered \subseteq 1..published /\ unheard \subseteq 1..published

\* What a connection carried is delivered or still to come, once: an event
\* is only missed when nobody was connected as it was published, or when it
\* came as an error.
MissedOnlyUnheard ==
    /\ \A e \in 1..published : \/ e \in delivered \cup unheard
                               \/ in_phase("connected") /\ e \in connection.next..connection.last
    /\ delivered \cap unheard = {}
    /\ in_phase("connected") => \A e \in connection.next..published : e \notin delivered

\* The API stays up and leaves no handshake unanswered for ever.
answering == <>[]serving /\ []<>~in_phase("subscribe")

\* A stream that has connected once is connected again and again if the API
\* answers at last: no error, silence or cut ends it.  A handshake that is
\* never answered does.
Reconnects ==
    answering /\ <>in_phase("connected") => []<>in_phase("connected")
=============================================================================
