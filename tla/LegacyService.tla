---------------------------- MODULE LegacyService ----------------------------
(***************************************************************************)
(* The block API of the legacy builder (ProxyGlobalState in                *)
(* legacy/src/service.rs): requests travel to a builder task by channel    *)
(* and back, blocks are kept in an LRU cache, and the last block built for *)
(* a state is remembered for clients that do not get an answer in time.    *)
(*                                                                         *)
(* The builder tasks are those of LegacyBuilder, seen through their        *)
(* handles.  A task may be late with a decide, so a message that was sent  *)
(* can be handled at any later time, even after its handle is gone; tasks  *)
(* that have one id one after the other are one here.                      *)
(*                                                                         *)
(* A step that reads or writes the global state holds its lock for that    *)
(* step only, but for a fallback request: it is sent under the read lock,  *)
(* for as long as the channel has no room.  (That a waiting writer holds   *)
(* up new readers too is left out.)                                        *)
(***************************************************************************)
EXTENDS Naturals, FiniteSets, SequencesExt

CONSTANTS
    Clients,
    StateIds,      \* ids builder states can have
    BootstrapId,
    Payloads,      \* builder commitments of the payloads that can be built
    Decides,       \* views decided, in whatever order tasks get to them
    Capacity,      \* of the LRU cache; 256 in the code
    ChannelCapacity,   \* of a task's channel of requests
    MaxRequests,   \* bound on the requests sent and to be sent to tasks
    MaxInfos       \* bound on the blocks ever built

\* No block was offered; the client has gone.
NoHash == "no hash"
Nobody == "nobody"

ASSUME LegacyServiceAssumption ==
    /\ NoHash \notin Payloads /\ Nobody \notin Clients
    /\ BootstrapId \in StateIds
    /\ \A id \in StateIds : id.parent_view \in Nat
    /\ Decides \subseteq Nat
    /\ Capacity \in Nat \ {0}
    /\ ChannelCapacity \in Nat \ {0} /\ MaxRequests \in Nat /\ MaxInfos \in Nat

VARIABLES
    handles,                          \* DOMAIN spawned_builder_states
    highest_view_num_builder_id,
    last_garbage_collected_view_num,
    infos,        \* every BlockInfo made, in order: its block, its VID trigger
    blocks,       \* the LRU cache: indices into infos, the last used at the end
    builder_state_to_last_built_block,
    messages,     \* requests in tasks' channels, or with the block built
    clients       \* local state of the calls of a client

state_vars == <<handles, highest_view_num_builder_id, last_garbage_collected_view_num>>
store == <<infos, blocks, builder_state_to_last_built_block>>
vars == <<state_vars, store, messages, clients>>

BlockIds == [view : {id.parent_view : id \in StateIds}, hash : Payloads]

\* `info` is the BlockInfo a call holds, `claimed` is history: the one that
\* was found by the client's claim_block.
NoCall == [phase |-> "idle", id |-> BootstrapId, hash |-> NoHash,
           info |-> 0, claimed |-> 0, result |-> "unasked"]

Init ==
    /\ handles = {BootstrapId}
    /\ highest_view_num_builder_id = BootstrapId
    /\ last_garbage_collected_view_num = 0
    /\ infos = <<>> /\ blocks = <<>>
    /\ builder_state_to_last_built_block = [id \in {} |-> NoHash]
    /\ messages = {}
    /\ clients = [c \in Clients |-> NoCall]

set_call(c, call) == clients' = [clients EXCEPT ![c] = call]

----------------------------------------------------------------------------
(* What LegacyBuilder does to the handles *)

\* A fallback request is being sent.
read_locked == \E c \in Clients : clients[c].phase = "sending"

register_builder_state(id) ==
    /\ ~read_locked /\ id \notin handles
    /\ handles' = handles \cup {id}
    /\ highest_view_num_builder_id' =
          IF id.parent_view > highest_view_num_builder_id.parent_view
          THEN id ELSE highest_view_num_builder_id
    /\ UNCHANGED <<last_garbage_collected_view_num, store, messages, clients>>

\* Slip: the cutoff is not clamped to the highest view.
cutoff_unclamped(view) == view

cutoff_of(view) ==
    IF highest_view_num_builder_id.parent_view <= view
    THEN highest_view_num_builder_id.parent_view ELSE view

remove_handles(view) ==
    /\ ~read_locked
    /\ handles' = {id \in handles : id.parent_view >= cutoff_of(view)}
    /\ last_garbage_collected_view_num' = IF cutoff_of(view) > 0 THEN cutoff_of(view) - 1 ELSE 0
    /\ UNCHANGED <<highest_view_num_builder_id, store, messages, clients>>

----------------------------------------------------------------------------
(* available_blocks: the way to a builder task *)

refused(id) ==
    /\ id.parent_view < last_garbage_collected_view_num
    /\ highest_view_num_builder_id.parent_view # last_garbage_collected_view_num

available_blocks(c, id) ==
    /\ clients[c].phase = "idle"
    /\ set_call(c, IF refused(id)
                   THEN [NoCall EXCEPT !.result = "AlreadyDecided"]
                   ELSE [NoCall EXCEPT !.id = id, !.phase = "looking"])
    /\ UNCHANGED <<state_vars, store, messages>>

in_phase(phase) == {c \in Clients : clients[c].phase = phase}

few_requests ==
    Cardinality(messages) + Cardinality(in_phase("found") \cup in_phase("sending")) < MaxRequests

find_builder_state(c) ==
    LET call == clients[c]
    IN  /\ c \in in_phase("looking") \/ (c \in in_phase("waiting") /\ call.id \in handles)
        /\ few_requests
        /\ set_call(c, [call EXCEPT !.phase = IF call.id \in handles THEN "found" ELSE "waiting"])
        /\ UNCHANGED <<state_vars, store, messages>>

\* Half of max_api_waiting_time is over.  The guard of the read lock lives on
\* until the request is sent.
fall_back(c) ==
    /\ c \in in_phase("waiting") /\ few_requests
    /\ set_call(c, [clients[c] EXCEPT !.phase = "sending"])
    /\ UNCHANGED <<state_vars, store, messages>>

get_channel_for_matching_builder_or_highest_view_builder(id) ==
    IF id \in handles THEN id ELSE highest_view_num_builder_id

channel(to) == {m \in messages : m.to = to /\ m.hash = NoHash}

\* It waits for room in the channel, without a timeout.  (Requests nobody
\* waits for are told apart by what they ask for only.)
broadcast(c) ==
    LET call == clients[c]
        to == IF call.phase = "found" THEN call.id
              ELSE get_channel_for_matching_builder_or_highest_view_builder(call.id)
    IN  /\ call.phase \in {"found", "sending"}
        /\ Cardinality(channel(to)) < ChannelCapacity
        /\ messages' = messages \cup {[client |-> c, id |-> call.id, to |-> to, hash |-> NoHash]}
        /\ set_call(c, [call EXCEPT !.phase = "sent"])
        /\ UNCHANGED <<state_vars, store>>

----------------------------------------------------------------------------
(* A builder task handles a request *)

highest(id) == id.parent_view = highest_view_num_builder_id.parent_view

\* Slip: the highest task takes requests for other states.
accepts_fallback(message) == highest(message.to)

accepts(message) == message.to = message.id /\ highest(message.to)

built == {m \in messages : m.hash # NoHash}

\* A task takes one message after the other.
busy(to) == \E m \in built : m.to = to

\* A message that is not accepted, or for which there is nothing to build, is
\* dropped, and its sender not told.
process_block_request(message) ==
    /\ message.hash = NoHash /\ ~busy(message.to)
    /\ \/ messages' = messages \ {message}
       \/ /\ accepts(message) /\ Len(infos) + Cardinality(built) < MaxInfos
          /\ \E hash \in Payloads :
                messages' = (messages \ {message}) \cup {[message EXCEPT !.hash = hash]}
    /\ UNCHANGED <<state_vars, store, clients>>

\* LruCache: without an entry, and with one used last.
without(b) == RemoveFirstMatch(blocks, LAMBDA i : infos[i].block = b)
used(seq, i) == IF Len(seq) < Capacity THEN Append(seq, i) ELSE Append(Tail(seq), i)
stored(b) == {i \in {blocks[k] : k \in DOMAIN blocks} : infos[i].block = b}

\* The block is named after the task that built it, remembered for the state
\* asked for, and announced to the client if it still waits.
update_global_state(message) ==
    LET hash == message.hash
        block == [view |-> message.to.parent_view, hash |-> hash]
    IN  /\ hash # NoHash /\ ~read_locked
        /\ infos' = Append(infos, [block |-> block, started |-> FALSE])
        /\ blocks' = used(without(block), Len(infos) + 1)
        /\ builder_state_to_last_built_block' =
              [id \in DOMAIN builder_state_to_last_built_block \cup {message.id} |->
                 IF id = message.id THEN hash ELSE builder_state_to_last_built_block[id]]
        /\ messages' = messages \ {message}
        /\ IF message.client = Nobody THEN UNCHANGED clients
           ELSE set_call(message.client, [clients[message.client] EXCEPT
                   !.phase = "idle", !.hash = hash, !.result = "offered"])
        /\ UNCHANGED state_vars

\* The client stops waiting, its message goes on.
waited_too_long(c) ==
    LET call == clients[c]
    IN  /\ call.phase = "sent"
        /\ messages' = {IF m.client = c THEN [m EXCEPT !.client = Nobody] ELSE m : m \in messages}
        /\ set_call(c, IF call.id \in DOMAIN builder_state_to_last_built_block
                       THEN [call EXCEPT !.phase = "idle", !.result = "offered",
                               !.hash = builder_state_to_last_built_block[call.id]]
                       ELSE [NoCall EXCEPT !.result = "NoBlocksAvailable"])
        /\ UNCHANGED <<state_vars, store>>

----------------------------------------------------------------------------
(* Claims of the block offered, in the view asked for *)

wanted(c) == [view |-> clients[c].id.parent_view, hash |-> clients[c].hash]

\* Finding a block makes it the last used.
find_block(c, phase) ==
    /\ clients[c].phase = "idle" /\ clients[c].result = "offered" /\ ~read_locked
    /\ IF stored(wanted(c)) = {}
       THEN /\ set_call(c, [NoCall EXCEPT !.result = "NotFound"])
            /\ UNCHANGED blocks
       ELSE \E i \in stored(wanted(c)) :
            /\ blocks' = used(without(wanted(c)), i)
            /\ set_call(c, [clients[c] EXCEPT !.phase = phase, !.info = i])
    /\ UNCHANGED <<state_vars, infos, builder_state_to_last_built_block, messages>>

claim_block(c) == find_block(c, "claiming")

\* Slip: the trigger of the block built last is pulled.
start_last(i) == infos' = [infos EXCEPT ![Len(infos)].started = TRUE]

start(i) == infos' = [infos EXCEPT ![i].started = TRUE]

\* The trigger of the BlockInfo found is taken, by the first to come.
send_vid_trigger(c) ==
    /\ clients[c].phase = "claiming"
    /\ start(clients[c].info)
    /\ set_call(c, [clients[c] EXCEPT !.phase = "idle", !.info = 0, !.claimed = clients[c].info])
    /\ UNCHANGED <<state_vars, blocks, builder_state_to_last_built_block, messages>>

claim_block_header_input(c) == find_block(c, "header")

\* Nobody can pull the trigger of this BlockInfo any more.
trigger_lost(i) ==
    /\ ~infos[i].started
    /\ i \notin {blocks[k] : k \in DOMAIN blocks}
    /\ \A c \in Clients : ~(clients[c].phase = "claiming" /\ clients[c].info = i)

\* WaitAndKeep::get: the VID commitment if it is computed, an error if it
\* never will be.
get(i) == (IF infos[i].started THEN {"vid"} ELSE {})
             \cup (IF trigger_lost(i) THEN {"WaitAndKeepGetError"} ELSE {})

\* Or max_api_waiting_time is over first.
vid_response(c) ==
    /\ clients[c].phase = "header"
    /\ \E result \in get(clients[c].info) \cup {"CouldNotGetVidInTime"} :
          set_call(c, [NoCall EXCEPT !.result = result])
    /\ UNCHANGED <<state_vars, store, messages>>

Next ==
    \/ \E id \in StateIds : register_builder_state(id)
    \/ \E view \in Decides : remove_handles(view)
    \/ \E c \in Clients :
          \/ \E id \in StateIds : available_blocks(c, id)
          \/ find_builder_state(c) \/ fall_back(c) \/ broadcast(c) \/ waited_too_long(c)
          \/ claim_block(c) \/ send_vid_trigger(c) \/ claim_block_header_input(c)
          \/ vid_response(c)
    \/ \E message \in messages : process_block_request(message) \/ update_global_state(message)

Spec == Init /\ [][Next]_vars

\* Builder tasks run, a call that can go on does, and the clock with it.
FairSpec ==
    /\ Spec
    /\ \A to \in StateIds :
          WF_vars(\E message \in messages : /\ message.to = to
                                            /\ process_block_request(message)
                                               \/ update_global_state(message))
    /\ \A c \in Clients : WF_vars(find_builder_state(c) \/ fall_back(c) \/ broadcast(c)
                                    \/ waited_too_long(c))

----------------------------------------------------------------------------
(* Properties *)

AvailableBlocksError == {"AlreadyDecided", "NoBlocksAvailable"}
ClaimBlockError == {"NotFound"}
ClaimBlockHeaderInputError == {"NotFound", "CouldNotGetVidInTime", "WaitAndKeepGetError"}
Call == [phase : {"idle", "looking", "waiting", "found", "sending", "sent", "claiming",
                  "header"}, id : StateIds,
         hash : Payloads \cup {NoHash}, info : 0..MaxInfos, claimed : 0..MaxInfos,
         result : {"unasked", "offered", "vid"} \cup AvailableBlocksError
                      \cup ClaimBlockError \cup ClaimBlockHeaderInputError]

TypeOK ==
    /\ handles \subseteq StateIds
    /\ highest_view_num_builder_id \in handles
    /\ last_garbage_collected_view_num \in Nat
    /\ infos \in Seq([block : BlockIds, started : BOOLEAN]) /\ Len(infos) <= MaxInfos
    /\ blocks \in Seq(DOMAIN infos) /\ Len(blocks) <= Capacity
    /\ \A b \in BlockIds : Cardinality(stored(b)) <= 1
    /\ DOMAIN builder_state_to_last_built_block \subseteq StateIds
    /\ \A id \in DOMAIN builder_state_to_last_built_block :
          builder_state_to_last_built_block[id] \in Payloads
    /\ messages \subseteq [client : Clients \cup {Nobody}, id : StateIds, to : StateIds,
                           hash : Payloads \cup {NoHash}]
    /\ \A to \in StateIds : Cardinality(channel(to)) <= ChannelCapacity
    /\ clients \in [Clients -> Call]

\* Whatever is offered, by a builder task or from what was built last for the
\* state, was cached under the hash offered and the view asked for, and can be
\* claimed so unless the cache is full and has evicted it.  (A task that took
\* requests for other states would break this: it names its blocks after
\* itself.)
MissingOnlyEvicted ==
    \A c \in Clients :
        clients[c].result = "offered" /\ stored(wanted(c)) = {}
            => /\ Len(blocks) = Capacity
               /\ \E i \in DOMAIN infos : infos[i].block = wanted(c)

\* The newest builder state is never refused as decided already, although
\* decides are handled in any order and may be ahead of every state.
NewestNotRefused == ~refused(highest_view_num_builder_id)

\* A client that claimed a block waits in vain for its VID commitment only if
\* the block was built again since: the BlockInfo it finds is a newer one.
StarvedOnlyRebuilt ==
    \A c \in Clients :
        LET call == clients[c]
        IN  call.phase = "header" /\ call.claimed # 0
                => infos[call.info].started \/ call.info > call.claimed

\* A call is answered, be it without a block, when its time is over: "max
\* waiting time to serve first api request" (legacy/src/service.rs).
CallsAnswered ==
    \A c \in Clients : clients[c].phase = "looking" ~> clients[c].phase = "idle"
=============================================================================
