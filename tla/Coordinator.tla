---------------------------- MODULE Coordinator ----------------------------
(***************************************************************************)
(* The life cycle of builder states in BuilderStateCoordinator             *)
(* (shared/src/coordinator/mod.rs).                                        *)
(*                                                                         *)
(* Every event from HotShot is handled in a task of its own, so proposals  *)
(* and decides arrive in any order and any number of times.  The atomic    *)
(* steps are the critical sections of the code:                            *)
(*   - `proposals` is a mutex that handle_proposal holds until the spawn   *)
(*     it may start has ended: `spawning` is the holder's local state;     *)
(*   - `builder_states` is a read-write lock taken once to choose a parent *)
(*     and once more to insert the child, so decides fall in between;      *)
(*   - a lookup takes the read lock twice.                                 *)
(*                                                                         *)
(* Commitments are names: equal names are equal hashes.  A builder state   *)
(* is the part of ParentBlockReferences that its id does not hold.  The    *)
(* transaction statuses a decide sets are in TxStatus, the transactions    *)
(* of a state in TxnFlow; neither is read here.                            *)
(***************************************************************************)
EXTENDS TieredViewMap

CONSTANTS
    QuorumProposals,  \* the quorum proposals that can be received
    DaProposals,      \* the DA proposals that can be received
    DecideViews,      \* views of leaf_chain[0] in the decides received
    Clients,          \* tasks that look up builder states
    Vids,             \* payload (VID) commitments
    Payloads,         \* builder commitments
    Leaves,           \* leaf commitments
    Empty,            \* the builder commitments of payloads without txns
    BootstrapVid,     \* VidCommitment::default()
    BootstrapLeaf     \* fake_commitment()

\* The proposals mutex is free.
Idle == [phase |-> "idle"]

\* Option::None; Some(v) is {v}.
None == {}

BuilderStateId == [parent_view : Nat, parent_commitment : Vids]
ProposalId     == [view_number : Nat, builder_commitment : Payloads]
Quorum == [view_number : Nat, payload_commitment : Vids,
           builder_commitment : Payloads, leaf : Leaves,
           justify_view : Nat, justify_leaf : Leaves]
BuilderState == [id : BuilderStateId, leaf_commit : Leaves,
                 last_nonempty_view : SUBSET Nat]

BootstrapId == [parent_view |-> Genesis, parent_commitment |-> BootstrapVid]

ASSUME CoordinatorAssumption ==
    /\ BootstrapVid \in Vids /\ BootstrapLeaf \in Leaves
    /\ QuorumProposals \subseteq Quorum
    /\ DaProposals \subseteq ProposalId
    /\ DecideViews \subseteq Nat
    /\ Empty \subseteq Payloads

\* Ids that the code can ever give a builder state.
StateId(q) == [parent_view |-> q.view_number, parent_commitment |-> q.payload_commitment]
StateIds == {BootstrapId} \cup {StateId(q) : q \in QuorumProposals}

\* ProposalId::from_quorum_proposal; a DA proposal is named by its id.
PropId(q) == [view_number |-> q.view_number, builder_commitment |-> q.builder_commitment]
ProposalIds == DaProposals \cup {PropId(q) : q \in QuorumProposals}

VARIABLES
    builder_states,   \* TieredViewMap: BuilderStateId -> BuilderState
    proposals,        \* ProposalId -> the unmatched half of a proposal pair
    spawning,         \* Idle, or the child to insert by the mutex's holder
    lookup,           \* per client: lookup_builder_state's local state
    received,         \* history: <<kind, id>> of the proposals handled
    attempted,        \* history: ids for which a spawn was started
    decided           \* history: the highest view decided so far

history == <<received, attempted, decided>>
vars == <<builder_states, proposals, spawning, lookup, history>>

NoLookup == [phase |-> "done", id |-> BootstrapId, result |-> "None"]

bootstrap == [id |-> BootstrapId, leaf_commit |-> BootstrapLeaf, last_nonempty_view |-> None]

Init ==
    /\ builder_states = [id \in {BootstrapId} |-> bootstrap]
    /\ proposals = [id \in {} |-> {}]
    /\ spawning = Idle
    /\ lookup = [c \in Clients |-> NoLookup]
    /\ received = {}
    /\ attempted = {}
    /\ decided = Genesis

----------------------------------------------------------------------------
(* Choosing a parent *)

\* The state's view and leaf are those of the proposal's justify QC.
justifies(state, q) == /\ state.id.parent_view = q.justify_view
                       /\ state.leaf_commit = q.justify_leaf

ideal_parents(map, q) == {id \in bucket(map, q.justify_view) : justifies(map[id], q)}

\* Slip: the justify QC is not looked at.
candidates_unjustified(map, q) ==
    IF StateId(q) \in DOMAIN map THEN {}
    ELSE first_bucket_below(map, q.view_number)

\* Slip: no fallback when the justified parent is missing.
candidates_ideal_only(map, q) ==
    IF StateId(q) \in DOMAIN map THEN {} ELSE ideal_parents(map, q)

\* find_builder_states_to_extend: the ideal parents; else the bucket that
\* the range scan yields first; else the only state there is.
candidates(map, q) ==
    CASE StateId(q) \in DOMAIN map -> {}
      [] StateId(q) \notin DOMAIN map /\ ideal_parents(map, q) # {} ->
            ideal_parents(map, q)
      [] OTHER ->
            IF first_bucket_below(map, q.view_number) # {}
            THEN first_bucket_below(map, q.view_number)
            ELSE IF \E id \in DOMAIN map : DOMAIN map = {id} THEN DOMAIN map
            ELSE {}

\* new_child: the references of the state that extends parent by q.
new_child(parent, q) ==
    [id |-> StateId(q),
     leaf_commit |-> q.leaf,
     last_nonempty_view |-> IF q.builder_commitment \in Empty
                            THEN parent.last_nonempty_view ELSE {q.view_number}]

----------------------------------------------------------------------------
(* Proposals *)

\* One half of a pair: the DA half carries nothing that is used later.
Half == [kind : {"DA"}] \cup [kind : {"Quorum"}, proposal : QuorumProposals]

\* spawn_builder_state, up to the child it will insert.  `candidates.pop()`
\* takes the last of a Vec filled in hash order.  Without a candidate the
\* pair is lost.
find_parent(q) ==
    LET found == candidates(builder_states, q) IN
    \/ /\ found = {}
       /\ UNCHANGED spawning
    \/ \E parent \in found :
         spawning' = [phase |-> "insert", parent |-> builder_states[parent], quorum |-> q]

\* Slip: the entry is taken out even if the half received is the one stored.
store_or_match_taking(id, half) ==
    \/ /\ id \in DOMAIN proposals
       /\ proposals' = [i \in DOMAIN proposals \ {id} |-> proposals[i]]
       /\ IF proposals[id].kind = half.kind
          THEN UNCHANGED <<spawning, attempted>>
          ELSE /\ attempted' = attempted \cup {id}
               /\ find_parent(IF half.kind = "Quorum" THEN half.proposal
                              ELSE proposals[id].proposal)
    \/ /\ id \notin DOMAIN proposals
       /\ proposals' = insert(proposals, id, half)
       /\ UNCHANGED <<spawning, attempted>>

\* handle_proposal with the mutex free.  `half` is the one received.
store_or_match(id, half) ==
    \/ /\ id \in DOMAIN proposals
       /\ proposals[id].kind = half.kind
       /\ UNCHANGED <<proposals, spawning, attempted>>
    \/ /\ id \in DOMAIN proposals
       /\ proposals[id].kind # half.kind
       /\ proposals' = [i \in DOMAIN proposals \ {id} |-> proposals[i]]
       /\ attempted' = attempted \cup {id}
       /\ find_parent(IF half.kind = "Quorum" THEN half.proposal
                      ELSE proposals[id].proposal)
    \/ /\ id \notin DOMAIN proposals
       /\ proposals' = insert(proposals, id, half)
       /\ UNCHANGED <<spawning, attempted>>

handle_quorum_proposal(q) ==
    /\ spawning = Idle
    /\ store_or_match(PropId(q), [kind |-> "Quorum", proposal |-> q])
    /\ received' = received \cup {<<"Quorum", PropId(q)>>}
    /\ UNCHANGED <<builder_states, lookup, decided>>

handle_da_proposal(id) ==
    /\ spawning = Idle
    /\ store_or_match(id, [kind |-> "DA"])
    /\ received' = received \cup {<<"DA", id>>}
    /\ UNCHANGED <<builder_states, lookup, decided>>

\* Slip: the child is stored under its parent's id.
insert_child_as_parent ==
    /\ spawning # Idle
    /\ builder_states' = insert(builder_states, spawning.parent.id,
                                new_child(spawning.parent, spawning.quorum))
    /\ spawning' = Idle
    /\ UNCHANGED <<proposals, lookup, history>>

\* The end of spawn_builder_state: insert under the write lock; the mutex
\* on the proposals is released when handle_proposal returns.
insert_child ==
    /\ spawning # Idle
    /\ LET child == new_child(spawning.parent, spawning.quorum)
       IN  builder_states' = insert(builder_states, child.id, child)
    /\ spawning' = Idle
    /\ UNCHANGED <<proposals, lookup, history>>

----------------------------------------------------------------------------
(* Decides *)

\* Slip: the decided view itself is the cutoff.
decide_cutoff_unclamped(map, latest) == latest

\* prune never goes above the highest stored view.
decide_cutoff(map, latest) ==
    LET highest == IF DOMAIN map = {} THEN Genesis ELSE highest_view(map)
    IN  IF latest <= highest THEN latest ELSE highest

handle_decide(latest) ==
    /\ builder_states' = prune(builder_states, decide_cutoff(builder_states, latest))
    /\ decided' = IF latest > decided THEN latest ELSE decided
    /\ UNCHANGED <<proposals, spawning, lookup, received, attempted>>

----------------------------------------------------------------------------
(* Lookups *)

lookup_builder_state(c, id) ==
    /\ lookup[c].phase = "done"
    /\ lookup' = [lookup EXCEPT ![c] =
          IF id \in DOMAIN builder_states
          THEN [phase |-> "done", id |-> id, result |-> "Found"]
          ELSE [phase |-> "missed", id |-> id, result |-> "None"]]
    /\ UNCHANGED <<builder_states, proposals, spawning, history>>

\* Slip: the lowest stored view itself counts as decided.
below_window_inclusive(map, id) ==
    (IF DOMAIN map = {} THEN Genesis ELSE lowest_view(map)) >= id.parent_view

\* The second read lock: below the lowest stored view means Decided.
below_window(map, id) ==
    (IF DOMAIN map = {} THEN Genesis ELSE lowest_view(map)) > id.parent_view

lookup_lowest_view(c) ==
    /\ lookup[c].phase = "missed"
    /\ lookup' = [lookup EXCEPT
          ![c].phase = "done",
          ![c].result = IF below_window(builder_states, lookup[c].id)
                        THEN "Decided" ELSE "NotFound"]
    /\ UNCHANGED <<builder_states, proposals, spawning, history>>

----------------------------------------------------------------------------
Next ==
    \/ \E q \in QuorumProposals : handle_quorum_proposal(q)
    \/ \E id \in DaProposals : handle_da_proposal(id)
    \/ insert_child
    \/ \E v \in DecideViews : handle_decide(v)
    \/ \E c \in Clients, id \in StateIds : lookup_builder_state(c, id)
    \/ \E c \in Clients : lookup_lowest_view(c)

Spec == Init /\ [][Next]_vars

----------------------------------------------------------------------------
(* Properties *)

TypeOK ==
    /\ DOMAIN builder_states \subseteq StateIds
    /\ \A id \in DOMAIN builder_states : /\ builder_states[id] \in BuilderState
                                         /\ builder_states[id].id = id
    /\ DOMAIN proposals \subseteq ProposalId
    /\ \A id \in DOMAIN proposals : proposals[id] \in Half
    /\ spawning \in {Idle} \cup [phase : {"insert"}, parent : BuilderState, quorum : QuorumProposals]
    /\ lookup \in [Clients -> [phase : {"missed", "done"}, id : StateIds,
                               result : {"None", "Found", "Decided", "NotFound"}]]
    /\ received \subseteq {"Quorum", "DA"} \X ProposalId
    /\ attempted \subseteq ProposalId
    /\ decided \in Nat

\* The states that can be looked up form a window over the views: one id is
\* added at a time and only decides remove any, from below, never all.
Window == INSTANCE StateWindow
    WITH Ids <- StateIds, Bootstrap <- BootstrapId, live <- DOMAIN builder_states
WindowSpec == Window!Spec

\* Only states for views below one that was decided are ever removed, though
\* decides come in any order (handle_decide).
PrunedOnlyDecided ==
    [][\A id \in DOMAIN builder_states :
          id \notin DOMAIN builder_states' => id.parent_view < decided']_vars

\* An insert never replaces a state that tasks may already be building on,
\* though the check that the id is free and the insert are two critical
\* sections of builder_states (spawn_builder_state).
NoStateReplaced ==
    [][\A id \in DOMAIN builder_states :
          id \in DOMAIN builder_states' => builder_states'[id] = builder_states[id]]_vars

\* If the state a proposal's justify QC names is stored when the child is
\* inserted, then the child extends it and no fallback, though the parent
\* was chosen in an earlier critical section (find_builder_states_to_extend).
ChildExtendsJustified ==
    spawning # Idle =>
        LET ideal == ideal_parents(builder_states, spawning.quorum)
        IN  ideal # {} => spawning.parent.id \in ideal

\* Whatever the order and the repetitions in which the two halves of a pair
\* arrive, once both have a spawn has been started (handle_proposal).
PairsAttempted ==
    \A id \in ProposalIds :
        {<<"Quorum", id>>, <<"DA", id>>} \subseteq received => id \in attempted

\* A client told Decided asked about a view below the newest state, and
\* this stays so: nobody is turned away from the newest state, which is
\* the one the next block is built on (lookup_builder_state).
DecidedBelowNewest ==
    \A c \in Clients : lookup[c].result = "Decided" =>
        \E id \in DOMAIN builder_states : lookup[c].id.parent_view < id.parent_view

\* A pair that matches and spawns nothing was already spawned, or every
\* stored state is for its view or a later one (find_builder_states_to_extend).
PairLostOnlyBehind ==
    [][\A q \in QuorumProposals :
          (/\ PropId(q) \in DOMAIN proposals
           /\ PropId(q) \notin DOMAIN proposals'
           /\ spawning' = Idle)
          => \/ \E p \in QuorumProposals : /\ PropId(p) = PropId(q)
                                           /\ StateId(p) \in DOMAIN builder_states
             \/ \A id \in DOMAIN builder_states : id.parent_view >= q.view_number]_vars

============================================================================
