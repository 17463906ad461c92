------------------------- MODULE CoordinatorProofs -------------------------
(***************************************************************************)
(* Theorems about the two parts of the coordinator that share no state:    *)
(* its map of builder states (Coordinator), for every set of proposals,    *)
(* decides and clients, and its status cache (TxStatus), for every set of  *)
(* transactions, tasks and leaf chains and every cache capacity.           *)
(*                                                                         *)
(* The inductive invariant IInv of the map adds two facts to the           *)
(* properties it strengthens: the map always has a highest view, and the   *)
(* id of the child being spawned stays free while the proposals mutex is   *)
(* held.  StatusIInv is the cache's.                                       *)
(***************************************************************************)
EXTENDS Coordinator, TxStatus, TLAPS, WellFoundedInduction

\* n is the id of a newest state of the map.
IsNewest(map, n) == /\ n \in DOMAIN map
                    /\ \A id \in DOMAIN map : id.parent_view <= n.parent_view

HasNewest == \E n \in DOMAIN builder_states : IsNewest(builder_states, n)

ChildIsNew ==
    spawning # Idle => StateId(spawning.quorum) \notin DOMAIN builder_states

IInv == /\ TypeOK
        /\ HasNewest
        /\ ChildIsNew
        /\ ChildExtendsJustified
        /\ DecidedBelowNewest

----------------------------------------------------------------------------
(* Lemmas on the map *)

\* Every non-empty set of naturals has a least element.
LEMMA LeastNatural ==
  ASSUME NEW S \in SUBSET Nat, S # {}
  PROVE  \E m \in S : \A n \in S : m <= n
<1>1. PICK m \in S : \A n \in S : ~(<<n, m>> \in OpToRel(<, Nat))
  BY WFMin, NatLessThanWellFounded, Zenon
<1>2. \A n \in S : ~(n < m)
  BY <1>1, Zenon DEF OpToRel
<1>. QED  BY <1>2

\* The ids of a map of builder states have natural numbers for views.
LEMMA StateIdsTyped ==
    /\ BootstrapId \in StateIds
    /\ \A q \in QuorumProposals : StateId(q) \in StateIds
    /\ \A id \in StateIds : id \in BuilderStateId /\ id.parent_view \in Nat
<1>1. BootstrapId \in StateIds /\ BootstrapId \in BuilderStateId
  BY CoordinatorAssumption DEF StateIds, BootstrapId, BuilderStateId, Genesis
<1>2. ASSUME NEW q \in QuorumProposals
      PROVE  StateId(q) \in StateIds /\ StateId(q) \in BuilderStateId
  <2>1. q \in Quorum
    BY CoordinatorAssumption
  <2>2. q.view_number \in Nat /\ q.payload_commitment \in Vids
    BY <2>1 DEF Quorum
  <2>. QED  BY <2>2 DEF StateIds, StateId, BuilderStateId
<1>3. \A id \in StateIds : id \in BuilderStateId
  BY <1>1, <1>2 DEF StateIds
<1>4. \A id \in BuilderStateId : id.parent_view \in Nat
  BY DEF BuilderStateId
<1>. QED  BY <1>1, <1>2, <1>3, <1>4

\* In a map with a newest state, highest_view is that state's view.
LEMMA HighestIsNewest ==
  ASSUME NEW map, \A id \in DOMAIN map : id.parent_view \in Nat,
         NEW n, IsNewest(map, n)
  PROVE  highest_view(map) = n.parent_view
  BY DEF highest_view, Views, IsNewest

\* A non-empty map's lowest_view is a view of the map.
LEMMA LowestIsStored ==
  ASSUME NEW map, \A id \in DOMAIN map : id.parent_view \in Nat,
         DOMAIN map # {}
  PROVE  lowest_view(map) \in Views(map)
<1>1. Views(map) \in SUBSET Nat /\ Views(map) # {}
  BY DEF Views
<1>2. \E v \in Views(map) : \A w \in Views(map) : v <= w
  BY <1>1, LeastNatural
<1>. QED  BY <1>2 DEF lowest_view

\* The bucket the range scan yields, and every choice of a parent, is made
\* of stored states.
LEMMA CandidatesStored ==
  ASSUME NEW map, NEW q
  PROVE  candidates(map, q) \subseteq DOMAIN map
  BY DEF candidates, ideal_parents, bucket, first_bucket_below

\* If the justified parent is stored, nothing else is a candidate, and
\* there is no candidate for a state that exists.
LEMMA CandidatesIdeal ==
  ASSUME NEW map, NEW q, NEW parent \in candidates(map, q)
  PROVE  /\ StateId(q) \notin DOMAIN map
         /\ ideal_parents(map, q) # {} => parent \in ideal_parents(map, q)
  BY DEF candidates

----------------------------------------------------------------------------
(* Proposals *)

\* Wherever find_parent stops, the mutex is either free or held for a child
\* that is new and whose parent is the justified one if that is stored.
LEMMA FindParentStep ==
  ASSUME IInv, spawning = Idle, NEW q \in QuorumProposals, find_parent(q),
         UNCHANGED builder_states
  PROVE  /\ spawning' \in {Idle} \cup [phase : {"insert"}, parent : BuilderState,
                                       quorum : QuorumProposals]
         /\ ChildIsNew'
         /\ ChildExtendsJustified'
<1>1. CASE UNCHANGED spawning
  BY <1>1 DEF ChildIsNew, ChildExtendsJustified
<1>2. CASE \E parent \in candidates(builder_states, q) :
             spawning' = [phase |-> "insert", parent |-> builder_states[parent],
                          quorum |-> q]
  <2>1. PICK parent \in candidates(builder_states, q) :
          spawning' = [phase |-> "insert", parent |-> builder_states[parent], quorum |-> q]
    BY <1>2
  <2>2. parent \in DOMAIN builder_states
    BY <2>1, CandidatesStored
  <2>3. builder_states[parent] \in BuilderState /\ builder_states[parent].id = parent
    BY <2>2 DEF IInv, TypeOK
  <2>4. /\ StateId(q) \notin DOMAIN builder_states
        /\ ideal_parents(builder_states, q) # {} => parent \in ideal_parents(builder_states, q)
    BY <2>1, CandidatesIdeal
  <2>5. spawning'.quorum = q /\ spawning'.parent.id = parent
    BY <2>1, <2>3
  <2>6. spawning' \in [phase : {"insert"}, parent : BuilderState, quorum : QuorumProposals]
    BY <2>1, <2>3
  <2>7. ChildIsNew'
    BY <2>4, <2>5 DEF ChildIsNew, StateId
  <2>8. ideal_parents(builder_states, q)' = ideal_parents(builder_states, q)
    BY DEF ideal_parents, bucket, justifies
  <2>9. ChildExtendsJustified'
    <3>1. ideal_parents(builder_states', spawning'.quorum) = ideal_parents(builder_states, q)
      BY <2>5 
    <3>. QED  BY <2>4, <2>5, <3>1 DEF ChildExtendsJustified
  <2>. QED  BY <2>6, <2>7, <2>9
<1>. QED  BY <1>1, <1>2 DEF find_parent

\* The outcome of handle_proposal for either half.
LEMMA StoreOrMatchStep ==
  ASSUME IInv, spawning = Idle, NEW pid \in ProposalId, NEW half \in Half,
         store_or_match(pid, half), UNCHANGED builder_states
  PROVE  /\ DOMAIN proposals' \subseteq ProposalId
         /\ \A id \in DOMAIN proposals' : proposals'[id] \in Half
         /\ attempted' \subseteq ProposalId
         /\ spawning' \in {Idle} \cup [phase : {"insert"}, parent : BuilderState,
                                       quorum : QuorumProposals]
         /\ ChildIsNew'
         /\ ChildExtendsJustified'
<1>. USE DEF IInv, TypeOK
<1>0. UNCHANGED spawning => /\ spawning' = Idle
                            /\ ChildIsNew'
                            /\ ChildExtendsJustified'
  BY DEF ChildIsNew, ChildExtendsJustified
<1>1. CASE UNCHANGED <<proposals, spawning, attempted>>
  BY <1>0, <1>1
<1>2. CASE /\ pid \in DOMAIN proposals
           /\ proposals[pid].kind # half.kind
           /\ proposals' = [i \in DOMAIN proposals \ {pid} |-> proposals[i]]
           /\ attempted' = attempted \cup {pid}
           /\ find_parent(IF half.kind = "Quorum" THEN half.proposal
                          ELSE proposals[pid].proposal)
  <2>1. proposals[pid] \in Half
    BY <1>2
  <2>2. (IF half.kind = "Quorum" THEN half.proposal ELSE proposals[pid].proposal)
           \in QuorumProposals
    BY <1>2, <2>1 DEF Half
  <2>3. /\ spawning' \in {Idle} \cup [phase : {"insert"}, parent : BuilderState,
                                      quorum : QuorumProposals]
        /\ ChildIsNew'
        /\ ChildExtendsJustified'
    BY <1>2, <2>2, FindParentStep
  <2>4. /\ DOMAIN proposals' \subseteq ProposalId
        /\ \A id \in DOMAIN proposals' : proposals'[id] \in Half
    BY <1>2
  <2>. QED  BY <1>2, <2>3, <2>4
<1>3. CASE /\ pid \notin DOMAIN proposals
           /\ proposals' = insert(proposals, pid, half)
           /\ UNCHANGED <<spawning, attempted>>
  BY <1>0, <1>3 DEF insert
<1>. QED  BY <1>1, <1>2, <1>3 DEF store_or_match

----------------------------------------------------------------------------
(* Every action keeps the invariant *)

\* What the invariant says of the map and the lookups survives a step that
\* changes neither.
LEMMA MapAndLookupsKept ==
  ASSUME IInv, UNCHANGED <<builder_states, lookup>>
  PROVE  HasNewest' /\ DecidedBelowNewest'
  BY DEF IInv, HasNewest, IsNewest, DecidedBelowNewest

\* Handling either half of a pair keeps the invariant.
LEMMA ProposalStep ==
  ASSUME IInv, \/ \E q \in QuorumProposals : handle_quorum_proposal(q)
               \/ \E id \in DaProposals : handle_da_proposal(id)
  PROVE  IInv'
<1>1. CASE \E q \in QuorumProposals : handle_quorum_proposal(q)
  <2>1. PICK q \in QuorumProposals : handle_quorum_proposal(q)
    BY <1>1
  <2>2. PropId(q) \in ProposalId
    BY CoordinatorAssumption DEF PropId, ProposalId, Quorum
  <2>3. [kind |-> "Quorum", proposal |-> q] \in Half
    BY DEF Half
  <2>4. /\ spawning = Idle
        /\ store_or_match(PropId(q), [kind |-> "Quorum", proposal |-> q])
        /\ received' = received \cup {<<"Quorum", PropId(q)>>}
        /\ UNCHANGED <<builder_states, lookup, decided>>
    BY <2>1 DEF handle_quorum_proposal
  <2>5. /\ DOMAIN proposals' \subseteq ProposalId
        /\ \A id \in DOMAIN proposals' : proposals'[id] \in Half
        /\ attempted' \subseteq ProposalId
        /\ spawning' \in {Idle} \cup [phase : {"insert"}, parent : BuilderState,
                                      quorum : QuorumProposals]
        /\ ChildIsNew'
        /\ ChildExtendsJustified'
    BY <2>2, <2>3, <2>4, StoreOrMatchStep
  <2>6. received' \subseteq {"Quorum", "DA"} \X ProposalId
    BY <2>2, <2>4 DEF IInv, TypeOK
  <2>7. TypeOK'
    BY <2>4, <2>5, <2>6 DEF IInv, TypeOK
  <2>. QED  BY <2>4, <2>5, <2>7, MapAndLookupsKept DEF IInv
<1>2. CASE \E id \in DaProposals : handle_da_proposal(id)
  <2>1. PICK pid \in DaProposals : handle_da_proposal(pid)
    BY <1>2
  <2>2. pid \in ProposalId
    BY CoordinatorAssumption
  <2>3. [kind |-> "DA"] \in Half
    BY DEF Half
  <2>4. /\ spawning = Idle
        /\ store_or_match(pid, [kind |-> "DA"])
        /\ received' = received \cup {<<"DA", pid>>}
        /\ UNCHANGED <<builder_states, lookup, decided>>
    BY <2>1 DEF handle_da_proposal
  <2>5. /\ DOMAIN proposals' \subseteq ProposalId
        /\ \A id \in DOMAIN proposals' : proposals'[id] \in Half
        /\ attempted' \subseteq ProposalId
        /\ spawning' \in {Idle} \cup [phase : {"insert"}, parent : BuilderState,
                                      quorum : QuorumProposals]
        /\ ChildIsNew'
        /\ ChildExtendsJustified'
    BY <2>2, <2>3, <2>4, StoreOrMatchStep
  <2>6. received' \subseteq {"Quorum", "DA"} \X ProposalId
    BY <2>2, <2>4 DEF IInv, TypeOK
  <2>7. TypeOK'
    BY <2>4, <2>5, <2>6 DEF IInv, TypeOK
  <2>. QED  BY <2>4, <2>5, <2>7, MapAndLookupsKept DEF IInv
<1>. QED  BY <1>1, <1>2

\* Lookups keep their truth when the newest view does not regress.
LEMMA DecidedKept ==
  ASSUME IInv, UNCHANGED lookup,
         \A old \in DOMAIN builder_states : \E new \in DOMAIN builder_states' :
            old.parent_view <= new.parent_view,
         DOMAIN builder_states' \subseteq StateIds
  PROVE  DecidedBelowNewest'
<1>. SUFFICES ASSUME NEW c \in Clients, lookup'[c].result = "Decided"
              PROVE  \E id \in DOMAIN builder_states' : lookup'[c].id.parent_view < id.parent_view
  BY DEF DecidedBelowNewest
<1>1. PICK old \in DOMAIN builder_states : lookup[c].id.parent_view < old.parent_view
  BY DEF IInv, DecidedBelowNewest
<1>2. PICK new \in DOMAIN builder_states' : old.parent_view <= new.parent_view
  BY <1>1
<1>3. /\ lookup[c].id.parent_view \in Nat
      /\ old.parent_view \in Nat
      /\ new.parent_view \in Nat
  BY <1>1, <1>2, StateIdsTyped DEF IInv, TypeOK
<1>. QED  BY <1>1, <1>2, <1>3

\* Inserting a child keeps the invariant: its id was kept free by the mutex.
LEMMA InsertStep ==
  ASSUME IInv, insert_child
  PROVE  IInv'
<1>. DEFINE child == new_child(spawning.parent, spawning.quorum)
<1>1. /\ spawning # Idle
      /\ builder_states' = insert(builder_states, child.id, child)
      /\ spawning' = Idle
      /\ UNCHANGED <<proposals, lookup, received, attempted, decided>>
  BY DEF insert_child, history
<1>2. /\ spawning.parent \in BuilderState
      /\ spawning.quorum \in QuorumProposals
      /\ spawning.quorum \in Quorum
  BY <1>1, CoordinatorAssumption DEF IInv, TypeOK
<1>3. child.id = StateId(spawning.quorum)
  BY DEF new_child
<1>4. child.id \in StateIds /\ child.id \in BuilderStateId
  BY <1>2, <1>3, StateIdsTyped
<1>5. child \in BuilderState
  <2>1. child.leaf_commit \in Leaves
    BY <1>2 DEF new_child, Quorum
  <2>2. child.last_nonempty_view \in SUBSET Nat
    BY <1>2 DEF new_child, Quorum, BuilderState
  <2>. QED  BY <1>4, <2>1, <2>2 DEF new_child, BuilderState
<1>6. /\ DOMAIN builder_states' = DOMAIN builder_states \cup {child.id}
      /\ \A id \in DOMAIN builder_states' :
            builder_states'[id] = IF id = child.id THEN child ELSE builder_states[id]
  BY <1>1 DEF insert
<1>7. TypeOK'
  <2>1. \A id \in DOMAIN builder_states' : /\ builder_states'[id] \in BuilderState
                                           /\ builder_states'[id].id = id
    BY <1>5, <1>6 DEF IInv, TypeOK
  <2>2. DOMAIN builder_states' \subseteq StateIds
    BY <1>4, <1>6 DEF IInv, TypeOK
  <2>. QED  BY <1>1, <2>1, <2>2 DEF IInv, TypeOK
<1>8. HasNewest'
  <2>1. PICK n : IsNewest(builder_states, n)
    BY DEF IInv, HasNewest
  <2>2. \A id \in DOMAIN builder_states' : id.parent_view \in Nat
    BY <1>7, StateIdsTyped DEF TypeOK
  <2>3. CASE n.parent_view <= child.id.parent_view
    <3>1. IsNewest(builder_states', child.id)
      BY <1>6, <2>1, <2>2, <2>3 DEF IsNewest
    <3>. QED  BY <1>6, <3>1 DEF HasNewest
  <2>4. CASE child.id.parent_view <= n.parent_view
    <3>1. IsNewest(builder_states', n)
      BY <1>6, <2>1, <2>2, <2>4 DEF IsNewest
    <3>. QED  BY <1>6, <2>1, <3>1 DEF HasNewest, IsNewest
  <2>. QED  BY <1>6, <2>1, <2>2, <2>3, <2>4 DEF IsNewest
<1>9. ChildIsNew' /\ ChildExtendsJustified'
  BY <1>1 DEF ChildIsNew, ChildExtendsJustified
<1>10. DecidedBelowNewest'
  <2>1. \A old \in DOMAIN builder_states : \E new \in DOMAIN builder_states' :
            old.parent_view <= new.parent_view
    BY <1>6, StateIdsTyped DEF IInv, TypeOK
  <2>. QED  BY <1>1, <1>7, <2>1, DecidedKept DEF TypeOK
<1>. QED  BY <1>7, <1>8, <1>9, <1>10 DEF IInv

\* A decide leaves a map that holds a newest state of the old one, and
\* removes only views below the decided one.
LEMMA PruneKeepsNewest ==
  ASSUME IInv, NEW v \in Nat, NEW n, IsNewest(builder_states, n),
         builder_states' = prune(builder_states, decide_cutoff(builder_states, v))
  PROVE  /\ DOMAIN builder_states' \subseteq DOMAIN builder_states
         /\ \A id \in DOMAIN builder_states' : builder_states'[id] = builder_states[id]
         /\ IsNewest(builder_states', n)
         /\ \A gone \in DOMAIN builder_states \ DOMAIN builder_states',
               kept \in DOMAIN builder_states' : gone.parent_view < kept.parent_view
         /\ \A gone \in DOMAIN builder_states \ DOMAIN builder_states' : gone.parent_view < v
<1>1. \A id \in DOMAIN builder_states : id.parent_view \in Nat
  BY StateIdsTyped DEF IInv, TypeOK
<1>2. n \in DOMAIN builder_states
  BY DEF IsNewest
<1>3. highest_view(builder_states) = n.parent_view
  BY <1>1, HighestIsNewest
<1>. DEFINE cutoff == decide_cutoff(builder_states, v)
<1>4. cutoff \in Nat /\ cutoff <= n.parent_view /\ cutoff <= v
  BY <1>1, <1>2, <1>3 DEF decide_cutoff
<1>. HIDE DEF cutoff
<1>5. builder_states' = prune(builder_states, cutoff)
  BY DEF cutoff
<1>6. DOMAIN builder_states' = {id \in DOMAIN builder_states : id.parent_view >= cutoff}
  BY <1>5 DEF prune
<1>7. \A id \in DOMAIN builder_states' : builder_states'[id] = builder_states[id]
  BY <1>5, <1>6 DEF prune
<1>. QED  BY <1>1, <1>2, <1>4, <1>6, <1>7 DEF IsNewest

\* A decide keeps the invariant, also between the choice of a parent and the
\* insert of its child.
LEMMA DecideStep ==
  ASSUME IInv, NEW v \in DecideViews, handle_decide(v)
  PROVE  IInv'
<1>1. /\ v \in Nat
      /\ builder_states' = prune(builder_states, decide_cutoff(builder_states, v))
      /\ decided' = IF v > decided THEN v ELSE decided
      /\ UNCHANGED <<proposals, spawning, lookup, received, attempted>>
  BY CoordinatorAssumption DEF handle_decide
<1>2. PICK n : IsNewest(builder_states, n)
  BY DEF IInv, HasNewest
<1>3. /\ DOMAIN builder_states' \subseteq DOMAIN builder_states
      /\ \A id \in DOMAIN builder_states' : builder_states'[id] = builder_states[id]
      /\ IsNewest(builder_states', n)
  BY <1>1, <1>2, PruneKeepsNewest
<1>4. TypeOK'
  <2>1. /\ DOMAIN builder_states' \subseteq StateIds
        /\ \A id \in DOMAIN builder_states' : /\ builder_states'[id] \in BuilderState
                                              /\ builder_states'[id].id = id
    BY <1>3 DEF IInv, TypeOK
  <2>2. decided' \in Nat
    BY <1>1 DEF IInv, TypeOK
  <2>. QED  BY <1>1, <2>1, <2>2 DEF IInv, TypeOK
<1>5. HasNewest'
  BY <1>3 DEF HasNewest, IsNewest
<1>6. ChildIsNew'
  BY <1>1, <1>3 DEF IInv, ChildIsNew
<1>7. ChildExtendsJustified'
  <2>. SUFFICES ASSUME spawning' # Idle, ideal_parents(builder_states', spawning.quorum) # {}
                PROVE  spawning.parent.id \in ideal_parents(builder_states', spawning.quorum)
    BY <1>1 DEF ChildExtendsJustified
  <2>1. \A id \in DOMAIN builder_states' :
           id \in ideal_parents(builder_states', spawning.quorum)
             <=> id \in ideal_parents(builder_states, spawning.quorum)
    BY <1>3 DEF ideal_parents, bucket
  <2>2. ideal_parents(builder_states', spawning.quorum) \subseteq DOMAIN builder_states'
    BY DEF ideal_parents, bucket
  <2>3. spawning.parent.id \in ideal_parents(builder_states, spawning.quorum)
    BY <1>1, <2>1, <2>2 DEF IInv, ChildExtendsJustified
  <2>4. PICK id \in ideal_parents(builder_states', spawning.quorum) : TRUE
    OBVIOUS
  <2>5. id.parent_view = spawning.parent.id.parent_view
    BY <2>3, <2>4 DEF ideal_parents, bucket
  <2>6. spawning.parent.id \in DOMAIN builder_states'
    <3>1. id \in DOMAIN builder_states' /\ spawning.parent.id \in DOMAIN builder_states
      BY <2>2, <2>3 DEF ideal_parents, bucket
    <3>2. /\ id.parent_view \in Nat
          /\ spawning.parent.id \notin DOMAIN builder_states'
                => spawning.parent.id.parent_view < id.parent_view
      BY <1>1, <1>2, <1>3, <3>1, StateIdsTyped, PruneKeepsNewest DEF IInv, TypeOK
    <3>. QED  BY <2>5, <3>2
  <2>. QED  BY <2>1, <2>3, <2>6
<1>8. DecidedBelowNewest'
  <2>1. \A old \in DOMAIN builder_states : old.parent_view <= n.parent_view
    BY <1>2 DEF IsNewest
  <2>2. n \in DOMAIN builder_states'
    BY <1>3 DEF IsNewest
  <2>. QED  BY <1>1, <1>4, <2>1, <2>2, DecidedKept DEF TypeOK
<1>. QED  BY <1>4, <1>5, <1>6, <1>7, <1>8 DEF IInv

\* Lookups change nothing but their own answer, and Decided is below the
\* lowest stored view, hence below the newest.
LEMMA LookupStep ==
  ASSUME IInv, NEW c \in Clients,
         lookup_lowest_view(c) \/ \E id \in StateIds : lookup_builder_state(c, id)
  PROVE  IInv'
<1>1. UNCHANGED <<builder_states, proposals, spawning, received, attempted, decided>>
  BY DEF lookup_lowest_view, lookup_builder_state, history
<1>2. HasNewest' /\ ChildIsNew' /\ ChildExtendsJustified'
  BY <1>1 DEF IInv, HasNewest, IsNewest, ChildIsNew, ChildExtendsJustified, ideal_parents,
              bucket, justifies
<1>3. \A d \in Clients \ {c} : lookup'[d] = lookup[d]
  BY DEF lookup_lowest_view, lookup_builder_state, IInv, TypeOK
<1>4. TypeOK'
  <2>1. lookup' \in [Clients -> [phase : {"missed", "done"}, id : StateIds,
                               result : {"None", "Found", "Decided", "NotFound"}]]
    BY DEF lookup_lowest_view, lookup_builder_state, IInv, TypeOK
  <2>. QED  BY <1>1, <2>1 DEF IInv, TypeOK
<1>5. DecidedBelowNewest'
  <2>1. CASE \E id \in StateIds : lookup_builder_state(c, id)
    <3>1. lookup'[c].result # "Decided"
      BY <2>1 DEF lookup_builder_state, IInv, TypeOK
    <3>. QED  BY <1>1, <1>3, <3>1 DEF IInv, DecidedBelowNewest
  <2>2. CASE lookup_lowest_view(c)
    <3>. SUFFICES ASSUME lookup'[c].result = "Decided"
                  PROVE  \E id \in DOMAIN builder_states : lookup'[c].id.parent_view < id.parent_view
      BY <1>1, <1>3 DEF IInv, DecidedBelowNewest
    <3>1. below_window(builder_states, lookup[c].id) /\ lookup'[c].id = lookup[c].id
      BY <2>2 DEF lookup_lowest_view, IInv, TypeOK
    <3>2. DOMAIN builder_states # {}
      BY DEF IInv, HasNewest
    <3>3. \A id \in DOMAIN builder_states : id.parent_view \in Nat
      BY StateIdsTyped DEF IInv, TypeOK
    <3>4. lowest_view(builder_states) \in Views(builder_states)
      BY <3>2, <3>3, LowestIsStored
    <3>5. PICK id \in DOMAIN builder_states : id.parent_view = lowest_view(builder_states)
      BY <3>4 DEF Views
    <3>6. lookup[c].id.parent_view \in Nat
      BY StateIdsTyped DEF IInv, TypeOK
    <3>. QED  BY <3>1, <3>2, <3>3, <3>5, <3>6 DEF below_window
  <2>. QED  BY <2>1, <2>2
<1>. QED  BY <1>2, <1>4, <1>5 DEF IInv

----------------------------------------------------------------------------
(* Theorems *)

\* The bootstrap state alone satisfies the invariant.
LEMMA InitIInv == Init => IInv
<1>. SUFFICES ASSUME Init PROVE IInv
  OBVIOUS
<1>. USE DEF Init
<1>1. bootstrap \in BuilderState /\ bootstrap.id = BootstrapId
  <2>1. BootstrapId \in BuilderStateId
    BY StateIdsTyped
  <2>. QED  BY <2>1, CoordinatorAssumption DEF bootstrap, BuilderState, None
<1>2. TypeOK
  BY <1>1, StateIdsTyped DEF TypeOK, NoLookup, Genesis
<1>3. HasNewest
  <2>1. IsNewest(builder_states, BootstrapId)
    BY StateIdsTyped DEF IsNewest
  <2>. QED  BY <2>1 DEF HasNewest
<1>4. ChildIsNew /\ ChildExtendsJustified /\ DecidedBelowNewest
  BY DEF ChildIsNew, ChildExtendsJustified, DecidedBelowNewest, NoLookup
<1>. QED  BY <1>2, <1>3, <1>4 DEF IInv

\* Every action of the coordinator keeps the invariant.
LEMMA NextIInv == IInv /\ [Next]_vars => IInv'
<1>. SUFFICES ASSUME IInv, [Next]_vars PROVE IInv'
  OBVIOUS
<1>1. CASE \/ \E q \in QuorumProposals : handle_quorum_proposal(q)
           \/ \E id \in DaProposals : handle_da_proposal(id)
  BY <1>1, ProposalStep
<1>2. CASE insert_child
  BY <1>2, InsertStep
<1>3. CASE \E v \in DecideViews : handle_decide(v)
  BY <1>3, DecideStep
<1>4. CASE \/ \E c \in Clients, id \in StateIds : lookup_builder_state(c, id)
           \/ \E c \in Clients : lookup_lowest_view(c)
  BY <1>4, LookupStep
<1>5. CASE UNCHANGED vars
  BY <1>5 DEF vars, history, IInv, TypeOK, HasNewest, IsNewest, ChildIsNew,
              ChildExtendsJustified, DecidedBelowNewest, ideal_parents, bucket, justifies
<1>. QED  BY <1>1, <1>2, <1>3, <1>4, <1>5 DEF Next

\* IInv holds in every reachable state.
THEOREM Invariance == Spec => []IInv
  BY InitIInv, NextIInv, PTL DEF Spec

\* The variables keep their types: in particular a state is always stored
\* under its own id (BuilderState::id).
THEOREM CoordinatorTypeOK == Spec => []TypeOK
<1>1. IInv => TypeOK
  BY DEF IInv
<1>. QED  BY <1>1, Invariance, PTL

\* A child extends the state its proposal's justify QC names, if that is
\* stored when the child is inserted (find_builder_states_to_extend).
THEOREM ExtendsJustified == Spec => []ChildExtendsJustified
<1>1. IInv => ChildExtendsJustified
  BY DEF IInv
<1>. QED  BY <1>1, Invariance, PTL

\* No client is told that the newest view was decided (lookup_builder_state).
THEOREM DecidedIsBelowNewest == Spec => []DecidedBelowNewest
<1>1. IInv => DecidedBelowNewest
  BY DEF IInv
<1>. QED  BY <1>1, Invariance, PTL

\* What a step does to the map: nothing, one insert of a free id, or a cut
\* from below that leaves the newest states.
LEMMA MapStep ==
  ASSUME IInv, [Next]_vars
  PROVE  \/ UNCHANGED builder_states
         \/ \E id \in StateIds \ DOMAIN builder_states : \E state :
               builder_states' = insert(builder_states, id, state)
         \/ \E gone \in SUBSET DOMAIN builder_states :
               /\ gone # DOMAIN builder_states
               /\ \A g \in gone, k \in DOMAIN builder_states \ gone :
                     g.parent_view < k.parent_view
               /\ DOMAIN builder_states' = DOMAIN builder_states \ gone
               /\ \A id \in DOMAIN builder_states' : builder_states'[id] = builder_states[id]
<1>1. CASE insert_child
  <2>. DEFINE child == new_child(spawning.parent, spawning.quorum)
  <2>1. builder_states' = insert(builder_states, child.id, child) /\ spawning # Idle
    BY <1>1 DEF insert_child
  <2>2. child.id = StateId(spawning.quorum) /\ spawning.quorum \in QuorumProposals
    BY <2>1 DEF new_child, IInv, TypeOK
  <2>3. child.id \in StateIds \ DOMAIN builder_states
    BY <2>1, <2>2, StateIdsTyped DEF IInv, ChildIsNew
  <2>. QED  BY <2>1, <2>3
<1>2. CASE \E v \in DecideViews : handle_decide(v)
  <2>1. PICK v \in DecideViews : handle_decide(v)
    BY <1>2
  <2>2. PICK n : IsNewest(builder_states, n)
    BY DEF IInv, HasNewest
  <2>3. /\ v \in Nat
        /\ builder_states' = prune(builder_states, decide_cutoff(builder_states, v))
    BY <2>1, CoordinatorAssumption DEF handle_decide
  <2>4. /\ DOMAIN builder_states' \subseteq DOMAIN builder_states
        /\ \A id \in DOMAIN builder_states' : builder_states'[id] = builder_states[id]
        /\ n \in DOMAIN builder_states'
        /\ \A gone \in DOMAIN builder_states \ DOMAIN builder_states',
              kept \in DOMAIN builder_states' : gone.parent_view < kept.parent_view
    BY <2>2, <2>3, PruneKeepsNewest DEF IsNewest
  <2>. DEFINE gone == DOMAIN builder_states \ DOMAIN builder_states'
  <2>5. /\ gone \in SUBSET DOMAIN builder_states
        /\ gone # DOMAIN builder_states
        /\ DOMAIN builder_states' = DOMAIN builder_states \ gone
    BY <2>4
  <2>. QED  BY <2>4, <2>5
<1>3. CASE ~insert_child /\ ~(\E v \in DecideViews : handle_decide(v))
  BY <1>3 DEF Next, handle_quorum_proposal, handle_da_proposal, lookup_builder_state,
              lookup_lowest_view, vars
<1>. QED  BY <1>1, <1>2, <1>3

\* The coordinator implements the abstract window of states: it is never
\* empty, ids come one at a time and leave from below (handle_decide,
\* spawn_builder_state).
THEOREM ImplementsWindow == Spec => WindowSpec
<1>1. Init => Window!Init
  BY DEF Init, Window!Init
<1>2. IInv /\ [Next]_vars => [Window!Next]_(DOMAIN builder_states)
  <2>. SUFFICES ASSUME IInv, [Next]_vars
                PROVE  Window!Next \/ UNCHANGED DOMAIN builder_states
    OBVIOUS
  <2>1. CASE UNCHANGED builder_states
    BY <2>1
  <2>2. ASSUME NEW id \in StateIds \ DOMAIN builder_states, NEW state,
               builder_states' = insert(builder_states, id, state)
        PROVE  Window!Next
    <3>1. DOMAIN builder_states' = DOMAIN builder_states \cup {id}
      BY <2>2 DEF insert
    <3>2. Window!Spawn(id)
      BY <3>1 DEF Window!Spawn
    <3>. QED  BY <3>2 DEF Window!Next
  <2>3. ASSUME NEW gone \in SUBSET DOMAIN builder_states,
               gone # DOMAIN builder_states,
               \A g \in gone, k \in DOMAIN builder_states \ gone : g.parent_view < k.parent_view,
               DOMAIN builder_states' = DOMAIN builder_states \ gone
        PROVE  Window!Next
    BY <2>3 DEF Window!Next, Window!Retire
  <2>. QED  BY <2>1, <2>2, <2>3, MapStep
<1>. QED  BY <1>1, <1>2, Invariance, PTL DEF Spec, WindowSpec, Window!Spec

\* A stored state is never replaced by another with the same id.
THEOREM StatesNotReplaced == Spec => NoStateReplaced
<1>1. IInv /\ [Next]_vars
        => [\A id \in DOMAIN builder_states :
              id \in DOMAIN builder_states' => builder_states'[id] = builder_states[id]]_vars
  <2>. SUFFICES ASSUME IInv, [Next]_vars, NEW id \in DOMAIN builder_states,
                       id \in DOMAIN builder_states'
                PROVE  builder_states'[id] = builder_states[id]
    OBVIOUS
  <2>. QED  BY MapStep DEF insert
<1>. QED  BY <1>1, Invariance, PTL DEF Spec, NoStateReplaced

\* Whatever implements the window never loses its last state.
THEOREM WindowNeverEmpty == WindowSpec => []Window!NeverEmpty
<1>1. Window!Init => Window!NeverEmpty
  BY DEF Window!Init, Window!NeverEmpty
<1>2. Window!NeverEmpty /\ [Window!Next]_(DOMAIN builder_states) => Window!NeverEmpty'
  BY DEF Window!NeverEmpty, Window!Next, Window!Retire, Window!Spawn
<1>. QED  BY <1>1, <1>2, PTL DEF WindowSpec, Window!Spec

\* No step of a window lowers its highest view.
LEMMA WindowStep ==
  ASSUME Window!TypeOK, Window!NeverEmpty, Window!Next, NEW old \in DOMAIN builder_states
  PROVE  \E new \in DOMAIN builder_states' : old.parent_view <= new.parent_view
<1>. DEFINE live == DOMAIN builder_states
<1>1. \A i \in live : i.parent_view \in Nat
  BY StateIdsTyped DEF Window!TypeOK
<1>2. CASE \E id \in StateIds : Window!Spawn(id)
  BY <1>1, <1>2 DEF Window!Spawn
<1>3. CASE Window!Retire
  <2>1. PICK gone \in SUBSET live :
           /\ gone # live
           /\ \A g \in gone, k \in live \ gone : g.parent_view < k.parent_view
           /\ DOMAIN builder_states' = live \ gone
    BY <1>3 DEF Window!Retire
  <2>2. PICK kept \in DOMAIN builder_states' : kept \in live \ gone
    BY <2>1
  <2>3. CASE old \in DOMAIN builder_states'
    BY <1>1, <2>3
  <2>4. CASE old \in gone
    BY <1>1, <2>1, <2>2, <2>4
  <2>. QED  BY <2>1, <2>3, <2>4
<1>. QED  BY <1>2, <1>3 DEF Window!Next

\* Whatever implements the window keeps a state at least as new as its newest.
THEOREM WindowHighestKept == WindowSpec => Window!HighestKept
<1>1. Window!Init => Window!TypeOK
  BY StateIdsTyped DEF Window!Init, Window!TypeOK
<1>2. Window!TypeOK /\ [Window!Next]_(DOMAIN builder_states) => Window!TypeOK'
  BY DEF Window!TypeOK, Window!Next, Window!Retire, Window!Spawn
<1>3. Window!TypeOK /\ Window!NeverEmpty /\ [Window!Next]_(DOMAIN builder_states)
        => [\A old \in DOMAIN builder_states : \E new \in (DOMAIN builder_states)' :
              old.parent_view <= new.parent_view]_(DOMAIN builder_states)
  BY WindowStep
<1>. QED  BY <1>1, <1>2, <1>3, WindowNeverEmpty, PTL
          DEF WindowSpec, Window!Spec, Window!HighestKept

\* The newest view never regresses, nor does the map become empty: what the
\* abstract window promises holds of the coordinator.
THEOREM NewestViewKept == Spec => Window!HighestKept /\ []Window!NeverEmpty
  BY ImplementsWindow, WindowNeverEmpty, WindowHighestKept

\* Nothing is removed for a view at or above every decided one, whatever the
\* order of the decides (handle_decide).
THEOREM PrunesOnlyDecided == Spec => PrunedOnlyDecided
<1>1. IInv /\ [Next]_vars
        => [\A id \in DOMAIN builder_states :
              id \notin DOMAIN builder_states' => id.parent_view < decided']_vars
  <2>. SUFFICES ASSUME IInv, [Next]_vars, NEW id \in DOMAIN builder_states,
                       id \notin DOMAIN builder_states'
                PROVE  id.parent_view < decided'
    OBVIOUS
  <2>1. CASE \E v \in DecideViews : handle_decide(v)
    <3>1. PICK v \in DecideViews : handle_decide(v)
      BY <2>1
    <3>2. PICK n : IsNewest(builder_states, n)
      BY DEF IInv, HasNewest
    <3>3. /\ v \in Nat /\ decided \in Nat
          /\ decided' = IF v > decided THEN v ELSE decided
          /\ builder_states' = prune(builder_states, decide_cutoff(builder_states, v))
      BY <3>1, CoordinatorAssumption DEF handle_decide, IInv, TypeOK
    <3>4. id.parent_view < v
      BY <3>2, <3>3, PruneKeepsNewest
    <3>5. id.parent_view \in Nat
      BY StateIdsTyped DEF IInv, TypeOK
    <3>. QED  BY <3>3, <3>4, <3>5
  <2>2. CASE insert_child
    BY <2>2 DEF insert_child, insert
  <2>3. CASE ~insert_child /\ ~(\E v \in DecideViews : handle_decide(v))
    BY <2>3 DEF Next, handle_quorum_proposal, handle_da_proposal, lookup_builder_state,
                lookup_lowest_view, vars
  <2>. QED  BY <2>1, <2>2, <2>3
<1>. QED  BY <1>1, Invariance, PTL DEF Spec, PrunedOnlyDecided

----------------------------------------------------------------------------
(* Proposal pairs *)

\* As long as no spawn was started for an id, a half received for it is the
\* one stored; it is the invariant behind PairsAttempted.
HalfStored ==
    \A id \in ProposalIds, k \in {"Quorum", "DA"} :
        (<<k, id>> \in received /\ id \notin attempted)
        => id \in DOMAIN proposals /\ proposals[id].kind = k

\* handle_proposal keeps HalfStored, whichever half it is given.
LEMMA HalfStoredStep ==
  ASSUME HalfStored, NEW pid, NEW half,
         store_or_match(pid, half),
         received' = received \cup {<<half.kind, pid>>}
  PROVE  HalfStored'
<1>. SUFFICES ASSUME NEW id \in ProposalIds, NEW k \in {"Quorum", "DA"},
                     <<k, id>> \in received', id \notin attempted'
              PROVE  id \in DOMAIN proposals' /\ proposals'[id].kind = k
  BY DEF HalfStored
<1>1. <<k, id>> \in received \/ (k = half.kind /\ id = pid)
  OBVIOUS
<1>2. CASE /\ pid \in DOMAIN proposals
           /\ proposals[pid].kind = half.kind
           /\ UNCHANGED <<proposals, spawning, attempted>>
  BY <1>1, <1>2 DEF HalfStored
<1>3. CASE /\ pid \in DOMAIN proposals
           /\ proposals' = [i \in DOMAIN proposals \ {pid} |-> proposals[i]]
           /\ attempted' = attempted \cup {pid}
  BY <1>1, <1>3 DEF HalfStored
<1>4. CASE /\ pid \notin DOMAIN proposals
           /\ proposals' = insert(proposals, pid, half)
           /\ UNCHANGED <<spawning, attempted>>
  BY <1>1, <1>4 DEF HalfStored, insert
<1>. QED  BY <1>2, <1>3, <1>4 DEF store_or_match

\* In whatever order and however often the two halves of a pair arrive, a
\* spawn is started once both have (handle_proposal).
THEOREM BothHalvesSpawn == Spec => []PairsAttempted
<1>1. Init => HalfStored
  BY DEF Init, HalfStored
<1>2. HalfStored /\ [Next]_vars => HalfStored'
  <2>. SUFFICES ASSUME HalfStored, [Next]_vars PROVE HalfStored'
    OBVIOUS
  <2>1. ASSUME NEW q \in QuorumProposals, handle_quorum_proposal(q)
        PROVE  HalfStored'
    <3>1. [kind |-> "Quorum", proposal |-> q].kind = "Quorum"
      OBVIOUS
    <3>. QED  BY <2>1, <3>1, HalfStoredStep DEF handle_quorum_proposal
  <2>2. ASSUME NEW id \in DaProposals, handle_da_proposal(id)
        PROVE  HalfStored'
    <3>1. [kind |-> "DA"].kind = "DA"
      OBVIOUS
    <3>. QED  BY <2>2, <3>1, HalfStoredStep DEF handle_da_proposal
  <2>3. CASE UNCHANGED <<proposals, received, attempted>>
    BY <2>3 DEF HalfStored
  <2>4. CASE \/ insert_child
             \/ \E v \in DecideViews : handle_decide(v)
             \/ \E c \in Clients, id \in StateIds : lookup_builder_state(c, id)
             \/ \E c \in Clients : lookup_lowest_view(c)
             \/ UNCHANGED vars
    BY <2>3, <2>4 DEF insert_child, handle_decide, lookup_builder_state,
                      lookup_lowest_view, history, vars
  <2>. QED  BY <2>1, <2>2, <2>4 DEF Next
<1>3. HalfStored => PairsAttempted
  BY DEF HalfStored, PairsAttempted
<1>. QED  BY <1>1, <1>2, <1>3, PTL DEF Spec

\* A quorum half is stored under the id of its proposal.
OwnHalf ==
    \A id \in DOMAIN proposals :
        proposals[id].kind = "Quorum" => PropId(proposals[id].proposal) = id

\* A half that is stored, if any, is the one received, under its id.
LEMMA OwnHalfStep ==
  ASSUME OwnHalf, NEW pid, NEW half, store_or_match(pid, half),
         half.kind = "Quorum" => PropId(half.proposal) = pid
  PROVE  OwnHalf'
<1>. SUFFICES ASSUME NEW id \in DOMAIN proposals', proposals'[id].kind = "Quorum"
              PROVE  PropId(proposals'[id].proposal) = id
  BY DEF OwnHalf
<1>1. CASE UNCHANGED proposals
  BY <1>1 DEF OwnHalf
<1>2. CASE proposals' = [i \in DOMAIN proposals \ {pid} |-> proposals[i]]
  BY <1>2 DEF OwnHalf
<1>3. CASE proposals' = insert(proposals, pid, half)
  BY <1>3 DEF OwnHalf, insert
<1>. QED  BY <1>1, <1>2, <1>3 DEF store_or_match

\* There is no candidate only if the state exists, or if every stored state is
\* for the proposal's view or a later one: a stored state below that view
\* makes the lowest bucket one the range scan yields.
LEMMA NoCandidates ==
  ASSUME NEW map, \A id \in DOMAIN map : id.parent_view \in Nat,
         NEW q, q.view_number \in Nat, candidates(map, q) = {}
  PROVE  \/ StateId(q) \in DOMAIN map
         \/ \A id \in DOMAIN map : id.parent_view >= q.view_number
<1>. SUFFICES ASSUME StateId(q) \notin DOMAIN map,
                     NEW id \in DOMAIN map, id.parent_view < q.view_number
              PROVE  FALSE
  OBVIOUS
<1>1. first_bucket_below(map, q.view_number) = {}
  BY DEF candidates
<1>2. PICK v \in Views(map) : \A w \in Views(map) : v <= w
  <2>1. Views(map) \in SUBSET Nat /\ Views(map) # {}
    BY DEF Views
  <2>. QED  BY <2>1, LeastNatural
<1>3. PICK low \in DOMAIN map : low.parent_view = v
  BY DEF Views
<1>4. id.parent_view \in Views(map)
  BY DEF Views
<1>5. low.parent_view < q.view_number
  BY <1>2, <1>3, <1>4
<1>. QED  BY <1>1, <1>2, <1>3, <1>5 DEF first_bucket_below

\* A half that takes its counterpart out and holds the mutex for no child
\* belongs to a proposal without candidates.
LEMMA LostHasNoCandidates ==
  ASSUME OwnHalf, TypeOK, NEW pid, NEW half \in Half, store_or_match(pid, half),
         half.kind = "Quorum" => PropId(half.proposal) = pid,
         pid \in DOMAIN proposals, pid \notin DOMAIN proposals', spawning' = Idle
  PROVE  \E p \in QuorumProposals : /\ PropId(p) = pid
                                    /\ candidates(builder_states, p) = {}
<1>. DEFINE p == IF half.kind = "Quorum" THEN half.proposal ELSE proposals[pid].proposal
<1>1. proposals[pid].kind # half.kind /\ find_parent(p)
  BY DEF store_or_match
<1>2. p \in QuorumProposals /\ PropId(p) = pid
  <2>1. proposals[pid] \in Half
    BY DEF TypeOK
  <2>2. CASE half.kind = "Quorum"
    BY <2>2 DEF Half
  <2>3. CASE half.kind # "Quorum"
    BY <1>1, <2>1, <2>3 DEF Half, OwnHalf
  <2>. QED  BY <2>2, <2>3
<1>. HIDE DEF p
<1>3. candidates(builder_states, p) = {}
  <2>1. ASSUME NEW parent,
               spawning' = [phase |-> "insert", parent |-> parent, quorum |-> p]
        PROVE  FALSE
    <3>1. spawning'.phase = "insert"
      BY <2>1
    <3>. QED  BY <3>1 DEF Idle
  <2>. QED  BY <1>1, <2>1 DEF find_parent
<1>. QED  BY <1>2, <1>3

\* A matched pair comes to nothing only if its state exists already or all
\* stored states are for its view or a later one: the fallbacks leave no gap
\* (find_builder_states_to_extend).
THEOREM PairIsLostOnlyBehind == Spec => PairLostOnlyBehind
<1>. DEFINE Kept == IInv /\ OwnHalf
            Explained(q) ==
              \/ \E p \in QuorumProposals : /\ PropId(p) = PropId(q)
                                            /\ StateId(p) \in DOMAIN builder_states
              \/ \A id \in DOMAIN builder_states : id.parent_view >= q.view_number
<1>1. ASSUME NEW q \in QuorumProposals
      PROVE  LET half == [kind |-> "Quorum", proposal |-> q]
             IN  half \in Half /\ half.kind = "Quorum" /\ half.proposal = q
  BY DEF Half
<1>2. LET half == [kind |-> "DA"] IN half \in Half /\ half.kind = "DA"
  BY DEF Half
<1>3. Init => OwnHalf
  BY DEF Init, OwnHalf
<1>4. OwnHalf /\ [Next]_vars => OwnHalf'
  <2>. SUFFICES ASSUME OwnHalf, [Next]_vars PROVE OwnHalf'
    OBVIOUS
  <2>1. ASSUME NEW q \in QuorumProposals, handle_quorum_proposal(q)
        PROVE  OwnHalf'
    BY <1>1, <2>1, OwnHalfStep DEF handle_quorum_proposal
  <2>2. ASSUME NEW id \in DaProposals, handle_da_proposal(id)
        PROVE  OwnHalf'
    BY <1>2, <2>2, OwnHalfStep DEF handle_da_proposal
  <2>3. CASE UNCHANGED proposals
    BY <2>3 DEF OwnHalf
  <2>. QED  BY <2>1, <2>2, <2>3 DEF Next, insert_child, handle_decide, lookup_builder_state,
                                    lookup_lowest_view, vars
<1>5. ASSUME Kept, [Next]_vars, NEW q \in QuorumProposals,
             PropId(q) \in DOMAIN proposals, PropId(q) \notin DOMAIN proposals',
             spawning' = Idle
      PROVE  Explained(q)
  <2>1. \E half \in Half : /\ store_or_match(PropId(q), half)
                           /\ half.kind = "Quorum" => PropId(half.proposal) = PropId(q)
    <3>1. ASSUME NEW pid, pid # PropId(q), NEW half
          PROVE  ~store_or_match(pid, half)
      BY <1>5, <3>1 DEF store_or_match, insert
    <3>2. ASSUME NEW r \in QuorumProposals, handle_quorum_proposal(r)
          PROVE  /\ store_or_match(PropId(q), [kind |-> "Quorum", proposal |-> r])
                 /\ PropId(r) = PropId(q)
      BY <3>1, <3>2, Zenon DEF handle_quorum_proposal
    <3>3. ASSUME NEW id \in DaProposals, handle_da_proposal(id)
          PROVE  store_or_match(PropId(q), [kind |-> "DA"])
      BY <3>1, <3>3, Zenon DEF handle_da_proposal
    <3>4. \/ \E r \in QuorumProposals : handle_quorum_proposal(r)
          \/ \E id \in DaProposals : handle_da_proposal(id)
      BY <1>5 DEF Next, insert_child, handle_decide, lookup_builder_state,
                  lookup_lowest_view, vars
    <3>5. CASE \E r \in QuorumProposals : handle_quorum_proposal(r)
      BY <1>1, <3>2, <3>5
    <3>6. CASE \E id \in DaProposals : handle_da_proposal(id)
      BY <1>2, <3>3, <3>6
    <3>. QED  BY <3>4, <3>5, <3>6
  <2>2. PICK p \in QuorumProposals : /\ PropId(p) = PropId(q)
                                     /\ candidates(builder_states, p) = {}
    BY <1>5, <2>1, LostHasNoCandidates DEF IInv
  <2>3. p.view_number \in Nat /\ p.view_number = q.view_number
    BY <2>2, CoordinatorAssumption DEF PropId, Quorum
  <2>4. \A id \in DOMAIN builder_states : id.parent_view \in Nat
    BY <1>5, StateIdsTyped DEF IInv, TypeOK
  <2>. QED  BY <2>2, <2>3, <2>4, NoCandidates
<1>6. Kept /\ [Next]_vars
        => [\A q \in QuorumProposals :
              (/\ PropId(q) \in DOMAIN proposals
               /\ PropId(q) \notin DOMAIN proposals'
               /\ spawning' = Idle) => Explained(q)]_vars
  BY <1>5
<1>. HIDE DEF Kept
<1>7. Spec => []Kept
  <2>1. Spec => []OwnHalf
    BY <1>3, <1>4, PTL DEF Spec
  <2>2. IInv /\ OwnHalf => Kept
    BY DEF Kept
  <2>. QED  BY <2>1, <2>2, Invariance, PTL
<1>. QED  BY <1>6, <1>7, PTL DEF Spec, PairLostOnlyBehind

----------------------------------------------------------------------------
(* The status cache *)

\* What an update would report has happened.
UpdateGrounded(update) ==
    /\ update.status = "Pending" => update.txn \in accepted
    /\ update.status = "Rejected" => update.txn \in refused
    /\ update.status = "Sequenced" => update.txn \in sequenced

TodoGrounded == \A k \in Tasks : \A n \in DOMAIN todo[k] : UpdateGrounded(todo[k][n])

\* Without an overlap, a transaction has one writer, and the status that
\* writer read is the one it replaces.
OneWriter ==
    \A t \in Txns \ overlapped :
        /\ \A k, l \in writers(t) : k = l
        /\ writers(t) # {} => tx_status[t] \notin Final

StatusIInv == StatusTypeOK /\ StatusGrounded /\ TodoGrounded /\ OneWriter

----------------------------------------------------------------------------
(* Lemmas *)

\* The updates of a task that still has some.
LEMMA HeadUpdate ==
  ASSUME StatusTypeOK, NEW k \in Tasks, todo[k] # <<>>
  PROVE  /\ Head(todo[k]) \in Updates
         /\ Head(todo[k]).txn \in Txns /\ Head(todo[k]).status \in Status
         /\ Head(todo[k]) = todo[k][1] /\ 1 \in DOMAIN todo[k]
         /\ Tail(todo[k]) \in Seq(Updates)
         /\ \A n \in DOMAIN Tail(todo[k]) :
               n + 1 \in DOMAIN todo[k] /\ Tail(todo[k])[n] = todo[k][n + 1]
<1>1. todo[k] \in Seq(Updates)
  BY DEF StatusTypeOK
<1>2. Head(todo[k]) \in Updates
  BY <1>1
<1>. QED  BY <1>1, <1>2 DEF Updates

\* An insert changes the entry it writes, and may forget one entry.
LEMMA EvictionOutcome ==
  ASSUME NEW status \in [Txns -> Status], NEW kept \in evictions(status)
  PROVE  /\ kept \in [Txns -> Status]
         /\ \A t \in Txns : kept[t] \in {status[t], Unknown}
  BY DEF evictions, Status

----------------------------------------------------------------------------
(* Every action keeps the invariant *)

\* An event gives an idle task updates that are grounded by its arrival.
LEMMA EventStep ==
  ASSUME StatusIInv, NEW k \in Tasks, NEW updates \in Seq(Updates),
         todo[k] = <<>>, todo' = [todo EXCEPT ![k] = updates],
         \A n \in DOMAIN updates : UpdateGrounded(updates[n])',
         UNCHANGED <<tx_status, writing, overlapped>>,
         accepted \subseteq accepted' /\ accepted' \subseteq Txns,
         refused \subseteq refused' /\ refused' \subseteq Txns,
         sequenced \subseteq sequenced' /\ sequenced' \subseteq Txns
  PROVE  StatusIInv'
<1>1. k \notin writing
  BY DEF StatusIInv, StatusTypeOK
<1>2. \A l \in Tasks \ {k} : todo'[l] = todo[l]
  BY DEF StatusIInv, StatusTypeOK
<1>3. todo'[k] = updates
  BY DEF StatusIInv, StatusTypeOK
<1>4. StatusTypeOK'
  BY <1>1, <1>2 DEF StatusIInv, StatusTypeOK
<1>5. StatusGrounded'
  BY DEF StatusIInv, StatusGrounded
<1>6. TodoGrounded'
  <2>. SUFFICES ASSUME NEW l \in Tasks, NEW n \in DOMAIN todo'[l]
                PROVE  UpdateGrounded(todo[l][n])'
    BY DEF TodoGrounded
  <2>1. CASE l = k
    BY <1>3, <2>1
  <2>2. CASE l # k
    BY <1>2, <2>2 DEF StatusIInv, TodoGrounded, UpdateGrounded
  <2>. QED  BY <2>1, <2>2
<1>7. \A t \in Txns : writers(t)' = writers(t)
  BY <1>1, <1>2 DEF writers, StatusIInv, StatusTypeOK
<1>8. OneWriter'
  BY <1>7 DEF StatusIInv, OneWriter
<1>. QED  BY <1>4, <1>5, <1>6, <1>8 DEF StatusIInv

\* The read of update_txn_status: a task becomes a writer only of a status
\* that is not final.
LEMMA GetStatusStep ==
  ASSUME StatusIInv, NEW k \in Tasks, get_status(k)
  PROVE  StatusIInv'
<1>. DEFINE t == Head(todo[k]).txn
<1>1. /\ todo[k] # <<>> /\ k \notin writing
      /\ UNCHANGED <<tx_status, accepted, refused, sequenced>>
  BY DEF get_status, happened
<1>2. /\ t \in Txns /\ Tail(todo[k]) \in Seq(Updates)
      /\ \A n \in DOMAIN Tail(todo[k]) :
            n + 1 \in DOMAIN todo[k] /\ Tail(todo[k])[n] = todo[k][n + 1]
  BY <1>1, HeadUpdate DEF StatusIInv
<1>3. CASE tx_status[t] \in Final
  <2>1. /\ todo' = [todo EXCEPT ![k] = Tail(todo[k])]
        /\ UNCHANGED <<writing, overlapped>>
    BY <1>3 DEF get_status
  <2>2. \A l \in Tasks \ {k} : todo'[l] = todo[l]
    BY <2>1 DEF StatusIInv, StatusTypeOK
  <2>3. todo'[k] = Tail(todo[k])
    BY <2>1 DEF StatusIInv, StatusTypeOK
  <2>4. StatusTypeOK'
    BY <1>1, <1>2, <2>1, <2>2 DEF StatusIInv, StatusTypeOK
  <2>5. TodoGrounded'
    <3>. SUFFICES ASSUME NEW l \in Tasks, NEW n \in DOMAIN todo'[l]
                  PROVE  UpdateGrounded(todo[l][n])'
      BY DEF TodoGrounded
    <3>1. CASE l = k
      <4>1. /\ n + 1 \in DOMAIN todo[k]
            /\ todo'[k][n] = todo[k][n + 1]
        BY <1>2, <2>3, <3>1
      <4>2. UpdateGrounded(todo[k][n + 1])
        BY <4>1 DEF StatusIInv, TodoGrounded
      <4>. QED  BY <1>1, <3>1, <4>1, <4>2 DEF UpdateGrounded
    <3>2. CASE l # k
      BY <1>1, <2>2, <3>2 DEF StatusIInv, TodoGrounded, UpdateGrounded
    <3>. QED  BY <3>1, <3>2
  <2>6. \A u \in Txns : writers(u)' = writers(u)
    BY <1>1, <2>1, <2>2 DEF writers, StatusIInv, StatusTypeOK
  <2>. QED  BY <1>1, <2>1, <2>4, <2>5, <2>6 DEF StatusIInv, StatusGrounded, OneWriter
<1>4. CASE tx_status[t] \notin Final
  <2>1. /\ writing' = writing \cup {k}
        /\ overlapped' = IF writers(t) = {} THEN overlapped ELSE overlapped \cup {t}
        /\ UNCHANGED todo
    BY <1>4 DEF get_status
  <2>2. StatusTypeOK'
    BY <1>1, <1>2, <2>1 DEF StatusIInv, StatusTypeOK
  <2>3. StatusGrounded' /\ TodoGrounded'
    BY <1>1, <2>1 DEF StatusIInv, StatusGrounded, TodoGrounded, UpdateGrounded
  <2>4. \A u \in Txns : u = t => writers(u)' = writers(u) \cup {k}
    BY <2>1 DEF writers
  <2>5. \A u \in Txns \ {t} : writers(u)' = writers(u)
    BY <2>1 DEF writers
  <2>6. OneWriter'
    <3>. SUFFICES ASSUME NEW u \in Txns \ overlapped'
                  PROVE  /\ \A l, m \in writers(u)' : l = m
                         /\ writers(u)' # {} => tx_status'[u] \notin Final
      BY DEF OneWriter
    <3>1. u \notin overlapped
      BY <2>1
    <3>2. CASE u = t
      <4>1. writers(t) = {}
        BY <2>1, <3>2
      <4>. QED  BY <1>1, <1>4, <2>4, <3>2, <4>1
    <3>3. CASE u # t
      BY <1>1, <2>5, <3>1, <3>3 DEF StatusIInv, OneWriter
    <3>. QED  BY <3>2, <3>3
  <2>. QED  BY <2>2, <2>3, <2>6 DEF StatusIInv
<1>. QED  BY <1>3, <1>4

\* The write of update_txn_status.
LEMMA InsertStatusStep ==
  ASSUME StatusIInv, NEW k \in Tasks, insert_status(k)
  PROVE  StatusIInv'
<1>. DEFINE update == Head(todo[k])
            written == [tx_status EXCEPT ![update.txn] = update.status]
<1>1. /\ k \in writing /\ todo[k] # <<>>
      /\ tx_status' \in evictions(written)
      /\ todo' = [todo EXCEPT ![k] = Tail(todo[k])]
      /\ writing' = writing \ {k}
      /\ UNCHANGED <<accepted, refused, sequenced, overlapped>>
  BY DEF StatusIInv, StatusTypeOK, insert_status, happened
<1>2. /\ update.txn \in Txns /\ update.status \in Status
      /\ update = todo[k][1] /\ 1 \in DOMAIN todo[k]
      /\ Tail(todo[k]) \in Seq(Updates)
      /\ \A n \in DOMAIN Tail(todo[k]) :
            n + 1 \in DOMAIN todo[k] /\ Tail(todo[k])[n] = todo[k][n + 1]
  BY <1>1, HeadUpdate DEF StatusIInv
<1>3. written \in [Txns -> Status]
  BY <1>2 DEF StatusIInv, StatusTypeOK
<1>4. /\ tx_status' \in [Txns -> Status]
      /\ \A t \in Txns : tx_status'[t] \in {written[t], Unknown}
  BY <1>1, <1>3, EvictionOutcome
<1>5. \A t \in Txns : written[t] = IF t = update.txn THEN update.status ELSE tx_status[t]
  BY <1>2 DEF StatusIInv, StatusTypeOK
<1>6. \A l \in Tasks \ {k} : todo'[l] = todo[l]
  BY <1>1 DEF StatusIInv, StatusTypeOK
<1>7. todo'[k] = Tail(todo[k])
  BY <1>1 DEF StatusIInv, StatusTypeOK
<1>8. StatusTypeOK'
  BY <1>1, <1>2, <1>4, <1>6 DEF StatusIInv, StatusTypeOK
<1>9. StatusGrounded'
  <2>1. UpdateGrounded(update)
    BY <1>2 DEF StatusIInv, TodoGrounded
  <2>. QED  BY <1>1, <1>4, <1>5, <2>1
            DEF StatusIInv, StatusGrounded, UpdateGrounded, Unknown
<1>10. TodoGrounded'
  BY <1>1, <1>2, <1>6, <1>7 DEF StatusIInv, TodoGrounded, UpdateGrounded
<1>11. \A t \in Txns : writers(t)' = writers(t) \ {k}
  BY <1>1, <1>6 DEF writers, StatusIInv, StatusTypeOK
<1>12. k \in writers(update.txn)
  BY <1>1 DEF writers
<1>13. OneWriter'
  <2>. SUFFICES ASSUME NEW t \in Txns \ overlapped
                PROVE  /\ \A l, m \in writers(t)' : l = m
                       /\ writers(t)' # {} => tx_status'[t] \notin Final
    BY <1>1 DEF OneWriter
  <2>1. \A l, m \in writers(t) : l = m
    BY DEF StatusIInv, OneWriter
  <2>2. CASE t = update.txn
    BY <1>11, <1>12, <2>1, <2>2
  <2>3. CASE t # update.txn
    BY <1>4, <1>5, <1>11, <2>1, <2>3 DEF StatusIInv, OneWriter, Final, Unknown
  <2>. QED  BY <2>2, <2>3
<1>. QED  BY <1>8, <1>9, <1>10, <1>13 DEF StatusIInv

----------------------------------------------------------------------------
(* Theorems *)

\* Nothing is known and nothing is being written at the start.
LEMMA StatusInitIInv == StatusInit => StatusIInv
  BY DEF StatusInit, StatusIInv, StatusTypeOK, StatusGrounded, TodoGrounded, OneWriter, writers, Status, Unknown,
         Final

\* Every step keeps the invariant.
LEMMA StatusNextIInv == StatusIInv /\ [StatusNext]_status_vars => StatusIInv'
<1>. SUFFICES ASSUME StatusIInv, [StatusNext]_status_vars PROVE StatusIInv'
  OBVIOUS
<1>1. ASSUME NEW k \in Tasks, NEW t \in Txns, accept_transaction(k, t)
      PROVE  StatusIInv'
  <2>. DEFINE updates == <<Update(t, "Pending")>>
  <2>1. updates \in Seq(Updates)
    BY DEF Update, Updates, Status, Unknown
  <2>2. \A n \in DOMAIN updates : UpdateGrounded(updates[n])'
    BY <1>1 DEF accept_transaction, UpdateGrounded, Update
  <2>. QED  BY <1>1, <2>1, <2>2, EventStep DEF accept_transaction, StatusIInv, StatusTypeOK
<1>2. ASSUME NEW k \in Tasks, NEW t \in Txns, refuse_transaction(k, t)
      PROVE  StatusIInv'
  <2>. DEFINE updates == <<Update(t, "Rejected")>>
  <2>1. updates \in Seq(Updates)
    BY DEF Update, Updates, Status, Unknown, Final
  <2>2. \A n \in DOMAIN updates : UpdateGrounded(updates[n])'
    BY <1>2 DEF refuse_transaction, UpdateGrounded, Update
  <2>. QED  BY <1>2, <2>1, <2>2, EventStep DEF refuse_transaction, StatusIInv, StatusTypeOK
<1>3. ASSUME NEW k \in Tasks, NEW chain \in LeafChains, handle_decide_leaves(k, chain)
      PROVE  StatusIInv'
  <2>. DEFINE updates == [n \in DOMAIN chain |-> Update(chain[n], "Sequenced")]
  <2>1. chain \in Seq(Txns)
    BY TxStatusAssumption
  <2>2. \A n \in DOMAIN chain : Update(chain[n], "Sequenced") \in Updates
    BY <2>1 DEF Update, Updates, Status, Unknown, Final
  <2>3. updates \in Seq(Updates)
    BY <2>1, <2>2
  <2>4. \A n \in DOMAIN updates : UpdateGrounded(updates[n])'
    BY <1>3 DEF handle_decide_leaves, UpdateGrounded, Update
  <2>5. sequenced' \subseteq Txns
    BY <1>3, <2>1 DEF handle_decide_leaves, StatusIInv, StatusTypeOK
  <2>. QED  BY <1>3, <2>3, <2>4, <2>5, EventStep DEF handle_decide_leaves, StatusIInv, StatusTypeOK
<1>4. ASSUME NEW k \in Tasks, get_status(k) \/ insert_status(k)
      PROVE  StatusIInv'
  BY <1>4, GetStatusStep, InsertStatusStep
<1>5. CASE UNCHANGED status_vars
  BY <1>5 DEF status_vars, happened, StatusIInv, StatusTypeOK, StatusGrounded, TodoGrounded, UpdateGrounded,
              OneWriter, writers
<1>. QED  BY <1>1, <1>2, <1>3, <1>4, <1>5 DEF StatusNext

\* StatusIInv holds in every reachable state.
THEOREM StatusInvariance == StatusSpec => []StatusIInv
  BY StatusInitIInv, StatusNextIInv, PTL DEF StatusSpec

\* Every task between a read and a write has the update it writes.
THEOREM StatusTypeCorrect == StatusSpec => []StatusTypeOK
<1>1. StatusIInv => StatusTypeOK
  BY DEF StatusIInv
<1>. QED  BY <1>1, StatusInvariance, PTL

\* No race makes the cache report what did not happen.
THEOREM StatusIsGrounded == StatusSpec => []StatusGrounded
<1>1. StatusIInv => StatusGrounded
  BY DEF StatusIInv
<1>. QED  BY <1>1, StatusInvariance, PTL

\* A status that was final is only replaced after two updates overlapped.
THEOREM FinalOnlyLostByOverlap == StatusSpec => FinalUnlessOverlap
<1>1. StatusIInv /\ [StatusNext]_status_vars
        => [\A t \in Txns : (tx_status[t] \in Final /\ t \notin overlapped)
              => tx_status'[t] \in {tx_status[t], Unknown}]_status_vars
  <2>. SUFFICES ASSUME StatusIInv, StatusNext, NEW t \in Txns, tx_status[t] \in Final,
                       t \notin overlapped
                PROVE  tx_status'[t] \in {tx_status[t], Unknown}
    OBVIOUS
  <2>1. CASE UNCHANGED tx_status
    BY <2>1
  <2>2. ASSUME NEW k \in Tasks, insert_status(k)
        PROVE  tx_status'[t] \in {tx_status[t], Unknown}
    <3>. DEFINE update == Head(todo[k])
                written == [tx_status EXCEPT ![update.txn] = update.status]
    <3>1. /\ k \in writing /\ todo[k] # <<>> /\ tx_status' \in evictions(written)
      BY <2>2 DEF insert_status, StatusIInv, StatusTypeOK
    <3>2. update.txn \in Txns /\ update.status \in Status
      BY <3>1, HeadUpdate DEF StatusIInv
    <3>3. k \in writers(update.txn)
      BY <3>1 DEF writers
    <3>4. t # update.txn
      BY <3>3 DEF StatusIInv, OneWriter
    <3>5. written \in [Txns -> Status] /\ written[t] = tx_status[t]
      BY <3>2, <3>4 DEF StatusIInv, StatusTypeOK
    <3>. QED  BY <3>1, <3>5, EvictionOutcome
  <2>. QED  BY <2>1, <2>2 DEF StatusNext, accept_transaction, refuse_transaction,
                              handle_decide_leaves, get_status
<1>. QED  BY <1>1, StatusInvariance, PTL DEF StatusSpec, FinalUnlessOverlap

============================================================================
