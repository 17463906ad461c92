------------------------ MODULE BlockBuildingProofs ------------------------
(***************************************************************************)
(* Theorems about building a block in the refactored service: the requests *)
(* that build from one state (BlockBuilding), for every set of requests,   *)
(* transactions, sizes and limits, and the limit itself (BlockSizeLimits), *)
(* for every floor, protocol maximum, period and set of claims.  The two   *)
(* share no state: BlockBuilding takes any limit.                          *)
(*                                                                         *)
(* BlockIsNew and FitPoppedOnlyAfterRace are not inductive.  A block is    *)
(* new because the queue it is cut from is, and what is popped is unfit    *)
(* because a payload only came out empty if the first transaction the scan *)
(* saw is: IInv says both of every state of a request in between.          *)
(***************************************************************************)
EXTENDS BlockBuilding, BlockSizeLimits, TLAPS, WellFoundedInduction

\* No transaction twice, and none of a recent block.
New(txns) == IsInjective(txns) /\ ToSet(txns) \cap Included = {}

Request ==
    [phase : {"collect", "sleep", "scan", "build", "pop", "done"},
     late : BOOLEAN, queue_empty : BOOLEAN, seen : Seq(Txns),
     limit : Limits \cup {0}, block : Seq(Txns),
     result : {"unasked", "none", "block", "error", "dropped"}]

\* A scan of a queue takes its first transaction, and a payload without
\* transactions was refused for it.
Good(request) ==
    /\ New(request.block)
    /\ request.phase = "build" =>
          IF request.seen = <<>> THEN should_prioritize_finalization
          ELSE request.block # <<>> /\ Head(request.block) = Head(request.seen)
    /\ (request.phase = "pop" /\ request.seen # <<>>) => Head(request.seen) \in Unfit

IInv ==
    /\ references \in References
    /\ channel \in Seq(Txns) /\ txn_queue \in Seq(Txns)
    /\ arrived \in 0 .. MaxSent
    /\ New(txn_queue)
    /\ requests \in [Requests -> Request]
    /\ \A r \in Requests : Good(requests[r])

----------------------------------------------------------------------------
(* Sequences of transactions *)

\* The empty sequence has everything one could ask.
LEMMA NothingIsNew == <<>> \in Seq(Txns) /\ New(<<>>)
  BY DEF New, IsInjective, ToSet

\* A prefix of new transactions is new.
LEMMA PrefixIsNew ==
  ASSUME NEW txns \in Seq(Txns), New(txns), NEW n \in 0 .. Len(txns)
  PROVE  /\ SubSeq(txns, 1, n) \in Seq(Txns)
         /\ New(SubSeq(txns, 1, n))
         /\ n # 0 => SubSeq(txns, 1, n) # <<>> /\ Head(SubSeq(txns, 1, n)) = Head(txns)
<1>. DEFINE prefix == SubSeq(txns, 1, n)
<1>1. /\ prefix \in Seq(Txns) /\ Len(prefix) = n
      /\ \A i \in 1 .. n : prefix[i] = txns[i]
  OBVIOUS
<1>. HIDE DEF prefix
<1>2. DOMAIN prefix = 1 .. n /\ DOMAIN txns = 1 .. Len(txns)
  BY <1>1
<1>3. IsInjective(prefix)
  BY <1>1, <1>2 DEF New, IsInjective
<1>4. ToSet(prefix) \subseteq ToSet(txns)
  BY <1>1, <1>2 DEF ToSet
<1>5. n # 0 => prefix # <<>> /\ Head(prefix) = Head(txns)
  BY <1>1
<1>. QED  BY <1>1, <1>3, <1>4, <1>5 DEF New, prefix

\* So is what is left without the first.
LEMMA TailIsNew ==
  ASSUME NEW txns \in Seq(Txns), New(txns), txns # <<>>
  PROVE  Tail(txns) \in Seq(Txns) /\ New(Tail(txns))
<1>. DEFINE rest == Tail(txns)
<1>1. /\ rest \in Seq(Txns) /\ Len(rest) = Len(txns) - 1
      /\ \A i \in 1 .. Len(txns) - 1 : rest[i] = txns[i + 1]
  OBVIOUS
<1>. HIDE DEF rest
<1>2. DOMAIN rest = 1 .. Len(txns) - 1 /\ DOMAIN txns = 1 .. Len(txns)
  BY <1>1
<1>3. IsInjective(rest)
  <2>. SUFFICES ASSUME NEW i \in DOMAIN rest, NEW j \in DOMAIN rest, rest[i] = rest[j]
                PROVE  i = j
    BY DEF IsInjective
  <2>1. txns[i + 1] = txns[j + 1] /\ i + 1 \in DOMAIN txns /\ j + 1 \in DOMAIN txns
    BY <1>1, <1>2
  <2>2. i + 1 = j + 1
    BY <2>1 DEF New, IsInjective
  <2>. QED  BY <1>2, <2>2
<1>4. ToSet(rest) \subseteq ToSet(txns)
  BY <1>1, <1>2 DEF ToSet
<1>. QED  BY <1>1, <1>3, <1>4 DEF New, rest

\* And so is one more, if it is new.
LEMMA MoreIsNew ==
  ASSUME NEW txns \in Seq(Txns), New(txns), NEW t \in Txns, t \notin ToSet(txns), t \notin Included
  PROVE  Append(txns, t) \in Seq(Txns) /\ New(Append(txns, t))
<1>. DEFINE more == Append(txns, t)
<1>1. /\ more \in Seq(Txns) /\ Len(more) = Len(txns) + 1
      /\ \A i \in 1 .. Len(txns) : more[i] = txns[i]
      /\ more[Len(txns) + 1] = t
  OBVIOUS
<1>. HIDE DEF more
<1>2. DOMAIN more = 1 .. Len(txns) + 1 /\ DOMAIN txns = 1 .. Len(txns)
  BY <1>1
<1>3. \A i \in 1 .. Len(txns) : txns[i] # t
  BY <1>2 DEF ToSet
<1>4. IsInjective(more)
  BY <1>1, <1>2, <1>3 DEF New, IsInjective
<1>5. ToSet(more) \subseteq ToSet(txns) \cup {t}
  BY <1>1, <1>2 DEF ToSet
<1>. QED  BY <1>1, <1>4, <1>5 DEF New, more

----------------------------------------------------------------------------
(* What is taken from a queue *)

\* The sum over no transactions.
LEMMA NothingWeighsNothing == total_size(<<>>) = 0
<1>. DEFINE fold == MapThenFoldSet(LAMBDA x, y : y + min_block_size[x], 0,
                                   LAMBDA i : <<>>[i], LAMBDA S : Max(S), {})
<1>1. DOMAIN <<>> = {}
  OBVIOUS
<1>2. total_size(<<>>) = fold
  BY <1>1 DEF total_size, FoldLeft
<1>3. fold = 0
  BY DEF MapThenFoldSet
<1>. QED  BY <1>2, <1>3

\* Every non-empty set of naturals has a least element.
LEMMA LeastNatural ==
  ASSUME NEW S \in SUBSET Nat, S # {}
  PROVE  \E m \in S : \A n \in S : m <= n
<1>1. PICK m \in S : \A n \in S : ~(<<n, m>> \in OpToRel(<, Nat))
  BY WFMin, NatLessThanWellFounded, Zenon
<1>2. \A n \in S : ~(n < m)
  BY <1>1, Zenon DEF OpToRel
<1>. QED  BY <1>2

\* A scan takes a prefix of the queue, and always its first transaction.
LEMMA ScanTakesPrefix ==
  ASSUME NEW queue \in Seq(Txns), NEW limit \in Nat
  PROVE  \E n \in 0 .. Len(queue) : /\ transactions_to_include(queue, limit) = SubSeq(queue, 1, n)
                                    /\ queue # <<>> => n # 0
<1>. DEFINE taken(n) == SubSeq(queue, 1, n)
            goes_on(n) == \/ total_size(taken(n)) < limit
                          \/ total_size(taken(n - 1)) = 0
            stops(n) == /\ \A m \in 1 .. n : goes_on(m)
                        /\ n < Len(queue) => ~goes_on(n + 1)
            stop == CHOOSE n \in 0 .. Len(queue) : stops(n)
<1>1. transactions_to_include(queue, limit) = SubSeq(queue, 1, stop)
  BY DEF transactions_to_include
<1>2. goes_on(1)
  <2>1. taken(1 - 1) = <<>>
    OBVIOUS
  <2>. QED  BY <2>1, NothingWeighsNothing
<1>. HIDE DEF goes_on
<1>3. \E n \in 0 .. Len(queue) : stops(n)
  <2>. DEFINE S == {n \in 0 .. Len(queue) : n < Len(queue) => ~goes_on(n + 1)}
  <2>1. S \subseteq Nat /\ Len(queue) \in S
    OBVIOUS
  <2>2. PICK n \in S : \A m \in S : n <= m
    BY <2>1, LeastNatural
  <2>3. n \in 0 .. Len(queue) /\ (n < Len(queue) => ~goes_on(n + 1))
    OBVIOUS
  <2>4. ASSUME NEW m \in 1 .. n
        PROVE  goes_on(m)
    <3>1. m - 1 \in 0 .. Len(queue) /\ m - 1 < Len(queue) /\ ~(n <= m - 1)
      BY <2>3
    <3>2. m - 1 \notin S
      BY <2>2, <3>1
    <3>3. goes_on((m - 1) + 1)
      BY <3>1, <3>2
    <3>4. (m - 1) + 1 = m
      OBVIOUS
    <3>. QED  BY <3>3, <3>4
  <2>. QED  BY <2>3, <2>4
<1>. HIDE DEF stops
<1>4. stop \in 0 .. Len(queue) /\ stops(stop)
  BY <1>3
<1>. HIDE DEF stop
<1>5. queue # <<>> => stop # 0
  <2>. SUFFICES ASSUME queue # <<>>, stop = 0 PROVE FALSE
    OBVIOUS
  <2>1. 0 < Len(queue) /\ 0 + 1 = 1
    OBVIOUS
  <2>2. ~goes_on(0 + 1)
    BY <1>4, <2>1 DEF stops
  <2>. QED  BY <1>2, <2>1, <2>2
<1>. QED  BY <1>1, <1>4, <1>5

\* So what a scan takes of a new queue is new.
LEMMA ScanTakesNew ==
  ASSUME NEW queue \in Seq(Txns), New(queue), NEW limit \in Nat
  PROVE  LET txns == transactions_to_include(queue, limit)
         IN  /\ txns \in Seq(Txns) /\ New(txns)
             /\ queue # <<>> => txns # <<>> /\ Head(txns) = Head(queue)
<1>1. PICK n \in 0 .. Len(queue) :
         /\ transactions_to_include(queue, limit) = SubSeq(queue, 1, n)
         /\ queue # <<>> => n # 0
  BY ScanTakesPrefix
<1>. QED  BY <1>1, PrefixIsNew

\* The sequencer makes a payload of new transactions only, and an empty one
\* only if there is none or the first does not fit.
LEMMA PayloadsAreNew ==
  ASSUME NEW txns \in Seq(Txns), New(txns), NEW payload \in payloads(txns)
  PROVE  /\ payload \in Seq(Txns) /\ New(payload)
         /\ (payload = <<>> /\ txns # <<>>) => Head(txns) \in Unfit
<1>1. CASE txns = <<>> \/ Head(txns) \in Unfit
  BY <1>1, NothingIsNew DEF payloads
<1>2. CASE ~(txns = <<>> \/ Head(txns) \in Unfit)
  <2>1. PICK n \in 1 .. Len(txns) : payload = SubSeq(txns, 1, n)
    BY <1>2 DEF payloads
  <2>2. n \in 0 .. Len(txns) /\ n # 0
    OBVIOUS
  <2>. QED  BY <2>1, <2>2, PrefixIsNew
<1>. QED  BY <1>1, <1>2

----------------------------------------------------------------------------
(* Every action keeps the invariant *)

\* A step of a request that leaves the queue alone.
LEMMA RequestStep ==
  ASSUME IInv, NEW r \in Requests, NEW request \in Request, Good(request),
         set_request(r, request), UNCHANGED <<references, channel, arrived, txn_queue>>
  PROVE  IInv'
<1>1. /\ requests' \in [Requests -> Request]
      /\ \A s \in Requests : requests'[s] = IF s = r THEN request ELSE requests[s]
  BY DEF IInv, set_request
<1>2. should_prioritize_finalization' = should_prioritize_finalization
  BY DEF should_prioritize_finalization
<1>. HIDE DEF should_prioritize_finalization
<1>3. \A s \in Requests : Good(requests[s])'
  BY <1>1, <1>2 DEF IInv, Good
<1>. QED  BY <1>1, <1>3 DEF IInv

\* The requests before their scan hold no block.
LEMMA StartStep ==
  ASSUME IInv, NEW r \in Requests, start(r) \/ time_passes(r) \/ collected(r) \/ wake(r) \/ dropped(r)
  PROVE  IInv'
<1>1. requests[r] \in Request /\ Good(requests[r])
  BY DEF IInv
<1>2. /\ NoRequest \in Request /\ NoRequest.block = <<>> /\ NoRequest.seen = <<>>
  BY NothingIsNew DEF NoRequest, Request
<1>3. UNCHANGED <<references, channel, arrived, txn_queue>>
  BY DEF start, time_passes, collected, wake, dropped, finish
<1>4. CASE start(r)
  <2>. DEFINE request == [NoRequest EXCEPT !.phase = "collect", !.queue_empty = txn_queue = <<>>]
  <2>1. request \in Request
    BY <1>2 DEF Request
  <2>2. Good(request)
    BY NothingIsNew DEF Good, NoRequest
  <2>3. set_request(r, request)
    BY <1>4 DEF start
  <2>. QED  BY <1>3, <2>1, <2>2, <2>3, RequestStep
<1>5. CASE time_passes(r)
  <2>. DEFINE request == [requests[r] EXCEPT !.late = TRUE]
  <2>1. request \in Request /\ Good(request)
    BY <1>1, <1>5 DEF Request, Good, time_passes
  <2>. QED  BY <1>3, <1>5, <2>1, RequestStep DEF time_passes
<1>6. CASE collected(r)
  <2>1. PICK phase \in {"scan", "sleep"} :
           set_request(r, [requests[r] EXCEPT !.phase = phase])
    BY <1>6 DEF collected
  <2>. DEFINE request == [requests[r] EXCEPT !.phase = phase]
  <2>2. request \in Request /\ Good(request)
    BY <1>1 DEF Request, Good
  <2>. QED  BY <1>3, <2>1, <2>2, RequestStep
<1>7. CASE wake(r)
  <2>. DEFINE looped == [requests[r] EXCEPT !.phase = "collect", !.queue_empty = txn_queue = <<>>]
              stopped == [requests[r] EXCEPT !.phase = "scan"]
  <2>1. looped \in Request /\ Good(looped)
    BY <1>1 DEF Request, Good
  <2>2. stopped \in Request /\ Good(stopped)
    BY <1>1 DEF Request, Good
  <2>3. set_request(r, looped) \/ set_request(r, stopped)
    BY <1>7 DEF wake
  <2>. QED  BY <1>3, <2>1, <2>2, <2>3, RequestStep
<1>8. CASE dropped(r)
  <2>. DEFINE request == [requests[r] EXCEPT !.phase = "done", !.result = "dropped"]
  <2>1. request \in Request /\ Good(request)
    BY <1>1 DEF Request, Good
  <2>. QED  BY <1>3, <1>8, <2>1, RequestStep DEF dropped, finish
<1>. QED  BY <1>4, <1>5, <1>6, <1>7, <1>8

\* The queue only takes what is new in it, and of no recent block.
LEMMA ReceiveStep ==
  ASSUME IInv, NEW r \in Requests, receive(r)
  PROVE  IInv'
<1>. DEFINE t == Head(channel)
            request == [requests[r] EXCEPT !.queue_empty = FALSE]
<1>1. /\ channel # <<>> /\ channel' = Tail(channel)
      /\ UNCHANGED <<references, arrived>>
  BY DEF receive
<1>2. channel' \in Seq(Txns) /\ t \in Txns
  BY <1>1 DEF IInv
<1>3. txn_queue' \in Seq(Txns) /\ New(txn_queue)'
  BY <1>2, MoreIsNew DEF receive, IInv
<1>4. request \in Request /\ Good(request)
  BY DEF IInv, Request, Good
<1>5. \/ UNCHANGED requests
      \/ requests' = [requests EXCEPT ![r] = request]
  BY DEF receive, set_request
<1>6. /\ requests' \in [Requests -> Request]
      /\ \A s \in Requests : requests'[s] = requests[s] \/ requests'[s] = request
  BY <1>4, <1>5 DEF IInv
<1>7. should_prioritize_finalization' = should_prioritize_finalization
  BY <1>1 DEF should_prioritize_finalization
<1>. HIDE DEF should_prioritize_finalization, request
<1>8. \A s \in Requests : Good(requests[s])'
  BY <1>4, <1>6, <1>7 DEF IInv, Good
<1>. QED  BY <1>1, <1>2, <1>3, <1>6, <1>8 DEF IInv

\* A scan takes new transactions, and the first of the queue if there is one.
LEMMA ScanStep ==
  ASSUME IInv, NEW r \in Requests, scan(r)
  PROVE  IInv'
<1>1. requests[r] \in Request /\ Good(requests[r])
  BY DEF IInv
<1>. DEFINE none == [requests[r] EXCEPT !.phase = "done", !.result = "none"]
            found(limit, block) ==
               [requests[r] EXCEPT !.phase = "build", !.seen = txn_queue, !.limit = limit,
                                   !.block = block]
<1>2. none \in Request /\ Good(none)
  BY <1>1 DEF Request, Good
<1>3. ASSUME NEW limit \in Limits, txn_queue # <<>> \/ should_prioritize_finalization
      PROVE  LET block == transactions_to_include(txn_queue, limit)
             IN  found(limit, block) \in Request /\ Good(found(limit, block))
  <2>1. PICK block : block = transactions_to_include(txn_queue, limit)
    OBVIOUS
  <2>2. /\ block \in Seq(Txns) /\ New(block)
        /\ txn_queue # <<>> => block # <<>> /\ Head(block) = Head(txn_queue)
    BY <2>1, ScanTakesNew, BuildingAssumption DEF IInv
  <2>3. found(limit, block) \in Request
    BY <1>1, <2>2 DEF Request, IInv
  <2>4. /\ found(limit, block).block = block /\ found(limit, block).phase = "build"
        /\ found(limit, block).seen = txn_queue
    BY <1>1 DEF Request
  <2>5. Good(found(limit, block))
    BY <1>3, <2>2, <2>4 DEF Good
  <2>. QED  BY <2>1, <2>3, <2>5
<1>4. UNCHANGED <<references, channel, arrived, txn_queue>>
  BY DEF scan
<1>5. CASE set_request(r, none)
  BY <1>2, <1>4, <1>5, RequestStep
<1>6. CASE \E limit \in Limits :
              /\ txn_queue # <<>> \/ should_prioritize_finalization
              /\ set_request(r, found(limit, transactions_to_include(txn_queue, limit)))
  BY <1>3, <1>4, <1>6, RequestStep
<1>. QED  BY <1>5, <1>6 DEF scan

\* A payload is new, and empty only if the first transaction seen is unfit.
LEMMA PayloadStep ==
  ASSUME IInv, NEW r \in Requests, from_transactions(r)
  PROVE  IInv'
<1>1. requests[r] \in Request /\ Good(requests[r]) /\ requests[r].phase = "build"
  BY DEF IInv, from_transactions
<1>2. UNCHANGED <<references, channel, arrived, txn_queue>>
  BY DEF from_transactions
<1>3. CASE finish(r, "error")
  <2>. DEFINE request == [requests[r] EXCEPT !.phase = "done", !.result = "error"]
  <2>1. request \in Request /\ Good(request)
    BY <1>1 DEF Request, Good
  <2>. QED  BY <1>2, <1>3, <2>1, RequestStep DEF finish
<1>4. ASSUME NEW payload \in payloads(requests[r].block),
             set_request(r, [requests[r] EXCEPT
                !.block = payload,
                !.phase = IF payload = <<>> THEN "pop" ELSE "done",
                !.result = IF payload = <<>> THEN "none" ELSE "block"])
      PROVE  IInv'
  <2>1. /\ payload \in Seq(Txns) /\ New(payload)
        /\ (payload = <<>> /\ requests[r].block # <<>>) => Head(requests[r].block) \in Unfit
    BY <1>1, PayloadsAreNew DEF Request, Good
  <2>2. PICK phase \in {"pop", "done"}, result \in {"none", "block"} :
           /\ phase = "pop" => payload = <<>>
           /\ set_request(r, [requests[r] EXCEPT !.block = payload, !.phase = phase,
                                                 !.result = result])
    BY <1>4
  <2>. DEFINE request == [requests[r] EXCEPT !.block = payload, !.phase = phase, !.result = result]
  <2>3. request \in Request
    BY <1>1, <2>1 DEF Request
  <2>4. request.block = payload /\ request.phase = phase /\ request.seen = requests[r].seen
    BY <1>1 DEF Request
  <2>5. Good(request)
    BY <1>1, <2>1, <2>2, <2>4 DEF Good
  <2>. QED  BY <1>2, <2>2, <2>3, <2>5, RequestStep
<1>. QED  BY <1>3, <1>4 DEF from_transactions

\* Without its first transaction the queue is still new.
LEMMA PopStep ==
  ASSUME IInv, NEW r \in Requests, pop_front(r)
  PROVE  IInv'
<1>1. /\ UNCHANGED <<references, channel, arrived>>
      /\ txn_queue' = IF txn_queue = <<>> THEN <<>> ELSE Tail(txn_queue)
  BY DEF pop_front
<1>2. txn_queue' \in Seq(Txns) /\ New(txn_queue)'
  BY <1>1, TailIsNew DEF IInv
<1>3. PICK result \in {"block", "none"} :
         requests' = [requests EXCEPT ![r] = [requests[r] EXCEPT !.phase = "done",
                                                                 !.result = result]]
  BY DEF pop_front, finish, set_request
<1>. DEFINE request == [requests[r] EXCEPT !.phase = "done", !.result = result]
<1>4. request \in Request /\ Good(request)
  BY DEF IInv, Request, Good
<1>5. /\ requests' \in [Requests -> Request]
      /\ \A s \in Requests : requests'[s] = requests[s] \/ requests'[s] = request
  BY <1>3, <1>4 DEF IInv
<1>6. should_prioritize_finalization' = should_prioritize_finalization
  BY <1>1 DEF should_prioritize_finalization
<1>. HIDE DEF should_prioritize_finalization, request
<1>7. \A s \in Requests : Good(requests[s])'
  BY <1>4, <1>5, <1>6 DEF IInv, Good
<1>. QED  BY <1>1, <1>2, <1>5, <1>7 DEF IInv

\* An arriving transaction only joins the channel.
LEMMA ArrivalStep ==
  ASSUME IInv, NEW t \in Txns, transaction_arrives(t)
  PROVE  IInv'
<1>1. /\ arrived < MaxSent /\ channel' = Append(channel, t) /\ arrived' = arrived + 1
      /\ UNCHANGED <<references, txn_queue, requests>>
  BY DEF transaction_arrives
<1>2. channel' \in Seq(Txns) /\ arrived' \in 0 .. MaxSent
  BY <1>1, BuildingAssumption DEF IInv
<1>. QED  BY <1>1, <1>2 DEF IInv, Good, should_prioritize_finalization

----------------------------------------------------------------------------
(* Theorems *)

\* No request is under way at the start.
LEMMA InitIInv == Init => IInv
<1>. SUFFICES ASSUME Init PROVE IInv
  OBVIOUS
<1>. DEFINE unasked == [NoRequest EXCEPT !.result = "unasked"]
<1>1. unasked \in Request /\ Good(unasked)
  BY NothingIsNew DEF NoRequest, Request, Good
<1>. HIDE DEF unasked
<1>2. requests = [r \in Requests |-> unasked]
  BY DEF Init, unasked
<1>. QED  BY <1>1, <1>2, NothingIsNew, BuildingAssumption DEF Init, IInv

\* Every step keeps the invariant.
LEMMA NextIInv == IInv /\ [Next]_vars => IInv'
<1>. SUFFICES ASSUME IInv, [Next]_vars PROVE IInv'
  OBVIOUS
<1>1. CASE UNCHANGED vars
  BY <1>1 DEF vars, IInv, Good, should_prioritize_finalization
<1>. QED  BY <1>1, ArrivalStep, StartStep, ReceiveStep, ScanStep, PayloadStep, PopStep
          DEF Next, proceed

\* IInv holds in every reachable state.
THEOREM Invariance == Spec => []IInv
  BY InitIInv, NextIInv, PTL DEF Spec

\* Whoever has a payload made has scanned a transaction, or has a block to
\* finalize (build_block).
THEOREM TypeCorrect == Spec => []TypeOK
<1>1. IInv => TypeOK
  BY DEF IInv, Good, TypeOK, Request
<1>. QED  BY <1>1, Invariance, PTL

\* No block holds a transaction twice, or one of a recent block, however many
\* requests collect, scan and pop at the same time.
THEOREM BlocksAreNew == Spec => []BlockIsNew
<1>1. IInv => BlockIsNew
  BY DEF IInv, Good, New, BlockIsNew
<1>. QED  BY <1>1, Invariance, PTL

\* A transaction the sequencer would take is only popped if the queue changed
\* after the scan.
THEOREM OnlyUnfitPopped == Spec => FitPoppedOnlyAfterRace
<1>1. IInv /\ [Next]_vars
        => [\A r \in Requests :
              (/\ requests[r].phase = "pop" /\ requests'[r].phase = "done"
               /\ requests[r].seen = txn_queue /\ txn_queue' # txn_queue)
              => Head(txn_queue) \in Unfit]_vars
  <2>. SUFFICES ASSUME IInv, Next, NEW r \in Requests,
                       requests[r].phase = "pop", requests'[r].phase = "done",
                       requests[r].seen = txn_queue, txn_queue' # txn_queue
                PROVE  Head(txn_queue) \in Unfit
    OBVIOUS
  <2>1. txn_queue # <<>> => Head(txn_queue) \in Unfit
    BY DEF IInv, Good
  <2>2. \E s \in Requests : receive(s) \/ pop_front(s)
    BY DEF Next, proceed, transaction_arrives, start, time_passes, collected, wake, scan,
           from_transactions, dropped
  <2>3. ASSUME NEW s \in Requests, receive(s)
        PROVE  FALSE
    <3>1. s # r
      BY <2>3 DEF receive
    <3>2. requests'[r] = requests[r]
      BY <2>3, <3>1 DEF receive, set_request, IInv
    <3>. QED  BY <3>2
  <2>4. ASSUME NEW s \in Requests, pop_front(s)
        PROVE  txn_queue # <<>>
    BY <2>4 DEF pop_front
  <2>. QED  BY <2>1, <2>2, <2>3, <2>4
<1>. QED  BY <1>1, Invariance, PTL DEF Spec, FitPoppedOnlyAfterRace

----------------------------------------------------------------------------
(* The block size limit *)

Sizes == LowerOf(protocol_max_block_size, MAX_BLOCK_SIZE_FLOOR)
            .. UpperOf(protocol_max_block_size, MAX_BLOCK_SIZE_FLOOR)

\* A tenth, rounded up: at most the size itself, and monotonic.
LEMMA ChangeBounds ==
  ASSUME NEW size \in Nat
  PROVE  /\ change(size) \in Nat
         /\ change(size) <= size
         /\ \A larger \in Nat : size <= larger => change(size) <= change(larger)
  BY SMT DEF change, MAX_BLOCK_SIZE_CHANGE_DIVISOR

\* An increment gives a word no larger than the protocol's maximum.
LEMMA IncrementTyped ==
  ASSUME NEW size \in 0 .. Word - 1
  PROVE  incremented(size) \in 0 .. Word - 1
<1>1. size + change(size) \in Nat /\ Word \in Nat /\ Word > 0
  BY ChangeBounds, LimitsAssumption
<1>2. (size + change(size)) % Word \in 0 .. Word - 1
  BY <1>1
<1>. QED  BY <1>2, LimitsAssumption DEF incremented, LowerOf

\* A decrement gives a word no smaller than the floor.
LEMMA DecrementTyped ==
  ASSUME NEW size \in 0 .. Word - 1
  PROVE  decremented(size) \in 0 .. Word - 1
<1>1. change(size) \in Nat /\ change(size) <= size
  BY ChangeBounds, LimitsAssumption
<1>. QED  BY <1>1, LimitsAssumption DEF decremented, UpperOf

\* With headroom in the word, an increment stays within the limits.
LEMMA IncrementWithin ==
  ASSUME Headroom, NEW size \in Sizes
  PROVE  incremented(size) \in Sizes
<1>1. /\ size \in Nat
      /\ size <= protocol_max_block_size \/ size <= MAX_BLOCK_SIZE_FLOOR
  BY LimitsAssumption DEF Sizes, LowerOf, UpperOf
<1>2. change(size) \in Nat /\ size + change(size) < Word
  BY <1>1, ChangeBounds, LimitsAssumption DEF Headroom
<1>3. size + change(size) \in 0 .. Word - 1
  BY <1>1, <1>2, LimitsAssumption
<1>4. (size + change(size)) % Word = size + change(size)
  BY <1>3, LimitsAssumption
<1>. QED  BY <1>1, <1>2, <1>4, LimitsAssumption DEF incremented, Sizes, LowerOf, UpperOf

\* A decrement stays within the limits.
LEMMA DecrementWithin ==
  ASSUME NEW size \in Sizes
  PROVE  decremented(size) \in Sizes
<1>1. size \in Nat
  BY LimitsAssumption DEF Sizes, LowerOf, UpperOf
<1>2. change(size) \in Nat /\ change(size) <= size
  BY <1>1, ChangeBounds
<1>. QED  BY <1>1, <1>2, LimitsAssumption DEF decremented, Sizes, LowerOf, UpperOf

\* The limit is always a word and the last increment never in the future.
THEOREM SizeTypeCorrect == SizeSpec => []SizeTypeOK
<1>1. SizeInit => SizeTypeOK
  BY LimitsAssumption DEF SizeInit, SizeTypeOK
<1>2. SizeTypeOK /\ [SizeNext]_size_vars => SizeTypeOK'
  <2>. SUFFICES ASSUME SizeTypeOK, [SizeNext]_size_vars PROVE SizeTypeOK'
    OBVIOUS
  <2>1. CASE tick
    BY <2>1 DEF SizeTypeOK, tick
  <2>2. CASE \E c \in Claims, truncated \in BOOLEAN : claim_served(c, truncated)
    BY <2>2 DEF SizeTypeOK, claim_served
  <2>3. CASE \E c \in Claims : increment_block_size(c)
    <3>1. max_block_size' \in 0 .. Word - 1
      BY <2>3, IncrementTyped DEF SizeTypeOK, increment_block_size
    <3>. QED  BY <2>3, <3>1 DEF SizeTypeOK, increment_block_size
  <2>4. CASE decrement_block_size
    <3>1. max_block_size' \in 0 .. Word - 1
      BY <2>4, DecrementTyped DEF SizeTypeOK, decrement_block_size
    <3>. QED  BY <2>4, <3>1 DEF SizeTypeOK, decrement_block_size
  <2>5. CASE UNCHANGED size_vars
    BY <2>5 DEF SizeTypeOK, size_vars
  <2>. QED  BY <2>1, <2>2, <2>3, <2>4, <2>5 DEF SizeNext
<1>. QED  BY <1>1, <1>2, PTL DEF SizeSpec

\* If an increment cannot overflow the word, the limit never leaves the range
\* between the floor and the protocol's maximum.
THEOREM StaysWithinLimits == ASSUME Headroom PROVE SizeSpec => []SizeWithinLimits
<1>1. SizeInit => SizeWithinLimits
  BY LimitsAssumption DEF SizeInit, SizeWithinLimits, LowerOf, UpperOf
<1>2. SizeWithinLimits /\ [SizeNext]_size_vars => SizeWithinLimits'
  <2>. SUFFICES ASSUME max_block_size \in Sizes, [SizeNext]_size_vars
                PROVE  max_block_size' \in Sizes
    BY DEF SizeWithinLimits, Sizes
  <2>1. CASE UNCHANGED max_block_size
    BY <2>1
  <2>2. CASE \E c \in Claims : increment_block_size(c)
    BY <2>2, IncrementWithin DEF increment_block_size
  <2>3. CASE decrement_block_size
    BY <2>3, DecrementWithin DEF decrement_block_size
  <2>. QED  BY <2>1, <2>2, <2>3 DEF SizeNext, tick, claim_served, size_vars
<1>. QED  BY <1>1, <1>2, PTL DEF SizeSpec

============================================================================
