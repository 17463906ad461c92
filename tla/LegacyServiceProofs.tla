------------------------- MODULE LegacyServiceProofs -------------------------
(***************************************************************************)
(* Theorems about LegacyService, for every set of clients, states and      *)
(* decides and every capacity of the cache and the channels.               *)
(*                                                                         *)
(* What a client is offered was built for the state it asked for, because  *)
(* that is so of every message on its way (RequestsGood) and of what is    *)
(* remembered for a state (LastGood); what was built is in the cache       *)
(* unless the cache is full, and the cache has the BlockInfo built last    *)
(* (CacheGood).  CallGood ties the local state of a call to both.          *)
(***************************************************************************)
EXTENDS LegacyService, TLAPS, FiniteSetTheorems, SequenceTheorems

\* Every message on its way is for a client that waits for it, or for nobody;
\* a task builds for its own state, and no more than the bound.
RequestsGood ==
    /\ IsFiniteSet(messages)
    /\ Len(infos) + Cardinality(built) <= MaxInfos
    /\ \A m \in messages :
          /\ m.hash # NoHash => m.to = m.id
          /\ m.client # Nobody => /\ clients[m.client].phase = "sent"
                                  /\ clients[m.client].id = m.id
    /\ \A m, n \in messages : (m.client = n.client /\ m.client # Nobody) => m = n

\* A block has one entry, of the BlockInfo made for it last, and none only
\* if the cache is full.
CacheGood ==
    /\ \A k, l \in DOMAIN blocks : infos[blocks[k]].block = infos[blocks[l]].block => k = l
    /\ \A k \in DOMAIN blocks, i \in DOMAIN infos :
          infos[i].block = infos[blocks[k]].block => i <= blocks[k]
    /\ \A i \in DOMAIN infos : stored(infos[i].block) = {} => Len(blocks) = Capacity

WasBuilt(b) == \E i \in DOMAIN infos : infos[i].block = b

BlockOf(id, hash) == [view |-> id.parent_view, hash |-> hash]

LastGood ==
    \A id \in DOMAIN builder_state_to_last_built_block :
        WasBuilt(BlockOf(id, builder_state_to_last_built_block[id]))

CallGood(call) ==
    /\ call.result = "offered" => WasBuilt(BlockOf(call.id, call.hash))
    /\ call.phase \in {"looking", "waiting", "found", "sending", "sent"} => call.claimed = 0
    /\ call.phase \in {"claiming", "header"} =>
          call.info \in DOMAIN infos /\ infos[call.info].block = BlockOf(call.id, call.hash)
    /\ call.claimed # 0 => /\ call.claimed \in DOMAIN infos
                           /\ infos[call.claimed].block = BlockOf(call.id, call.hash)
                           /\ infos[call.claimed].started
    /\ (call.phase = "header" /\ call.claimed # 0) =>
          infos[call.info].started \/ call.info > call.claimed

HighestNotCollected == last_garbage_collected_view_num <= highest_view_num_builder_id.parent_view

IInv ==
    /\ TypeOK /\ RequestsGood /\ CacheGood /\ LastGood /\ HighestNotCollected
    /\ \A c \in Clients : CallGood(clients[c])

----------------------------------------------------------------------------
(* The cache *)

\* What the cache is without the entry of a block: there is at most one.
LEMMA WithoutBlock ==
  ASSUME TypeOK, CacheGood, NEW b
  PROVE  \/ /\ \A k \in DOMAIN blocks : infos[blocks[k]].block # b
            /\ without(b) = blocks
         \/ \E n \in DOMAIN blocks :
            /\ infos[blocks[n]].block = b
            /\ without(b) \in Seq(DOMAIN infos)
            /\ Len(without(b)) = Len(blocks) - 1
            /\ \A k \in 1 .. Len(blocks) - 1 :
                  without(b)[k] = blocks[IF k < n THEN k ELSE k + 1]
<1>. DEFINE I == {k \in 1 .. Len(blocks) : infos[blocks[k]].block = b}
<1>1. blocks \in Seq(DOMAIN infos) /\ DOMAIN blocks = 1 .. Len(blocks)
  BY DEF TypeOK
<1>2. CASE I = {}
  BY <1>1, <1>2 DEF without, RemoveFirstMatch
<1>3. CASE I # {}
  <2>1. PICK n \in I : TRUE
    BY <1>3
  <2>2. I = {n} /\ n \in DOMAIN blocks /\ infos[blocks[n]].block = b
    BY <1>1, <2>1 DEF CacheGood
  <2>3. Min({n}) = n
    BY <1>1, <2>2 DEF Min
  <2>4. without(b) = RemoveAt(blocks, n)
    BY <1>1, <1>3, <2>2, <2>3 DEF without, RemoveFirstMatch, SelectInSeq
  <2>. DEFINE left == SubSeq(blocks, 1, n - 1)
              right == SubSeq(blocks, n + 1, Len(blocks))
  <2>5. n \in 1 .. Len(blocks)
    BY <1>1, <2>2
  <2>6. /\ n - 1 \in Int /\ n + 1 \in Int /\ Len(blocks) \in Int
        /\ \A k \in 1 .. n - 1 : blocks[k] \in DOMAIN infos
        /\ \A k \in n + 1 .. Len(blocks) : blocks[k] \in DOMAIN infos
    BY <1>1, <2>5
  <2>7. /\ left \in Seq(DOMAIN infos) /\ Len(left) = n - 1
        /\ \A k \in 1 .. n - 1 : left[k] = blocks[k]
    <3>1. /\ left \in Seq(DOMAIN infos) /\ Len(left) = IF 1 <= n - 1 THEN (n - 1) - 1 + 1 ELSE 0
          /\ \A k \in 1 .. (n - 1) - 1 + 1 : left[k] = blocks[1 + k - 1]
      BY <2>6, SubSeqProperties
    <3>. HIDE DEF left
    <3>. QED  BY <2>5, <3>1
  <2>8. /\ right \in Seq(DOMAIN infos) /\ Len(right) = Len(blocks) - n
        /\ \A k \in 1 .. Len(blocks) - n : right[k] = blocks[n + k]
    <3>1. /\ right \in Seq(DOMAIN infos)
          /\ Len(right) = IF n + 1 <= Len(blocks) THEN Len(blocks) - (n + 1) + 1 ELSE 0
          /\ \A k \in 1 .. Len(blocks) - (n + 1) + 1 : right[k] = blocks[n + 1 + k - 1]
      BY <2>6, SubSeqProperties
    <3>. HIDE DEF right
    <3>. QED  BY <2>5, <2>6, <3>1
  <2>. HIDE DEF left, right, I
  <2>9. /\ without(b) \in Seq(DOMAIN infos) /\ Len(without(b)) = Len(blocks) - 1
        /\ \A k \in 1 .. Len(blocks) - 1 :
              without(b)[k] = IF k <= n - 1 THEN left[k] ELSE right[k - (n - 1)]
    <3>1. without(b) = left \o right
      BY <2>4 DEF RemoveAt, left, right
    <3>2. /\ left \o right \in Seq(DOMAIN infos)
          /\ Len(left \o right) = Len(left) + Len(right)
          /\ \A k \in 1 .. Len(left) + Len(right) :
                (left \o right)[k] = IF k <= Len(left) THEN left[k] ELSE right[k - Len(left)]
      BY <2>7, <2>8, ConcatProperties
    <3>3. Len(left) = n - 1 /\ Len(left) + Len(right) = Len(blocks) - 1
      BY <2>5, <2>6, <2>7, <2>8
    <3>. QED  BY <3>1, <3>2, <3>3
  <2>10. ASSUME NEW k \in 1 .. Len(blocks) - 1
         PROVE  without(b)[k] = blocks[IF k < n THEN k ELSE k + 1]
    <3>1. CASE k < n
      BY <2>5, <2>7, <2>9, <3>1
    <3>2. CASE k >= n
      <4>1. k - (n - 1) \in 1 .. Len(blocks) - n /\ n + (k - (n - 1)) = k + 1 /\ ~(k <= n - 1)
        BY <2>5, <2>6, <3>2
      <4>. QED  BY <2>5, <2>8, <2>9, <3>2, <4>1
    <3>. QED  BY <2>5, <3>1, <3>2
  <2>. QED  BY <2>2, <2>9, <2>10
<1>. QED  BY <1>2, <1>3

\* An entry used last is at the end, and nothing is evicted for it while there
\* is room.
LEMMA UsedLast ==
  ASSUME NEW S, NEW seq \in Seq(S), Len(seq) <= Capacity, NEW i \in S
  PROVE  /\ used(seq, i) \in Seq(S) /\ used(seq, i)[Len(used(seq, i))] = i
         /\ Len(seq) < Capacity => /\ Len(used(seq, i)) = Len(seq) + 1
                                   /\ \A k \in 1 .. Len(seq) : used(seq, i)[k] = seq[k]
<1>1. Capacity \in Nat \ {0}
  BY LegacyServiceAssumption
<1>2. CASE Len(seq) < Capacity
  BY <1>1, <1>2 DEF used
<1>3. CASE Len(seq) = Capacity
  <2>1. used(seq, i) = Append(Tail(seq), i)
    BY <1>1, <1>3 DEF used
  <2>2. /\ Tail(seq) \in Seq(S) /\ Len(Tail(seq)) = Len(seq) - 1
        /\ \A k \in 1 .. Len(seq) - 1 : Tail(seq)[k] = seq[k + 1]
    BY <1>1, <1>3
  <2>. QED  BY <1>1, <1>3, <2>1, <2>2
<1>. QED  BY <1>1, <1>2, <1>3

\* What is left of the cache without a block: all other entries, each once.
IsRest(rest, b) ==
    /\ rest \in Seq(DOMAIN infos) /\ Len(rest) <= Len(blocks)
    /\ Len(blocks) = Capacity => Len(rest) \in {Capacity - 1, Capacity}
    /\ \A k \in 1 .. Len(rest) :
          infos[rest[k]].block # b /\ \E n \in DOMAIN blocks : rest[k] = blocks[n]
    /\ \A k, l \in 1 .. Len(rest) : infos[rest[k]].block = infos[rest[l]].block => k = l
    /\ \A n \in DOMAIN blocks :
          infos[blocks[n]].block # b => \E k \in 1 .. Len(rest) : rest[k] = blocks[n]

\* Removing a block's entry keeps all others.
LEMMA WithoutKeeps ==
  ASSUME TypeOK, CacheGood, NEW b
  PROVE  IsRest(without(b), b)
<1>. DEFINE block(k) == infos[blocks[k]].block
<1>1. /\ blocks \in Seq(DOMAIN infos) /\ DOMAIN blocks = 1 .. Len(blocks) /\ Len(blocks) \in Nat
      /\ Capacity \in Nat
  BY LegacyServiceAssumption DEF TypeOK
<1>2. \A k, l \in DOMAIN blocks : block(k) = block(l) => k = l
  BY DEF CacheGood
<1>3. PICK rest : rest = without(b)
  OBVIOUS
<1>4. ASSUME \A k \in DOMAIN blocks : block(k) # b, rest = blocks
      PROVE  IsRest(rest, b)
  <2>1. Len(blocks) <= Len(blocks) /\ (Len(blocks) = Capacity => Len(blocks) \in {Capacity - 1, Capacity})
    <3>1. Len(blocks) \in Nat
      BY <1>1
    <3>. QED  BY <3>1
  <2>2. \A k \in 1 .. Len(blocks) : k \in DOMAIN blocks /\ blocks[k] = blocks[k]
    BY <1>1
  <2>. QED  BY <1>1, <1>2, <1>4, <2>1, <2>2, Zenon DEF IsRest
<1>5. ASSUME NEW n \in DOMAIN blocks, block(n) = b,
             rest \in Seq(DOMAIN infos),
             Len(rest) = Len(blocks) - 1,
             \A k \in 1 .. Len(blocks) - 1 : rest[k] = blocks[IF k < n THEN k ELSE k + 1]
      PROVE  IsRest(rest, b)
  <2>. DEFINE at(k) == IF k < n THEN k ELSE k + 1
  <2>0. Len(rest) = Len(blocks) - 1 /\ Len(rest) \in Nat /\ n \in 1 .. Len(blocks)
    <3>1. Len(rest) \in Nat
      BY <1>5
    <3>. QED  BY <1>1, <1>5, <3>1
  <2>1. \A k \in 1 .. Len(rest) : at(k) \in DOMAIN blocks /\ at(k) # n /\ rest[k] = blocks[at(k)]
    BY <1>1, <1>5, <2>0
  <2>2. \A k, l \in 1 .. Len(rest) : at(k) = at(l) => k = l
    BY <1>1
  <2>3. \A m \in DOMAIN blocks : m # n => \E k \in 1 .. Len(rest) : at(k) = m
    <3>. SUFFICES ASSUME NEW m \in DOMAIN blocks, m # n
                  PROVE  \E k \in 1 .. Len(rest) : at(k) = m
      OBVIOUS
    <3>1. CASE m < n
      BY <1>1, <2>0, <3>1
    <3>2. CASE m > n
      <4>1. m - 1 \in 1 .. Len(rest) /\ at(m - 1) = m
        BY <1>1, <2>0, <3>2
      <4>. QED  BY <4>1
    <3>. QED  BY <1>1, <3>1, <3>2
  <2>. HIDE DEF at
  <2>4. ASSUME NEW k \in 1 .. Len(rest)
        PROVE  infos[rest[k]].block # b /\ \E m \in DOMAIN blocks : rest[k] = blocks[m]
    BY <1>2, <1>5, <2>1
  <2>5. ASSUME NEW k \in 1 .. Len(rest), NEW l \in 1 .. Len(rest),
               infos[rest[k]].block = infos[rest[l]].block
        PROVE  k = l
    <3>1. at(k) = at(l)
      BY <1>2, <2>1, <2>5
    <3>. QED  BY <2>2, <3>1
  <2>6. ASSUME NEW m \in DOMAIN blocks, block(m) # b
        PROVE  \E k \in 1 .. Len(rest) : rest[k] = blocks[m]
    BY <1>5, <2>1, <2>3, <2>6
  <2>7. Len(rest) <= Len(blocks) /\ (Len(blocks) = Capacity => Len(rest) \in {Capacity - 1, Capacity})
    <3>1. Len(blocks) \in Nat /\ Capacity \in Nat
      BY <1>1
    <3>2. Len(rest) = Len(blocks) - 1
      BY <2>0
    <3>. QED  BY <3>1, <3>2
  <2>. QED  BY <1>5, <2>4, <2>5, <2>6, <2>7 DEF IsRest
<1>6. \/ /\ \A k \in DOMAIN blocks : block(k) # b
         /\ rest = blocks
      \/ \E n \in DOMAIN blocks :
         /\ block(n) = b
         /\ rest \in Seq(DOMAIN infos)
         /\ Len(rest) = Len(blocks) - 1
         /\ \A k \in 1 .. Len(blocks) - 1 : rest[k] = blocks[IF k < n THEN k ELSE k + 1]
  BY <1>3, WithoutBlock, Zenon
<1>. QED  BY <1>3, <1>4, <1>5, <1>6, Zenon

\* Putting in a new entry for a block, or using the one it has, leaves no
\* block out unless the cache is full.
LEMMA CacheStep ==
  ASSUME TypeOK, CacheGood, NEW b, NEW i \in DOMAIN infos',
         DOMAIN infos \subseteq DOMAIN infos', DOMAIN infos' \subseteq Nat,
         \A j \in DOMAIN infos : infos'[j].block = infos[j].block,
         infos'[i].block = b,
         \A j \in DOMAIN infos' : infos'[j].block = b => j <= i,
         \A j \in DOMAIN infos' : infos'[j].block # b => j \in DOMAIN infos,
         blocks' = used(without(b), i)
  PROVE  CacheGood' /\ blocks' \in Seq(DOMAIN infos') /\ Len(blocks') <= Capacity
<1>1. PICK rest, next, made : rest = without(b) /\ next = used(rest, i) /\ made = infos'
  OBVIOUS
<1>2. IsRest(rest, b)
  BY <1>1, WithoutKeeps
<1>3. rest \in Seq(DOMAIN made)
  <2>1. rest \in Seq(DOMAIN infos) /\ DOMAIN infos \subseteq DOMAIN made
    BY <1>1, <1>2 DEF IsRest
  <2>. QED  BY <2>1
<1>4. Len(rest) \in Nat /\ Len(blocks) \in Nat /\ Capacity \in Nat \ {0}
  BY <1>3, LegacyServiceAssumption DEF TypeOK
<1>5. Len(rest) <= Capacity
  <2>1. Len(rest) <= Len(blocks) /\ Len(blocks) <= Capacity
    BY <1>2 DEF IsRest, TypeOK
  <2>. QED  BY <1>4, <2>1
<1>6. i \in DOMAIN made
  BY <1>1
<1>7. next \in Seq(DOMAIN made) /\ next[Len(next)] = i
  BY <1>1, <1>3, <1>5, <1>6, UsedLast
<1>8. \/ /\ Len(rest) < Capacity /\ Len(next) = Len(rest) + 1
         /\ \A k \in 1 .. Len(rest) : next[k] = rest[k]
      \/ /\ Len(rest) = Capacity /\ Len(next) = Capacity
         /\ \A k \in 1 .. Len(rest) - 1 : next[k] = rest[k + 1]
  <2>1. CASE Len(rest) < Capacity
    <3>1. Len(used(rest, i)) = Len(rest) + 1 /\ \A k \in 1 .. Len(rest) : used(rest, i)[k] = rest[k]
      BY <1>3, <1>4, <1>5, <1>6, <2>1, UsedLast
    <3>. QED  BY <1>1, <2>1, <3>1
  <2>2. CASE Len(rest) = Capacity
    <3>1. /\ Len(used(rest, i)) = Capacity
          /\ \A k \in 1 .. Len(rest) - 1 : used(rest, i)[k] = rest[k + 1]
      <4>1. used(rest, i) = Append(Tail(rest), i) /\ rest # <<>>
        BY <1>3, <1>4, <2>2 DEF used
      <4>2. /\ Tail(rest) \in Seq(DOMAIN made) /\ Len(Tail(rest)) = Len(rest) - 1
            /\ \A k \in 1 .. Len(rest) - 1 : Tail(rest)[k] = rest[k + 1]
        BY <1>3, <4>1, HeadTailProperties
      <4>. QED  BY <1>4, <2>2, <4>1, <4>2
    <3>. QED  BY <1>1, <2>2, <3>1
  <2>. QED  BY <1>4, <1>5, <2>1, <2>2
<1>9. DOMAIN next = 1 .. Len(next) /\ Len(next) \in Nat
  BY <1>7
<1>10. Len(next) <= Capacity /\ Len(next) # 0
  BY <1>4, <1>8
<1>11. PICK d \in {0, 1} : \A k \in DOMAIN next :
         k # Len(next) => k + d \in 1 .. Len(rest) /\ next[k] = rest[k + d]
  <2>1. CASE Len(rest) < Capacity
    <3>1. Len(next) = Len(rest) + 1 /\ \A k \in 1 .. Len(rest) : next[k] = rest[k]
      BY <1>8, <2>1
    <3>2. \A k \in DOMAIN next : k # Len(next) => k \in 1 .. Len(rest) /\ k + 0 = k
      BY <1>4, <1>9, <3>1
    <3>. QED  BY <3>1, <3>2
  <2>2. CASE ~(Len(rest) < Capacity)
    <3>1. /\ Len(rest) = Capacity /\ Len(next) = Capacity
          /\ \A k \in 1 .. Len(rest) - 1 : next[k] = rest[k + 1]
      BY <1>8, <2>2
    <3>2. \A k \in DOMAIN next : k # Len(next) => k \in 1 .. Len(rest) - 1 /\ k + 1 \in 1 .. Len(rest)
      BY <1>4, <1>9, <3>1
    <3>. QED  BY <3>1, <3>2
  <2>. QED  BY <2>1, <2>2
<1>12. \A k \in 1 .. Len(rest) :
          /\ rest[k] \in DOMAIN infos /\ made[rest[k]].block = infos[rest[k]].block
          /\ made[rest[k]].block # b
  BY <1>1, <1>2 DEF IsRest
<1>13. made[i].block = b
  BY <1>1
<1>14. ASSUME NEW k \in DOMAIN next, NEW l \in DOMAIN next,
              made[next[k]].block = made[next[l]].block
       PROVE  k = l
  <2>1. CASE k = Len(next) /\ l # Len(next)
    BY <1>7, <1>11, <1>12, <1>13, <1>14, <2>1
  <2>2. CASE k # Len(next) /\ l = Len(next)
    BY <1>7, <1>11, <1>12, <1>13, <1>14, <2>2
  <2>3. CASE k # Len(next) /\ l # Len(next)
    <3>1. /\ k + d \in 1 .. Len(rest) /\ l + d \in 1 .. Len(rest)
          /\ infos[rest[k + d]].block = infos[rest[l + d]].block
      BY <1>11, <1>12, <1>14, <2>3
    <3>2. k + d = l + d
      BY <1>2, <3>1 DEF IsRest
    <3>. QED  BY <1>9, <3>2
  <2>. QED  BY <2>1, <2>2, <2>3
<1>15. ASSUME NEW k \in DOMAIN next, NEW j \in DOMAIN made,
              made[j].block = made[next[k]].block
       PROVE  j <= next[k]
  <2>1. CASE k = Len(next)
    BY <1>1, <1>7, <1>13, <1>15, <2>1
  <2>2. CASE k # Len(next)
    <3>1. k + d \in 1 .. Len(rest) /\ next[k] = rest[k + d]
      BY <1>11, <2>2
    <3>2. PICK n \in DOMAIN blocks : rest[k + d] = blocks[n]
      BY <1>2, <3>1 DEF IsRest
    <3>3. j \in DOMAIN infos /\ infos[j].block = infos[blocks[n]].block
      BY <1>1, <1>12, <1>15, <3>1, <3>2
    <3>. QED  BY <3>1, <3>2, <3>3 DEF CacheGood
  <2>. QED  BY <2>1, <2>2
<1>16. ASSUME NEW j \in DOMAIN made, Len(next) # Capacity
       PROVE  \E k \in DOMAIN next : made[next[k]].block = made[j].block
  <2>1. CASE made[j].block = b
    <3>1. Len(next) \in DOMAIN next
      BY <1>9, <1>10
    <3>. QED  BY <1>7, <1>13, <2>1, <3>1
  <2>2. CASE made[j].block # b
    <3>1. Len(rest) < Capacity /\ Len(next) = Len(rest) + 1
          /\ \A k \in 1 .. Len(rest) : next[k] = rest[k]
      BY <1>8, <1>16
    <3>2. Len(blocks) # Capacity
      <4>1. Len(blocks) = Capacity => Len(rest) \in {Capacity - 1, Capacity}
        BY <1>2 DEF IsRest
      <4>. QED  BY <1>4, <1>16, <3>1, <4>1
    <3>3. j \in DOMAIN infos /\ infos[j].block = made[j].block
      BY <1>1, <2>2
    <3>4. PICK n \in DOMAIN blocks : infos[blocks[n]].block = infos[j].block
      BY <3>2, <3>3 DEF CacheGood, stored
    <3>5. PICK k \in 1 .. Len(rest) : rest[k] = blocks[n]
      BY <1>2, <2>2, <3>3, <3>4 DEF IsRest
    <3>6. k \in DOMAIN next /\ next[k] = rest[k]
      BY <1>4, <1>9, <3>1
    <3>. QED  BY <1>12, <3>3, <3>4, <3>5, <3>6
  <2>. QED  BY <2>1, <2>2
<1>17. blocks' = next /\ infos' = made
  BY <1>1
<1>18. \A j \in DOMAIN infos' : stored(infos[j].block)' = {} => Len(blocks') = Capacity
  BY <1>16, <1>17 DEF stored
<1>19. CacheGood'
  BY <1>14, <1>15, <1>17, <1>18 DEF CacheGood
<1>. QED  BY <1>7, <1>10, <1>17, <1>19

\* A block with one entry at most has one BlockInfo at most in the cache.
LEMMA OneEntryKept ==
  ASSUME CacheGood'
  PROVE  \A b \in BlockIds : Cardinality(stored(b))' <= 1
<1>. SUFFICES ASSUME NEW b \in BlockIds PROVE Cardinality(stored(b))' <= 1
  OBVIOUS
<1>1. PICK S : S = stored(b)'
  OBVIOUS
<1>2. \A i, j \in S : i = j
  BY <1>1 DEF stored, CacheGood
<1>3. CASE S = {}
  <2>1. Cardinality(S) = 0
    BY <1>3, FS_EmptySet
  <2>. QED  BY <1>1, <2>1
<1>4. CASE S # {}
  <2>1. PICK i : S = {i}
    BY <1>2, <1>4
  <2>2. Cardinality({i}) = 1
    BY FS_Singleton
  <2>. QED  BY <1>1, <2>1, <2>2
<1>. QED  BY <1>3, <1>4

----------------------------------------------------------------------------
(* What stays true while blocks are built and triggers pulled *)

\* BlockInfos are only ever added, and their triggers only pulled once.
Grown ==
    /\ DOMAIN infos \subseteq DOMAIN infos'
    /\ \A i \in DOMAIN infos : /\ infos'[i].block = infos[i].block
                               /\ infos[i].started => infos'[i].started

\* What a call knows of the blocks built stays true.
LEMMA CallKept ==
  ASSUME Grown, NEW call, CallGood(call)
  PROVE  CallGood(call)'
  BY DEF Grown, CallGood, WasBuilt

\* So does what is remembered.
LEMMA LastKept ==
  ASSUME Grown, LastGood, UNCHANGED builder_state_to_last_built_block
  PROVE  LastGood'
  BY DEF Grown, LastGood, WasBuilt

\* A step of one call that is not waiting for its task: it may use a block of
\* the cache or pull a trigger.
LEMMA CallStep ==
  ASSUME IInv, NEW c \in Clients, clients[c].phase # "sent",
         NEW call \in Call, CallGood(call)', set_call(c, call),
         UNCHANGED <<state_vars, builder_state_to_last_built_block, messages>>,
         Grown, Len(infos') = Len(infos),
         infos' \in Seq([block : BlockIds, started : BOOLEAN]),
         CacheGood', blocks' \in Seq(DOMAIN infos'), Len(blocks') <= Capacity
  PROVE  IInv'
<1>1. /\ clients' \in [Clients -> Call] /\ clients'[c] = call
      /\ \A d \in Clients : d # c => clients'[d] = clients[d]
  BY DEF IInv, TypeOK, set_call
<1>2. \A b \in BlockIds : Cardinality(stored(b))' <= 1
  BY OneEntryKept
<1>3. built' = built /\ \A to \in StateIds : channel(to)' = channel(to)
  BY DEF built, channel
<1>4. TypeOK'
  BY <1>1, <1>2, <1>3 DEF IInv, TypeOK, state_vars
<1>5. \A m \in messages : m.client # c
  BY LegacyServiceAssumption DEF IInv, RequestsGood
<1>6. \A m \in messages : m.client # Nobody => m.client \in Clients /\ clients'[m.client] = clients[m.client]
  BY <1>1, <1>5 DEF IInv, TypeOK
<1>7. RequestsGood'
  BY <1>3, <1>6 DEF IInv, RequestsGood
<1>8. LastGood' /\ HighestNotCollected'
  BY LastKept DEF IInv, HighestNotCollected, state_vars
<1>9. \A d \in Clients : CallGood(clients[d])'
  <2>. SUFFICES ASSUME NEW d \in Clients PROVE CallGood(clients[d])'
    OBVIOUS
  <2>1. CASE d = c
    BY <1>1, <2>1 DEF CallGood
  <2>2. CASE d # c
    <3>1. PICK known : known = clients[d] /\ known = clients'[d]
      BY <1>1, <2>2
    <3>2. CallGood(known)'
      BY <3>1, CallKept DEF IInv
    <3>. QED  BY <3>1, <3>2 DEF CallGood
  <2>. QED  BY <2>1, <2>2
<1>. QED  BY <1>4, <1>7, <1>8, <1>9 DEF IInv

\* A step of a call that touches nothing but its local state.
LEMMA CallOnly ==
  ASSUME IInv, NEW c \in Clients, clients[c].phase # "sent",
         NEW call \in Call, CallGood(call), set_call(c, call),
         UNCHANGED <<state_vars, store, messages>>
  PROVE  IInv'
<1>1. Grown /\ infos' = infos /\ blocks' = blocks
  BY DEF Grown, store
<1>2. CallGood(call)'
  BY <1>1, CallKept
<1>3. CacheGood'
  BY <1>1 DEF IInv, CacheGood, stored
<1>. QED  BY <1>1, <1>2, <1>3, CallStep DEF IInv, TypeOK, store

\* A call that asks for nothing and holds nothing.
LEMMA NoCallGood ==
  ASSUME NEW result, result # "offered", [NoCall EXCEPT !.result = result] \in Call,
         NEW id \in StateIds
  PROVE  /\ CallGood([NoCall EXCEPT !.result = result])
         /\ [NoCall EXCEPT !.id = id, !.phase = "looking"] \in Call
         /\ CallGood([NoCall EXCEPT !.id = id, !.phase = "looking"])
  BY LegacyServiceAssumption DEF CallGood, NoCall, Call

\* A request is refused or taken up: only the call changes.
LEMMA AvailableStep ==
  ASSUME IInv, NEW c \in Clients, NEW id \in StateIds, available_blocks(c, id)
  PROVE  IInv'
<1>1. [NoCall EXCEPT !.result = "AlreadyDecided"] \in Call
  BY LegacyServiceAssumption DEF Call, NoCall, AvailableBlocksError
<1>2. PICK call : /\ call = IF refused(id) THEN [NoCall EXCEPT !.result = "AlreadyDecided"]
                            ELSE [NoCall EXCEPT !.id = id, !.phase = "looking"]
  OBVIOUS
<1>3. call \in Call /\ CallGood(call)
  BY <1>1, <1>2, NoCallGood
<1>4. set_call(c, call) /\ clients[c].phase # "sent"
  BY <1>2 DEF available_blocks
<1>. QED  BY <1>3, <1>4, CallOnly DEF available_blocks

\* So it does while the call looks for a task.
LEMMA LookingStep ==
  ASSUME IInv, NEW c \in Clients, find_builder_state(c) \/ fall_back(c)
  PROVE  IInv'
<1>1. PICK phase \in {"found", "waiting", "sending"} :
         set_call(c, [clients[c] EXCEPT !.phase = phase])
  BY DEF find_builder_state, fall_back
<1>2. clients[c] \in Call /\ CallGood(clients[c]) /\ clients[c].phase \in {"looking", "waiting"}
  BY DEF IInv, TypeOK, find_builder_state, fall_back, in_phase
<1>3. PICK call : call = [clients[c] EXCEPT !.phase = phase]
  OBVIOUS
<1>4. call \in Call /\ CallGood(call)
  BY <1>2, <1>3 DEF CallGood, Call
<1>. QED  BY <1>1, <1>2, <1>3, <1>4, CallOnly DEF find_builder_state, fall_back

\* An answer to a request for the VID commitment ends the call.
LEMMA VidResponseStep ==
  ASSUME IInv, NEW c \in Clients, vid_response(c)
  PROVE  IInv'
<1>1. PICK result \in {"vid", "WaitAndKeepGetError", "CouldNotGetVidInTime"} :
         set_call(c, [NoCall EXCEPT !.result = result])
  BY DEF vid_response, get
<1>2. result # "offered" /\ [NoCall EXCEPT !.result = result] \in Call
  BY LegacyServiceAssumption DEF Call, NoCall, ClaimBlockHeaderInputError
<1>3. CallGood([NoCall EXCEPT !.result = result])
  BY <1>2, LegacyServiceAssumption, NoCallGood
<1>. QED  BY <1>1, <1>2, <1>3, CallOnly DEF vid_response

\* A block that is found is the one made last for what was offered.
LEMMA FindBlockStep ==
  ASSUME IInv, NEW c \in Clients, NEW phase \in {"claiming", "header"}, find_block(c, phase)
  PROVE  IInv'
<1>. DEFINE b == wanted(c)
<1>1. clients[c] \in Call /\ CallGood(clients[c]) /\ clients[c].phase = "idle"
  BY DEF find_block, IInv, TypeOK
<1>2. CASE stored(b) = {}
  <2>1. [NoCall EXCEPT !.result = "NotFound"] \in Call
    BY LegacyServiceAssumption DEF Call, NoCall, ClaimBlockError
  <2>2. CallGood([NoCall EXCEPT !.result = "NotFound"])
    BY <2>1, LegacyServiceAssumption, NoCallGood
  <2>. QED  BY <1>1, <1>2, <2>1, <2>2, CallOnly DEF find_block, store
<1>3. CASE stored(b) # {}
  <2>1. PICK i \in stored(b) : /\ blocks' = used(without(b), i)
                               /\ set_call(c, [clients[c] EXCEPT !.phase = phase, !.info = i])
    BY <1>3 DEF find_block
  <2>2. PICK k \in DOMAIN blocks : i = blocks[k] /\ infos[i].block = b
    BY DEF stored
  <2>3. /\ i \in DOMAIN infos /\ DOMAIN infos = 1 .. Len(infos) /\ Len(infos) \in Nat
        /\ Len(infos) <= MaxInfos /\ infos' = infos
    <3>1. /\ infos \in Seq([block : BlockIds, started : BOOLEAN])
          /\ blocks \in Seq(DOMAIN infos) /\ Len(infos) <= MaxInfos /\ infos' = infos
      BY DEF IInv, TypeOK, find_block
    <3>2. blocks[k] \in DOMAIN infos
      BY <3>1
    <3>. QED  BY <2>2, <3>1, <3>2
  <2>4. \A j \in DOMAIN infos : infos[j].block = b => j <= i
    BY <2>2 DEF IInv, CacheGood
  <2>5. CacheGood' /\ blocks' \in Seq(DOMAIN infos') /\ Len(blocks') <= Capacity
    <3>1. DOMAIN infos \subseteq Nat
      BY <2>3
    <3>. HIDE DEF b
    <3>2. /\ i \in DOMAIN infos' /\ DOMAIN infos \subseteq DOMAIN infos' /\ DOMAIN infos' \subseteq Nat
          /\ \A j \in DOMAIN infos : infos'[j].block = infos[j].block
          /\ infos'[i].block = b
          /\ \A j \in DOMAIN infos' : infos'[j].block = b => j <= i
          /\ \A j \in DOMAIN infos' : infos'[j].block # b => j \in DOMAIN infos
      BY <2>2, <2>3, <2>4, <3>1, Zenon
    <3>. QED  BY <2>1, <3>2, CacheStep, Zenon DEF IInv
  <2>6. PICK call : call = [clients[c] EXCEPT !.phase = phase, !.info = i]
    OBVIOUS
  <2>7. i \in 0 .. MaxInfos
    BY <2>3, LegacyServiceAssumption
  <2>8. call \in Call
    BY <1>1, <2>6, <2>7 DEF Call
  <2>9. CallGood(call)
    <3>1. /\ call.phase = phase /\ call.info = i /\ call.claimed = clients[c].claimed
          /\ call.id = clients[c].id /\ call.hash = clients[c].hash
          /\ call.result = clients[c].result
      BY <1>1, <2>6 DEF Call
    <3>2. infos[i].block = BlockOf(call.id, call.hash)
      BY <2>2, <3>1 DEF wanted, BlockOf
    <3>3. call.claimed # 0 => infos[i].started \/ i > call.claimed
      <4>1. call.claimed # 0 => /\ call.claimed \in DOMAIN infos /\ infos[call.claimed].started
                                /\ infos[call.claimed].block = BlockOf(call.id, call.hash)
        BY <1>1, <3>1 DEF CallGood
      <4>2. call.claimed # 0 => call.claimed <= i
        BY <2>2, <2>4, <3>2, <4>1
      <4>. QED  BY <2>3, <4>1, <4>2
    <3>. QED  BY <1>1, <2>3, <3>1, <3>2, <3>3 DEF CallGood
  <2>10. Grown
    BY <2>3 DEF Grown
  <2>11. CallGood(call)'
    BY <2>9, <2>10, CallKept
  <2>. QED  BY <1>1, <2>1, <2>3, <2>5, <2>6, <2>8, <2>10, <2>11, CallStep DEF IInv, TypeOK, find_block
<1>. QED  BY <1>2, <1>3

\* A claim pulls the trigger of the BlockInfo it found.
LEMMA SendTriggerStep ==
  ASSUME IInv, NEW c \in Clients, send_vid_trigger(c)
  PROVE  IInv'
<1>1. /\ clients[c] \in Call /\ CallGood(clients[c]) /\ clients[c].phase = "claiming"
      /\ infos \in Seq([block : BlockIds, started : BOOLEAN])
      /\ blocks' = blocks
  BY DEF send_vid_trigger, IInv, TypeOK
<1>2. PICK i : i = clients[c].info
  OBVIOUS
<1>3. i \in DOMAIN infos /\ infos[i].block = BlockOf(clients[c].id, clients[c].hash)
  BY <1>1, <1>2 DEF CallGood
<1>4. infos' = [infos EXCEPT ![i].started = TRUE]
  BY <1>2 DEF send_vid_trigger, start
<1>5. /\ infos' \in Seq([block : BlockIds, started : BOOLEAN]) /\ Len(infos') = Len(infos)
      /\ DOMAIN infos' = DOMAIN infos
      /\ \A j \in DOMAIN infos : infos'[j].block = infos[j].block
      /\ \A j \in DOMAIN infos : infos[j].started => infos'[j].started
      /\ infos'[i].started
  <2>1. infos[i] \in [block : BlockIds, started : BOOLEAN]
    <3>. DEFINE Info == [block : BlockIds, started : BOOLEAN]
    <3>. HIDE DEF Info
    <3>1. infos \in Seq(Info)
      BY <1>1 DEF Info
    <3>2. infos[i] \in Info
      BY <1>3, <3>1
    <3>. QED  BY <3>2 DEF Info
  <2>2. PICK pulled : pulled = [infos[i] EXCEPT !.started = TRUE]
    OBVIOUS
  <2>3. /\ pulled \in [block : BlockIds, started : BOOLEAN]
        /\ pulled.block = infos[i].block /\ pulled.started = TRUE
    BY <2>1, <2>2
  <2>4. infos' = [infos EXCEPT ![i] = pulled]
    BY <1>4, <2>2
  <2>5. /\ infos' \in Seq([block : BlockIds, started : BOOLEAN]) /\ Len(infos') = Len(infos)
        /\ DOMAIN infos' = DOMAIN infos /\ infos'[i] = pulled
        /\ \A j \in DOMAIN infos : j # i => infos'[j] = infos[j]
    <3>. DEFINE Info == [block : BlockIds, started : BOOLEAN]
    <3>. HIDE DEF Info
    <3>1. infos \in Seq(Info) /\ pulled \in Info /\ i \in DOMAIN infos
      BY <1>1, <1>3, <2>3 DEF Info
    <3>2. PICK next : next = [infos EXCEPT ![i] = pulled]
      OBVIOUS
    <3>3. next \in Seq(Info) /\ Len(next) = Len(infos)
      BY <3>1, <3>2
    <3>4. /\ DOMAIN next = DOMAIN infos /\ next[i] = pulled
          /\ \A j \in DOMAIN infos : j # i => next[j] = infos[j]
      BY <3>1, <3>2
    <3>. QED  BY <2>4, <3>2, <3>3, <3>4 DEF Info
  <2>. QED  BY <2>3, <2>5
<1>6. Grown
  BY <1>5 DEF Grown
<1>7. CacheGood'
  <2>1. \A k \in DOMAIN blocks : blocks[k] \in DOMAIN infos
    BY DEF IInv, TypeOK
  <2>2. \A b : stored(b)' = stored(b)
    BY <1>1, <1>5, <2>1 DEF stored
  <2>. QED  BY <1>1, <1>5, <2>1, <2>2 DEF IInv, CacheGood
<1>8. PICK call : call = [clients[c] EXCEPT !.phase = "idle", !.info = 0, !.claimed = clients[c].info]
  OBVIOUS
<1>9. /\ call.phase = "idle" /\ call.info = 0 /\ call.claimed = i
      /\ call.id = clients[c].id /\ call.hash = clients[c].hash /\ call.result = clients[c].result
      /\ call \in Call
  <2>1. 0 \in 0 .. MaxInfos
    BY LegacyServiceAssumption
  <2>. QED  BY <1>1, <1>2, <1>8, <2>1 DEF Call
<1>10. CallGood(call)'
  <2>1. call.result = "offered" => WasBuilt(BlockOf(call.id, call.hash))'
    BY <1>1, <1>5, <1>9 DEF CallGood, WasBuilt
  <2>. QED  BY <1>3, <1>5, <1>9, <2>1 DEF CallGood
<1>. QED  BY <1>1, <1>5, <1>6, <1>7, <1>8, <1>9, <1>10, CallStep DEF IInv, TypeOK, send_vid_trigger

----------------------------------------------------------------------------
(* Builder states come and go *)

\* A step on the handles alone.
LEMMA HandlesOnly ==
  ASSUME IInv, UNCHANGED <<store, messages, clients>>,
         handles' \subseteq StateIds, highest_view_num_builder_id' \in handles',
         last_garbage_collected_view_num' \in Nat, HighestNotCollected'
  PROVE  IInv'
<1>1. /\ infos' = infos /\ blocks' = blocks /\ messages' = messages /\ clients' = clients
      /\ builder_state_to_last_built_block' = builder_state_to_last_built_block
  BY DEF store
<1>2. \A b : stored(b)' = stored(b)
  BY <1>1 DEF stored
<1>3. built' = built /\ \A to : channel(to)' = channel(to)
  BY <1>1 DEF built, channel
<1>4. TypeOK'
  BY <1>1, <1>2, <1>3 DEF IInv, TypeOK
<1>5. RequestsGood'
  BY <1>1, <1>3 DEF IInv, RequestsGood
<1>6. CacheGood' /\ LastGood'
  BY <1>1, <1>2 DEF IInv, CacheGood, LastGood, WasBuilt
<1>7. \A c \in Clients : CallGood(clients[c])'
  BY <1>1 DEF IInv, CallGood, WasBuilt
<1>. QED  BY <1>4, <1>5, <1>6, <1>7 DEF IInv

\* A new state is the highest only if its view is above all before.
LEMMA RegisterStep ==
  ASSUME IInv, NEW id \in StateIds, register_builder_state(id)
  PROVE  IInv'
<1>1. /\ id.parent_view \in Nat /\ highest_view_num_builder_id.parent_view \in Nat
      /\ last_garbage_collected_view_num \in Nat
      /\ last_garbage_collected_view_num <= highest_view_num_builder_id.parent_view
  BY LegacyServiceAssumption DEF IInv, TypeOK, HighestNotCollected
<1>2. highest_view_num_builder_id' \in handles' /\ handles' \subseteq StateIds
  BY DEF IInv, TypeOK, register_builder_state
<1>3. HighestNotCollected'
  BY <1>1 DEF register_builder_state, HighestNotCollected
<1>. QED  BY <1>1, <1>2, <1>3, HandlesOnly DEF register_builder_state

\* Whatever view is decided, the highest state is kept.
LEMMA RemoveStep ==
  ASSUME IInv, NEW view \in Decides, remove_handles(view)
  PROVE  IInv'
<1>1. /\ highest_view_num_builder_id.parent_view \in Nat /\ view \in Nat
      /\ highest_view_num_builder_id \in handles /\ handles \subseteq StateIds
  BY LegacyServiceAssumption DEF IInv, TypeOK
<1>2. cutoff_of(view) \in Nat /\ cutoff_of(view) <= highest_view_num_builder_id.parent_view
  BY <1>1 DEF cutoff_of
<1>3. /\ handles' = {id \in handles : id.parent_view >= cutoff_of(view)}
      /\ last_garbage_collected_view_num' = IF cutoff_of(view) > 0 THEN cutoff_of(view) - 1 ELSE 0
      /\ highest_view_num_builder_id' = highest_view_num_builder_id
  BY DEF remove_handles
<1>4. highest_view_num_builder_id' \in handles' /\ handles' \subseteq StateIds
  BY <1>1, <1>2, <1>3
<1>5. last_garbage_collected_view_num' \in Nat /\ HighestNotCollected'
  BY <1>1, <1>2, <1>3 DEF HighestNotCollected
<1>. QED  BY <1>4, <1>5, HandlesOnly DEF remove_handles

----------------------------------------------------------------------------
(* Requests and their answers *)

\* The requests are finitely many, and so are those in a channel and those
\* whose block is built.
LEMMA FiniteRequests ==
  ASSUME IInv
  PROVE  /\ IsFiniteSet(messages) /\ IsFiniteSet(built) /\ Cardinality(built) \in Nat
         /\ \A to : IsFiniteSet(channel(to)) /\ Cardinality(channel(to)) \in Nat
<1>1. IsFiniteSet(messages)
  BY DEF IInv, RequestsGood
<1>2. built \in SUBSET messages /\ \A to : channel(to) \in SUBSET messages
  BY DEF built, channel
<1>3. \A S : S \in SUBSET messages => IsFiniteSet(S) /\ Cardinality(S) \in Nat
  BY <1>1, FS_Subset, FS_CardinalityType
<1>. QED  BY <1>1, <1>2, <1>3

\* An image is not larger.
LEMMA ImageBound ==
  ASSUME NEW S, IsFiniteSet(S), NEW T, NEW f \in [S -> T], T = {f[x] : x \in S}
  PROVE  IsFiniteSet(T) /\ Cardinality(T) <= Cardinality(S)
<1>1. f \in Surjection(S, T)
  BY DEF Surjection
<1>. QED  BY <1>1, FS_Surjection

\* A step of requests and calls that builds nothing.
LEMMA RequestsOnly ==
  ASSUME IInv, UNCHANGED <<state_vars, store>>,
         messages' \subseteq [client : Clients \cup {Nobody}, id : StateIds, to : StateIds,
                              hash : Payloads \cup {NoHash}],
         \A to \in StateIds : Cardinality(channel(to)') <= ChannelCapacity,
         clients' \in [Clients -> Call], RequestsGood',
         \A c \in Clients : CallGood(clients'[c])
  PROVE  IInv'
<1>1. /\ infos' = infos /\ blocks' = blocks /\ handles' = handles
      /\ builder_state_to_last_built_block' = builder_state_to_last_built_block
      /\ highest_view_num_builder_id' = highest_view_num_builder_id
      /\ last_garbage_collected_view_num' = last_garbage_collected_view_num
  BY DEF store, state_vars
<1>2. \A b : stored(b)' = stored(b)
  BY <1>1 DEF stored
<1>3. TypeOK'
  BY <1>1, <1>2 DEF IInv, TypeOK
<1>4. CacheGood' /\ LastGood' /\ HighestNotCollected'
  BY <1>1, <1>2 DEF IInv, CacheGood, LastGood, WasBuilt, HighestNotCollected
<1>5. \A c \in Clients : CallGood(clients[c])'
  BY <1>1 DEF CallGood, WasBuilt
<1>. QED  BY <1>3, <1>4, <1>5 DEF IInv

\* A request is sent: no other of the client's is on its way.
LEMMA BroadcastStep ==
  ASSUME IInv, NEW c \in Clients, broadcast(c)
  PROVE  IInv'
<1>1. PICK to : /\ to = IF clients[c].phase = "found" THEN clients[c].id
                         ELSE get_channel_for_matching_builder_or_highest_view_builder(clients[c].id)
  OBVIOUS
<1>2. PICK m : m = [client |-> c, id |-> clients[c].id, to |-> to, hash |-> NoHash]
  OBVIOUS
<1>3. /\ clients[c] \in Call /\ CallGood(clients[c]) /\ clients[c].phase \in {"found", "sending"}
      /\ Cardinality(channel(to)) < ChannelCapacity
      /\ messages' = messages \cup {m} /\ UNCHANGED <<state_vars, store>>
      /\ clients' = [clients EXCEPT ![c] = [clients[c] EXCEPT !.phase = "sent"]]
  BY <1>1, <1>2 DEF broadcast, set_call, IInv, TypeOK
<1>4. to \in StateIds
  BY <1>1, <1>3 DEF get_channel_for_matching_builder_or_highest_view_builder, Call, IInv, TypeOK
<1>5. PICK call : call = [clients[c] EXCEPT !.phase = "sent"]
  OBVIOUS
<1>6. call \in Call /\ CallGood(call) /\ call.phase = "sent" /\ call.id = clients[c].id
  BY <1>3, <1>5 DEF Call, CallGood
<1>7. /\ clients' \in [Clients -> Call] /\ clients'[c] = call
      /\ \A d \in Clients : d # c => clients'[d] = clients[d]
  BY <1>3, <1>5, <1>6 DEF IInv, TypeOK
<1>8. m.client = c /\ m.id = call.id /\ m.to = to /\ m.hash = NoHash
  BY <1>2, <1>6
<1>9. messages' \subseteq [client : Clients \cup {Nobody}, id : StateIds, to : StateIds,
                           hash : Payloads \cup {NoHash}]
  BY <1>2, <1>3, <1>4 DEF IInv, TypeOK, Call
<1>10. \A n \in messages : n.client # c /\ n.client \in Clients \cup {Nobody}
  BY <1>3, LegacyServiceAssumption DEF IInv, RequestsGood, TypeOK
<1>11. RequestsGood'
  <2>1. IsFiniteSet(messages')
    BY <1>3, FiniteRequests, FS_AddElement
  <2>2. built' = built /\ infos' = infos
    BY <1>3, <1>8 DEF built, store
  <2>3. \A n \in messages : n.client # Nobody => clients'[n.client] = clients[n.client]
    BY <1>7, <1>10
  <2>. QED  BY <1>3, <1>6, <1>7, <1>8, <1>10, <2>1, <2>2, <2>3 DEF IInv, RequestsGood
<1>12. ASSUME NEW t \in StateIds PROVE Cardinality(channel(t)') <= ChannelCapacity
  <2>1. CASE t = to
    <3>1. channel(t)' = channel(to) \cup {m}
      BY <1>3, <1>8, <2>1 DEF channel
    <3>2. m \notin channel(to)
      BY <1>8, <1>10 DEF channel
    <3>3. IsFiniteSet(channel(to)) /\ Cardinality(channel(to)) \in Nat
      BY FiniteRequests
    <3>4. Cardinality(channel(to) \cup {m}) = Cardinality(channel(to)) + 1
      BY <3>2, <3>3, FS_AddElement
    <3>. QED  BY <1>3, <3>1, <3>3, <3>4, LegacyServiceAssumption
  <2>2. CASE t # to
    <3>1. channel(t)' = channel(t)
      BY <1>3, <1>8, <2>2 DEF channel
    <3>. QED  BY <3>1 DEF IInv, TypeOK
  <2>. QED  BY <2>1, <2>2
<1>13. \A d \in Clients : CallGood(clients'[d])
  BY <1>6, <1>7 DEF IInv
<1>. QED  BY <1>3, <1>7, <1>9, <1>11, <1>12, <1>13, RequestsOnly

\* A request is dropped, or a block built for the state it asks for.
LEMMA ProcessStep ==
  ASSUME IInv, NEW m \in messages, process_block_request(m)
  PROVE  IInv'
<1>1. /\ m.hash = NoHash /\ UNCHANGED <<state_vars, store, clients>>
      /\ m \in [client : Clients \cup {Nobody}, id : StateIds, to : StateIds,
                 hash : Payloads \cup {NoHash}]
  BY DEF process_block_request, IInv, TypeOK
<1>2. clients' \in [Clients -> Call] /\ clients' = clients /\ infos' = infos
  BY <1>1 DEF IInv, TypeOK, store
<1>3. \A c \in Clients : CallGood(clients'[c])
  BY <1>2 DEF IInv
<1>4. ASSUME NEW to, channel(to)' \subseteq channel(to), to \in StateIds
      PROVE  Cardinality(channel(to)') <= ChannelCapacity
  <2>1. IsFiniteSet(channel(to)) /\ Cardinality(channel(to)) \in Nat
    BY FiniteRequests
  <2>2. Cardinality(channel(to)') <= Cardinality(channel(to)) /\ IsFiniteSet(channel(to)')
    BY <1>4, <2>1, FS_Subset
  <2>3. Cardinality(channel(to)') \in Nat
    BY <2>2, FS_CardinalityType
  <2>4. Cardinality(channel(to)) <= ChannelCapacity
    BY <1>4 DEF IInv, TypeOK
  <2>. QED  BY <2>1, <2>2, <2>3, <2>4, LegacyServiceAssumption
<1>5. CASE messages' = messages \ {m}
  <2>1. IsFiniteSet(messages')
    BY <1>5, FiniteRequests, FS_RemoveElement
  <2>2. built' = built
    BY <1>1, <1>5 DEF built
  <2>3. RequestsGood'
    BY <1>2, <1>5, <2>1, <2>2 DEF IInv, RequestsGood
  <2>4. messages' \subseteq messages /\ \A to : channel(to)' \subseteq channel(to)
    BY <1>5 DEF channel
  <2>5. \A to \in StateIds : Cardinality(channel(to)') <= ChannelCapacity
    BY <1>4, <2>4
  <2>6. messages' \subseteq [client : Clients \cup {Nobody}, id : StateIds, to : StateIds,
                             hash : Payloads \cup {NoHash}]
    BY <2>4 DEF IInv, TypeOK
  <2>. QED  BY <1>1, <1>2, <1>3, <2>3, <2>5, <2>6, RequestsOnly
<1>6. ASSUME NEW hash \in Payloads, accepts(m), Len(infos) + Cardinality(built) < MaxInfos,
             messages' = (messages \ {m}) \cup {[m EXCEPT !.hash = hash]}
      PROVE  IInv'
  <2>1. PICK n : n = [m EXCEPT !.hash = hash]
    OBVIOUS
  <2>2. /\ n.client = m.client /\ n.id = m.id /\ n.to = m.to /\ n.hash = hash /\ hash # NoHash
        /\ n \in [client : Clients \cup {Nobody}, id : StateIds, to : StateIds,
                   hash : Payloads \cup {NoHash}]
    BY <1>1, <2>1, LegacyServiceAssumption
  <2>3. messages' = (messages \ {m}) \cup {n}
    BY <1>6, <2>1
  <2>4. messages' \subseteq [client : Clients \cup {Nobody}, id : StateIds, to : StateIds,
                             hash : Payloads \cup {NoHash}]
    BY <2>2, <2>3 DEF IInv, TypeOK
  <2>5. \A to : channel(to)' \subseteq channel(to)
    BY <2>2, <2>3 DEF channel
  <2>6. \A to \in StateIds : Cardinality(channel(to)') <= ChannelCapacity
    BY <1>4, <2>5
  <2>7. IsFiniteSet(messages')
    <3>1. IsFiniteSet(messages \ {m})
      BY FiniteRequests, FS_RemoveElement
    <3>. QED  BY <2>3, <3>1, FS_AddElement
  <2>8. Len(infos') + Cardinality(built') <= MaxInfos
    <3>1. built' = built \cup {n}
      BY <1>1, <2>2, <2>3 DEF built
    <3>2. IsFiniteSet(built) /\ Cardinality(built) \in Nat /\ Len(infos) \in Nat
      BY FiniteRequests DEF IInv, TypeOK
    <3>3. Cardinality(built \cup {n}) \in {Cardinality(built), Cardinality(built) + 1}
      BY <3>2, FS_AddElement
    <3>. QED  BY <1>2, <1>6, <3>1, <3>2, <3>3, LegacyServiceAssumption
  <2>9. n.to = n.id
    BY <1>6, <2>2 DEF accepts
  <2>10. RequestsGood'
    <3>1. ASSUME NEW x \in messages'
          PROVE  /\ x.hash # NoHash => x.to = x.id
                 /\ x.client # Nobody => clients[x.client].phase = "sent" /\ clients[x.client].id = x.id
      BY <2>2, <2>3, <2>9 DEF IInv, RequestsGood
    <3>2. ASSUME NEW x \in messages', NEW y \in messages', x.client = y.client, x.client # Nobody
          PROVE  x = y
      BY <2>2, <2>3, <3>2 DEF IInv, RequestsGood
    <3>. QED  BY <1>2, <2>7, <2>8, <3>1, <3>2 DEF RequestsGood
  <2>. QED  BY <1>1, <1>2, <1>3, <2>4, <2>6, <2>10, RequestsOnly
<1>. QED  BY <1>5, <1>6 DEF process_block_request

\* A client that stops waiting leaves its request to nobody, and is offered
\* what was built for the same state before.
LEMMA WaitedStep ==
  ASSUME IInv, NEW c \in Clients, waited_too_long(c)
  PROVE  IInv'
<1>. DEFINE Message == [client : Clients \cup {Nobody}, id : StateIds, to : StateIds,
                       hash : Payloads \cup {NoHash}]
            last == builder_state_to_last_built_block
<1>1. /\ clients[c] \in Call /\ CallGood(clients[c]) /\ clients[c].phase = "sent"
      /\ messages \subseteq Message /\ UNCHANGED <<state_vars, store>>
  BY DEF waited_too_long, IInv, TypeOK
<1>2. PICK call : call = IF clients[c].id \in DOMAIN last
                         THEN [clients[c] EXCEPT !.phase = "idle", !.result = "offered",
                                 !.hash = last[clients[c].id]]
                         ELSE [NoCall EXCEPT !.result = "NoBlocksAvailable"]
  OBVIOUS
<1>3. call \in Call /\ CallGood(call)
  <2>1. CASE clients[c].id \in DOMAIN last
    <3>1. /\ call.phase = "idle" /\ call.result = "offered" /\ call.hash = last[clients[c].id]
          /\ call.id = clients[c].id /\ call.claimed = clients[c].claimed /\ call.info = clients[c].info
      BY <1>1, <1>2, <2>1 DEF Call
    <3>2. last[clients[c].id] \in Payloads
      BY <2>1 DEF IInv, TypeOK
    <3>3. call \in Call
      BY <1>1, <1>2, <2>1, <3>2 DEF Call
    <3>4. WasBuilt(BlockOf(call.id, call.hash))
      BY <2>1, <3>1 DEF IInv, LastGood
    <3>. QED  BY <1>1, <3>1, <3>3, <3>4 DEF CallGood
  <2>2. CASE clients[c].id \notin DOMAIN last
    <3>1. [NoCall EXCEPT !.result = "NoBlocksAvailable"] \in Call
      BY LegacyServiceAssumption DEF Call, NoCall, AvailableBlocksError
    <3>2. CallGood([NoCall EXCEPT !.result = "NoBlocksAvailable"])
      BY <3>1, LegacyServiceAssumption, NoCallGood
    <3>. QED  BY <1>2, <2>2, <3>1, <3>2
  <2>. QED  BY <2>1, <2>2
<1>4. /\ clients' \in [Clients -> Call] /\ clients'[c] = call
      /\ \A d \in Clients : d # c => clients'[d] = clients[d]
  BY <1>2, <1>3 DEF waited_too_long, set_call, IInv, TypeOK
<1>5. \A d \in Clients : CallGood(clients'[d])
  BY <1>3, <1>4 DEF IInv
<1>. DEFINE left(m) == IF m.client = c THEN [m EXCEPT !.client = Nobody] ELSE m
<1>6. messages' = {left(m) : m \in messages}
  BY DEF waited_too_long
<1>7. ASSUME NEW m \in messages
      PROVE  /\ left(m).client = IF m.client = c THEN Nobody ELSE m.client
             /\ left(m).id = m.id /\ left(m).to = m.to /\ left(m).hash = m.hash
             /\ left(m) \in Message
  BY <1>1
<1>. HIDE DEF left
<1>8. ASSUME NEW S, NEW T, S \subseteq messages, T = {left(m) : m \in S}
      PROVE  IsFiniteSet(T) /\ Cardinality(T) <= Cardinality(S) /\ Cardinality(T) \in Nat
                 /\ Cardinality(S) \in Nat
  <2>1. IsFiniteSet(S)
    BY <1>8, FiniteRequests, FS_Subset
  <2>2. PICK f : f = [m \in S |-> left(m)]
    OBVIOUS
  <2>3. f \in [S -> T] /\ T = {f[m] : m \in S}
    BY <1>8, <2>2
  <2>4. IsFiniteSet(T) /\ Cardinality(T) <= Cardinality(S)
    BY <2>1, <2>3, ImageBound
  <2>. QED  BY <2>1, <2>4, FS_CardinalityType
<1>9. messages' \subseteq Message
  BY <1>6, <1>7
<1>10. ASSUME NEW to \in StateIds PROVE Cardinality(channel(to)') <= ChannelCapacity
  <2>1. channel(to)' = {left(m) : m \in channel(to)}
    BY <1>6, <1>7 DEF channel
  <2>2. channel(to) \subseteq messages
    BY DEF channel
  <2>3. /\ Cardinality(channel(to)') <= Cardinality(channel(to))
        /\ Cardinality(channel(to)') \in Nat /\ Cardinality(channel(to)) \in Nat
    BY <1>8, <2>1, <2>2
  <2>4. Cardinality(channel(to)) <= ChannelCapacity
    BY DEF IInv, TypeOK
  <2>. QED  BY <2>3, <2>4, LegacyServiceAssumption
<1>11. RequestsGood'
  <2>1. IsFiniteSet(messages')
    BY <1>6, <1>8
  <2>2. Len(infos') + Cardinality(built') <= MaxInfos
    <3>1. built' = {left(m) : m \in built} /\ built \subseteq messages /\ infos' = infos
      BY <1>1, <1>6, <1>7 DEF built, store
    <3>2. /\ Cardinality(built') <= Cardinality(built)
          /\ Cardinality(built') \in Nat /\ Cardinality(built) \in Nat
      BY <1>8, <3>1
    <3>3. Len(infos) + Cardinality(built) <= MaxInfos /\ Len(infos) \in Nat
      BY DEF IInv, RequestsGood, TypeOK
    <3>. QED  BY <3>1, <3>2, <3>3, LegacyServiceAssumption
  <2>3. ASSUME NEW m \in messages
        PROVE  /\ left(m).hash # NoHash => left(m).to = left(m).id
               /\ left(m).client # Nobody => /\ clients'[left(m).client].phase = "sent"
                                             /\ clients'[left(m).client].id = left(m).id
    <3>1. m.client \in Clients \cup {Nobody}
      BY <1>1
    <3>. QED  BY <1>4, <1>7, <3>1 DEF IInv, RequestsGood
  <2>4. ASSUME NEW m \in messages, NEW n \in messages,
               left(m).client = left(n).client, left(m).client # Nobody
        PROVE  left(m) = left(n)
    BY <1>7, <2>4 DEF IInv, RequestsGood
  <2>. QED  BY <1>6, <2>1, <2>2, <2>3, <2>4 DEF RequestsGood
<1>. QED  BY <1>1, <1>4, <1>5, <1>9, <1>10, <1>11, RequestsOnly

\* A block that was built is cached, remembered for the state asked for, and
\* offered to the client that asked if it still waits: to it the block is one
\* for the view it asked for.
LEMMA UpdateStep ==
  ASSUME IInv, NEW m \in messages, update_global_state(m)
  PROVE  IInv'
<1>. DEFINE Info == [block : BlockIds, started : BOOLEAN]
            last == builder_state_to_last_built_block
            block == [view |-> m.to.parent_view, hash |-> m.hash]
<1>1. /\ m.hash # NoHash /\ m.to = m.id /\ UNCHANGED state_vars
      /\ m.client \in Clients \cup {Nobody} /\ m.id \in StateIds /\ m.hash \in Payloads
  BY DEF update_global_state, IInv, TypeOK, RequestsGood
<1>2. infos' = Append(infos, [block |-> block, started |-> FALSE])
  BY DEF update_global_state
<1>3. infos \in Seq(Info) /\ Len(infos) \in Nat /\ block = BlockOf(m.id, m.hash)
  BY <1>1 DEF IInv, TypeOK, BlockOf
<1>4. [block |-> block, started |-> FALSE] \in Info
  BY <1>1 DEF BlockIds
<1>5. PICK info \in Info : info.block = block /\ infos' = Append(infos, info)
  BY <1>2, <1>4
<1>. HIDE DEF Info, block
<1>6. /\ infos' \in Seq(Info) /\ Len(infos') = Len(infos) + 1
      /\ DOMAIN infos' = 1 .. Len(infos) + 1 /\ DOMAIN infos = 1 .. Len(infos)
      /\ infos'[Len(infos) + 1] = info
      /\ \A j \in DOMAIN infos : infos'[j] = infos[j]
  BY <1>3, <1>5
<1>7. Grown
  BY <1>3, <1>6 DEF Grown
<1>8. CacheGood' /\ blocks' \in Seq(DOMAIN infos') /\ Len(blocks') <= Capacity
  <2>1. PICK i : i = Len(infos) + 1
    OBVIOUS
  <2>2. /\ i \in DOMAIN infos' /\ DOMAIN infos \subseteq DOMAIN infos' /\ DOMAIN infos' \subseteq Nat
        /\ \A j \in DOMAIN infos' : j <= i /\ (j # i => j \in DOMAIN infos)
    BY <1>3, <1>6, <2>1
  <2>3. /\ \A j \in DOMAIN infos : infos'[j].block = infos[j].block
        /\ infos'[i].block = block
    <3>1. infos'[i] = info /\ info.block = block /\ \A j \in DOMAIN infos : infos'[j] = infos[j]
      BY <1>5, <1>6, <2>1, Zenon
    <3>. QED  BY <3>1, Zenon
  <2>4. blocks' = used(without(block), i)
    BY <2>1 DEF update_global_state, block
  <2>5. /\ \A j \in DOMAIN infos' : infos'[j].block = block => j <= i
        /\ \A j \in DOMAIN infos' : infos'[j].block # block => j \in DOMAIN infos
    BY <2>2, <2>3, Zenon
  <2>. QED  BY <2>2, <2>3, <2>4, <2>5, CacheStep, Zenon DEF IInv
<1>9. WasBuilt(block)'
  BY <1>3, <1>5, <1>6 DEF WasBuilt
<1>10. last' = [id \in DOMAIN last \cup {m.id} |-> IF id = m.id THEN m.hash ELSE last[id]]
  BY DEF update_global_state
<1>11. /\ LastGood' /\ (DOMAIN last)' \subseteq StateIds
       /\ \A id \in (DOMAIN last)' : last'[id] \in Payloads
  <2>1. /\ (DOMAIN last)' = DOMAIN last \cup {m.id} /\ last'[m.id] = m.hash
        /\ \A id \in DOMAIN last : id # m.id => last'[id] = last[id]
    BY <1>10
  <2>2. \A id \in DOMAIN last : \E j \in DOMAIN infos' : infos'[j].block = BlockOf(id, last[id])
    BY <1>7 DEF IInv, LastGood, WasBuilt, Grown
  <2>3. \E j \in DOMAIN infos' : infos'[j].block = BlockOf(m.id, m.hash)
    BY <1>3, <1>9 DEF WasBuilt, block
  <2>4. LastGood'
    BY <2>1, <2>2, <2>3, Zenon DEF LastGood, WasBuilt, BlockOf
  <2>. QED  BY <1>1, <2>1, <2>4 DEF IInv, TypeOK
<1>12. messages' = messages \ {m}
  BY DEF update_global_state
<1>13. \A to : channel(to)' = channel(to)
  BY <1>1, <1>12 DEF channel
<1>14. Len(infos') + Cardinality(built') <= MaxInfos
  <2>1. built' = built \ {m} /\ m \in built
    BY <1>1, <1>12 DEF built
  <2>2. IsFiniteSet(built) /\ Cardinality(built) \in Nat
    BY FiniteRequests
  <2>3. Cardinality(built \ {m}) = Cardinality(built) - 1
    BY <2>1, <2>2, FS_RemoveElement
  <2>4. Len(infos) + Cardinality(built) <= MaxInfos
    BY DEF IInv, RequestsGood
  <2>. QED  BY <1>3, <1>6, <2>1, <2>2, <2>3, <2>4, LegacyServiceAssumption
<1>15. Len(infos') <= MaxInfos
  <2>1. IsFiniteSet(built')
    BY <1>12, FiniteRequests, FS_Subset DEF built
  <2>2. Cardinality(built') \in Nat
    BY <2>1, FS_CardinalityType
  <2>. QED  BY <1>3, <1>6, <1>14, <2>2, LegacyServiceAssumption
<1>16. /\ clients' \in [Clients -> Call]
       /\ \A d \in Clients : d # m.client => clients'[d] = clients[d]
       /\ \A d \in Clients : CallGood(clients[d])'
  <2>1. CASE m.client = Nobody
    <3>1. clients' = clients
      BY <2>1 DEF update_global_state
    <3>2. ASSUME NEW d \in Clients PROVE CallGood(clients[d])'
      <4>1. PICK known : known = clients[d] /\ known = clients'[d]
        BY <3>1
      <4>2. CallGood(known)'
        BY <1>7, <4>1, CallKept DEF IInv
      <4>. QED  BY <4>1, <4>2 DEF CallGood
    <3>. QED  BY <3>1, <3>2 DEF IInv, TypeOK
  <2>2. CASE m.client # Nobody
    <3>1. PICK c \in Clients : c = m.client
      BY <1>1, <2>2
    <3>2. /\ clients[c] \in Call /\ CallGood(clients[c])
          /\ clients[c].phase = "sent" /\ clients[c].id = m.id
      BY <2>2, <3>1 DEF IInv, RequestsGood, TypeOK
    <3>3. PICK call : call = [clients[c] EXCEPT !.phase = "idle", !.hash = m.hash, !.result = "offered"]
      OBVIOUS
    <3>4. clients' = [clients EXCEPT ![c] = call]
      BY <2>2, <3>1, <3>3 DEF update_global_state, set_call
    <3>5. /\ call \in Call /\ call.phase = "idle" /\ call.hash = m.hash /\ call.id = m.id
          /\ call.claimed = 0
      BY <1>1, <3>2, <3>3 DEF Call, CallGood
    <3>6. /\ clients' \in [Clients -> Call] /\ clients'[c] = call
          /\ \A d \in Clients : d # c => clients'[d] = clients[d]
      BY <3>4, <3>5 DEF IInv, TypeOK
    <3>7. WasBuilt(BlockOf(call.id, call.hash))'
      BY <1>3, <1>9, <3>5
    <3>8. CallGood(call)'
      BY <3>5, <3>7 DEF CallGood
    <3>9. ASSUME NEW d \in Clients PROVE CallGood(clients[d])'
      <4>1. CASE d = c
        BY <3>6, <3>8, <4>1 DEF CallGood
      <4>2. CASE d # c
        <5>1. PICK known : known = clients[d] /\ known = clients'[d]
          BY <3>6, <4>2
        <5>2. CallGood(known)'
          BY <1>7, <5>1, CallKept DEF IInv
        <5>. QED  BY <5>1, <5>2 DEF CallGood
      <4>. QED  BY <4>1, <4>2
    <3>. QED  BY <3>1, <3>6, <3>9
  <2>. QED  BY <2>1, <2>2
<1>17. RequestsGood'
  <2>1. IsFiniteSet(messages')
    BY <1>12, FiniteRequests, FS_RemoveElement
  <2>2. ASSUME NEW n \in messages'
        PROVE  /\ n.hash # NoHash => n.to = n.id
               /\ n.client # Nobody => clients'[n.client].phase = "sent" /\ clients'[n.client].id = n.id
    <3>1. n \in messages /\ n # m /\ n.client \in Clients \cup {Nobody}
      BY <1>12 DEF IInv, TypeOK
    <3>2. n.client # Nobody => n.client # m.client
      BY <3>1 DEF IInv, RequestsGood
    <3>. QED  BY <1>16, <3>1, <3>2 DEF IInv, RequestsGood
  <2>. QED  BY <1>12, <1>14, <2>1, <2>2 DEF IInv, RequestsGood
<1>18. \A b \in BlockIds : Cardinality(stored(b))' <= 1
  BY <1>8, OneEntryKept
<1>19. TypeOK'
  BY <1>1, <1>6, <1>8, <1>11, <1>12, <1>13, <1>15, <1>16, <1>18 DEF IInv, TypeOK, state_vars, Info
<1>20. HighestNotCollected'
  BY <1>1 DEF IInv, HighestNotCollected, state_vars
<1>. QED  BY <1>8, <1>11, <1>16, <1>17, <1>19, <1>20 DEF IInv

----------------------------------------------------------------------------
(* The invariant *)

\* In the initial state nothing is asked for and nothing built.
LEMMA InitIInv == Init => IInv
<1>. SUFFICES ASSUME Init PROVE IInv
  OBVIOUS
<1>1. /\ infos = <<>> /\ blocks = <<>> /\ messages = {}
      /\ DOMAIN builder_state_to_last_built_block = {}
  BY DEF Init
<1>2. \A b : stored(b) = {}
  BY <1>1 DEF stored
<1>3. built = {} /\ \A to : channel(to) = {}
  BY <1>1 DEF built, channel
<1>4. Cardinality({}) = 0 /\ IsFiniteSet({})
  BY FS_EmptySet
<1>5. NoCall \in Call /\ CallGood(NoCall)
  BY LegacyServiceAssumption DEF NoCall, Call, CallGood
<1>6. clients \in [Clients -> Call] /\ \A c \in Clients : CallGood(clients[c])
  BY <1>5 DEF Init
<1>7. infos \in Seq([block : BlockIds, started : BOOLEAN]) /\ blocks \in Seq(DOMAIN infos)
  BY <1>1
<1>8. Len(infos) = 0 /\ Len(blocks) = 0
  BY <1>1
<1>9. TypeOK
  <2>1. /\ Len(infos) <= MaxInfos /\ Len(blocks) <= Capacity
        /\ \A to \in StateIds : Cardinality(channel(to)) <= ChannelCapacity
        /\ \A b \in BlockIds : Cardinality(stored(b)) <= 1
    <3>1. 0 <= MaxInfos /\ 0 <= Capacity /\ 0 <= ChannelCapacity /\ 0 <= 1
      BY LegacyServiceAssumption
    <3>. QED  BY <1>2, <1>3, <1>4, <1>8, <3>1, Zenon
  <2>2. /\ handles \subseteq StateIds /\ highest_view_num_builder_id \in handles
        /\ last_garbage_collected_view_num \in Nat
    BY LegacyServiceAssumption DEF Init
  <2>. QED  BY <1>1, <1>6, <1>7, <2>1, <2>2 DEF TypeOK
<1>10. RequestsGood
  <2>1. Len(infos) + Cardinality(built) <= MaxInfos
    <3>1. Len(infos) = 0 /\ Cardinality(built) = 0
      BY <1>3, <1>4, <1>8
    <3>. QED  BY <3>1, LegacyServiceAssumption
  <2>. QED  BY <1>1, <1>4, <2>1 DEF RequestsGood
<1>11. CacheGood /\ LastGood
  BY <1>1 DEF CacheGood, LastGood
<1>12. HighestNotCollected
  BY LegacyServiceAssumption DEF Init, HighestNotCollected
<1>. QED  BY <1>6, <1>9, <1>10, <1>11, <1>12 DEF IInv

\* Every step keeps the invariant.
LEMMA NextIInv == IInv /\ [Next]_vars => IInv'
<1>. SUFFICES ASSUME IInv, [Next]_vars PROVE IInv'
  OBVIOUS
<1>1. CASE UNCHANGED vars
  BY <1>1, HandlesOnly DEF vars, state_vars, IInv, TypeOK, HighestNotCollected
<1>2. ASSUME NEW id \in StateIds, register_builder_state(id) PROVE IInv'
  BY <1>2, RegisterStep
<1>3. ASSUME NEW view \in Decides, remove_handles(view) PROVE IInv'
  BY <1>3, RemoveStep
<1>4. ASSUME NEW c \in Clients, NEW id \in StateIds, available_blocks(c, id) PROVE IInv'
  BY <1>4, AvailableStep
<1>5. ASSUME NEW c \in Clients, find_builder_state(c) \/ fall_back(c) PROVE IInv'
  BY <1>5, LookingStep
<1>6. ASSUME NEW c \in Clients, broadcast(c) PROVE IInv'
  BY <1>6, BroadcastStep
<1>7. ASSUME NEW c \in Clients, waited_too_long(c) PROVE IInv'
  BY <1>7, WaitedStep
<1>8. ASSUME NEW c \in Clients, claim_block(c) \/ claim_block_header_input(c) PROVE IInv'
  BY <1>8, FindBlockStep DEF claim_block, claim_block_header_input
<1>9. ASSUME NEW c \in Clients, send_vid_trigger(c) PROVE IInv'
  BY <1>9, SendTriggerStep
<1>10. ASSUME NEW c \in Clients, vid_response(c) PROVE IInv'
  BY <1>10, VidResponseStep
<1>11. ASSUME NEW m \in messages, process_block_request(m) PROVE IInv'
  BY <1>11, ProcessStep
<1>12. ASSUME NEW m \in messages, update_global_state(m) PROVE IInv'
  BY <1>12, UpdateStep
<1>. QED  BY <1>1, <1>2, <1>3, <1>4, <1>5, <1>6, <1>7, <1>8, <1>9, <1>10, <1>11, <1>12, Zenon DEF Next

\* IInv holds in every reachable state.
THEOREM Invariance == Spec => []IInv
  BY InitIInv, NextIInv, PTL DEF Spec

\* Every variable keeps its type; the cache and the channels stay within their
\* capacities, and no block has two entries in the cache.
THEOREM TypeCorrect == Spec => []TypeOK
<1>1. IInv => TypeOK
  BY DEF IInv
<1>. QED  BY <1>1, Invariance, PTL

\* What a client is offered was cached under the hash offered and the view it
\* asked for, and is still, unless the cache is full.
THEOREM MissingOnlyIfEvicted == Spec => []MissingOnlyEvicted
<1>1. IInv => MissingOnlyEvicted
  <2>. SUFFICES ASSUME IInv, NEW c \in Clients, clients[c].result = "offered",
                       stored(wanted(c)) = {}
                PROVE  /\ Len(blocks) = Capacity
                       /\ \E i \in DOMAIN infos : infos[i].block = wanted(c)
    BY DEF MissingOnlyEvicted
  <2>1. PICK i \in DOMAIN infos : infos[i].block = wanted(c)
    BY DEF IInv, CallGood, WasBuilt, BlockOf, wanted
  <2>. QED  BY <2>1 DEF IInv, CacheGood
<1>. QED  BY <1>1, Invariance, PTL

\* The newest builder state is never refused as decided already, in whatever
\* order decides are handled and however far they are ahead.
THEOREM NewestIsNotRefused == Spec => []NewestNotRefused
<1>1. IInv => NewestNotRefused
  <2>. SUFFICES ASSUME IInv PROVE NewestNotRefused
    OBVIOUS
  <2>1. /\ last_garbage_collected_view_num \in Nat
        /\ highest_view_num_builder_id.parent_view \in Nat
        /\ last_garbage_collected_view_num <= highest_view_num_builder_id.parent_view
    BY LegacyServiceAssumption DEF IInv, TypeOK, HighestNotCollected
  <2>. QED  BY <2>1 DEF NewestNotRefused, refused
<1>. QED  BY <1>1, Invariance, PTL

\* A client that claimed a block waits in vain for its VID commitment only if
\* the block was built again since.
THEOREM StarvedOnlyIfRebuilt == Spec => []StarvedOnlyRebuilt
<1>1. IInv => StarvedOnlyRebuilt
  BY DEF IInv, CallGood, StarvedOnlyRebuilt
<1>. QED  BY <1>1, Invariance, PTL

=============================================================================
