--------------------------- MODULE RlcQueueProofs ---------------------------
(***************************************************************************)
(* A bearer's queue as the rest of the system sees it: how far its byte    *)
(* counter, totalBufferedBytes, is from what is queued, for any number of  *)
(* queues, and with one queue the whole link is a lossy FIFO.              *)
(***************************************************************************)
EXTENDS RlcDeliveryProofs, WellFoundedInduction

\* f adds up s from its beginning.
Prefixes(f, s) ==
  /\ f \in [0..Len(s) -> Int] /\ f[0] = 0
  /\ \A i \in 1..Len(s) : f[i] = f[i - 1] + s[i]

\* The numbers of s add up to n.
AddsUp(s, n) == \E f : Prefixes(f, s) /\ f[Len(s)] = n

\* The equation the recursive function of SumOf satisfies.
Running(f, s) == f = [i \in 0..Len(s) |-> IF i = 0 THEN 0 ELSE f[i - 1] + s[i]]

\* A set of naturals has a least element.
LEMMA LeastNatural ==
  ASSUME NEW S, S \subseteq Nat, S # {}
  PROVE  \E l \in S : \A k \in S : l <= k
<1> DEFINE Less == {p \in Nat \X Nat : p[1] < p[2]}
<1>1. IsWellFoundedOn(Less, Nat)
  BY NatLessThanWellFounded DEF OpToRel
<1> HIDE DEF Less
<1>2. PICK l \in S : \A k \in S : <<k, l>> \notin Less
  BY <1>1, WFMin
<1>3. \A k \in S : ~(k < l)
  BY <1>2 DEF Less
<1> QED BY <1>3

\* The running sums of a sequence solve that equation.
LEMMA PrefixesRunning ==
  ASSUME NEW s, Len(s) \in Nat, NEW f, Prefixes(f, s)
  PROVE  Running(f, s)
<1>1. \A i \in 0..Len(s) : f[i] = IF i = 0 THEN 0 ELSE f[i - 1] + s[i]
  BY DEF Prefixes
<1>2. f = [i \in 0..Len(s) |-> f[i]]
  BY DEF Prefixes
<1> QED BY <1>1, <1>2 DEF Running

\* Nothing else solves it: two solutions agree below their least disagreement.
LEMMA RunningUnique ==
  ASSUME NEW s, Len(s) \in Nat, NEW f, NEW g, Running(f, s), Running(g, s)
  PROVE  f = g
<1> DEFINE N == 0..Len(s)
           Differ == {i \in N : f[i] # g[i]}
<1>1. /\ DOMAIN f = N /\ DOMAIN g = N
      /\ f = [i \in N |-> f[i]] /\ g = [i \in N |-> g[i]]
      /\ \A i \in N : f[i] = IF i = 0 THEN 0 ELSE f[i - 1] + s[i]
      /\ \A i \in N : g[i] = IF i = 0 THEN 0 ELSE g[i - 1] + s[i]
  BY DEF Running
<1>2. Differ = {}
  <2> SUFFICES ASSUME Differ # {} PROVE FALSE
    OBVIOUS
  <2>0. Differ \subseteq Nat
    OBVIOUS
  <2>1. PICK l \in Differ : \A k \in Differ : l <= k
    <3> HIDE DEF Differ
    <3> QED BY <2>0, LeastNatural
  <2>2. l \in N /\ f[l] # g[l] /\ l # 0
    BY <2>1, <1>1
  <2>3. l - 1 \in N /\ l - 1 \notin Differ
    BY <2>1, <2>2
  <2>4. f[l - 1] = g[l - 1]
    BY <2>3
  <2> QED BY <1>1, <2>2, <2>4
<1>3. \A i \in N : f[i] = g[i]
  BY <1>2
<1>4. [i \in N |-> f[i]] = [i \in N |-> g[i]]
  BY <1>3
<1> QED BY <1>1, <1>4, Zenon

\* SumOf computes what its sequence adds up to.
LEMMA SumOfAddsUp ==
  ASSUME NEW s, Len(s) \in Nat, NEW n, AddsUp(s, n)
  PROVE  SumOf(s) = n
<1> PICK g : Prefixes(g, s) /\ g[Len(s)] = n
  BY DEF AddsUp
<1> DEFINE sum[i \in 0..Len(s)] == IF i = 0 THEN 0 ELSE sum[i - 1] + s[i]
           P(f) == Running(f, s)
<1>1. SumOf(s) = sum[Len(s)]
  BY DEF SumOf
<1>2. sum = CHOOSE f : Running(f, s)
  BY DEF Running
<1>3. \E f : P(f)
  BY PrefixesRunning
<1>4. P(CHOOSE f : P(f))
  BY <1>3, Zenon
<1> HIDE DEF sum
<1>5. Running(sum, s)
  BY <1>2, <1>4
<1>6. sum = g
  BY <1>5, PrefixesRunning, RunningUnique
<1> QED BY <1>1, <1>6

\* An empty sequence adds up to nothing.
LEMMA NothingAddsUp == AddsUp(<<>>, 0)
<1> DEFINE f == [i \in 0..0 |-> 0]
<1>1. Prefixes(f, <<>>) /\ f[Len(<<>>)] = 0
  BY DEF Prefixes
<1> HIDE DEF f
<1> QED BY <1>1 DEF AddsUp

\* One more number at the end adds to the sum.
LEMMA AppendAddsUp ==
  ASSUME NEW s \in Seq(Int), NEW x \in Int, NEW n \in Int, AddsUp(s, n)
  PROVE  AddsUp(Append(s, x), n + x)
<1> PICK f : Prefixes(f, s) /\ f[Len(s)] = n
  BY DEF AddsUp
<1> DEFINE t == Append(s, x)
           g == [i \in 0..(Len(s) + 1) |-> IF i = Len(s) + 1 THEN n + x ELSE f[i]]
<1>1. /\ Len(t) = Len(s) + 1 /\ Len(s) \in Nat /\ t[Len(s) + 1] = x
      /\ \A i \in 1..Len(s) : t[i] = s[i]
  OBVIOUS
<1>2. f \in [0..Len(s) -> Int] /\ f[0] = 0 /\ \A i \in 1..Len(s) : f[i] = f[i - 1] + s[i]
  BY DEF Prefixes
<1> HIDE DEF t
<1>3. g \in [0..Len(t) -> Int] /\ g[0] = 0 /\ g[Len(t)] = n + x
  BY <1>1, <1>2
<1>4. \A i \in 1..Len(t) : g[i] = g[i - 1] + t[i]
  <2> TAKE i \in 1..Len(t)
  <2>1. CASE i = Len(s) + 1
    <3>1. g[i] = n + x /\ g[i - 1] = f[Len(s)] /\ t[i] = x
      BY <1>1, <2>1
    <3> QED BY <3>1
  <2>2. CASE i \in 1..Len(s)
    <3>1. g[i] = f[i] /\ g[i - 1] = f[i - 1] /\ t[i] = s[i]
      BY <1>1, <2>2
    <3> QED BY <1>2, <2>2, <3>1
  <2> QED BY <1>1, <2>1, <2>2
<1> HIDE DEF g
<1> QED BY <1>3, <1>4 DEF AddsUp, Prefixes, t

\* Without its first number a sequence adds up to that much less.
LEMMA TailAddsUp ==
  ASSUME NEW s \in Seq(Int), s # <<>>, NEW n \in Int, AddsUp(s, n)
  PROVE  AddsUp(Tail(s), n - s[1])
<1> PICK f : Prefixes(f, s) /\ f[Len(s)] = n
  BY DEF AddsUp
<1> DEFINE t == Tail(s)
           g == [i \in 0..Len(t) |-> f[i + 1] - s[1]]
<1>1. /\ Len(t) = Len(s) - 1 /\ Len(s) \in Nat \ {0} /\ Len(t) \in Nat /\ s[1] \in Int
      /\ \A i \in 1..Len(t) : t[i] = s[i + 1] /\ t[i] \in Int
  OBVIOUS
<1>2. f \in [0..Len(s) -> Int] /\ f[0] = 0 /\ \A i \in 1..Len(s) : f[i] = f[i - 1] + s[i]
  BY DEF Prefixes
<1> HIDE DEF t
<1>3. g \in [0..Len(t) -> Int] /\ g[0] = 0 /\ g[Len(t)] = n - s[1]
  BY <1>1, <1>2
<1>4. \A i \in 1..Len(t) : g[i] = g[i - 1] + t[i]
  <2> TAKE i \in 1..Len(t)
  <2>1. /\ i \in 0..Len(t) /\ i - 1 \in 0..Len(t) /\ i + 1 \in 1..Len(s) /\ i \in 0..Len(s)
    BY <1>1
  <2>2. f[i + 1] = f[i] + s[i + 1]
    <3>1. (i + 1) - 1 = i
      BY <1>1
    <3> QED BY <1>2, <2>1, <3>1
  <2>3. f[i] \in Int /\ t[i] = s[i + 1] /\ t[i] \in Int /\ s[1] \in Int
    BY <1>1, <1>2, <2>1
  <2>4. g[i] = f[i + 1] - s[1] /\ g[i - 1] = f[i] - s[1]
    BY <2>1
  <2> HIDE DEF g
  <2> QED BY <2>2, <2>3, <2>4
<1> HIDE DEF g
<1> QED BY <1>3, <1>4 DEF AddsUp, Prefixes, t

-----------------------------------------------------------------------------
(* The counter and the queue.                                              *)

(***************************************************************************)
(* The inductive invariant: the sizes queued add up to the counter, and    *)
(* what is not yet counted, without what is not yet counted off.           *)
(***************************************************************************)
Due(q)   == (bytes[q] + Uncounted(q)) - TakenSize(q)
Balanced == \A q \in Queues : AddsUp(QueuedSizes(q), Due(q))

\* Append and Tail, as functions on an interval.
LEMMA AppendTailFunctions ==
  ASSUME NEW s \in Seq(Int)
  PROVE  /\ \A x \in Int :
              Append(s, x) = [i \in 1..(Len(s) + 1) |-> IF i = Len(s) + 1 THEN x ELSE s[i]]
         /\ s # <<>> => Tail(s) = [i \in 1..(Len(s) - 1) |-> s[i + 1]]
<1>1. ASSUME NEW x \in Int
      PROVE  Append(s, x) = [i \in 1..(Len(s) + 1) |-> IF i = Len(s) + 1 THEN x ELSE s[i]]
  <2> DEFINE a == Append(s, x)
  <2>1. /\ a \in Seq(Int) /\ Len(a) = Len(s) + 1 /\ Len(s) \in Nat
        /\ \A i \in 1..Len(s) : a[i] = s[i]
        /\ a[Len(s) + 1] = x
    OBVIOUS
  <2> HIDE DEF a
  <2>2. a = [i \in 1..Len(a) |-> a[i]]
    BY <2>1
  <2>3. ASSUME NEW i \in 1..(Len(s) + 1)
        PROVE  a[i] = IF i = Len(s) + 1 THEN x ELSE s[i]
    <3>1. Len(s) \in Nat
      BY <2>1
    <3>2. i = Len(s) + 1 \/ (i \in 1..Len(s) /\ i # Len(s) + 1)
      BY <3>1
    <3> QED BY <2>1, <3>2
  <2> QED BY <2>1, <2>2, <2>3 DEF a
<1>2. ASSUME s # <<>>
      PROVE  Tail(s) = [i \in 1..(Len(s) - 1) |-> s[i + 1]]
  <2> DEFINE a == Tail(s)
  <2>1. /\ a \in Seq(Int) /\ Len(a) = Len(s) - 1
        /\ \A i \in 1..Len(a) : a[i] = s[i + 1]
    BY <1>2
  <2> HIDE DEF a
  <2>2. a = [i \in 1..Len(a) |-> a[i]]
    BY <2>1
  <2> QED BY <2>1, <2>2 DEF a
<1> QED BY <1>1, <1>2

\* The sizes queued are numbers, one for each packet of the queue.
LEMMA SizesQueued ==
  ASSUME TypeOK, Indices, NEW q \in Queues
  PROVE  /\ QueuedSizes(q) \in Seq(Int) /\ Len(QueuedSizes(q)) = Len(packetBuffer[q])
         /\ \A i \in 1..Len(packetBuffer[q]) : QueuedSizes(q)[i] = pkts[packetBuffer[q][i]].size
         /\ packetBuffer[q] \in Seq(Nat) /\ bytes[q] \in Int
         /\ Uncounted(q) \in Int /\ TakenSize(q) \in Int
<1>1. packetBuffer[q] \in Seq(Nat) /\ pkts \in Seq(Packet) /\ bytes[q] \in Int
  BY DEF TypeOK
<1>2. \A p \in DOMAIN pkts : pkts[p].size \in Nat
  <2>1. \A p \in DOMAIN pkts : pkts[p] \in Packet
    BY <1>1
  <2> QED BY <2>1 DEF Packet
<1>3. \A i \in 1..Len(packetBuffer[q]) : pkts[packetBuffer[q][i]].size \in Int
  BY <1>1, <1>2 DEF Indices
<1>4. QueuedSizes(q) = [i \in 1..Len(packetBuffer[q]) |-> pkts[packetBuffer[q][i]].size]
  BY <1>1 DEF QueuedSizes
<1>5. Len(packetBuffer[q]) \in Nat
  BY <1>1
<1>6. QueuedSizes(q) \in Seq(Int) /\ Len(QueuedSizes(q)) = Len(packetBuffer[q])
  BY <1>3, <1>4, <1>5
<1>7. Uncounted(q) \in Int
  <2>1. enq.pc \in {"assign", "count"} => enq.p \in DOMAIN pkts
    BY DEF Indices
  <2> QED BY <2>1, <1>2 DEF Uncounted
<1>8. TakenSize(q) \in Int
  <2>1. Took(q) => mac.took \in DOMAIN pkts
    BY TookFacts
  <2> QED BY <2>1, <1>2 DEF TakenSize
<1> QED BY <1>1, <1>4, <1>6, <1>7, <1>8

\* Moving a term from one side of the equation to the other.
LEMMA Moved ==
  ASSUME NEW n \in Int, NEW b \in Int, NEW u \in Int, NEW t \in Int, n = b + u - t
  PROVE  b = n + t - u
OBVIOUS

\* Balance implies the property.
LEMMA BalancedCounts ==
  ASSUME TypeOK, Indices, Balanced
  PROVE  BufferedBytes
<1> SUFFICES ASSUME NEW q \in Queues
             PROVE  bytes[q] = SumOf(QueuedSizes(q)) + TakenSize(q) - Uncounted(q)
  BY DEF BufferedBytes
<1>1. bytes[q] \in Int /\ Uncounted(q) \in Int /\ TakenSize(q) \in Int
  BY SizesQueued
<1>2. SumOf(QueuedSizes(q)) = Due(q)
  BY SizesQueued, SumOfAddsUp DEF Balanced
<1>3. SumOf(QueuedSizes(q)) = bytes[q] + Uncounted(q) - TakenSize(q) /\ Due(q) \in Int
  BY <1>1, <1>2 DEF Due
<1> QED BY <1>1, <1>2, <1>3, Moved

\* enqueuePacket hands the packet over: its size is queued and not yet counted.
LEMMA BalancedEnqueue ==
  ASSUME TypeOK, Indices, Balanced, NEW q \in Queues, NEW size \in Sizes, EnqueuePacket(q, size)
  PROVE  Balanced'
<1> SUFFICES ASSUME NEW r \in Queues
             PROVE  AddsUp(QueuedSizes(r)', Due(r)')
  BY DEF Balanced
<1> DEFINE n == Len(pkts)
<1>1. /\ pkts \in Seq(Packet) /\ n \in Nat /\ packetBuffer \in [Queues -> Seq(Nat)]
      /\ packetBuffer[r] \in Seq(Nat) /\ size \in Int
  <2>1. pkts \in Seq(Packet) /\ packetBuffer \in [Queues -> Seq(Nat)]
    BY DEF TypeOK
  <2>2. size \in Int
    BY RlcConstants
  <2> QED BY <2>1, <2>2
<1>2. /\ enq.pc = "idle" /\ bytes' = bytes /\ enq' = [pc |-> "assign", p |-> n + 1]
      /\ pkts' = Append(pkts, [q |-> q, size |-> size, id |-> 0])
      /\ packetBuffer' = [packetBuffer EXCEPT ![q] = Append(packetBuffer[q], n + 1)]
  BY DEF EnqueuePacket
<1>3. /\ \A p \in DOMAIN pkts : pkts'[p] = pkts[p]
      /\ pkts'[n + 1].q = q /\ pkts'[n + 1].size = size
  BY <1>1, <1>2
<1>4. Uncounted(r) = 0 /\ Uncounted(r)' = IF r = q THEN size ELSE 0
  BY <1>2, <1>3 DEF Uncounted
<1>9. TakenSize(r)' = TakenSize(r)
  <2>1. mac' = mac /\ (mac.took # 0 => mac.took \in DOMAIN pkts)
    BY DEF EnqueuePacket, Indices
  <2> QED BY <1>3, <2>1 DEF TakenSize, Took
<1>10. Due(r) \in Int /\ Due(r)' = IF r = q THEN Due(r) + size ELSE Due(r)
  <2>1. bytes[r] \in Int /\ TakenSize(r) \in Int
    BY SizesQueued
  <2> QED BY <1>1, <1>2, <1>4, <1>9, <2>1 DEF Due
<1>5. \A i \in DOMAIN packetBuffer[r] : packetBuffer[r][i] \in DOMAIN pkts
  BY DEF Indices
<1>6. AddsUp(QueuedSizes(r), Due(r))
  BY DEF Balanced
<1>7. CASE r # q
  <2>1. packetBuffer'[r] = packetBuffer[r]
    BY <1>1, <1>2, <1>7
  <2>2. QueuedSizes(r)' = QueuedSizes(r)
    BY <1>3, <1>5, <2>1 DEF QueuedSizes
  <2> QED BY <1>6, <1>7, <1>10, <2>2
<1>8. CASE r = q
  <2>1. packetBuffer'[r] = Append(packetBuffer[r], n + 1)
    BY <1>1, <1>2, <1>8
  <2>2. QueuedSizes(r)' = Append(QueuedSizes(r), size)
    <3> DEFINE b == packetBuffer[r]
               m == Len(b)
    <3>1. /\ DOMAIN packetBuffer'[r] = 1..(m + 1) /\ m \in Nat /\ DOMAIN b = 1..m
          /\ \A i \in 1..m : packetBuffer'[r][i] = b[i]
          /\ packetBuffer'[r][m + 1] = n + 1
      BY <1>1, <2>1
    <3>2. QueuedSizes(r)' = [i \in 1..(m + 1) |-> pkts'[packetBuffer'[r][i]].size]
      BY <3>1 DEF QueuedSizes
    <3>3. Append(QueuedSizes(r), size) =
            [i \in 1..(m + 1) |-> IF i = m + 1 THEN size ELSE QueuedSizes(r)[i]]
      BY <1>1, <3>1, SizesQueued, AppendTailFunctions
    <3>4. \A i \in 1..m : QueuedSizes(r)[i] = pkts[b[i]].size
      BY SizesQueued
    <3>5. \A i \in 1..m : pkts'[packetBuffer'[r][i]].size = QueuedSizes(r)[i]
      BY <1>3, <1>5, <3>1, <3>4
    <3>6. \A i \in 1..(m + 1) : i \in 1..m \/ i = m + 1
      BY <3>1
    <3>7. \A i \in 1..(m + 1) :
            pkts'[packetBuffer'[r][i]].size = IF i = m + 1 THEN size ELSE QueuedSizes(r)[i]
      BY <1>3, <3>1, <3>5, <3>6
    <3> HIDE DEF b, m
    <3> QED BY <3>2, <3>3, <3>7
  <2>3. AddsUp(Append(QueuedSizes(r), size), Due(r) + size)
    BY <1>1, <1>6, <1>10, SizesQueued, AppendAddsUp
  <2> QED BY <1>8, <1>10, <2>2, <2>3
<1> QED BY <1>7, <1>8

\* The id does not matter, and the count takes over what was not yet counted.
LEMMA BalancedCount ==
  ASSUME TypeOK, Indices, Balanced, AssignId \/ CountBytes \/ AddPacket
  PROVE  Balanced'
<1> SUFFICES ASSUME NEW r \in Queues
             PROVE  AddsUp(QueuedSizes(r)', Due(r)')
  BY DEF Balanced
<1>1. /\ enq.p \in DOMAIN pkts /\ pkts[enq.p] \in Packet /\ pkts \in Seq(Packet)
      /\ bytes \in [Queues -> Int] /\ packetBuffer' = packetBuffer
      /\ \A p \in DOMAIN pkts : pkts[p] \in Packet
  BY DEF TypeOK, Indices, AssignId, CountBytes, AddPacket
<1>2. \A p \in DOMAIN pkts : pkts'[p].size = pkts[p].size /\ pkts'[p].q = pkts[p].q
  <2>1. CASE AssignId
    <3>1. \E id : pkts' = [pkts EXCEPT ![enq.p].id = id]
      BY <2>1 DEF AssignId
    <3> QED BY <1>1, <3>1 DEF Packet
  <2>2. CASE CountBytes \/ AddPacket
    BY <2>2 DEF CountBytes, AddPacket
  <2> QED BY <2>1, <2>2
<1>3. QueuedSizes(r)' = QueuedSizes(r)
  <2>1. \A i \in DOMAIN packetBuffer[r] : packetBuffer[r][i] \in DOMAIN pkts
    BY DEF Indices
  <2> QED BY <1>1, <1>2, <2>1 DEF QueuedSizes
<1>4. bytes'[r] + Uncounted(r)' = bytes[r] + Uncounted(r)
  <2>1. pkts[enq.p].size \in Int /\ pkts[enq.p].q \in Queues
    BY <1>1, RlcConstants DEF Packet
  <2>2. CASE AssignId
    <3>1. enq.pc = "assign" /\ enq'.pc = "count" /\ enq'.p = enq.p /\ bytes' = bytes
      BY <2>2 DEF AssignId, TypeOK, EnqState
    <3> QED BY <1>1, <1>2, <3>1 DEF Uncounted
  <2>3. CASE CountBytes
    <3>1. /\ enq.pc = "count" /\ enq'.pc = "add"
          /\ bytes' = [bytes EXCEPT ![pkts[enq.p].q] = @ + pkts[enq.p].size]
      BY <2>3 DEF CountBytes, TypeOK, EnqState
    <3> QED BY <1>1, <2>1, <3>1 DEF Uncounted
  <2>4. CASE AddPacket
    <3>1. enq.pc = "add" /\ enq'.pc = "idle" /\ bytes' = bytes
      BY <2>4 DEF AddPacket, IdleEnq
    <3> QED BY <3>1 DEF Uncounted
  <2> QED BY <2>2, <2>3, <2>4
<1>5. TakenSize(r)' = TakenSize(r)
  <2>1. mac' = mac /\ (mac.took # 0 => mac.took \in DOMAIN pkts)
    BY DEF AssignId, CountBytes, AddPacket, Indices
  <2> QED BY <1>2, <2>1 DEF TakenSize, Took
<1>6. Due(r)' = Due(r)
  BY <1>4, <1>5 DEF Due
<1> QED BY <1>3, <1>6 DEF Balanced

\* dequeuePacket takes the first packet; its size is still to be subtracted.
LEMMA BalancedTake ==
  ASSUME TypeOK, Indices, Balanced, NEW q \in Queues, Unsegmented(q), Take(q), mac.took = 0,
         UNCHANGED <<pkts, enq, bytes>>
  PROVE  Balanced'
<1> SUFFICES ASSUME NEW r \in Queues
             PROVE  AddsUp(QueuedSizes(r)', Due(r)')
  BY DEF Balanced
<1> DEFINE size == pkts[First(q)].size
<1>1. /\ packetBuffer \in [Queues -> Seq(Nat)]
      /\ packetBuffer' = [packetBuffer EXCEPT ![q] = Tail(packetBuffer[q])]
      /\ mac'.took = First(q)
  BY DEF TypeOK, MacState, Take
<1>2. First(q) \in DOMAIN pkts /\ First(q) = packetBuffer[q][1] /\ size \in Int /\ First(q) # 0
      /\ pkts[First(q)].q = q
  <2>1. First(q) \in DOMAIN pkts /\ First(q) = packetBuffer[q][1] /\ size \in Int
        /\ 1 \in DOMAIN packetBuffer[q]
    BY FirstFacts
  <2>2. First(q) # 0
    BY <2>1 DEF TypeOK
  <2> QED BY <2>1, <2>2 DEF Indices
<1>3. TakenSize(r) = 0 /\ TakenSize(r)' = IF r = q THEN size ELSE 0
  BY <1>1, <1>2 DEF TakenSize, Took
<1>4. /\ Due(r) \in Int /\ Due(r)' = IF r = q THEN Due(r) - size ELSE Due(r)
  <2>1. bytes[r] \in Int /\ Uncounted(r) \in Int /\ Uncounted(r)' = Uncounted(r)
    BY SizesQueued DEF Uncounted
  <2> QED BY <1>2, <1>3, <2>1 DEF Due
<1>5. AddsUp(QueuedSizes(r), Due(r))
  BY DEF Balanced
<1>6. CASE r # q
  <2>1. packetBuffer'[r] = packetBuffer[r]
    BY <1>1, <1>6
  <2>2. QueuedSizes(r)' = QueuedSizes(r)
    BY <2>1 DEF QueuedSizes
  <2> QED BY <1>4, <1>5, <1>6, <2>2
<1>7. CASE r = q
  <2> DEFINE b == packetBuffer[r]
             s == QueuedSizes(r)
  <2>1. b \in Seq(Nat) /\ b # <<>> /\ packetBuffer'[r] = Tail(b)
    BY <1>1, <1>7 DEF Unsegmented
  <2>2. /\ s \in Seq(Int) /\ Len(s) = Len(b) /\ \A i \in 1..Len(b) : s[i] = pkts[b[i]].size
    BY SizesQueued
  <2>3. s # <<>> /\ Len(b) \in Nat \ {0}
    BY <2>1, <2>2
  <2>4. s[1] = size
    BY <1>2, <1>7, <2>2, <2>3
  <2>5. QueuedSizes(r)' = Tail(s)
    <3>1. /\ DOMAIN Tail(b) = 1..(Len(b) - 1)
          /\ \A i \in 1..(Len(b) - 1) : Tail(b)[i] = b[i + 1] /\ i + 1 \in 1..Len(b)
      BY <2>1
    <3>2. QueuedSizes(r)' = [i \in 1..(Len(b) - 1) |-> pkts[Tail(b)[i]].size]
      BY <2>1, <3>1 DEF QueuedSizes
    <3> HIDE DEF s
    <3>3. Tail(s) = [i \in 1..(Len(b) - 1) |-> s[i + 1]]
      BY <2>2, <2>3, AppendTailFunctions
    <3>4. \A i \in 1..(Len(b) - 1) : pkts[Tail(b)[i]].size = s[i + 1]
      BY <2>2, <3>1
    <3> QED BY <3>2, <3>3, <3>4
  <2>6. AddsUp(s, Due(r))
    BY <1>5
  <2> HIDE DEF s, b, size
  <2>7. AddsUp(Tail(s), Due(r) - size)
    BY <1>4, <2>2, <2>3, <2>4, <2>6, TailAddsUp
  <2> QED BY <1>4, <1>7, <2>5, <2>7
<1> QED BY <1>6, <1>7

\* Then it is subtracted.
LEMMA BalancedUncount ==
  ASSUME TypeOK, Indices, Balanced, NEW q \in Queues, Took(q), Uncount(q), mac'.took = 0,
         UNCHANGED <<pkts, enq, packetBuffer>>
  PROVE  Balanced'
<1> SUFFICES ASSUME NEW r \in Queues
             PROVE  AddsUp(QueuedSizes(r)', Due(r)')
  BY DEF Balanced
<1> DEFINE size == pkts[mac.took].size
<1>1. bytes \in [Queues -> Int] /\ bytes' = [bytes EXCEPT ![q] = bytes[q] - size]
  BY DEF TypeOK, Uncount
<1>2. TakenSize(r)' = 0 /\ TakenSize(r) = IF r = q THEN size ELSE 0
  BY TookFacts DEF TakenSize, Took
<1>3. size \in Int /\ bytes[r] \in Int /\ Uncounted(r) \in Int /\ Uncounted(r)' = Uncounted(r)
  BY TookFacts, SizesQueued DEF Uncounted
<1>4. bytes'[r] = IF r = q THEN bytes[r] - size ELSE bytes[r]
  BY <1>1
<1>5. QueuedSizes(r)' = QueuedSizes(r)
  BY DEF QueuedSizes
<1> HIDE DEF size
<1>6. Due(r)' = Due(r)
  BY <1>2, <1>3, <1>4 DEF Due
<1> QED BY <1>5, <1>6 DEF Balanced

\* Every step preserves the balance.
LEMMA BalancedKept ==
  ASSUME TypeOK, Indices, Balanced, [Next]_vars
  PROVE  Balanced'
<1>1. ASSUME UNCHANGED <<pkts, packetBuffer, bytes, enq>>,
             mac' = mac \/ (mac.took = 0 /\ mac'.took = 0)
      PROVE  Balanced'
  <2>1. \A q \in Queues : TakenSize(q)' = TakenSize(q)
    BY <1>1 DEF TakenSize, Took
  <2> QED BY <1>1, <2>1 DEF Balanced, QueuedSizes, Uncounted, Due
<1>2. CASE DuNext
  <2>1. CASE \/ ExecPoll \/ (\E q \in Queues : PollTimerExpires(q))
             \/ (\E id \in Ids : ProcessAck(id))
    BY <1>1, <2>1 DEF ExecPoll, PollTimerExpires, ProcessAck
  <2>3. CASE MacAdvance \/ (\E b \in Budgets : SlotBegin(b))
    <3>1. mac.took = 0 /\ UNCHANGED <<pkts, packetBuffer, bytes, enq>>
      <4>1. mac.took = 0
        BY <2>3, Zenon DEF MacAdvance, SlotBegin, Indices
      <4> QED BY <2>3, <4>1, Zenon DEF MacAdvance, SlotBegin
    <3> QED BY <1>1, <2>3, <3>1, TookAdvance
  <2>2. ASSUME NEW q \in Queues, Serve(q) PROVE Balanced'
    <3>1. CASE SendSegment(q) \/ BlockedBySegment(q) \/ TooSmallToSegment(q)
      <4>1. mac.took = 0 /\ UNCHANGED <<pkts, packetBuffer, bytes, enq>>
        BY <3>1 DEF SendSegment, BlockedBySegment, TooSmallToSegment, Serves
      <4> QED BY <1>1, <3>1, <4>1, TookServe
    <3>2. CASE TakeWhole(q) \/ CutPacket(q)
      BY <3>2, BalancedTake DEF TakeWhole, CutPacket, Serves
    <3>3. CASE SendWhole(q) \/ SendFirstSegment(q)
      <4>1. Took(q) /\ Uncount(q) /\ UNCHANGED <<pkts, packetBuffer, enq>>
        BY <3>3 DEF SendWhole, SendFirstSegment
      <4> QED BY <3>3, <4>1, TookServe, BalancedUncount
    <3> QED BY <2>2, <3>1, <3>2, <3>3, Zenon DEF Serve
  <2> QED BY <1>2, <2>1, <2>2, <2>3, BalancedEnqueue, BalancedCount DEF DuNext
<1>3. CASE UeNext /\ UNCHANGED duVars
  BY <1>1, <1>3 DEF UeNext, ProcessSegment, Receive, ProcessWhole, DropSegment,
                    StoreSegment,
     RecordStatus, StatusWake, StatusCollect, TxOpportunity, TransmitStatusPdu, duVars
<1>4. CASE UNCHANGED vars
  BY <1>1, <1>4 DEF vars, duVars
<1> QED BY <1>2, <1>3, <1>4 DEF Next

(***************************************************************************)
(* totalBufferedBytes, which the KPM reports of a bearer rest on, differs  *)
(* from the size of what is queued by exactly what enqueuePacket has put   *)
(* in and not added and dequeuePacket has taken out and not subtracted, at *)
(* every step of either, for any number of queues, packets and sizes.      *)
(***************************************************************************)
THEOREM BytesCounted == Spec => []BufferedBytes
<1> DEFINE I == TypeOK /\ Indices /\ Balanced
<1>1. Init => I
  <2>1. Init => Balanced
    <3> SUFFICES ASSUME Init, NEW q \in Queues
                 PROVE  AddsUp(QueuedSizes(q), Due(q))
      BY DEF Balanced
    <3>1. packetBuffer[q] = <<>> /\ Due(q) = 0
      BY DEF Init, DuInit, IdleEnq, IdleMac, Uncounted, TakenSize, Took, Due
    <3>2. QueuedSizes(q) = <<>>
      BY <3>1 DEF QueuedSizes
    <3> QED BY <3>1, <3>2, NothingAddsUp
  <2> QED BY <2>1, InitType
<1>2. I /\ [Next]_vars => I'
  BY TypeKept, IndicesKept, BalancedKept
<1>3. I => BufferedBytes
  BY BalancedCounts
<1> QED BY <1>1, <1>2, <1>3, PTL DEF Spec

-----------------------------------------------------------------------------
(* The order of segments between the DU's queue and the UE's contexts.     *)

\* Segments are ordered by packet, and within a packet by segment_number.
Before(s, t) == s.pkt < t.pkt \/ (s.pkt = t.pkt /\ s.num < t.num)
Ahead(S, T)  == \A s \in S, t \in T : Before(s, t)
Rising(b)    == \A j, k \in DOMAIN b : j < k => Before(b[j], b[k])

\* Where segments are on their way: stored, in the receive thread's hand, on
\* the air, and cut but not sent.
Stored == UNION {ctx[i].got : i \in Ids}
InHand == {s \in {ue.seg} : ue.pc = "process"}
OnAir  == Elems(dl)
CutUp  == Elems(segmentBuffer[1])
Coming == InHand \cup OnAir \cup CutUp

\* From the contexts back to the queue every segment is later than those before it.
InLine ==
  /\ Rising(dl) /\ Rising(segmentBuffer[1])
  /\ Ahead(Stored, InHand)
  /\ Ahead(Stored \cup InHand, OnAir)
  /\ Ahead(Stored \cup InHand \cup OnAir, CutUp)

\* Nothing more comes of a packet that has come out, nor of any before it.
CameOut == {p \in Nat : \E d \in Arrived : d.from = {p}}
Past ==
  \A p \in CameOut :
    /\ p \in DOMAIN pkts
    /\ \A t \in Coming : p < t.pkt
    /\ \A x \in Pending : p < x

\* A context counts to the total of one of its segments.
Based == \A i \in Ids : ctx[i].total > 0 => \E s \in ctx[i].got : s.total = ctx[i].total

FifoInv == InLine /\ Past /\ Based

\* What the first segment of a rising sequence leaves behind.
LEMMA RisingTail ==
  ASSUME NEW b \in Seq(Segment), b # <<>>, Rising(b)
  PROVE  /\ Rising(Tail(b)) /\ Head(b) \in Elems(b) /\ Elems(Tail(b)) \subseteq Elems(b)
         /\ Ahead({Head(b)}, Elems(Tail(b)))
<1>1. /\ \A k \in DOMAIN Tail(b) : k \in Nat /\ 1 < k + 1 /\ k + 1 \in DOMAIN b /\ Tail(b)[k] = b[k + 1]
      /\ Head(b) = b[1] /\ 1 \in DOMAIN b
  OBVIOUS
<1>2. Rising(Tail(b))
  BY <1>1 DEF Rising
<1> QED BY <1>1, <1>2 DEF Rising, Elems, Ahead

\* A later segment may follow a rising sequence.
LEMMA RisingAppend ==
  ASSUME NEW b \in Seq(Segment), NEW t \in Segment, Rising(b), Ahead(Elems(b), {t})
  PROVE  Rising(Append(b, t)) /\ Elems(Append(b, t)) \subseteq Elems(b) \cup {t}
<1>1. \A k \in DOMAIN Append(b, t) : \/ k \in DOMAIN b /\ Append(b, t)[k] = b[k] /\ k <= Len(b)
                                     \/ k = Len(b) + 1 /\ Append(b, t)[k] = t
  OBVIOUS
<1>2. Len(b) \in Nat /\ DOMAIN b = 1..Len(b)
  OBVIOUS
<1>3. \A k \in DOMAIN b : Before(b[k], t)
  BY DEF Ahead, Elems
<1> HIDE DEF Before
<1>4. Rising(Append(b, t))
  BY <1>1, <1>2, <1>3 DEF Rising
<1> QED BY <1>1, <1>4 DEF Elems

\* The types of what is on its way.
LEMMA FlowTypes ==
  ASSUME OneQueue, TypeOK
  PROVE  /\ dl \in Seq(Segment) /\ segmentBuffer[1] \in Seq(Segment) /\ ue.seg \in Segment
         /\ OnAir \subseteq Segment /\ CutUp \subseteq Segment /\ InHand \subseteq Segment
         /\ Stored \subseteq Segment
<1>1. dl \in Seq(Segment) /\ segmentBuffer[1] \in Seq(Segment) /\ ue.seg \in Segment
  BY OneQueueFacts DEF TypeOK, UeState
<1>2. \A i \in Ids : ctx[i].got \subseteq Segment
  BY DEF TypeOK, Contexts
<1> QED BY <1>1, <1>2 DEF OnAir, CutUp, InHand, Stored, Elems

\* All of them are known to come from one cut of a packet.
LEMMA FlowKnown == Known = Stored \cup Coming
  BY DEF Known, Stored, Coming, InHand, OnAir, CutUp, Elems

-----------------------------------------------------------------------------
(* The line keeps its order.                                               *)

\* The receive thread lays down what it has in hand, or forgets it.
LEMMA LineShrinks ==
  ASSUME InLine, UNCHANGED <<dl, segmentBuffer>>,
         \/ InHand' = {} /\ Stored' \subseteq Stored \cup InHand
         \/ InHand' = InHand /\ Stored' \subseteq Stored
  PROVE  InLine'
<1>1. OnAir' = OnAir /\ CutUp' = CutUp
  BY DEF OnAir, CutUp, Elems
<1>2. Rising(dl)' /\ Rising(segmentBuffer[1])'
  BY DEF InLine, Rising, Before
<1>3. Stored' \cup InHand' \subseteq Stored \cup InHand
  OBVIOUS
<1>4. Ahead(Stored, InHand)'
  BY DEF InLine, Ahead, Before
<1> QED BY <1>1, <1>2, <1>3, <1>4 DEF InLine, Ahead, Before

\* It takes the first segment from the air.
LEMMA LineReceive ==
  ASSUME OneQueue, TypeOK, InLine, Receive, UNCHANGED duVars
  PROVE  InLine' /\ Coming' \subseteq Coming
<1>1. /\ dl \in Seq(Segment) /\ dl # <<>> /\ dl' = Tail(dl) /\ ue.pc = "idle"
      /\ ue'.pc = "process" /\ ue'.seg = Head(dl) /\ UNCHANGED <<segmentBuffer, ctx>>
  BY DEF TypeOK, Receive, IdleUe, duVars
<1>2. InHand = {} /\ InHand' = {Head(dl)} /\ Stored' = Stored /\ CutUp' = CutUp
  BY <1>1 DEF InHand, Stored, CutUp, Elems
<1>3. /\ Rising(Tail(dl)) /\ Head(dl) \in OnAir /\ OnAir' \subseteq OnAir
      /\ Ahead({Head(dl)}, Elems(Tail(dl)))
  BY <1>1, RisingTail DEF InLine, OnAir, Elems
<1>4. Rising(dl)' /\ Rising(segmentBuffer[1])' /\ OnAir' = Elems(Tail(dl))
  BY <1>1, <1>3 DEF InLine, Rising, Before, OnAir, Elems
<1>5. Ahead(Stored \cup OnAir, CutUp) /\ Ahead(Stored, OnAir)
  BY <1>2 DEF InLine, Ahead
<1>6. Ahead(Stored, {Head(dl)}) /\ Ahead(Stored \cup {Head(dl)}, OnAir')
      /\ Ahead(Stored \cup {Head(dl)} \cup OnAir', CutUp)
  BY <1>3, <1>4, <1>5 DEF Ahead
<1>7. InLine'
  BY <1>2, <1>4, <1>6 DEF InLine, Ahead, Before
<1> QED BY <1>2, <1>3, <1>7 DEF Coming

\* A segment goes on the air, perhaps with the poll bit set.
LEMMA LineSegment ==
  ASSUME OneQueue, TypeOK, InLine, FirstSegmentLeaves(1), UNCHANGED ueVars
  PROVE  InLine' /\ \A t \in Coming' : \E s \in Coming : s.pkt = t.pkt
<1> DEFINE b == segmentBuffer[1]
           s == Head(b)
           t == [s EXCEPT !.poll = @ \/ (pollDue[1] /\ s.num = s.total - 1)]
<1>1. /\ b \in Seq(Segment) /\ b # <<>> /\ dl \in Seq(Segment)
      /\ segmentBuffer' = [segmentBuffer EXCEPT ![1] = Tail(b)] /\ dl' = Append(dl, t)
      /\ 1 \in Queues /\ segmentBuffer \in [Queues -> Seq(Segment)]
  BY OneQueueFacts DEF FirstSegmentLeaves, Sent, TypeOK
<1>2. s \in Segment /\ t \in Segment /\ t.pkt = s.pkt /\ t.num = s.num
  <2>1. s \in Segment /\ pollDue[1] \in BOOLEAN
    BY <1>1 DEF TypeOK
  <2> DEFINE bit == s.poll \/ (pollDue[1] /\ s.num = s.total - 1)
  <2>2. bit \in BOOLEAN /\ t = [s EXCEPT !.poll = bit]
    BY <2>1 DEF Segment
  <2> HIDE DEF s, bit, t
  <2> QED BY <2>1, <2>2 DEF Segment
<1>3. segmentBuffer'[1] = Tail(b) /\ UNCHANGED <<ue, ctx>>
  BY <1>1 DEF ueVars
<1>4. /\ Rising(Tail(b)) /\ s \in CutUp /\ Elems(Tail(b)) \subseteq CutUp
      /\ Ahead({s}, Elems(Tail(b)))
  BY <1>1, RisingTail DEF InLine, CutUp
<1> HIDE DEF s, t
<1>5. \A x : (Before(x, s) => Before(x, t)) /\ (Before(s, x) => Before(t, x))
  BY <1>2 DEF Before
<1>6. Ahead(Stored \cup InHand \cup OnAir, {t}) /\ Ahead({t}, Elems(Tail(b)))
  BY <1>4, <1>5 DEF InLine, Ahead
<1>7. Rising(Append(dl, t)) /\ Elems(Append(dl, t)) \subseteq OnAir \cup {t}
  BY <1>1, <1>2, <1>6, RisingAppend DEF InLine, OnAir, Ahead
<1>8. /\ InHand' = InHand /\ Stored' = Stored /\ CutUp' = Elems(Tail(b))
      /\ OnAir' \subseteq OnAir \cup {t}
  BY <1>1, <1>3, <1>7 DEF InHand, Stored, CutUp, OnAir, Elems
<1>9. Rising(dl)' /\ Rising(segmentBuffer[1])'
  <2> DEFINE x == Append(dl, t)
             y == Tail(b)
  <2>1. dl' = x /\ segmentBuffer'[1] = y /\ Rising(x) /\ Rising(y)
    BY <1>1, <1>3, <1>4, <1>7
  <2> HIDE DEF x, y
  <2> QED BY <2>1 DEF Rising, Before
<1>10. /\ Ahead(Stored, InHand) /\ Ahead(Stored \cup InHand, OnAir \cup {t})
       /\ Ahead(Stored \cup InHand \cup OnAir \cup {t}, Elems(Tail(b)))
  BY <1>4, <1>6 DEF InLine, Ahead
<1>11. InLine'
  BY <1>8, <1>9, <1>10 DEF InLine, Ahead, Before
<1> QED BY <1>2, <1>4, <1>8, <1>11 DEF Coming

\* A packet sent whole goes to the end of the line, or nowhere.
LEMMA LineWhole ==
  ASSUME OneQueue, TypeOK, Indices, OneCut, InLine, SendWhole(1), UNCHANGED ueVars
  PROVE  InLine' /\ \A t \in Coming' : t \in Coming \/ t.pkt \in Pending
<1> DEFINE w == Whole(1)
<1>1. /\ Took(1) /\ 1 \in Queues /\ segmentBuffer[1] = <<>>
      /\ UNCHANGED <<segmentBuffer, ue, ctx>>
      /\ dl' = Append(dl, w) \/ dl' = dl
  BY OneQueueFacts DEF SendWhole, Sent, ueVars
<1>2. w \in Segment /\ w.pkt \in Pending
  BY <1>1, WholeFacts, TookFacts DEF Whole, Pending, Held
<1> HIDE DEF w
<1>3. InHand' = InHand /\ Stored' = Stored /\ CutUp' = CutUp /\ CutUp = {}
  BY <1>1 DEF InHand, Stored, CutUp, Elems
<1>4. CASE dl' = dl
  <2>1. OnAir' = OnAir
    BY <1>4 DEF OnAir, Elems
  <2> QED BY <1>1, <1>3, <1>4, <2>1, LineShrinks DEF Coming
<1>5. CASE dl' = Append(dl, w)
  <2>1. Ahead(Stored \cup InHand \cup OnAir, {w})
    <3>1. \A x \in Known : x.pkt < w.pkt
      BY <1>2 DEF OneCut
    <3> QED BY <3>1, FlowKnown DEF Coming, Ahead, Before
  <2>2. Rising(Append(dl, w)) /\ Elems(Append(dl, w)) \subseteq OnAir \cup {w}
    <3>1. Ahead(Elems(dl), {w})
      BY <2>1 DEF Ahead, OnAir
    <3> QED BY <1>2, <3>1, RisingAppend, FlowTypes DEF InLine, OnAir
  <2>3. OnAir' \subseteq OnAir \cup {w}
    BY <1>5, <2>2 DEF OnAir, Elems
  <2>4. Rising(dl)' /\ Rising(segmentBuffer[1])'
    BY <1>1, <1>5, <2>2 DEF InLine, Rising, Before
  <2>5. Ahead(Stored, InHand) /\ Ahead(Stored \cup InHand, OnAir \cup {w})
    BY <2>1 DEF InLine, Ahead
  <2>6. InLine'
    BY <1>3, <2>3, <2>4, <2>5 DEF InLine, Ahead, Before
  <2> QED BY <1>2, <1>3, <2>3, <2>6 DEF Coming
<1> QED BY <1>1, <1>4, <1>5

\* So do the segments of a packet that is cut, in the order of their numbers.
LEMMA LineCut ==
  ASSUME OneQueue, TypeOK, Indices, OneCut, InLine, CutPacket(1), UNCHANGED ueVars
  PROVE  InLine' /\ \A t \in Coming' : t \in Coming \/ t.pkt \in Pending
<1> DEFINE k == Kept(1)
           p == First(1)
<1>1. /\ Unsegmented(1) /\ Take(1) /\ 1 \in Queues /\ UNCHANGED <<dl, ue, ctx>>
      /\ SegmentSize >= 100 /\ segmentBuffer' = [segmentBuffer EXCEPT ![1] = k]
      /\ segmentBuffer \in [Queues -> Seq(Segment)]
  BY OneQueueFacts DEF CutPacket, Kept, Cut, ueVars, TypeOK
<1>2. PICK total \in Nat, payload \in Nat :
           /\ EndToEnd(Cut(1), p, total, payload)
           /\ k \in Seq(Segment) /\ Len(k) \in 1..total
           /\ \A i \in 1..Len(k) : k[i] = Cut(1)[i]
           /\ k # <<>>
  BY <1>1, CutFacts
<1>3. \A i \in 1..Len(k) : k[i].pkt = p /\ k[i].num = i - 1
  <2> TAKE i \in 1..Len(k)
  <2>1. i \in 1..total
    BY <1>2
  <2>2. Cut(1)[i].pkt = p /\ Cut(1)[i].num = i - 1
    BY <1>2, <2>1 DEF EndToEnd
  <2> QED BY <1>2, <2>2
<1>4. p \in Pending
  BY <1>1, TakeFirst DEF Pending
<1>5. segmentBuffer'[1] = k
  BY <1>1
<1> HIDE DEF k, p
<1>6. Rising(k) /\ \A t \in Elems(k) : t.pkt = p
  <2>1. DOMAIN k = 1..Len(k) /\ Len(k) \in Nat
    BY <1>2
  <2> QED BY <1>3, <2>1 DEF Rising, Before, Elems
<1>7. InHand' = InHand /\ Stored' = Stored /\ OnAir' = OnAir /\ CutUp' = Elems(k)
  BY <1>1, <1>5 DEF InHand, Stored, OnAir, CutUp, Elems
<1>8. Ahead(Stored \cup InHand \cup OnAir, Elems(k))
  <2>1. \A x \in Known : x.pkt < p
    BY <1>4 DEF OneCut
  <2> QED BY <1>6, <2>1, FlowKnown DEF Coming, Ahead, Before
<1>9. Rising(dl)' /\ Rising(segmentBuffer[1])'
  BY <1>1, <1>5, <1>6 DEF InLine, Rising, Before
<1>10. InLine'
  BY <1>7, <1>8, <1>9 DEF InLine, Ahead, Before
<1> QED BY <1>4, <1>6, <1>7, <1>10 DEF Coming

\* What the UE's threads do to the line.
LEMMA UeLine ==
  ASSUME OneQueue, TypeOK, UeNext, UNCHANGED duVars
  PROVE  \/ Receive
         \/ /\ UNCHANGED <<dl, segmentBuffer>>
            /\ \/ InHand' = {} /\ Stored' \subseteq Stored \cup InHand
               \/ InHand' = InHand /\ Stored' \subseteq Stored
<1>1. CASE StoreSegment
  <2> DEFINE s == ue.seg
             c == [Context(s) EXCEPT !.got = @ \cup {s}]
  <2>1. /\ ue.pc = "process" /\ ue'.pc # "process" /\ UNCHANGED <<dl, segmentBuffer>>
        /\ ctx' = [ctx EXCEPT ![s.id] = NoContext] \/ ctx' = [ctx EXCEPT ![s.id] = c]
    <3>1. /\ ue.pc = "process" /\ UNCHANGED <<dl, segmentBuffer>>
          /\ \/ Deliver(c.got, c.size) /\ ctx' = [ctx EXCEPT ![s.id] = NoContext]
             \/ ue' = IdleUe /\ ctx' = [ctx EXCEPT ![s.id] = c]
      BY <1>1 DEF StoreSegment, duVars
    <3> HIDE DEF c
    <3>2. Deliver(c.got, c.size) => ue'.pc # "process"
      BY DeliverFacts
    <3> QED BY <3>1, <3>2 DEF IdleUe
  <2>2. s.id \in Ids /\ ctx \in [Ids -> Contexts] /\ Context(s) \in Contexts
    BY ContextType DEF TypeOK
  <2>3. c.got = Context(s).got \cup {s} /\ Context(s).got \subseteq ctx[s.id].got
    BY <2>2 DEF Context, Contexts
  <2>4. \A i \in Ids : ctx'[i].got \subseteq ctx[i].got \cup {s}
    <3> HIDE DEF c, s
    <3> QED BY <2>1, <2>2, <2>3 DEF NoContext
  <2> HIDE DEF c
  <2> QED BY <2>1, <2>4 DEF InHand, Stored
<1>2. CASE ProcessWhole \/ DropSegment \/ RecordStatus
  <2>1. UNCHANGED <<dl, segmentBuffer, ctx>> /\ ue'.pc # "process"
    <3>1. ue' = IdleUe \/ Deliver({ue.seg}, ue.seg.len)
      BY <1>2 DEF ProcessWhole, DropSegment, RecordStatus
    <3>2. Deliver({ue.seg}, ue.seg.len) => ue'.pc # "process"
      BY DeliverFacts
    <3> QED BY <1>2, <3>1, <3>2 DEF ProcessWhole, DropSegment, RecordStatus, IdleUe,
                    duVars
  <2> QED BY <2>1 DEF InHand, Stored
<1>3. ASSUME NEW expired \in SUBSET Expirable, StatusCollect(expired)
      PROVE  UNCHANGED <<dl, segmentBuffer>> /\ InHand' = InHand /\ Stored' \subseteq Stored
  <2>1. UNCHANGED <<dl, segmentBuffer, ue>> /\ \A i \in Ids : ctx'[i].got \subseteq ctx[i].got
    BY <1>3 DEF StatusCollect, NoContext, duVars
  <2> QED BY <2>1 DEF InHand, Stored
<1>4. CASE StatusWake \/ TxOpportunity \/ (\E id \in Ids : TransmitStatusPdu(id))
  <2>1. UNCHANGED <<dl, segmentBuffer, ue, ctx>>
    BY <1>4 DEF StatusWake, TxOpportunity, TransmitStatusPdu, duVars
  <2> QED BY <2>1 DEF InHand, Stored
<1> QED BY <1>1, <1>2, <1>3, <1>4 DEF UeNext, ProcessSegment

-----------------------------------------------------------------------------
(* What has come out.                                                      *)

\* A packet received whole has no other segment on its way.
LEMMA WholeFinished ==
  ASSUME OneQueue, TypeOK, OneCut, InLine, ue.pc = "process", ue.seg.total = 1
  PROVE  \A t \in OnAir \cup CutUp : ue.seg.pkt < t.pkt
<1> DEFINE s == ue.seg
<1> TAKE t \in OnAir \cup CutUp
<1>1. s \in InHand /\ s \in Known /\ t \in Known /\ s \in Segment /\ t \in Segment
  BY FlowTypes, FlowKnown DEF InHand, Coming
<1>2. Before(s, t) /\ Agree(s, t) /\ SegOK(t)
  BY <1>1 DEF InLine, Ahead, OneCut
<1>3. s.num \in Nat /\ t.num \in Nat /\ s.pkt \in Nat /\ t.pkt \in Nat
  BY <1>1 DEF Segment
<1> HIDE DEF s
<1> QED BY <1>2, <1>3 DEF Before, Agree, SegOK, s

\* A context that is complete with segments of one packet has them all.
LEMMA CompleteFinished ==
  ASSUME OneQueue, TypeOK, OneCut, InLine, Based, ue.pc = "process",
         NEW c, c = [Context(ue.seg) EXCEPT !.got = @ \cup {ue.seg}], Complete(c),
         NEW p, {x.pkt : x \in c.got} = {p}
  PROVE  p = ue.seg.pkt /\ \A t \in OnAir \cup CutUp : p < t.pkt
<1> DEFINE s == ue.seg
<1>1. s \in Segment /\ s.id \in Ids /\ Context(s) \in Contexts
  BY FlowTypes, ContextType
<1>2. c.got = Context(s).got \cup {s} /\ c.total = Context(s).total /\ c.total \in Nat
  BY <1>1 DEF Contexts
<1>3. \A x \in c.got : x \in Stored \cup InHand /\ x.pkt = p
  <2>1. Context(s).got \subseteq Stored
    BY <1>1 DEF Context, Stored
  <2> QED BY <1>2, <2>1 DEF InHand
<1>4. s \in c.got /\ p = s.pkt
  BY <1>2, <1>3
<1>5. \E g \in c.got : g.total = c.total
  <2>1. CASE ctx[s.id].total > 0
    <3>1. Context(s) = ctx[s.id]
      BY <2>1 DEF Context
    <3> QED BY <1>1, <1>2, <2>1, <3>1 DEF Based
  <2>2. CASE ~(ctx[s.id].total > 0)
    <3>1. Context(s).total = s.total
      BY <2>2 DEF Context
    <3> QED BY <1>2, <1>4, <3>1
  <2> QED BY <2>1, <2>2
<1>6. ASSUME NEW t \in OnAir \cup CutUp PROVE p < t.pkt
  <2>1. t \in Known /\ t \in Segment
    BY FlowTypes, FlowKnown DEF Coming
  <2>2. PICK g \in c.got : g.total = c.total
    BY <1>5
  <2>3. \A x \in c.got : Before(x, t) /\ x \in Known /\ x \in Segment
    BY <1>3, FlowKnown, FlowTypes DEF InLine, Ahead, Coming
  <2>4. Agree(g, t) /\ SegOK(t)
    BY <2>1, <2>3 DEF OneCut
  <2>5. /\ t.num \in Nat /\ t.pkt \in Nat /\ g.pkt = p /\ p \in Nat
        /\ \A x \in c.got : x.num \in Nat
    BY <1>3, <2>1, <2>3 DEF Segment
  <2>6. CASE t.pkt = p
    <3>1. t.num \in 0..(c.total - 1)
      BY <1>2, <2>2, <2>4, <2>5, <2>6 DEF Agree, SegOK
    <3>2. PICK x \in c.got : x.num = t.num
      BY <3>1 DEF Complete
    <3>3. Before(x, t) /\ x.pkt = p
      BY <1>3, <2>3
    <3> QED BY <2>5, <2>6, <3>2, <3>3 DEF Before
  <2>7. CASE t.pkt # p
    BY <1>3, <2>2, <2>3, <2>5, <2>7 DEF Before
  <2> QED BY <2>6, <2>7
<1> QED BY <1>4, <1>6

\* What is delivered is the last of its packet.
LEMMA DeliveriesFinished ==
  ASSUME OneQueue, TypeOK, OneCut, InLine, Based, UeNext
  PROVE  \/ UNCHANGED delivered
         \/ \E parts, size :
              /\ Deliver(parts, size) /\ ue.pc = "process"
              /\ UNCHANGED <<pendingStatus, waiting, txQueue, pendingPdus, ul, dl>>
              /\ \A p : {s.pkt : s \in parts} = {p} =>
                   p = ue.seg.pkt /\ \A t \in OnAir \cup CutUp : p < t.pkt
<1>1. CASE ProcessWhole
  <2> DEFINE parts == {ue.seg}
  <2>1. ue.pc = "process" /\ ue.seg.total = 1 /\ Deliver(parts, ue.seg.len)
        /\ UNCHANGED <<pendingStatus, waiting, txQueue, pendingPdus, ul, dl>>
    BY <1>1 DEF ProcessWhole
  <2>2. ASSUME NEW p, {s.pkt : s \in parts} = {p}
        PROVE  p = ue.seg.pkt /\ \A t \in OnAir \cup CutUp : p < t.pkt
    <3>1. p = ue.seg.pkt
      BY <2>2
    <3> QED BY <2>1, <3>1, WholeFinished
  <2> HIDE DEF parts
  <2> QED BY <2>1, <2>2
<1>2. CASE StoreSegment
  <2> DEFINE c == [Context(ue.seg) EXCEPT !.got = @ \cup {ue.seg}]
  <2>1. CASE Complete(c) /\ Deliver(c.got, c.size)
    <3>1. ue.pc = "process" /\ UNCHANGED <<pendingStatus, waiting, txQueue, pendingPdus, ul, dl>>
      BY <1>2 DEF StoreSegment
    <3>2. ASSUME NEW p, {s.pkt : s \in c.got} = {p}
          PROVE  p = ue.seg.pkt /\ \A t \in OnAir \cup CutUp : p < t.pkt
      BY <2>1, <3>1, <3>2, CompleteFinished
    <3> HIDE DEF c
    <3> QED BY <2>1, <3>1, <3>2
  <2> QED BY <1>2, <2>1 DEF StoreSegment
<1>3. CASE \/ Receive \/ DropSegment \/ RecordStatus \/ StatusWake
           \/ (\E expired \in SUBSET Expirable : StatusCollect(expired))
           \/ TxOpportunity \/ (\E id \in Ids : TransmitStatusPdu(id))
  BY <1>3 DEF Receive, DropSegment, RecordStatus, StatusWake, StatusCollect,
     TxOpportunity, TransmitStatusPdu
<1> QED BY <1>1, <1>2, <1>3 DEF UeNext, ProcessSegment

-----------------------------------------------------------------------------
(* FifoInv is inductive.                                                   *)

\* Every step preserves Based.
LEMMA BasedKept ==
  ASSUME OneQueue, TypeOK, Based, [Next]_vars
  PROVE  Based'
<1>1. CASE UNCHANGED ctx
  BY <1>1 DEF Based
<1>2. CASE StoreSegment
  <2> DEFINE s == ue.seg
             c == [Context(s) EXCEPT !.got = @ \cup {s}]
  <2>1. /\ s.id \in Ids /\ ctx \in [Ids -> Contexts] /\ Context(s) \in Contexts
        /\ ctx' = [ctx EXCEPT ![s.id] = NoContext] \/ ctx' = [ctx EXCEPT ![s.id] = c]
    BY <1>2, ContextType DEF StoreSegment, TypeOK
  <2>2. c.got = Context(s).got \cup {s} /\ c.total = Context(s).total
    BY <2>1 DEF Contexts
  <2>3. \E g \in c.got : g.total = c.total
    <3>1. CASE ctx[s.id].total > 0
      <4>1. Context(s) = ctx[s.id]
        BY <3>1 DEF Context
      <4> QED BY <2>1, <2>2, <3>1, <4>1 DEF Based
    <3>2. CASE ~(ctx[s.id].total > 0)
      <4>1. Context(s).total = s.total
        BY <3>2 DEF Context
      <4> QED BY <2>2, <4>1
    <3> QED BY <3>1, <3>2
  <2> HIDE DEF c, s
  <2>4. \A i \in Ids : ctx'[i] = ctx[i] \/ ctx'[i] = c \/ ctx'[i] = NoContext
    BY <2>1
  <2>5. ~(NoContext.total > 0)
    BY DEF NoContext
  <2> QED BY <2>3, <2>4, <2>5 DEF Based
<1>3. ASSUME NEW expired \in SUBSET Expirable, StatusCollect(expired) PROVE Based'
  <2>1. \A i \in Ids : ctx'[i] = ctx[i] \/ ctx'[i] = NoContext
    BY <1>3 DEF StatusCollect
  <2> QED BY <2>1 DEF Based, NoContext
<1>4. CASE DuNext /\ UNCHANGED ueVars
  BY <1>1, <1>4 DEF ueVars
<1>5. CASE UeNext
  <2>1. CASE \/ Receive \/ ProcessWhole \/ DropSegment \/ RecordStatus \/ StatusWake
             \/ TxOpportunity \/ (\E id \in Ids : TransmitStatusPdu(id))
    BY <1>1, <2>1 DEF Receive, ProcessWhole, DropSegment, RecordStatus, StatusWake,
       TxOpportunity, TransmitStatusPdu
  <2> QED BY <1>2, <1>3, <1>5, <2>1 DEF UeNext, ProcessSegment
<1> QED BY <1>1, <1>4, <1>5 DEF Next, vars, ueVars

\* The packets that have come out, after a delivery.
LEMMA CameOutDelivery ==
  ASSUME TypeOK, NEW parts, NEW size, Deliver(parts, size), ue.pc = "process",
         UNCHANGED <<pendingStatus, waiting, txQueue, pendingPdus, ul>>
  PROVE  \A p \in CameOut' : p \in CameOut \/ {s.pkt : s \in parts} = {p}
<1> DEFINE d == [id |-> ue.seg.id, from |-> {s.pkt : s \in parts}]
<1>1. Arrived' = Arrived \cup {d} /\ d.from = {s.pkt : s \in parts}
  BY DeliverUnderway
<1> HIDE DEF d
<1> QED BY <1>1 DEF CameOut

\* The UE takes nothing back and adds nothing before what has come out.
LEMMA FifoUe ==
  ASSUME OneQueue, TypeOK, OneCut, FifoInv, UeNext, UNCHANGED duVars
  PROVE  InLine' /\ Past'
<1>0. InLine /\ Past /\ Based /\ UNCHANGED pkts /\ Pending' = Pending
  <2>1. UNCHANGED <<mac, packetBuffer, segmentBuffer>>
    BY DEF duVars
  <2> QED BY <2>1, UeFrame DEF FifoInv, Pending, Held, Elems
<1>1. CASE Receive
  <2>1. InLine' /\ Coming' \subseteq Coming
    BY <1>0, <1>1, LineReceive
  <2>2. CameOut' = CameOut
    BY <1>1 DEF Receive, CameOut, Arrived
  <2> QED BY <1>0, <2>1, <2>2 DEF Past
<1>2. CASE /\ UNCHANGED <<dl, segmentBuffer>>
           /\ \/ InHand' = {} /\ Stored' \subseteq Stored \cup InHand
              \/ InHand' = InHand /\ Stored' \subseteq Stored
  <2>1. InLine' /\ Coming' \subseteq Coming /\ OnAir' = OnAir /\ CutUp' = CutUp
    <3>1. InLine'
      BY <1>0, <1>2, LineShrinks
    <3>2. OnAir' = OnAir /\ CutUp' = CutUp
      BY <1>2 DEF OnAir, CutUp, Elems
    <3> QED BY <1>2, <3>1, <3>2 DEF Coming
  <2>2. CASE UNCHANGED delivered
    <3>1. CameOut' = CameOut
      BY <2>2 DEF CameOut, Arrived
    <3> QED BY <1>0, <2>1, <3>1 DEF Past
  <2>3. ASSUME NEW parts, NEW size, Deliver(parts, size), ue.pc = "process",
               UNCHANGED <<pendingStatus, waiting, txQueue, pendingPdus, ul, dl>>,
               \A p : {s.pkt : s \in parts} = {p} =>
                 p = ue.seg.pkt /\ \A t \in OnAir \cup CutUp : p < t.pkt
        PROVE  Past'
    <3>1. InHand' = {}
      BY <2>3, DeliverFacts DEF InHand
    <3>2. Coming' = OnAir \cup CutUp
      BY <2>1, <3>1 DEF Coming
    <3>3. ue.seg \in Known
      BY <2>3 DEF Known
    <3>4. ASSUME NEW p \in CameOut', {s.pkt : s \in parts} = {p}
          PROVE  /\ p \in DOMAIN pkts /\ \A t \in Coming' : p < t.pkt
                 /\ \A x \in Pending : p < x
      <4>1. p = ue.seg.pkt /\ \A t \in OnAir \cup CutUp : p < t.pkt
        BY <2>3, <3>4
      <4>2. SegOK(ue.seg) /\ \A x \in Pending : ue.seg.pkt < x
        BY <3>3 DEF OneCut
      <4> QED BY <3>2, <4>1, <4>2 DEF SegOK
    <3>5. \A p \in CameOut' : p \in CameOut \/ {s.pkt : s \in parts} = {p}
      BY <2>3, CameOutDelivery
    <3>6. \A p \in CameOut : /\ p \in DOMAIN pkts /\ \A t \in Coming' : p < t.pkt
                             /\ \A x \in Pending : p < x
      BY <1>0, <2>1 DEF Past
    <3>7. \A p \in CameOut' : /\ p \in DOMAIN pkts /\ \A t \in Coming' : p < t.pkt
                              /\ \A x \in Pending : p < x
      BY <3>4, <3>5, <3>6
    <3> QED BY <1>0, <3>7 DEF Past
  <2> QED BY <1>0, <2>1, <2>2, <2>3, DeliveriesFinished
<1> QED BY <1>1, <1>2, UeLine

\* What the DU adds is later than what has come out.
LEMMA PastDu ==
  ASSUME Past, UNCHANGED <<pkts, delivered>>, Pending' \subseteq Pending,
         \A t \in Coming' : (\E s \in Coming : s.pkt = t.pkt) \/ t.pkt \in Pending
  PROVE  Past'
<1>1. CameOut' = CameOut
  BY DEF CameOut, Arrived
<1>2. \A p \in CameOut : \A t \in Coming' : p < t.pkt
  BY DEF Past
<1> QED BY <1>1, <1>2 DEF Past

\* A packet that is accepted is later than all before it.
LEMMA FifoEnqueue ==
  ASSUME OneQueue, TypeOK, FifoInv, UNCHANGED ueVars, NEW size \in Sizes, EnqueuePacket(1, size)
  PROVE  InLine' /\ Past'
<1> DEFINE b == packetBuffer[1]
           n == Len(pkts) + 1
<1>1. InLine /\ Past /\ UNCHANGED <<dl, segmentBuffer, ue, ctx, delivered>>
  BY DEF FifoInv, EnqueuePacket, ueVars
<1>2. /\ InHand' = InHand /\ Stored' = Stored /\ Coming' = Coming /\ CameOut' = CameOut
  BY <1>1 DEF InHand, Stored, Coming, OnAir, CutUp, Elems, CameOut, Arrived
<1>3. InLine'
  BY <1>1, <1>2, LineShrinks
<1>4. DOMAIN pkts = 1..Len(pkts) /\ DOMAIN pkts' = 1..n /\ Len(pkts) \in Nat
  BY OneQueueFacts, EnqueueFacts
<1>5. packetBuffer'[1] = Append(b, n) /\ b \in Seq(Nat)
  <2>1. packetBuffer \in [Queues -> Seq(Nat)]
    BY DEF TypeOK
  <2> QED BY <2>1, OneQueueFacts DEF EnqueuePacket
<1> HIDE DEF b
<1>6. \A k \in DOMAIN packetBuffer'[1] :
        (k \in DOMAIN b /\ packetBuffer'[1][k] = b[k]) \/ packetBuffer'[1][k] = n
  BY <1>4, <1>5
<1>7. \A p \in CameOut : p \in DOMAIN pkts' /\ p < n
  BY <1>1, <1>4 DEF Past
<1>8. \A p \in CameOut : \A x \in Pending' : p < x
  <2>1. UNCHANGED <<mac, segmentBuffer>>
    BY DEF EnqueuePacket
  <2>2. Pending' \subseteq Pending \cup {n}
    BY <1>6, <2>1 DEF Pending, Held, Elems, b
  <2> QED BY <1>1, <1>7, <2>2 DEF Past
<1>9. Past'
  BY <1>1, <1>2, <1>7, <1>8 DEF Past
<1> QED BY <1>3, <1>9

\* Every step preserves FifoInv.
LEMMA FifoKept ==
  ASSUME OneQueue, TypeOK, Indices, Numbered, OneCut, FifoInv, [Next]_vars
  PROVE  FifoInv'
<1>0. InLine /\ Past /\ Based' /\ Queues = {1}
  BY BasedKept, OneQueueFacts DEF FifoInv
<1>1. CASE UeNext /\ UNCHANGED duVars
  BY <1>0, <1>1, FifoUe DEF FifoInv
<1>2. ASSUME UNCHANGED <<dl, segmentBuffer, packetBuffer, ue, ctx, delivered>>,
             DOMAIN pkts' = DOMAIN pkts, mac' = mac \/ mac'.took = 0
      PROVE  FifoInv'
  <2>1. InHand' = InHand /\ Stored' = Stored /\ Coming' = Coming /\ CameOut' = CameOut
    BY <1>2 DEF InHand, Stored, Coming, OnAir, CutUp, Elems, CameOut, Arrived
  <2>2. InLine'
    BY <1>0, <1>2, <2>1, LineShrinks
  <2>3. Pending' \subseteq Pending
    BY <1>2, PendingStays DEF OneCut
  <2>4. Past'
    BY <1>0, <1>2, <2>1, <2>3 DEF Past
  <2> QED BY <1>0, <2>2, <2>4 DEF FifoInv
<1>3. CASE DuNext /\ UNCHANGED ueVars
  <2>0. UNCHANGED <<ue, ctx, delivered>>
    BY <1>3 DEF ueVars
  <2>1. ASSUME NEW q \in Queues, NEW size \in Sizes, EnqueuePacket(q, size) PROVE FifoInv'
    BY <1>0, <1>3, <2>1, FifoEnqueue DEF FifoInv
  <2>2. CASE AssignId
    <3>1. DOMAIN pkts' = DOMAIN pkts
      <4>1. PICK x : pkts' = [pkts EXCEPT ![enq.p].id = x]
        BY <2>2, Zenon DEF AssignId
      <4> QED BY <4>1
    <3> QED BY <1>2, <2>0, <2>2, <3>1 DEF AssignId
  <2>3. CASE CountBytes \/ AddPacket \/ ExecPoll
             \/ (\E q \in Queues : PollTimerExpires(q))
             \/ (\E id \in Ids : ProcessAck(id))
    <3>1. UNCHANGED <<pkts, dl, segmentBuffer, packetBuffer, mac>>
      BY <2>3, Zenon DEF CountBytes, AddPacket, ExecPoll, PollTimerExpires, ProcessAck
    <3> QED BY <1>2, <2>0, <3>1
  <2>4. CASE MacAdvance \/ (\E b \in Budgets : SlotBegin(b))
    <3>1. UNCHANGED <<pkts, dl, segmentBuffer, packetBuffer>>
      BY <2>4, Zenon DEF MacAdvance, SlotBegin
    <3> QED BY <1>2, <2>0, <2>4, <3>1, TookAdvance
  <2>5. CASE BlockedBySegment(1) \/ TooSmallToSegment(1)
    <3>1. UNCHANGED <<pkts, dl, segmentBuffer, packetBuffer>>
      BY <2>5, Zenon DEF BlockedBySegment, TooSmallToSegment
    <3> QED BY <1>0, <1>2, <2>0, <2>5, <3>1, TookServe
  <2>6. CASE SendSegment(1) \/ SendFirstSegment(1)
    <3>1. FirstSegmentLeaves(1) /\ UNCHANGED <<pkts, packetBuffer>>
      BY <2>6 DEF SendSegment, SendFirstSegment
    <3>2. InLine' /\ \A t \in Coming' : \E s \in Coming : s.pkt = t.pkt
      BY <1>0, <1>3, <3>1, LineSegment
    <3>3. Pending' \subseteq Pending
      BY <1>0, <2>6, <3>1, TookServe, PendingStays DEF OneCut
    <3>4. Past'
      BY <1>0, <2>0, <3>1, <3>2, <3>3, PastDu
    <3> QED BY <1>0, <3>2, <3>4 DEF FifoInv
  <2>7. CASE TakeWhole(1)
    <3>1. Unsegmented(1) /\ Take(1) /\ UNCHANGED <<pkts, dl, segmentBuffer>>
      BY <2>7 DEF TakeWhole
    <3>2. InHand' = InHand /\ Stored' = Stored /\ Coming' = Coming
      BY <2>0, <3>1 DEF InHand, Stored, Coming, OnAir, CutUp, Elems
    <3>3. InLine'
      BY <1>0, <3>1, <3>2, LineShrinks
    <3>4. Pending' \subseteq Pending
      BY <3>1, TakeFirst DEF Pending, Held
    <3>5. Past'
      BY <1>0, <2>0, <3>1, <3>2, <3>4, PastDu
    <3> QED BY <1>0, <3>3, <3>5 DEF FifoInv
  <2>8. CASE SendWhole(1) \/ CutPacket(1)
    <3>1. InLine' /\ \A t \in Coming' : t \in Coming \/ t.pkt \in Pending
      BY <1>0, <1>3, <2>8, LineWhole, LineCut
    <3>2. UNCHANGED pkts
      BY <2>8 DEF SendWhole, CutPacket
    <3>3. Pending' \subseteq Pending
      <4>1. CASE SendWhole(1)
        BY <1>0, <4>1, TookServe, PendingStays DEF OneCut, SendWhole
      <4>2. CASE CutPacket(1)
        BY <4>2, TakeFirst DEF CutPacket, Pending, Held
      <4> QED BY <2>8, <4>1, <4>2
    <3>4. Past'
      BY <1>0, <2>0, <3>1, <3>2, <3>3, PastDu
    <3> QED BY <1>0, <3>1, <3>4 DEF FifoInv
  <2> QED BY <1>0, <1>3, <2>1, <2>2, <2>3, <2>4, <2>5, <2>6, <2>7, <2>8 DEF DuNext, Serve
<1>4. CASE UNCHANGED vars
  BY <1>2, <1>4 DEF vars, duVars, ueVars
<1> QED BY <1>1, <1>3, <1>4 DEF Next

\* The line is empty at first.
LEMMA FifoInit ==
  ASSUME OneQueue, Init
  PROVE  FifoInv
<1>1. /\ dl = <<>> /\ segmentBuffer[1] = <<>> /\ ue.pc = "idle" /\ delivered = <<>>
      /\ \A i \in Ids : ctx[i].got = {} /\ ctx[i].total = 0
  BY OneQueueFacts DEF Init, DuInit, UeInit, IdleUe, NoContext
<1>2. Stored = {} /\ InHand = {} /\ OnAir = {} /\ CutUp = {} /\ CameOut = {}
  BY <1>1 DEF Stored, InHand, OnAir, CutUp, Elems, CameOut, Arrived
<1>3. InLine
  BY <1>1, <1>2 DEF InLine, Rising, Ahead
<1> QED BY <1>1, <1>2, <1>3 DEF FifoInv, Past, Based

-----------------------------------------------------------------------------
(* The refinement.                                                         *)

\* Sole names the packet of an arrival that has one.
LEMMA SoleFacts ==
  /\ \A p : Sole({p}) = p
  /\ \A S : Sole(S) = 0 \/ S = {Sole(S)}
<1>1. ASSUME NEW S, NEW p, S = {p} PROVE Sole(S) = p
  BY <1>1 DEF Sole
<1>2. ASSUME NEW S PROVE Sole(S) = 0 \/ S = {Sole(S)}
  <2>1. CASE \E p \in S : S = {p}
    BY <1>1, <2>1
  <2>2. CASE ~\E p \in S : S = {p}
    BY <2>2 DEF Sole
  <2> QED BY <2>1, <2>2
<1> QED BY <1>1, <1>2

\* A delivery of the UE is one of AckedFifo.
LEMMA RefinesDelivery ==
  ASSUME OneQueue, TypeOK, OneCut, Past, UNCHANGED <<pkts, acked>>,
         NEW parts, NEW size, Deliver(parts, size), ue.pc = "process",
         \A p : {s.pkt : s \in parts} = {p} => p = ue.seg.pkt
  PROVE  Fifo!Next
<1> DEFINE S == {s.pkt : s \in parts}
           d == [id |-> ue.seg.id, from |-> S]
<1>1. delivered \in Seq(Arrival) /\ delivered' = Append(delivered, d) /\ d.from = S
  BY DEF TypeOK, Deliver
<1> HIDE DEF d, S
<1>2. /\ OutOf' = [k \in 1..(Len(delivered) + 1) |->
                     IF k = Len(delivered) + 1 THEN Sole(S) ELSE OutOf[k]]
      /\ OutOf = [k \in 1..Len(delivered) |-> OutOf[k]] /\ Len(delivered) \in Nat
  <2>1. /\ DOMAIN delivered = 1..Len(delivered) /\ Len(delivered) \in Nat
        /\ DOMAIN delivered' = 1..(Len(delivered) + 1)
        /\ \A k \in 1..Len(delivered) : delivered'[k] = delivered[k]
        /\ delivered'[Len(delivered) + 1] = d
    BY <1>1
  <2> QED BY <1>1, <2>1 DEF OutOf
<1>3. OutOf' = Append(OutOf, Sole(S))
  <2>1. OutOf \in Seq({OutOf[k] : k \in 1..Len(delivered)}) /\ Len(OutOf) = Len(delivered)
    BY <1>2
  <2> QED BY <1>2, <2>1
<1>4. CASE Sole(S) = 0
  <2>1. Fifo!DeliverMixed
    BY <1>3, <1>4 DEF Fifo!DeliverMixed, OutOf
  <2> QED BY <2>1 DEF Fifo!Next
<1>5. CASE Sole(S) # 0
  <2> DEFINE p == ue.seg.pkt
  <2>1. S = {p} /\ Sole(S) = p
    BY <1>5, SoleFacts DEF S
  <2>2. p \in 1..Len(pkts) /\ ue.seg \in Coming
    <3>1. ue.seg \in Known /\ ue.seg \in Coming
      BY DEF Known, Coming, InHand
    <3>2. p \in DOMAIN pkts /\ pkts \in Seq(Packet)
      BY <3>1 DEF OneCut, SegOK, TypeOK
    <3> QED BY <3>1, <3>2
  <2>3. \A k \in DOMAIN OutOf : OutOf[k] < p
    <3> TAKE k \in DOMAIN OutOf
    <3>1. k \in DOMAIN delivered /\ OutOf[k] = Sole(delivered[k].from)
      BY DEF OutOf
    <3>2. CASE OutOf[k] = 0
      BY <2>2, <3>2
    <3>3. CASE OutOf[k] # 0
      <4>1. delivered[k].from = {OutOf[k]}
        BY <3>1, <3>3, SoleFacts
      <4>2. delivered[k] \in Arrived /\ delivered[k].from \subseteq Nat
        <5>1. delivered[k] \in Arrival
          BY <1>1, <3>1
        <5> QED BY <3>1, <5>1 DEF Arrived, Arrival
      <4>3. OutOf[k] \in CameOut
        BY <4>1, <4>2 DEF CameOut
      <4> QED BY <2>2, <4>3 DEF Past
    <3> QED BY <3>2, <3>3
  <2>4. Fifo!Deliver(p)
    BY <1>3, <2>1, <2>3 DEF Fifo!Deliver, OutOf
  <2> QED BY <2>2, <2>4 DEF Fifo!Next
<1> QED BY <1>4, <1>5

\* Every step of the link is one of AckedFifo or changes nothing there.
LEMMA FifoStep ==
  ASSUME OneQueue, DeliveryInv, DeliveryInv', FifoInv, [Next]_vars
  PROVE  [Fifo!Next]_(Fifo!vars)
<1>0. /\ TypeOK /\ OneCut /\ InLine /\ Past /\ Based /\ Registered /\ AckedDelivered'
  BY DEF DeliveryInv, FifoInv
<1>1. ASSUME UNCHANGED <<delivered, acked>>, Len(pkts') = Len(pkts) PROVE UNCHANGED Fifo!vars
  BY <1>1 DEF Fifo!vars, OutOf
<1>2. CASE UeNext /\ UNCHANGED duVars
  <2>1. UNCHANGED <<pkts, acked>>
    BY <1>2, UeFrame
  <2>2. CASE UNCHANGED delivered
    BY <1>1, <2>1, <2>2
  <2>3. ASSUME NEW parts, NEW size, Deliver(parts, size), ue.pc = "process",
               \A p : {s.pkt : s \in parts} = {p} => p = ue.seg.pkt
        PROVE  Fifo!Next
    BY <1>0, <2>1, <2>3, RefinesDelivery
  <2> QED BY <1>0, <1>2, <2>2, <2>3, DeliveriesFinished
<1>3. CASE DuNext /\ UNCHANGED ueVars
  <2>0. UNCHANGED delivered
    BY <1>3 DEF ueVars
  <2>1. ASSUME NEW q \in Queues, NEW size \in Sizes, EnqueuePacket(q, size) PROVE Fifo!Next
    <3>1. Len(pkts') = Len(pkts) + 1 /\ acked' = acked
      BY <1>0, <2>1, EnqueueFacts DEF EnqueuePacket
    <3>2. Fifo!Accept
      BY <2>0, <3>1 DEF Fifo!Accept, OutOf
    <3> QED BY <3>2 DEF Fifo!Next
  <2>2. CASE AssignId
    <3>1. Len(pkts') = Len(pkts) /\ acked' = acked
      BY <2>2, AssignFacts DEF DeliveryInv, AssignId
    <3> QED BY <1>1, <2>0, <3>1
  <2>3. CASE CountBytes \/ AddPacket
    BY <1>1, <2>0, <2>3 DEF CountBytes, AddPacket
  <2>4. CASE \/ ExecPoll \/ MacAdvance \/ (\E q \in Queues : PollTimerExpires(q))
             \/ (\E b \in Budgets : SlotBegin(b)) \/ (\E q \in Queues : Serve(q))
    BY <1>1, <2>0, <2>4, DuFrame
  <2>5. ASSUME NEW id \in Ids, ProcessAck(id) PROVE [Fifo!Next]_(Fifo!vars)
    <3> DEFINE p == retx[1][id]
    <3>1. acked' = acked \cup ({p} \ {0}) /\ pkts' = pkts
      BY <2>5 DEF ProcessAck
    <3>2. CASE p = 0
      BY <1>1, <2>0, <3>1, <3>2
    <3>3. CASE p # 0
      <4>1. p \in acked' /\ acked' = acked \cup {p}
        BY <3>1, <3>3
      <4>2. PICK e \in Arrived : e.from = {p}
        <5>1. Arrived' = Arrived
          BY <2>0 DEF Arrived
        <5> HIDE DEF p
        <5> QED BY <1>0, <4>1, <5>1 DEF AckedDelivered
      <4>3. PICK k \in DOMAIN delivered : delivered[k].from = {p}
        BY <4>2 DEF Arrived
      <4>4. \E j \in DOMAIN OutOf : OutOf[j] = p
        BY <4>3, SoleFacts DEF OutOf
      <4>5. p \in 1..Len(pkts)
        <5>1. p \in DOMAIN pkts /\ pkts \in Seq(Packet)
          BY <1>0, <3>3 DEF Registered, Named, TypeOK
        <5> QED BY <5>1
      <4>6. Fifo!Acknowledge(p)
        BY <2>0, <3>1, <4>1, <4>4 DEF Fifo!Acknowledge, OutOf
      <4> QED BY <4>5, <4>6 DEF Fifo!Next
    <3> QED BY <3>2, <3>3
  <2> QED BY <1>3, <2>1, <2>2, <2>3, <2>4, <2>5 DEF DuNext
<1>4. CASE UNCHANGED vars
  BY <1>1, <1>4 DEF vars, duVars, ueVars
<1> QED BY <1>2, <1>3, <1>4 DEF Next

(***************************************************************************)
(* With one bearer queue and fewer packets than ids the link implements    *)
(* AckedFifo, whatever the slots' budgets cut, drop or hold up and however *)
(* its threads interleave: segmentation and reassembly neither reorder nor *)
(* repeat packets.                                                         *)
(***************************************************************************)
THEOREM RefinesAckedFifo ==
  ASSUME OneQueue
  PROVE  Spec => ImplementsFifo
<1>1. Init => Fifo!Init
  BY DEF Init, DuInit, UeInit, Fifo!Init, OutOf
<1>2. Init => FifoInv
  BY FifoInit
<1>3. DeliveryInv /\ FifoInv /\ [Next]_vars => FifoInv'
  BY FifoKept DEF DeliveryInv
<1>4. DeliveryInv /\ DeliveryInv' /\ FifoInv /\ [Next]_vars => [Fifo!Next]_(Fifo!vars)
  BY FifoStep
<1> QED BY <1>1, <1>2, <1>3, <1>4, DeliveryInvariance, PTL DEF Spec, ImplementsFifo,
                    Fifo!Spec
=============================================================================
