--------------------------- MODULE RlcLinkProofs ----------------------------
(***************************************************************************)
(* Proofs about RlcLink, for every number of queues, packets, ids, sizes   *)
(* and slot budgets, and without the turns of MCRlcLink.                   *)
(***************************************************************************)
EXTENDS RlcLink, FiniteSetTheorems, SequenceTheorems, TLAPS

(***************************************************************************)
(* Arithmetic of the cut: the number of segments is the least that holds   *)
(* the packet.                                                             *)
(***************************************************************************)
LEMMA TotalBounds ==
  ASSUME NEW size \in Nat, NEW payload \in Nat \ {0}
  PROVE  /\ Total(size, payload) \in Nat
         /\ size <= Total(size, payload) * payload
         /\ Total(size, payload) * payload < size + payload
  BY SMTT(30) DEF Total

\* Ids are natural numbers.
LEMMA IdsType == 0 \in Ids /\ Ids \subseteq Nat /\ IdMod \in Nat \ {0}
  BY RlcConstants DEF Ids

\* There is a first queue and there are finitely many.
LEMMA QueuesFacts == 1 \in Queues /\ IsFiniteSet(Queues)
  BY RlcConstants, FS_Interval DEF Queues

\* The group of a level that has a queue is not empty.
LEMMA GroupSize ==
  ASSUME NEW l, NEW q \in Group(l)
  PROVE  Cardinality(Group(l)) \in Nat \ {0}
<1>1. IsFiniteSet(Group(l))
  BY QueuesFacts, FS_Subset DEF Group
<1>2. Cardinality(Group(l)) \in Nat /\ Cardinality(Group(l)) # 0
  BY <1>1, FS_CardinalityType, FS_EmptySet
<1> QED BY <1>2

\* A queue's place among those of its level is a number.
LEMMA RankType ==
  ASSUME NEW q \in Queues
  PROVE  Rank(q) \in Nat
<1>1. IsFiniteSet({r \in Group(mac.level) : r < q})
  BY QueuesFacts, FS_Subset DEF Group
<1> QED BY <1>1, FS_CardinalityType DEF Rank

\* The MAC loop moves to a proper place and keeps what is left of the budget.
LEMMA AfterType ==
  ASSUME TypeOK, NEW q \in Queues, q \in Group(mac.level)
  PROVE  After(q) \in MacState /\ After(q).avail = mac.avail /\ After(q).took = 0
<1>1. (Rank(q) + 1) % Cardinality(Group(mac.level)) \in Nat
  BY RankType, GroupSize
<1>2. mac \in MacState
  BY DEF TypeOK
<1> QED BY <1>1, <1>2 DEF After, MacState

\* A queue that is passed over leaves the MAC loop well-formed.
LEMMA SkippedType ==
  ASSUME TypeOK, NEW q \in Queues, q \in Group(mac.level), Skipped(q)
  PROVE  mac' \in MacState /\ mac'.took = 0
<1>1. After(q) \in MacState /\ After(q).took = 0
  BY AfterType
<1> QED BY <1>1 DEF Skipped, MacState

\* A segment that fits is put on the air and its size taken from the budget.
LEMMA SentType ==
  ASSUME TypeOK, NEW q \in Queues, q \in Group(mac.level), NEW s \in Segment,
         WireSize(s) <= mac.avail, Sent(q, s)
  PROVE  mac' \in MacState /\ mac'.took = 0 /\ dl' \in Seq(Segment)
<1>1. After(q) \in MacState /\ After(q).avail = mac.avail /\ After(q).took = 0
  BY AfterType
<1>2. WireSize(s) \in Nat
  BY DEF WireSize, Segment, RLC_SEGMENT_HEADER_SIZE
<1>3. mac.avail - WireSize(s) \in Nat
  BY <1>2 DEF TypeOK, MacState
<1>4. mac' \in MacState /\ mac'.took = 0
  BY <1>1, <1>3 DEF Sent, MacState
<1> QED BY <1>4 DEF Sent, TypeOK

(***************************************************************************)
(* The receive thread of the DU.                                           *)
(***************************************************************************)
LEMMA TypeEnqueue ==
  ASSUME TypeOK, NEW q \in Queues, NEW size \in Sizes, EnqueuePacket(q, size), UNCHANGED ueVars
  PROVE  TypeOK'
<1>1. [q |-> q, size |-> size, id |-> 0] \in Packet
  BY IdsType, RlcConstants DEF Packet
<1>2. pkts' \in Seq(Packet) /\ Len(pkts) + 1 \in Nat
  BY <1>1 DEF TypeOK, EnqueuePacket
<1>3. packetBuffer' \in [Queues -> Seq(Nat)]
  BY <1>2 DEF TypeOK, EnqueuePacket
<1>4. enq' \in EnqState
  BY <1>2 DEF EnqueuePacket, EnqState
<1> QED BY <1>2, <1>3, <1>4 DEF TypeOK, EnqueuePacket, ueVars

\* The later steps of enqueuePacket keep the types.
LEMMA TypeReceiveThread ==
  ASSUME TypeOK, enq.pc # "idle" => enq.p \in DOMAIN pkts,
         AssignId \/ CountBytes \/ AddPacket, UNCHANGED ueVars
  PROVE  TypeOK'
<1> DEFINE p == enq.p
           q == pkts[p].q
<1>0. p \in DOMAIN pkts /\ pkts[p] \in Packet /\ q \in Queues /\ pkts[p].size \in Nat
      /\ pkts[p].id \in Ids
  <2>1. p \in DOMAIN pkts
    BY DEF AssignId, CountBytes, AddPacket
  <2>2. pkts[p] \in Packet
    BY <2>1 DEF TypeOK
  <2> QED BY <2>1, <2>2 DEF Packet
<1>1. CASE AssignId
  <2>1. nextId[q] \in Nat
    BY <1>0 DEF TypeOK
  <2>2. nextId[q] % IdMod \in Ids
    BY <2>1, IdsType DEF Ids
  <2>3. pkts' \in Seq(Packet)
    <3> DEFINE new == [pkts[p] EXCEPT !.id = nextId[q] % IdMod]
    <3>1. new \in Packet
      BY <1>0, <2>2 DEF Packet
    <3>2. pkts' = [pkts EXCEPT ![p] = new]
      BY <1>1 DEF AssignId
    <3>3. pkts \in Seq(Packet)
      BY DEF TypeOK
    <3> HIDE DEF new, p
    <3> QED BY <3>1, <3>2, <3>3, <1>0
  <2>4. nextId' \in [Queues -> Nat]
    <3>1. nextId' = [nextId EXCEPT ![q] = nextId[q] + 1]
      BY <1>1 DEF AssignId
    <3>2. nextId \in [Queues -> Nat]
      BY DEF TypeOK
    <3> QED BY <3>1, <3>2, <2>1, <1>0
  <2>5. enq' \in EnqState
    BY <1>1 DEF AssignId, TypeOK, EnqState
  <2> QED BY <1>1, <2>3, <2>4, <2>5 DEF AssignId, TypeOK, ueVars
<1>2. CASE CountBytes
  <2>1. bytes' = [bytes EXCEPT ![q] = bytes[q] + pkts[p].size] /\ bytes \in [Queues -> Int]
    BY <1>2 DEF CountBytes, TypeOK
  <2>2. bytes' \in [Queues -> Int]
    BY <1>0, <2>1
  <2>3. enq' \in EnqState
    BY <1>2 DEF CountBytes, TypeOK, EnqState
  <2> QED BY <1>2, <2>2, <2>3 DEF CountBytes, TypeOK, ueVars
<1>3. CASE AddPacket
  <2>1. p \in Nat /\ retx \in [Queues -> [Ids -> Nat]]
    BY DEF TypeOK, EnqState
  <2>2. retx' \in [Queues -> [Ids -> Nat]]
    BY <1>0, <1>3, <2>1 DEF AddPacket
  <2>3. enq' \in EnqState
    BY <1>3 DEF AddPacket, IdleEnq, EnqState
  <2> QED BY <1>3, <2>2, <2>3 DEF AddPacket, TypeOK, ueVars
<1> QED BY <1>1, <1>2, <1>3

\* The poll timers keep the types.
LEMMA TypePolls ==
  ASSUME TypeOK, ExecPoll \/ (\E q \in Queues : PollTimerExpires(q)), UNCHANGED ueVars
  PROVE  TypeOK'
  BY DEF TypeOK, ExecPoll, PollTimerExpires, ueVars

\* Processing an acknowledgement keeps the types.
LEMMA TypeAck ==
  ASSUME TypeOK, NEW id \in Ids, ProcessAck(id), UNCHANGED ueVars
  PROVE  TypeOK'
<1>1. ul' \in Pdus
  BY DEF TypeOK, ProcessAck, Pdus
<1>2. retx' \in [Queues -> [Ids -> Nat]] /\ acked' \subseteq Nat
  <2>1. /\ retx \in [Queues -> [Ids -> Nat]] /\ acked \subseteq Nat
        /\ retx' = [retx EXCEPT ![1][id] = 0]
        /\ acked' = acked \cup ({retx[1][id]} \ {0})
    BY DEF TypeOK, ProcessAck
  <2>2. retx[1][id] \in Nat
    BY <2>1, QueuesFacts
  <2> QED BY <2>1, <2>2, QueuesFacts
<1>3. pollDue' \in [Queues -> BOOLEAN]
  BY DEF TypeOK, ProcessAck
<1> QED BY <1>1, <1>2, <1>3 DEF TypeOK, ProcessAck, ueVars

(***************************************************************************)
(* The MAC thread.  Packets are where packetBuffer, enqueuePacket and      *)
(* dequeuePacket say, and none is empty: without this a slot could read    *)
(* past the register.                                                      *)
(***************************************************************************)
Indices ==
  /\ enq.pc # "idle" => enq.p \in DOMAIN pkts
  /\ \A p \in DOMAIN pkts : pkts[p].size \in Sizes
  /\ \A q \in Queues : \A i \in DOMAIN packetBuffer[q] :
       packetBuffer[q][i] \in DOMAIN pkts /\ pkts[packetBuffer[q][i]].q = q
  /\ mac.took # 0 => /\ mac.on /\ mac.took \in DOMAIN pkts
                     /\ pkts[mac.took].q \in Group(mac.level)

\* The segments of a packet lie end to end, and the last one ends with the packet.
EndToEnd(segs, p, total, payload) ==
  /\ segs \in Seq(Segment) /\ total \in Nat \ {0} /\ Len(segs) = total
  /\ \A i \in 1..total :
       /\ segs[i].pkt = p /\ segs[i].id = pkts[p].id /\ segs[i].size = pkts[p].size
       /\ segs[i].num = i - 1 /\ segs[i].total = total
       /\ segs[i].len <= payload
       /\ i = 1 => segs[i].off = 0
       /\ i < total => segs[i + 1].off = segs[i].off + segs[i].len
       /\ i = total => segs[i].off + segs[i].len = pkts[p].size

\* segmentPacket lays the segments end to end: the offsets follow the lengths.
LEMMA SegmentsOf ==
  ASSUME TypeOK, Indices, NEW p \in DOMAIN pkts, NEW payload \in Nat \ {0}, NEW poll \in BOOLEAN
  PROVE  EndToEnd(SegmentPacket(p, payload, poll), p, Total(pkts[p].size, payload), payload)
<1> DEFINE segs == SegmentPacket(p, payload, poll)
           size == pkts[p].size
           total == Total(size, payload)
<1>1. size \in Nat \ {0} /\ pkts[p].id \in Ids /\ p \in Nat
  <2>1. pkts[p] \in Packet /\ p \in Nat
    BY DEF TypeOK
  <2>2. size \in Sizes
    BY DEF Indices
  <2>3. size \in Nat /\ 20 <= size
    BY <2>2, RlcConstants
  <2> QED BY <2>1, <2>3 DEF Packet
<1>2. total \in Nat /\ size <= total * payload /\ total * payload < size + payload
  BY <1>1, TotalBounds
<1>3. total # 0
  BY <1>1, <1>2
<1>4. \A i \in 1..total : /\ (i - 1) * payload \in Nat
                          /\ (i - 1) * payload < size
                          /\ i < total => (i - 1) * payload + payload <= size
                          /\ i = total => size <= (i - 1) * payload + payload
  <2> HIDE DEF total, size
  <2> SUFFICES ASSUME NEW i \in 1..total
               PROVE  /\ (i - 1) * payload \in Nat
                      /\ (i - 1) * payload < size
                      /\ i < total => (i - 1) * payload + payload <= size
                      /\ i = total => size <= (i - 1) * payload + payload
    OBVIOUS
  <2>1. (i - 1) * payload + payload = i * payload /\ i * payload \in Nat /\ (i - 1) * payload \in Nat
    BY <1>2
  <2>2. i * payload <= total * payload
    BY <1>2
  <2>3. i < total => (i + 1) * payload <= total * payload /\ (i + 1) * payload = i * payload + payload
    BY <1>2
  <2> QED BY <1>1, <1>2, <2>1, <2>2, <2>3
<1>5. \A i \in 1..total :
        segs[i] = [pkt |-> p, id |-> pkts[p].id, num |-> i - 1, total |-> total, size |-> size,
                   off |-> (i - 1) * payload,
                   len |-> IF size - (i - 1) * payload > payload THEN payload
                           ELSE size - (i - 1) * payload,
                   poll |-> poll /\ i = total]
  BY DEF SegmentPacket
<1>6. segs = [i \in 1..total |-> segs[i]]
  BY DEF SegmentPacket
<1> HIDE DEF segs, total, size
<1>7. \A i \in 1..total : /\ segs[i] \in Segment
                          /\ segs[i].len <= payload
                          /\ i < total => segs[i].len = payload
                          /\ i = total => segs[i].off + segs[i].len = size
  <2> SUFFICES ASSUME NEW i \in 1..total
               PROVE  /\ segs[i] \in Segment
                      /\ segs[i].len <= payload
                      /\ i < total => segs[i].len = payload
                      /\ i = total => segs[i].off + segs[i].len = size
    OBVIOUS
  <2> DEFINE o == (i - 1) * payload
             l == IF size - o > payload THEN payload ELSE size - o
  <2>1. o \in Nat /\ o < size /\ (i < total => o + payload <= size)
        /\ (i = total => size <= o + payload)
    BY <1>4
  <2>2. /\ segs[i].pkt = p /\ segs[i].id = pkts[p].id /\ segs[i].num = i - 1
        /\ segs[i].total = total /\ segs[i].size = size
        /\ segs[i].off = o /\ segs[i].len = l
        /\ segs[i] = [pkt |-> p, id |-> pkts[p].id, num |-> i - 1, total |-> total,
                      size |-> size, off |-> o, len |-> l, poll |-> poll /\ i = total]
    BY <1>5
  <2> HIDE DEF o
  <2>3. l \in Nat /\ l <= payload /\ (i < total => l = payload) /\ (i = total => o + l = size)
    BY <1>1, <1>2, <2>1
  <2> HIDE DEF l
  <2>4. segs[i] \in Segment
    BY <1>1, <1>2, <2>1, <2>2, <2>3 DEF Segment
  <2> QED BY <2>2, <2>3, <2>4
<1>8. segs \in Seq(Segment) /\ Len(segs) = total
  BY <1>2, <1>6, <1>7
<1>9. \A i \in 1..total :
        /\ segs[i].pkt = p /\ segs[i].id = pkts[p].id /\ segs[i].size = size
        /\ segs[i].num = i - 1 /\ segs[i].total = total
        /\ segs[i].off = (i - 1) * payload
  <2> TAKE i \in 1..total
  <2> DEFINE o == (i - 1) * payload
             l == IF size - o > payload THEN payload ELSE size - o
  <2>1. segs[i] = [pkt |-> p, id |-> pkts[p].id, num |-> i - 1, total |-> total,
                   size |-> size, off |-> o, len |-> l, poll |-> poll /\ i = total]
    BY <1>5
  <2> HIDE DEF o, l
  <2>2. segs[i].off = o
    BY <2>1
  <2>3. /\ segs[i].pkt = p /\ segs[i].id = pkts[p].id /\ segs[i].size = size
        /\ segs[i].num = i - 1 /\ segs[i].total = total
    BY <2>1
  <2> QED BY <2>2, <2>3 DEF o
<1>10. \A i \in 1..total : /\ i = 1 => segs[i].off = 0
                           /\ i < total => segs[i + 1].off = segs[i].off + segs[i].len
  <2> SUFFICES ASSUME NEW i \in 1..total
               PROVE  /\ i = 1 => segs[i].off = 0
                      /\ i < total => segs[i + 1].off = segs[i].off + segs[i].len
    OBVIOUS
  <2>1. i < total => (i + 1) - 1 = i /\ i + 1 \in 1..total
    BY <1>2
  <2>2. i * payload = (i - 1) * payload + payload
    BY <1>2
  <2>3. i < total => segs[i + 1].off = i * payload
    BY <1>9, <2>1
  <2>4. i < total => segs[i].len = payload
    BY <1>7
  <2>5. segs[i].off = (i - 1) * payload
    BY <1>9
  <2>6. i = 1 => (i - 1) * payload = 0
    OBVIOUS
  <2> QED BY <2>2, <2>3, <2>4, <2>5, <2>6
<1> QED BY <1>2, <1>3, <1>7, <1>8, <1>9, <1>10 DEF EndToEnd, segs, total, size

\* A segment is never planned larger than what is left of the slot.
LEMMA SegmentSizeFacts ==
  ASSUME TypeOK
  PROVE  SegmentSize \in Nat /\ SegmentSize <= mac.avail
  BY DEF TypeOK, MacState, SegmentSize, RLC_MAX_SEGMENT_SIZE

\* A new slot and the end of a queue's turn keep the types.
LEMMA TypeSlot ==
  ASSUME TypeOK, (\E b \in Budgets : SlotBegin(b)) \/ MacAdvance, UNCHANGED ueVars
  PROVE  TypeOK'
<1>1. mac' \in MacState
  <2>1. CASE \E b \in Budgets : SlotBegin(b)
    <3>1. PICK b \in Budgets, l \in Levels :
            mac' = [IdleMac EXCEPT !.on = TRUE, !.avail = b, !.level = l]
      BY <2>1 DEF SlotBegin, Highest
    <3>2. b \in Nat
      BY RlcConstants
    <3> QED BY <3>1, <3>2 DEF IdleMac, MacState
  <2>2. CASE MacAdvance
    <3>1. mac \in MacState
      BY DEF TypeOK
    <3>2. Highest(IF mac.found THEN Levels ELSE Below(mac.level)) \subseteq Levels
      BY DEF Highest, Below
    <3>3. CASE mac' = IdleMac
      BY <3>3 DEF IdleMac, MacState
    <3>4. CASE \E l \in Levels : mac' = [mac EXCEPT !.attempts = 0, !.found = FALSE, !.level = l]
      <4> PICK l \in Levels : mac' = [mac EXCEPT !.attempts = 0, !.found = FALSE, !.level = l]
        BY <3>4
      <4>1. /\ mac'.on = mac.on /\ mac'.avail = mac.avail /\ mac'.last = mac.last
            /\ mac'.level = l /\ mac'.attempts = 0 /\ mac'.found = FALSE
            /\ mac'.took = mac.took
        BY <3>1 DEF MacState
      <4> QED BY <3>1, <4>1 DEF MacState
    <3> QED BY <2>2, <3>2, <3>3, <3>4 DEF MacAdvance
  <2> QED BY <2>1, <2>2
<1> QED BY <1>1 DEF TypeOK, SlotBegin, MacAdvance, ueVars

\* The first stored segment leaves in one piece, poll bit or not.
LEMMA LeavesType ==
  ASSUME TypeOK, NEW q \in Queues, q \in Group(mac.level), FirstSegmentLeaves(q)
  PROVE  /\ mac' \in MacState /\ mac'.took = 0 /\ dl' \in Seq(Segment)
         /\ segmentBuffer' \in [Queues -> Seq(Segment)] /\ pollDue' \in [Queues -> BOOLEAN]
<1> DEFINE s == Head(segmentBuffer[q])
           t == [s EXCEPT !.poll = @ \/ (pollDue[q] /\ s.num = s.total - 1)]
<1>1. segmentBuffer[q] \in Seq(Segment) /\ segmentBuffer[q] # <<>> /\ pollDue[q] \in BOOLEAN
  BY DEF TypeOK, FirstSegmentLeaves
<1>2. s \in Segment /\ Tail(segmentBuffer[q]) \in Seq(Segment)
  BY <1>1
<1>3. t \in Segment /\ WireSize(t) = WireSize(s)
  BY <1>1, <1>2 DEF Segment, WireSize
<1>4. Sent(q, t) /\ WireSize(s) <= mac.avail
  BY DEF FirstSegmentLeaves, SegmentFits
<1> HIDE DEF t
<1>5. mac' \in MacState /\ mac'.took = 0 /\ dl' \in Seq(Segment)
  BY <1>3, <1>4, SentType
<1>6. segmentBuffer' \in [Queues -> Seq(Segment)] /\ pollDue' \in [Queues -> BOOLEAN]
  BY <1>2 DEF TypeOK, FirstSegmentLeaves
<1> QED BY <1>5, <1>6

\* Sending a stored segment keeps the types.
LEMMA TypeSendSegment ==
  ASSUME TypeOK, NEW q \in Queues, SendSegment(q), UNCHANGED ueVars
  PROVE  TypeOK'
<1>1. q \in Group(mac.level) /\ FirstSegmentLeaves(q)
  BY DEF SendSegment, Serves
<1> QED BY <1>1, LeavesType DEF TypeOK, SendSegment, ueVars

\* The turns that send nothing keep the types.
LEMMA TypeSkip ==
  ASSUME TypeOK, NEW q \in Queues, BlockedBySegment(q) \/ TooSmallToSegment(q), UNCHANGED ueVars
  PROVE  TypeOK'
<1>1. mac' \in MacState
  BY SkippedType DEF BlockedBySegment, TooSmallToSegment, Serves
<1> QED BY <1>1 DEF TypeOK, BlockedBySegment, TooSmallToSegment, ueVars

\* The first packet of an unsegmented queue is one that was enqueued.
LEMMA FirstFacts ==
  ASSUME TypeOK, Indices, NEW q \in Queues, Unsegmented(q)
  PROVE  /\ First(q) \in DOMAIN pkts /\ First(q) \in Nat
         /\ pkts[First(q)] \in Packet /\ pkts[First(q)].size \in Nat
         /\ First(q) = packetBuffer[q][1] /\ 1 \in DOMAIN packetBuffer[q]
<1>1. packetBuffer[q] \in Seq(Nat) /\ packetBuffer[q] # <<>>
  BY DEF TypeOK, Unsegmented
<1>2. First(q) = packetBuffer[q][1] /\ 1 \in DOMAIN packetBuffer[q]
  BY <1>1 DEF First
<1>3. First(q) \in DOMAIN pkts
  BY <1>2 DEF Indices
<1>4. pkts[First(q)] \in Packet /\ First(q) \in Nat
  BY <1>3 DEF TypeOK
<1> QED BY <1>2, <1>3, <1>4 DEF Packet

\* The packet the MAC has taken is one that was enqueued.
LEMMA TookFacts ==
  ASSUME TypeOK, Indices, NEW q \in Queues, Took(q)
  PROVE  /\ mac.took \in DOMAIN pkts /\ mac.took \in Nat /\ mac.took # 0
         /\ pkts[mac.took] \in Packet /\ pkts[mac.took].size \in Nat
         /\ pkts[mac.took].q = q /\ q \in Group(mac.level)
<1>1. /\ mac.took \in DOMAIN pkts /\ pkts[mac.took].q = q /\ q \in Group(mac.level)
      /\ mac.took # 0
  BY DEF Indices, Took
<1>2. pkts[mac.took] \in Packet /\ mac.took \in Nat
  BY <1>1 DEF TypeOK, MacState
<1> QED BY <1>1, <1>2 DEF Packet

\* Taking the first packet from its queue keeps the types.
LEMMA TakeType ==
  ASSUME TypeOK, Indices, NEW q \in Queues, Unsegmented(q), Take(q)
  PROVE  packetBuffer' \in [Queues -> Seq(Nat)] /\ mac' \in MacState
<1>1. packetBuffer[q] \in Seq(Nat) /\ packetBuffer[q] # <<>>
  BY DEF TypeOK, Unsegmented
<1>2. Tail(packetBuffer[q]) \in Seq(Nat)
  BY <1>1
<1>3. packetBuffer' \in [Queues -> Seq(Nat)]
  BY <1>2 DEF TypeOK, Take
<1>4. mac' \in MacState
  BY FirstFacts DEF TypeOK, Take, MacState
<1> QED BY <1>3, <1>4

\* Counting it off keeps the counter an integer.
LEMMA UncountType ==
  ASSUME TypeOK, Indices, NEW q \in Queues, Took(q), Uncount(q)
  PROVE  bytes' \in [Queues -> Int]
<1>1. bytes \in [Queues -> Int] /\ pkts[mac.took].size \in Nat
  BY TookFacts DEF TypeOK
<1>2. bytes[q] - pkts[mac.took].size \in Int
  BY <1>1
<1>3. bytes' = [bytes EXCEPT ![q] = bytes[q] - pkts[mac.took].size]
  BY DEF Uncount
<1> QED BY <1>1, <1>2, <1>3

\* The step that takes a packet to be sent whole keeps the types.
LEMMA TypeTakeWhole ==
  ASSUME TypeOK, Indices, NEW q \in Queues, TakeWhole(q), UNCHANGED ueVars
  PROVE  TypeOK'
<1>1. packetBuffer' \in [Queues -> Seq(Nat)] /\ mac' \in MacState
  BY TakeType DEF TakeWhole
<1> QED BY <1>1 DEF TypeOK, TakeWhole, ueVars

\* A packet sent whole is one segment.
LEMMA WholeFacts ==
  ASSUME TypeOK, Indices, NEW q \in Queues, Took(q)
  PROVE  Whole(q) \in Segment
<1>1. pollDue[q] \in BOOLEAN
  BY DEF TypeOK
<1> QED BY <1>1, TookFacts DEF Whole, Segment, Packet

\* Sending a packet whole keeps the types.
LEMMA TypeSendWhole ==
  ASSUME TypeOK, Indices, NEW q \in Queues, SendWhole(q), UNCHANGED ueVars
  PROVE  TypeOK'
<1>1. Took(q) /\ Uncount(q) /\ Placed(q)
  BY DEF SendWhole
<1>2. bytes' \in [Queues -> Int] /\ pollDue' \in [Queues -> BOOLEAN]
  BY <1>1, UncountType DEF TypeOK, Placed
<1>3. Whole(q) \in Segment /\ mac.took \in Nat /\ q \in Group(mac.level)
  BY <1>1, WholeFacts, TookFacts
<1>4. CASE WireSize(Whole(q)) <= mac.avail /\ Sent(q, Whole(q)) /\ UNCHANGED lost
  <2>1. mac' \in MacState /\ dl' \in Seq(Segment)
    BY <1>3, <1>4, SentType
  <2> QED BY <1>2, <1>4, <2>1 DEF TypeOK, SendWhole, ueVars
<1>5. CASE Skipped(q) /\ lost' = lost \cup {mac.took} /\ UNCHANGED dl
  <2>1. mac' \in MacState /\ lost' \subseteq Nat
    BY <1>3, <1>5, SkippedType DEF TypeOK
  <2> QED BY <1>2, <1>5, <2>1 DEF TypeOK, SendWhole, ueVars
<1> QED BY <1>4, <1>5 DEF SendWhole

\* What CutPacket queues is a beginning of the packet's segments.
Cut(q)  == SegmentPacket(First(q), SegmentSize - RLC_SEGMENT_HEADER_SIZE, pollDue[q])
Kept(q) == SubSeq(Cut(q), 1, IF Len(Cut(q)) < SegmentCapacity THEN Len(Cut(q)) ELSE SegmentCapacity)

\* A packet is cut in pieces of at least 78 bytes, a prefix of which is stored.
LEMMA CutFacts ==
  ASSUME TypeOK, Indices, NEW q \in Queues, Unsegmented(q), SegmentSize >= 100
  PROVE  \E total \in Nat, payload \in Nat :
           /\ 78 <= payload /\ total = Total(pkts[First(q)].size, payload)
           /\ EndToEnd(Cut(q), First(q), total, payload)
           /\ Kept(q) \in Seq(Segment) /\ Len(Kept(q)) \in 1..total
           /\ \A i \in 1..Len(Kept(q)) : Kept(q)[i] = Cut(q)[i]
           /\ total <= SegmentCapacity => Len(Kept(q)) = total
           /\ Kept(q) # <<>> /\ Head(Kept(q)) = Cut(q)[1]
           /\ WireSize(Head(Kept(q))) <= mac.avail
<1> DEFINE p == First(q)
           payload == SegmentSize - RLC_SEGMENT_HEADER_SIZE
           total == Total(pkts[p].size, payload)
<1>1. SegmentSize \in Nat /\ SegmentSize <= mac.avail /\ mac.avail \in Nat
  BY SegmentSizeFacts DEF TypeOK, MacState
<1>2. payload \in Nat \ {0} /\ 78 <= payload
  BY <1>1 DEF RLC_SEGMENT_HEADER_SIZE
<1>3. p \in DOMAIN pkts /\ pollDue[q] \in BOOLEAN
  BY FirstFacts DEF TypeOK
<1>4. EndToEnd(Cut(q), p, total, payload)
  BY <1>2, <1>3, SegmentsOf DEF Cut
<1>5. /\ Cut(q) \in Seq(Segment) /\ total \in Nat \ {0} /\ Len(Cut(q)) = total
      /\ Cut(q)[1].len <= payload
  BY <1>4 DEF EndToEnd
<1> HIDE DEF p, total
<1> DEFINE n == IF total < SegmentCapacity THEN total ELSE SegmentCapacity
<1>6. n \in 1..total /\ Kept(q) = SubSeq(Cut(q), 1, n) /\ (total <= SegmentCapacity => n = total)
  <2>1. SegmentCapacity \in Nat \ {0}
    BY RlcConstants DEF SegmentCapacity
  <2> QED BY <1>5, <2>1 DEF Kept
<1> HIDE DEF n
<1>7. Kept(q) \in Seq(Segment) /\ Len(Kept(q)) = n /\ \A i \in 1..n : Kept(q)[i] = Cut(q)[i]
  <2> DEFINE c == Cut(q)
  <2>1. c \in Seq(Segment) /\ n \in 1..Len(c)
    BY <1>5, <1>6
  <2> HIDE DEF c
  <2>2. Len(SubSeq(c, 1, n)) = n /\ SubSeq(c, 1, n) \in Seq(Segment)
    BY <2>1, SubSeqProperties
  <2>3. \A i \in 1..n : SubSeq(c, 1, n)[i] = c[i]
    BY <2>1
  <2> QED BY <1>6, <2>2, <2>3 DEF c
<1>8. Kept(q) # <<>> /\ Head(Kept(q)) = Cut(q)[1]
  <2>1. 1 \in 1..n
    BY <1>5, <1>6
  <2>2. \A k \in Seq(Segment) : Len(k) >= 1 => k # <<>> /\ Head(k) = k[1]
    OBVIOUS
  <2> QED BY <1>7, <2>1, <2>2
<1>9. Cut(q)[1] \in Segment
  BY <1>5
<1>10. WireSize(Head(Kept(q))) <= mac.avail
  <2>1. Cut(q)[1].len \in Nat
    BY <1>9 DEF Segment
  <2>2. Cut(q)[1].len <= payload
    BY <1>5
  <2>3. RLC_SEGMENT_HEADER_SIZE + Cut(q)[1].len <= SegmentSize
    BY <1>1, <2>1, <2>2 DEF RLC_SEGMENT_HEADER_SIZE
  <2>4. WireSize(Head(Kept(q))) = RLC_SEGMENT_HEADER_SIZE + Cut(q)[1].len
    BY <1>8 DEF WireSize
  <2> QED BY <1>1, <2>1, <2>3, <2>4 DEF RLC_SEGMENT_HEADER_SIZE
<1>11. total \in Nat /\ total = Total(pkts[First(q)].size, payload)
  BY <1>5 DEF total, p
<1> HIDE DEF payload
<1> QED BY <1>2, <1>4, <1>6, <1>7, <1>8, <1>10, <1>11 DEF p

\* Cutting a packet keeps the types.
LEMMA TypeCutPacket ==
  ASSUME TypeOK, Indices, NEW q \in Queues, CutPacket(q), UNCHANGED ueVars
  PROVE  TypeOK'
<1>1. /\ Unsegmented(q) /\ Take(q) /\ Placed(q) /\ SegmentSize >= 100
      /\ segmentBuffer' = [segmentBuffer EXCEPT ![q] = Kept(q)]
  BY DEF CutPacket, Kept, Cut
<1>2. Kept(q) \in Seq(Segment)
  BY <1>1, CutFacts
<1>3. segmentBuffer' \in [Queues -> Seq(Segment)] /\ pollDue' \in [Queues -> BOOLEAN]
  BY <1>1, <1>2 DEF TypeOK, Placed
<1>4. packetBuffer' \in [Queues -> Seq(Nat)] /\ mac' \in MacState
  BY <1>1, TakeType
<1> QED BY <1>3, <1>4 DEF TypeOK, CutPacket, ueVars

\* Sending the first segment of a cut keeps the types.
LEMMA TypeSendFirst ==
  ASSUME TypeOK, Indices, NEW q \in Queues, SendFirstSegment(q), UNCHANGED ueVars
  PROVE  TypeOK'
<1>1. q \in Group(mac.level) /\ FirstSegmentLeaves(q) /\ bytes' \in [Queues -> Int]
  BY TookFacts, UncountType DEF SendFirstSegment
<1> QED BY <1>1, LeavesType DEF TypeOK, SendFirstSegment, ueVars

\* A turn of the MAC loop keeps the types.
LEMMA TypeServe ==
  ASSUME TypeOK, Indices, NEW q \in Queues, Serve(q), UNCHANGED ueVars
  PROVE  TypeOK'
  BY TypeSendSegment, TypeSkip, TypeTakeWhole, TypeSendWhole, TypeCutPacket, TypeSendFirst
     DEF Serve

(***************************************************************************)
(* The UE: the receive thread, the status thread and the uplink.           *)
(***************************************************************************)
LEMMA IdleUeType == IdleUe \in UeState /\ NoContext \in Contexts
<1>1. NoSegment \in Segment
  BY IdsType DEF NoSegment, Segment
<1> QED BY <1>1 DEF IdleUe, UeState, NoContext, Contexts

\* A delivery keeps the types of what it changes.
LEMMA DeliverType ==
  ASSUME TypeOK, NEW parts \in SUBSET Segment, NEW size \in Nat, Deliver(parts, size)
  PROVE  ue' \in UeState /\ delivered' \in Seq(Arrival)
<1>1. ue \in UeState /\ ue.seg \in Segment /\ ue.seg.id \in Ids
  BY DEF TypeOK, UeState, Segment
<1>2. {s.pkt : s \in parts} \subseteq Nat
  BY DEF Segment
<1>3. [id |-> ue.seg.id, from |-> {s.pkt : s \in parts}] \in Arrival
  BY <1>1, <1>2 DEF Arrival
<1>4. delivered' \in Seq(Arrival)
  BY <1>3 DEF TypeOK, Deliver
<1>5. ue' \in UeState
  BY <1>1 DEF Deliver, UeState
<1> QED BY <1>4, <1>5

\* Receiving a segment keeps the types.
LEMMA TypeReceive ==
  ASSUME TypeOK, Receive, UNCHANGED duVars
  PROVE  TypeOK'
<1>1. dl \in Seq(Segment) /\ dl # <<>> /\ pendingPoll \in BOOLEAN
  BY DEF TypeOK, Receive
<1>2. Head(dl) \in Segment /\ dl' \in Seq(Segment)
  BY <1>1 DEF Receive
<1>3. ue' \in UeState
  BY <1>2, IdleUeType DEF Receive, UeState
<1>4. pendingPoll' \in BOOLEAN
  BY <1>1, <1>2 DEF Receive, Segment
<1> QED BY <1>2, <1>3, <1>4 DEF TypeOK, Receive, duVars

\* Processing an unsegmented packet keeps the types.
LEMMA TypeWhole ==
  ASSUME TypeOK, ProcessWhole, UNCHANGED duVars
  PROVE  TypeOK'
<1>1. ue.seg \in Segment /\ ue.seg.len \in Nat
  BY DEF TypeOK, UeState, Segment
<1>2. ue' \in UeState /\ delivered' \in Seq(Arrival)
  BY <1>1, DeliverType DEF ProcessWhole
<1> QED BY <1>2 DEF TypeOK, ProcessWhole, duVars

\* The context of the segment in hand, with that segment added, is a context.
LEMMA ContextType ==
  ASSUME TypeOK
  PROVE  /\ ue.seg \in Segment /\ ue.seg.id \in Ids /\ ue.seg.pkt \in Nat
         /\ Context(ue.seg) \in Contexts
         /\ [Context(ue.seg) EXCEPT !.got = @ \cup {ue.seg}] \in Contexts
<1>1. /\ ue.seg \in Segment /\ ue.seg.id \in Ids /\ ue.seg.pkt \in Nat
      /\ ue.seg.total \in Nat /\ ue.seg.size \in Nat
  BY DEF TypeOK, UeState, Segment
<1>2. ctx[ue.seg.id] \in Contexts
  BY <1>1 DEF TypeOK
<1>3. Context(ue.seg) \in Contexts
  BY <1>1, <1>2 DEF Context, Contexts
<1>4. [Context(ue.seg) EXCEPT !.got = @ \cup {ue.seg}] \in Contexts
  BY <1>1, <1>3 DEF Contexts
<1> QED BY <1>1, <1>3, <1>4

\* Dropping or storing a segment and recording its status keep the types.
LEMMA TypeSegment ==
  ASSUME TypeOK, DropSegment \/ StoreSegment \/ RecordStatus, UNCHANGED duVars
  PROVE  TypeOK'
<1> DEFINE c == [Context(ue.seg) EXCEPT !.got = @ \cup {ue.seg}]
<1>0. ue.seg.id \in Ids /\ ue.seg.pkt \in Nat /\ c \in Contexts
  BY ContextType
<1>1. CASE DropSegment
  <2>1. ue' \in UeState /\ broken' \subseteq Nat
    BY <1>0, <1>1, IdleUeType DEF DropSegment, TypeOK
  <2> QED BY <1>1, <2>1 DEF TypeOK, DropSegment, duVars
<1>2. CASE StoreSegment
  <2>1. CASE ctx' = [ctx EXCEPT ![ue.seg.id] = NoContext] /\ Deliver(c.got, c.size)
    <3>1. c.got \in SUBSET Segment /\ c.size \in Nat
      BY <1>0 DEF Contexts
    <3> HIDE DEF c
    <3>2. ue' \in UeState /\ delivered' \in Seq(Arrival)
      BY <2>1, <3>1, DeliverType
    <3>3. ctx' \in [Ids -> Contexts]
      BY <1>0, <2>1, IdleUeType DEF TypeOK
    <3> QED BY <1>2, <3>2, <3>3 DEF TypeOK, StoreSegment, duVars
  <2>2. CASE ctx' = [ctx EXCEPT ![ue.seg.id] = c] /\ ue' = IdleUe /\ UNCHANGED delivered
    <3> HIDE DEF c
    <3>1. ctx' \in [Ids -> Contexts] /\ ue' \in UeState
      BY <1>0, <2>2, IdleUeType DEF TypeOK
    <3> QED BY <1>2, <2>2, <3>1 DEF TypeOK, StoreSegment, duVars
  <2> QED BY <1>2, <2>1, <2>2 DEF StoreSegment
<1>3. CASE RecordStatus
  <2>1. ue' \in UeState /\ pendingStatus' \subseteq Ids
    BY <1>0, <1>3, IdleUeType DEF RecordStatus, TypeOK
  <2> QED BY <1>3, <2>1 DEF TypeOK, RecordStatus, duVars
<1> QED BY <1>1, <1>2, <1>3

\* The status thread keeps the types.
LEMMA TypeStatus ==
  ASSUME TypeOK, UNCHANGED duVars,
         StatusWake \/ (\E expired \in SUBSET Expirable : StatusCollect(expired))
  PROVE  TypeOK'
<1>1. CASE StatusWake
  BY <1>1 DEF TypeOK, StatusWake, duVars
<1>2. ASSUME NEW expired \in SUBSET Expirable, StatusCollect(expired)
      PROVE  TypeOK'
  <2>1. expired \subseteq Ids
    BY DEF Expirable, Open
  <2>2. txQueue' \in Pdus
    <3>1. txQueue \in [Ids -> Nat]
      BY DEF TypeOK, Pdus
    <3>2. \A due : Add(txQueue, due) \in [Ids -> Nat]
      BY <3>1 DEF Add
    <3>3. txQueue' = txQueue \/ \E due : txQueue' = Add(txQueue, due)
      BY <1>2 DEF StatusCollect
    <3> QED BY <3>1, <3>2, <3>3 DEF Pdus
  <2>3. ctx' \in [Ids -> Contexts]
    BY <1>2, IdleUeType DEF TypeOK, StatusCollect
  <2>4. broken' \subseteq Nat
    <3>1. \A i \in expired : ctx[i].got \subseteq Segment
      BY <2>1 DEF TypeOK, Contexts
    <3>2. \A s \in UNION {ctx[i].got : i \in expired} : s.pkt \in Nat
      BY <3>1 DEF Segment
    <3> DEFINE gone == UNION {ctx[i].got : i \in expired}
    <3>3. broken' = broken \cup {s.pkt : s \in gone} /\ broken \subseteq Nat
      BY <1>2 DEF TypeOK, StatusCollect
    <3> HIDE DEF gone
    <3>4. \A s \in gone : s.pkt \in Nat
      BY <3>2 DEF gone
    <3> QED BY <3>3, <3>4
  <2>5. waiting' \subseteq Ids /\ pendingStatus' \subseteq Ids
    BY <1>2 DEF TypeOK, StatusCollect
  <2>6. st' \in [pc : {"wait", "collect"}, poll : BOOLEAN]
    BY <1>2 DEF StatusCollect
  <2> QED BY <1>2, <2>2, <2>3, <2>4, <2>5, <2>6 DEF TypeOK, StatusCollect, duVars
<1> QED BY <1>1, <1>2

\* The uplink thread keeps the types.
LEMMA TypeUplink ==
  ASSUME TypeOK, TxOpportunity \/ (\E id \in Ids : TransmitStatusPdu(id)), UNCHANGED duVars
  PROVE  TypeOK'
<1>1. CASE TxOpportunity
  <2>1. txQueue' \in Pdus /\ pendingPdus' \in Pdus
    BY <1>1 DEF TypeOK, TxOpportunity, NoPdus, Merge, Pdus
  <2> QED BY <1>1, <2>1 DEF TypeOK, TxOpportunity, duVars
<1>2. ASSUME NEW id \in Ids, TransmitStatusPdu(id)
      PROVE  TypeOK'
  <2>1. ul' \in Pdus /\ pendingPdus' \in Pdus
    BY <1>2 DEF TypeOK, TransmitStatusPdu, Pdus
  <2> QED BY <1>2, <2>1 DEF TypeOK, TransmitStatusPdu, duVars
<1> QED BY <1>1, <1>2

\* The MAC has no packet in hand when it turns to another level or slot ...
LEMMA TookAdvance ==
  ASSUME TypeOK, MacAdvance \/ (\E b \in Budgets : SlotBegin(b))
  PROVE  mac'.took = 0
<1>1. mac' = IdleMac => mac'.took = 0
  BY DEF IdleMac
<1>2. ASSUME NEW l, mac' = [mac EXCEPT !.attempts = 0, !.found = FALSE, !.level = l],
             mac.took = 0
      PROVE  mac'.took = 0
  BY <1>2 DEF TypeOK, MacState
<1>3. ASSUME NEW l, NEW b, mac' = [IdleMac EXCEPT !.on = TRUE, !.avail = b, !.level = l]
      PROVE  mac'.took = 0
  BY <1>3 DEF IdleMac
<1>4. CASE MacAdvance
  BY <1>1, <1>2, <1>4 DEF MacAdvance
<1>5. CASE \E b \in Budgets : SlotBegin(b)
  BY <1>3, <1>5 DEF SlotBegin
<1> QED BY <1>4, <1>5

\* ... nor when it has sent something or skipped the queue.
LEMMA TookServe ==
  ASSUME TypeOK, Indices, NEW q \in Queues,
         \/ SendSegment(q) \/ BlockedBySegment(q) \/ TooSmallToSegment(q)
         \/ SendWhole(q) \/ SendFirstSegment(q)
  PROVE  mac'.took = 0
<1>1. CASE SendSegment(q)
  BY <1>1, LeavesType DEF SendSegment, Serves
<1>2. CASE BlockedBySegment(q) \/ TooSmallToSegment(q)
  BY <1>2, SkippedType DEF BlockedBySegment, TooSmallToSegment, Serves
<1>3. CASE SendWhole(q)
  <2>1. Whole(q) \in Segment /\ q \in Group(mac.level)
    BY <1>3, WholeFacts, TookFacts DEF SendWhole
  <2> QED BY <1>3, <2>1, SentType, SkippedType DEF SendWhole
<1>4. CASE SendFirstSegment(q)
  BY <1>4, LeavesType, TookFacts DEF SendFirstSegment
<1> QED BY <1>1, <1>2, <1>3, <1>4

(***************************************************************************)
(* Indices is kept by every step.                                          *)
(***************************************************************************)
LEMMA IndicesKept ==
  ASSUME TypeOK, Indices, [Next]_vars
  PROVE  Indices'
<1>1. CASE \E q \in Queues, size \in Sizes : EnqueuePacket(q, size)
  <2> PICK q \in Queues, size \in Sizes : EnqueuePacket(q, size)
    BY <1>1
  <2>1. /\ pkts \in Seq(Packet) /\ packetBuffer \in [Queues -> Seq(Nat)]
    BY DEF TypeOK
  <2>2. /\ pkts' = Append(pkts, [q |-> q, size |-> size, id |-> 0])
        /\ packetBuffer' = [packetBuffer EXCEPT ![q] = Append(@, Len(pkts) + 1)]
        /\ enq'.p = Len(pkts) + 1
    BY DEF EnqueuePacket
  <2>3. /\ DOMAIN pkts' = 1..(Len(pkts) + 1) /\ DOMAIN pkts = 1..Len(pkts) /\ Len(pkts) \in Nat
        /\ \A p \in DOMAIN pkts : pkts'[p] = pkts[p]
        /\ pkts'[Len(pkts) + 1].size = size /\ pkts'[Len(pkts) + 1].q = q
    BY <2>1, <2>2
  <2>4. \A p \in DOMAIN pkts' : pkts'[p].size \in Sizes
    <3>1. \A p \in DOMAIN pkts : pkts[p].size \in Sizes
      BY DEF Indices
    <3>2. \A p \in DOMAIN pkts' : p \in DOMAIN pkts \/ p = Len(pkts) + 1
      BY <2>3
    <3> QED BY <2>3, <3>1, <3>2
  <2>5. \A r \in Queues : \A i \in DOMAIN packetBuffer'[r] :
          packetBuffer'[r][i] \in DOMAIN pkts' /\ pkts'[packetBuffer'[r][i]].q = r
    <3> TAKE r \in Queues
    <3>1. CASE r # q
      BY <2>1, <2>2, <2>3, <3>1 DEF Indices
    <3>2. CASE r = q
      <4>1. packetBuffer'[r] = Append(packetBuffer[q], Len(pkts) + 1)
            /\ packetBuffer[q] \in Seq(Nat)
        BY <2>1, <2>2, <3>2
      <4>2. \A i \in DOMAIN packetBuffer'[r] :
              \/ i \in DOMAIN packetBuffer[q] /\ packetBuffer'[r][i] = packetBuffer[q][i]
              \/ packetBuffer'[r][i] = Len(pkts) + 1
        BY <2>3, <4>1
      <4>3. \A i \in DOMAIN packetBuffer[q] :
              packetBuffer[q][i] \in 1..Len(pkts) /\ pkts[packetBuffer[q][i]].q = q
        BY <2>3 DEF Indices
      <4> QED BY <2>3, <3>2, <4>2, <4>3
    <3> QED BY <3>1, <3>2
  <2>7. mac' = mac
    BY DEF EnqueuePacket
  <2>8. mac'.took # 0 => /\ mac'.on /\ mac'.took \in DOMAIN pkts'
                         /\ pkts'[mac'.took].q \in Group(mac'.level)
    BY <2>3, <2>7 DEF Indices
  <2>6. enq'.p \in DOMAIN pkts'
    BY <2>2, <2>3
  <2> QED BY <2>4, <2>5, <2>6, <2>8 DEF Indices, Group
<1>2. CASE AssignId
  <2>1. /\ DOMAIN pkts' = DOMAIN pkts
        /\ \A p \in DOMAIN pkts : pkts'[p].size = pkts[p].size /\ pkts'[p].q = pkts[p].q
    <3>1. pkts \in Seq(Packet)
      BY DEF TypeOK
    <3>2. \A p \in DOMAIN pkts : pkts[p] \in Packet
      BY <3>1
    <3> QED BY <1>2, <3>1, <3>2 DEF AssignId, Packet
  <2>2. enq'.p = enq.p
    BY <1>2 DEF AssignId, TypeOK, EnqState
  <2> QED BY <1>2, <2>1, <2>2 DEF AssignId, Indices, Group
<1>3. CASE CountBytes \/ AddPacket
  <2>1. enq'.pc # "idle" => enq'.p = enq.p /\ enq.pc # "idle"
    BY <1>3 DEF CountBytes, AddPacket, IdleEnq, TypeOK, EnqState
  <2> QED BY <1>3, <2>1 DEF CountBytes, AddPacket, Indices, Group
<1>4. ASSUME UNCHANGED <<pkts, enq, packetBuffer>>, mac' = mac \/ mac'.took = 0
      PROVE  Indices'
  BY <1>4 DEF Indices, Group
<1>5. ASSUME NEW q \in Queues, TakeWhole(q) \/ CutPacket(q) PROVE Indices'
  <2>1. /\ packetBuffer' = [packetBuffer EXCEPT ![q] = Tail(@)]
        /\ packetBuffer[q] \in Seq(Nat) /\ packetBuffer[q] # <<>>
        /\ UNCHANGED <<pkts, enq>> /\ packetBuffer \in [Queues -> Seq(Nat)]
    BY <1>5 DEF TakeWhole, CutPacket, Take, Unsegmented, TypeOK
  <2>2. \A i \in DOMAIN Tail(packetBuffer[q]) :
          i + 1 \in DOMAIN packetBuffer[q] /\ Tail(packetBuffer[q])[i] = packetBuffer[q][i + 1]
    BY <2>1
  <2>3. \A r \in Queues : packetBuffer'[r] = IF r = q THEN Tail(packetBuffer[q]) ELSE packetBuffer[r]
    BY <2>1
  <2>4. \A r \in Queues : \A i \in DOMAIN packetBuffer'[r] :
          packetBuffer'[r][i] \in DOMAIN pkts /\ pkts[packetBuffer'[r][i]].q = r
    <3>0. \A r \in Queues : \A i \in DOMAIN packetBuffer[r] :
            packetBuffer[r][i] \in DOMAIN pkts /\ pkts[packetBuffer[r][i]].q = r
      BY DEF Indices
    <3> TAKE r \in Queues
    <3>1. CASE r = q
      <4>1. packetBuffer'[r] = Tail(packetBuffer[q])
        BY <2>3, <3>1
      <4> QED BY <2>2, <3>0, <3>1, <4>1
    <3>2. CASE r # q
      <4>1. packetBuffer'[r] = packetBuffer[r]
        BY <2>3, <3>2
      <4> QED BY <3>0, <4>1
    <3> QED BY <3>1, <3>2
  <2>5. mac'.on /\ mac'.took \in DOMAIN pkts /\ pkts[mac'.took].q \in Group(mac'.level)
    <3>1. mac.on /\ Unsegmented(q) /\ q \in Group(mac.level) /\ mac' = [mac EXCEPT !.took = First(q)]
      BY <1>5 DEF TakeWhole, CutPacket, Take, Serves
    <3>2. mac'.on /\ mac'.took = First(q) /\ mac'.level = mac.level
      BY <3>1 DEF TypeOK, MacState
    <3>3. First(q) \in DOMAIN pkts /\ pkts[First(q)].q = q
      BY <3>1, FirstFacts DEF Indices
    <3> QED BY <3>1, <3>2, <3>3
  <2> QED BY <2>1, <2>4, <2>5 DEF Indices, Group
<1>6. CASE DuNext
  <2>1. CASE \/ ExecPoll \/ (\E q \in Queues : PollTimerExpires(q))
             \/ (\E id \in Ids : ProcessAck(id))
    BY <1>4, <2>1 DEF ExecPoll, PollTimerExpires, ProcessAck
  <2>2. CASE MacAdvance \/ (\E b \in Budgets : SlotBegin(b))
    BY <1>4, <2>2, TookAdvance DEF MacAdvance, SlotBegin
  <2>3. ASSUME NEW q \in Queues, Serve(q) PROVE Indices'
    <3>1. CASE \/ SendSegment(q) \/ BlockedBySegment(q) \/ TooSmallToSegment(q)
               \/ SendWhole(q) \/ SendFirstSegment(q)
      <4>1. UNCHANGED <<pkts, enq, packetBuffer>>
        BY <3>1, Zenon DEF SendSegment, BlockedBySegment, TooSmallToSegment, SendWhole,
           SendFirstSegment
      <4>2. mac'.took = 0
        BY <3>1, TookServe
      <4> QED BY <1>4, <4>1, <4>2
    <3> QED BY <1>5, <2>3, <3>1, Zenon DEF Serve
  <2> QED BY <1>1, <1>2, <1>3, <1>6, <2>1, <2>2, <2>3, Zenon DEF DuNext
<1>7. CASE UeNext /\ UNCHANGED duVars
  BY <1>4, <1>7 DEF UeNext, ProcessSegment, Receive, ProcessWhole, DropSegment,
                    StoreSegment,
     RecordStatus, StatusWake, StatusCollect, TxOpportunity, TransmitStatusPdu, duVars
<1>8. CASE UNCHANGED vars
  BY <1>4, <1>8 DEF vars, duVars
<1> QED BY <1>6, <1>7, <1>8 DEF Next

\* Every step preserves the types.
LEMMA TypeKept ==
  ASSUME TypeOK, Indices, [Next]_vars
  PROVE  TypeOK'
<1>1. CASE DuNext /\ UNCHANGED ueVars
  BY <1>1, TypeEnqueue, TypeReceiveThread, TypePolls, TypeAck, TypeSlot, TypeServe DEF DuNext, Indices
<1>2. CASE UeNext /\ UNCHANGED duVars
  BY <1>2, TypeReceive, TypeWhole, TypeSegment, TypeStatus, TypeUplink DEF UeNext,
                    ProcessSegment
<1>3. CASE UNCHANGED vars
  BY <1>3 DEF vars, duVars, ueVars, TypeOK
<1> QED BY <1>1, <1>2, <1>3 DEF Next

\* The initial states are of the right types.
LEMMA InitType == Init => TypeOK /\ Indices
<1> SUFFICES ASSUME Init PROVE TypeOK /\ Indices
  OBVIOUS
<1> USE DEF Init, DuInit, UeInit
<1>1. pkts \in Seq(Packet) /\ dl \in Seq(Segment) /\ delivered \in Seq(Arrival)
  OBVIOUS
<1>2. ul \in Pdus /\ txQueue \in Pdus /\ pendingPdus \in Pdus
  BY DEF NoPdus, Pdus
<1>3. packetBuffer \in [Queues -> Seq(Nat)] /\ segmentBuffer \in [Queues -> Seq(Segment)]
  OBVIOUS
<1>4. nextId \in [Queues -> Nat] /\ bytes \in [Queues -> Int] /\ retx \in [Queues -> [Ids -> Nat]]
  OBVIOUS
<1>5. enq \in EnqState /\ mac \in MacState /\ ue \in UeState /\ ctx \in [Ids -> Contexts]
  BY IdleUeType DEF IdleEnq, EnqState, IdleMac, MacState
<1>6. TypeOK
  BY <1>1, <1>2, <1>3, <1>4, <1>5 DEF TypeOK
<1>7. Indices
  BY DEF IdleEnq, IdleMac, Indices
<1> QED BY <1>6, <1>7

(***************************************************************************)
(* Type correctness of the link: in particular the MAC never sends more    *)
(* than the slot's budget (mac.avail is a natural number), and segments    *)
(* have no negative length.                                                *)
(***************************************************************************)
THEOREM LinkTypeInvariance == Spec => []TypeOK
<1>1. Init => TypeOK /\ Indices
  BY InitType
<1>2. TypeOK /\ Indices /\ [Next]_vars => (TypeOK /\ Indices)'
  BY TypeKept, IndicesKept
<1> QED BY <1>1, <1>2, PTL DEF Spec

-----------------------------------------------------------------------------
(* segmentBuffer with room for the longest packet.                         *)

SegmentsFit == \A size \in Sizes : Total(size, 78) <= SegmentCapacity

\* Larger segments are fewer.
LEMMA TotalMonotone ==
  ASSUME NEW size \in Nat, NEW payload \in Nat, 78 <= payload
  PROVE  Total(size, payload) <= Total(size, 78)
<1> DEFINE t == Total(size, payload)
           u == Total(size, 78)
<1>1. t \in Nat /\ t * payload < size + payload
  BY TotalBounds
<1>2. u \in Nat /\ size <= u * 78
  BY TotalBounds
<1> HIDE DEF t, u
<1>3. t * payload = (t - 1) * payload + payload
  BY <1>1
<1>4. t # 0 => (t - 1) * 78 <= (t - 1) * payload
  BY <1>1
<1>5. t # 0 => (t - 1) * 78 < u * 78
  BY <1>1, <1>2, <1>3, <1>4
<1>6. t <= u
  BY <1>1, <1>2, <1>5
<1> QED BY <1>6 DEF t, u

\* The rest of one packet, as a property of one segmentBuffer.
Rest(b) ==
  b # <<>> =>
    /\ b[Len(b)].num = b[Len(b)].total - 1
    /\ \A i \in 1..(Len(b) - 1) :
         /\ b[i + 1].pkt = b[i].pkt /\ b[i + 1].num = b[i].num + 1
         /\ b[i + 1].off = b[i].off + b[i].len

\* RestOfOnePacket speaks of each queue by itself.
LEMMA RestDef == RestOfOnePacket <=> \A q \in Queues : Rest(segmentBuffer[q])
  BY DEF RestOfOnePacket, Rest

\* What follows the first segment of a rest is a rest.
LEMMA RestTail ==
  ASSUME NEW b \in Seq(Segment), b # <<>>, Rest(b)
  PROVE  Rest(Tail(b))
<1> DEFINE t == Tail(b)
<1>1. t \in Seq(Segment) /\ Len(t) = Len(b) - 1 /\ \A i \in 1..Len(t) : t[i] = b[i + 1]
  BY HeadTailProperties
<1> HIDE DEF t
<1> SUFFICES ASSUME t # <<>> PROVE Rest(t)
  BY DEF Rest, t
<1>2. Len(b) \in Nat /\ Len(t) \in Nat /\ Len(t) >= 1
  BY <1>1
<1>3. t[Len(t)] = b[Len(b)]
  BY <1>1, <1>2
<1>4. \A i \in 1..(Len(t) - 1) : t[i] = b[i + 1] /\ t[i + 1] = b[(i + 1) + 1] /\ i + 1 \in 1..(Len(b) - 1)
  BY <1>1, <1>2
<1> QED BY <1>3, <1>4 DEF Rest

\* What is stored of a cut is a rest.
LEMMA RestOfCut ==
  ASSUME TypeOK, Indices, SegmentsFit, NEW q \in Queues, Unsegmented(q), SegmentSize >= 100
  PROVE  Rest(Kept(q))
<1>1. PICK total \in Nat, payload \in Nat :
           /\ 78 <= payload /\ total = Total(pkts[First(q)].size, payload)
           /\ EndToEnd(Cut(q), First(q), total, payload)
           /\ Kept(q) \in Seq(Segment) /\ Len(Kept(q)) \in 1..total
           /\ \A i \in 1..Len(Kept(q)) : Kept(q)[i] = Cut(q)[i]
           /\ total <= SegmentCapacity => Len(Kept(q)) = total
           /\ Kept(q) # <<>>
  BY CutFacts
<1>2. total <= SegmentCapacity
  <2>1. pkts[First(q)].size \in Sizes /\ pkts[First(q)].size \in Nat
    BY FirstFacts DEF Indices
  <2>2. total <= Total(pkts[First(q)].size, 78)
    BY <1>1, <2>1, TotalMonotone
  <2>3. Total(pkts[First(q)].size, 78) <= SegmentCapacity
    BY <2>1 DEF SegmentsFit
  <2>4. Total(pkts[First(q)].size, 78) \in Nat /\ SegmentCapacity \in Nat
    <3>1. 78 \in Nat \ {0}
      OBVIOUS
    <3>2. Total(pkts[First(q)].size, 78) \in Nat
      BY <2>1, <3>1, TotalBounds
    <3> QED BY <3>2, RlcConstants DEF SegmentCapacity
  <2> QED BY <2>2, <2>3, <2>4
<1> DEFINE k == Kept(q)
<1>3. Len(k) = total /\ k \in Seq(Segment) /\ k # <<>>
  BY <1>1, <1>2
<1>4. \A i \in 1..total : k[i] = Cut(q)[i]
  BY <1>1, <1>3
<1> HIDE DEF k
<1>5. \A i \in 1..total : /\ k[i].num = i - 1 /\ k[i].total = total /\ k[i].pkt = First(q)
  BY <1>1, <1>4 DEF EndToEnd
<1>6. \A i \in 1..(total - 1) : i + 1 \in 1..total /\ k[i + 1].off = k[i].off + k[i].len
  <2> TAKE i \in 1..(total - 1)
  <2>1. i \in 1..total /\ i + 1 \in 1..total /\ i < total
    OBVIOUS
  <2>2. Cut(q)[i + 1].off = Cut(q)[i].off + Cut(q)[i].len
    BY <1>1, <2>1 DEF EndToEnd
  <2> QED BY <1>4, <2>1, <2>2
<1>7. total \in 1..total
  BY <1>1
<1>8. \A i \in 1..(total - 1) : k[i + 1].num = k[i].num + 1 /\ k[i + 1].pkt = k[i].pkt
  BY <1>5, <1>6
<1>9. k[Len(k)].num = k[Len(k)].total - 1
  BY <1>3, <1>5, <1>7
<1>10. Rest(k)
  BY <1>3, <1>6, <1>8, <1>9 DEF Rest
<1> QED BY <1>10 DEF k

\* Every step preserves RestOfOnePacket.
LEMMA RestKept ==
  ASSUME TypeOK, Indices, SegmentsFit, RestOfOnePacket, [Next]_vars
  PROVE  RestOfOnePacket'
<1>0. /\ \A q \in Queues : Rest(segmentBuffer[q]) /\ segmentBuffer[q] \in Seq(Segment)
      /\ segmentBuffer \in [Queues -> Seq(Segment)]
  BY RestDef DEF TypeOK
<1>1. CASE UNCHANGED segmentBuffer
  BY <1>1 DEF RestOfOnePacket
<1>2. ASSUME NEW q \in Queues, NEW b, Rest(b), segmentBuffer' = [segmentBuffer EXCEPT ![q] = b]
      PROVE  RestOfOnePacket'
  <2>1. \A r \in Queues : segmentBuffer'[r] = IF r = q THEN b ELSE segmentBuffer[r]
    BY <1>0, <1>2
  <2>2. \A r \in Queues : Rest(segmentBuffer'[r])
    BY <1>0, <1>2, <2>1
  <2> QED BY <2>2 DEF RestOfOnePacket, Rest
<1>3. ASSUME NEW q \in Queues, SendSegment(q) \/ SendFirstSegment(q) PROVE RestOfOnePacket'
  <2>1. segmentBuffer[q] # <<>> /\ segmentBuffer' = [segmentBuffer EXCEPT ![q] = Tail(segmentBuffer[q])]
    BY <1>3 DEF SendSegment, SendFirstSegment, FirstSegmentLeaves
  <2>2. Rest(Tail(segmentBuffer[q]))
    BY <1>0, <2>1, RestTail
  <2> QED BY <1>2, <2>1, <2>2
<1>4. ASSUME NEW q \in Queues, CutPacket(q) PROVE RestOfOnePacket'
  <2>1. /\ Unsegmented(q) /\ SegmentSize >= 100
        /\ segmentBuffer' = [segmentBuffer EXCEPT ![q] = Kept(q)]
    BY <1>4 DEF CutPacket, Kept, Cut
  <2> QED BY <1>2, <2>1, RestOfCut
<1>5. CASE UeNext /\ UNCHANGED duVars
  BY <1>1, <1>5 DEF duVars
<1>6. CASE DuNext
  <2>1. CASE \/ (\E q \in Queues, size \in Sizes : EnqueuePacket(q, size))
             \/ AssignId \/ CountBytes \/ AddPacket \/ ExecPoll \/ MacAdvance
             \/ (\E q \in Queues : PollTimerExpires(q))
             \/ (\E id \in Ids : ProcessAck(id))
             \/ (\E b \in Budgets : SlotBegin(b))
             \/ (\E q \in Queues : BlockedBySegment(q) \/ TooSmallToSegment(q)
                                     \/ TakeWhole(q) \/ SendWhole(q))
    BY <1>1, <2>1, Zenon DEF EnqueuePacket, AssignId, CountBytes, AddPacket, ExecPoll,
                    MacAdvance,
       PollTimerExpires, ProcessAck, SlotBegin, BlockedBySegment, TooSmallToSegment, TakeWhole,
       SendWhole
  <2> QED BY <1>3, <1>4, <1>6, <2>1 DEF DuNext, Serve
<1> QED BY <1>1, <1>5, <1>6 DEF Next, vars, duVars

(***************************************************************************)
(* With a segmentBuffer of bufferSize * 4 that holds the longest packet    *)
(* cut for the smallest slot (78 bytes to a segment), dequeuePacket never  *)
(* drops a segment and never mixes packets, for any number of queues.      *)
(***************************************************************************)
THEOREM SegmentsComplete ==
  ASSUME SegmentsFit
  PROVE  Spec => []RestOfOnePacket
<1> DEFINE I == TypeOK /\ Indices /\ RestOfOnePacket
<1>1. Init => I
  <2>1. Init => RestOfOnePacket
    BY DEF Init, DuInit, RestOfOnePacket
  <2> QED BY <2>1, InitType
<1>2. I /\ [Next]_vars => I'
  BY TypeKept, IndicesKept, RestKept
<1> QED BY <1>1, <1>2, PTL DEF Spec
=============================================================================
