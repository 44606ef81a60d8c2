------------------------- MODULE RlcDeliveryProofs --------------------------
(***************************************************************************)
(* What the UE delivers and what the DU takes for acknowledged, with one   *)
(* bearer queue and fewer packets than ids: the case in which a packet's   *)
(* id names it.  RlcLink_queues.cfg shows what happens with two queues.    *)
(***************************************************************************)
EXTENDS RlcLinkProofs

OneQueue == NQ = 1 /\ MaxPackets < IdMod

\* The p-th packet gets id p, in the second step of enqueuePacket.
Numbered ==
  /\ enq.pc # "idle" => enq.p = Len(pkts)
  /\ nextId[1] = IF enq.pc = "assign" THEN Len(pkts) ELSE Len(pkts) + 1
  /\ Len(pkts) <= MaxPackets
  /\ \A p \in DOMAIN pkts : pkts[p].id = IF enq.pc = "assign" /\ p = Len(pkts) THEN 0 ELSE p

\* The retransmission buffer holds packet p under id p until p is acknowledged.
Named(p) == p \in DOMAIN pkts /\ pkts[p].id = p
Registered ==
  /\ \A i \in Ids : retx[1][i] # 0 => retx[1][i] = i /\ Named(i)
  /\ \A p \in acked : Named(p)
  /\ \A p \in DOMAIN pkts : (enq.pc = "idle" \/ p # Len(pkts)) => retx[1][p] = p \/ p \in acked

Elems(b) == {b[k] : k \in DOMAIN b}

\* The packet the MAC has taken to send whole, and all that have no segment yet.
Held    == {p \in {mac.took} : p # 0 /\ segmentBuffer[1] = <<>>}
Pending == Held \cup Elems(packetBuffer[1])

\* They are in the order in which they came.
Sorted ==
  /\ \A p \in Held, x \in Elems(packetBuffer[1]) : p < x
  /\ \A j, k \in DOMAIN packetBuffer[1] : j < k => packetBuffer[1][j] < packetBuffer[1][k]

\* Segments that are queued, on the air, being processed or stored.
Known ==
  {dl[k] : k \in DOMAIN dl} \cup {segmentBuffer[1][k] : k \in DOMAIN segmentBuffer[1]}
  \cup {s \in {ue.seg} : ue.pc = "process"} \cup UNION {ctx[i].got : i \in Ids}

SegOK(s) ==
  /\ s.pkt \in DOMAIN pkts /\ s.size = pkts[s.pkt].size
  /\ s.id # 0 => s.id = s.pkt /\ Named(s.pkt)
  /\ s.num < s.total
  /\ s.num = 0 => s.off = 0
  /\ s.num = s.total - 1 => s.off + s.len = s.size

\* Two segments of one packet come from one cut.
Agree(s, t) ==
  s.pkt = t.pkt => s.total = t.total /\ (t.num = s.num + 1 => t.off = s.off + s.len)

\* A packet is cut once: those still to be cut are later than all that have segments.
OneCut ==
  /\ \A s \in Known : SegOK(s)
  /\ \A s, t \in Known : Agree(s, t)
  /\ \A s \in Known, p \in Pending : s.pkt < p
  /\ Sorted

\* A context under an id other than 0 belongs to one packet.
OneContext ==
  \A i \in Ids \ {0} :
    /\ ctx[i].total > 0 => ctx[i].got # {}
    /\ \A s \in ctx[i].got : s.id = i /\ s.total = ctx[i].total /\ s.size = ctx[i].size

\* Only what came out is acknowledged.
AckedDelivered == \A p \in acked : \E d \in Arrived : d.from = {p}

HasArrived(i) == \E d \in Arrived : d.from = {i}
Acknowledging ==
  /\ \A i \in Ids \ {0} : AckUnderway(i) => HasArrived(i)
  /\ \A d \in Arrived : d.id # 0 => Named(d.id)

DeliveryInv ==
  /\ TypeOK /\ Indices /\ Numbered /\ Registered /\ OneCut /\ OneContext
  /\ Intact /\ Acknowledging /\ AckedDelivered /\ AckAccounted

-----------------------------------------------------------------------------
\* With one queue the p-th packet's number is its id.
LEMMA OneQueueFacts ==
  ASSUME OneQueue
  PROVE  Queues = {1} /\ 1 \in Queues /\ MaxPackets \in Nat /\ IdMod \in Nat
         /\ \A n \in 0..MaxPackets : n \in Ids /\ n % IdMod = n
<1>1. Queues = {1} /\ 1 \in Queues
  BY DEF OneQueue, Queues
<1>2. MaxPackets \in Nat /\ IdMod \in Nat /\ IdMod # 0 /\ MaxPackets < IdMod
  BY RlcConstants DEF OneQueue
<1>3. \A n \in 0..MaxPackets : n \in Ids /\ n % IdMod = n
  <2> TAKE n \in 0..MaxPackets
  <2>1. n \in Nat /\ n < IdMod
    BY <1>2
  <2>2. n % IdMod = n
    BY <1>2, <2>1
  <2>3. n \in Ids
    BY <1>2, <2>1 DEF Ids
  <2> QED BY <2>2, <2>3
<1> QED BY <1>1, <1>2, <1>3, Zenon

\* The UE touches none of the DU's registers.
LEMMA UeFrame ==
  ASSUME UeNext, UNCHANGED duVars
  PROVE  UNCHANGED <<pkts, packetBuffer, segmentBuffer, nextId, retx, enq, acked>>
<1>1. UNCHANGED pkts
  BY Zenon DEF UeNext, ProcessSegment, Receive, ProcessWhole, DropSegment, StoreSegment,
     RecordStatus, StatusWake, StatusCollect, TxOpportunity, TransmitStatusPdu
<1> QED BY <1>1 DEF duVars

\* The steps of the DU that touch neither the register nor the receive thread.
LEMMA DuFrame ==
  ASSUME \/ ExecPoll \/ MacAdvance \/ (\E q \in Queues : PollTimerExpires(q))
         \/ (\E b \in Budgets : SlotBegin(b)) \/ (\E q \in Queues : Serve(q))
  PROVE  UNCHANGED <<pkts, ul, nextId, retx, enq, acked>>
  BY Zenon DEF ExecPoll, MacAdvance, PollTimerExpires, SlotBegin, Serve, SendSegment,
     BlockedBySegment, TakeWhole, SendWhole, TooSmallToSegment, CutPacket, SendFirstSegment

\* What enqueuePacket does to the register.
LEMMA EnqueueFacts ==
  ASSUME TypeOK, NEW q \in Queues, NEW size \in Sizes, EnqueuePacket(q, size)
  PROVE  /\ Len(pkts) \in Nat /\ DOMAIN pkts = 1..Len(pkts)
         /\ DOMAIN pkts' = 1..(Len(pkts) + 1) /\ Len(pkts') = Len(pkts) + 1
         /\ \A p \in DOMAIN pkts : pkts'[p] = pkts[p]
         /\ pkts'[Len(pkts) + 1].id = 0
         /\ enq.pc = "idle" /\ enq'.pc = "assign" /\ enq'.p = Len(pkts) + 1
         /\ Len(pkts) < MaxPackets
<1>1. pkts \in Seq(Packet)
  BY DEF TypeOK
<1>2. /\ pkts' = Append(pkts, [q |-> q, size |-> size, id |-> 0])
      /\ enq.pc = "idle" /\ enq'.pc = "assign" /\ enq'.p = Len(pkts) + 1
      /\ Len(pkts) < MaxPackets
  BY DEF EnqueuePacket
<1> QED BY <1>1, <1>2

\* What the assignment of an id does to the register.
LEMMA AssignFacts ==
  ASSUME OneQueue, TypeOK, Indices, Numbered, AssignId
  PROVE  /\ Len(pkts) \in DOMAIN pkts /\ DOMAIN pkts = 1..Len(pkts) /\ Len(pkts) \in Nat
         /\ DOMAIN pkts' = DOMAIN pkts /\ Len(pkts') = Len(pkts)
         /\ \A p \in DOMAIN pkts :
              /\ pkts'[p].size = pkts[p].size
              /\ pkts'[p].id = IF p = Len(pkts) THEN Len(pkts) ELSE pkts[p].id
         /\ nextId'[1] = Len(pkts) + 1
         /\ enq.pc = "assign" /\ enq'.pc = "count" /\ enq'.p = enq.p
<1> DEFINE n == Len(pkts)
<1>1. enq.pc = "assign" /\ enq.p = n /\ n \in DOMAIN pkts
  BY DEF AssignId, Numbered, Indices
<1>2. pkts \in Seq(Packet)
  BY DEF TypeOK
<1>3. pkts[n] \in Packet /\ pkts[n].q = 1
  <2>1. pkts[n] \in Packet
    BY <1>1, <1>2
  <2>2. pkts[n].q \in Queues
    BY <2>1 DEF Packet
  <2> QED BY <2>1, <2>2, OneQueueFacts
<1>4. nextId[1] = n /\ n \in Nat /\ n <= MaxPackets /\ n % IdMod = n
  BY <1>1, <1>2, OneQueueFacts DEF Numbered
<1>5. pkts' = [pkts EXCEPT ![n].id = n] /\ nextId' = [nextId EXCEPT ![1] = @ + 1]
  BY <1>1, <1>3, <1>4 DEF AssignId
<1>6. nextId'[1] = n + 1
  BY <1>4, <1>5, OneQueueFacts DEF TypeOK
<1>7. enq'.pc = "count" /\ enq'.p = enq.p
  BY DEF AssignId, TypeOK, EnqState
<1>8. DOMAIN pkts' = DOMAIN pkts /\ Len(pkts') = n /\ DOMAIN pkts = 1..n
  BY <1>2, <1>5
<1>9. \A p \in DOMAIN pkts : pkts[p] \in Packet
  BY <1>2
<1>10. \A p \in DOMAIN pkts : /\ pkts'[p].size = pkts[p].size
                              /\ pkts'[p].id = IF p = n THEN n ELSE pkts[p].id
  BY <1>5, <1>9 DEF Packet
<1> QED BY <1>1, <1>4, <1>6, <1>7, <1>8, <1>10

\* Packets stay, keep their size and, once numbered, their id.
Stable == /\ DOMAIN pkts \subseteq DOMAIN pkts'
          /\ \A p \in DOMAIN pkts : pkts'[p].size = pkts[p].size
          /\ \A p : Named(p) => Named(p)'

\* No step changes the size of a packet, or an id once it is assigned.
LEMMA RegisterStable ==
  ASSUME OneQueue, TypeOK, Indices, Numbered, [Next]_vars
  PROVE  Stable
<1>1. ASSUME NEW q \in Queues, NEW size \in Sizes, EnqueuePacket(q, size) PROVE Stable
  BY <1>1, EnqueueFacts DEF Stable, Named
<1>2. CASE AssignId
  <2>1. \A p : Named(p) => Named(p)'
    BY <1>2, AssignFacts DEF Named
  <2> QED BY <1>2, <2>1, AssignFacts DEF Stable
<1>3. CASE UNCHANGED pkts
  BY <1>3 DEF Stable, Named
<1>4. CASE DuNext
  <2>1. CASE CountBytes \/ AddPacket \/ (\E id \in Ids : ProcessAck(id))
    BY <1>3, <2>1 DEF CountBytes, AddPacket, ProcessAck
  <2> QED BY <1>1, <1>2, <1>3, <1>4, <2>1, DuFrame DEF DuNext
<1> QED BY <1>3, <1>4, UeFrame DEF Next, vars

\* Every step preserves Numbered.
LEMMA NumberedKept ==
  ASSUME OneQueue, TypeOK, Indices, Numbered, [Next]_vars
  PROVE  Numbered'
<1>1. ASSUME NEW q \in Queues, NEW size \in Sizes, EnqueuePacket(q, size) PROVE Numbered'
  <2>1. nextId' = nextId
    BY <1>1 DEF EnqueuePacket
  <2>2. \A p \in DOMAIN pkts : pkts[p].id = p
    BY <1>1, EnqueueFacts DEF Numbered
  <2>3. nextId[1] = Len(pkts) + 1
    BY <1>1, EnqueueFacts DEF Numbered
  <2>4. Len(pkts') <= MaxPackets
    BY <1>1, EnqueueFacts, OneQueueFacts
  <2>5. \A p \in DOMAIN pkts' : pkts'[p].id = IF p = Len(pkts') THEN 0 ELSE p
    BY <1>1, <2>2, EnqueueFacts
  <2> QED BY <1>1, <2>1, <2>3, <2>4, <2>5, EnqueueFacts DEF Numbered
<1>2. CASE AssignId
  <2>1. \A p \in DOMAIN pkts' : pkts'[p].id = p
    BY <1>2, AssignFacts DEF Numbered
  <2> QED BY <1>2, <2>1, AssignFacts DEF Numbered
<1>3. CASE CountBytes \/ AddPacket
  <2>1. /\ enq.pc # "assign" /\ enq'.pc # "assign"
        /\ enq'.pc # "idle" => enq'.p = enq.p /\ enq.pc # "idle"
        /\ UNCHANGED <<pkts, nextId>>
    BY <1>3 DEF CountBytes, AddPacket, IdleEnq, TypeOK, EnqState
  <2> QED BY <2>1 DEF Numbered
<1>4. CASE UNCHANGED <<pkts, enq, nextId>>
  BY <1>4 DEF Numbered
<1>5. CASE DuNext
  <2>1. CASE \E id \in Ids : ProcessAck(id)
    BY <1>4, <2>1 DEF ProcessAck
  <2> QED BY <1>1, <1>2, <1>3, <1>4, <1>5, <2>1, DuFrame DEF DuNext
<1> QED BY <1>4, <1>5, UeFrame DEF Next, vars, duVars

\* Every step preserves Registered.
LEMMA RegisteredKept ==
  ASSUME OneQueue, TypeOK, Indices, Numbered, Registered, [Next]_vars
  PROVE  Registered'
<1>0. Stable /\ 1 \in Queues /\ retx[1] \in [Ids -> Nat] /\ retx \in [Queues -> [Ids -> Nat]]
  BY RegisterStable, OneQueueFacts DEF TypeOK
<1>1. ASSUME NEW q \in Queues, NEW size \in Sizes, EnqueuePacket(q, size) PROVE Registered'
  <2>1. retx' = retx /\ acked' = acked
    BY <1>1 DEF EnqueuePacket
  <2>2. \A p \in DOMAIN pkts : retx[1][p] = p \/ p \in acked
    BY <1>1, EnqueueFacts DEF Registered
  <2>3. \A p \in DOMAIN pkts' : p # Len(pkts') => p \in DOMAIN pkts
    BY <1>1, EnqueueFacts
  <2>4. enq'.pc # "idle"
    BY <1>1, EnqueueFacts
  <2> QED BY <1>0, <2>1, <2>2, <2>3, <2>4 DEF Registered, Stable
<1>2. CASE AssignId
  <2>1. UNCHANGED <<retx, acked>> /\ enq.pc # "idle" /\ enq'.pc # "idle"
    BY <1>2, AssignFacts DEF AssignId
  <2>2. DOMAIN pkts' = DOMAIN pkts /\ Len(pkts') = Len(pkts)
    BY <1>2, AssignFacts
  <2> QED BY <1>0, <2>1, <2>2 DEF Registered, Stable
<1>3. CASE CountBytes
  <2>1. UNCHANGED <<retx, acked, pkts>> /\ enq.pc # "idle" /\ enq'.pc # "idle"
    BY <1>3 DEF CountBytes, TypeOK, EnqState
  <2> QED BY <2>1 DEF Registered, Named
<1>4. CASE AddPacket
  <2> DEFINE n == Len(pkts)
  <2>1. enq.pc = "add" /\ enq.p = n /\ n \in DOMAIN pkts /\ n \in Nat \ {0}
    <3>1. pkts \in Seq(Packet)
      BY DEF TypeOK
    <3> QED BY <1>4, <3>1 DEF AddPacket, Numbered, Indices
  <2>2. pkts[n].id = n /\ n \in Ids /\ pkts[n].q = 1
    <3>1. pkts[n] \in Packet
      BY <2>1 DEF TypeOK
    <3> QED BY <2>1, <3>1, OneQueueFacts DEF Numbered, Packet
  <2>3. retx' = [retx EXCEPT ![1][n] = n] /\ UNCHANGED <<pkts, acked>>
    BY <1>4, <2>1, <2>2 DEF AddPacket
  <2>4. \A i \in Ids : retx'[1][i] = IF i = n THEN n ELSE retx[1][i]
    BY <1>0, <2>2, <2>3
  <2>5. \A p \in DOMAIN pkts : p # n => retx[1][p] = p \/ p \in acked
    BY DEF Registered
  <2>6. DOMAIN pkts \subseteq Ids
    <3>1. pkts \in Seq(Packet) /\ n <= MaxPackets
      BY DEF TypeOK, Numbered
    <3> QED BY <3>1, <2>1, OneQueueFacts
  <2> QED BY <2>1, <2>2, <2>3, <2>4, <2>5, <2>6 DEF Registered, Named
<1>5. ASSUME NEW id \in Ids, ProcessAck(id) PROVE Registered'
  <2>1. /\ retx' = [retx EXCEPT ![1][id] = 0] /\ acked' = acked \cup ({retx[1][id]} \ {0})
        /\ UNCHANGED <<pkts, enq>>
    BY <1>5 DEF ProcessAck
  <2>2. \A i \in Ids : retx'[1][i] = IF i = id THEN 0 ELSE retx[1][i]
    BY <1>0, <2>1
  <2>3. \A p \in DOMAIN pkts : p \in Ids /\ p # 0
    <3>1. pkts \in Seq(Packet) /\ Len(pkts) <= MaxPackets
      BY DEF TypeOK, Numbered
    <3> QED BY <3>1, OneQueueFacts
  <2>4. \A i \in Ids : retx'[1][i] # 0 => retx'[1][i] = i /\ Named(i)
    BY <2>2 DEF Registered
  <2>5. \A p \in acked' : Named(p)
    BY <2>1 DEF Registered
  <2>6. \A p \in DOMAIN pkts : (enq.pc = "idle" \/ p # Len(pkts)) => retx'[1][p] = p \/ p \in acked'
    BY <2>1, <2>2, <2>3 DEF Registered
  <2> QED BY <2>1, <2>4, <2>5, <2>6 DEF Registered, Named
<1>6. CASE UNCHANGED <<pkts, enq, retx, acked>>
  BY <1>6 DEF Registered, Named
<1>7. CASE DuNext
  BY <1>1, <1>2, <1>3, <1>4, <1>5, <1>6, <1>7, DuFrame DEF DuNext
<1> QED BY <1>6, <1>7, UeFrame DEF Next, vars, duVars

-----------------------------------------------------------------------------
(* Where segments are: what each step adds to Known.                       *)

\* A step that brings no new segment and leaves the packets in order.
LEMMA OneCutStutter ==
  ASSUME OneCut, Stable, Known' \subseteq Known, Pending' \subseteq Pending, Sorted'
  PROVE  OneCut'
<1>1. \A s \in Known : SegOK(s) => SegOK(s)'
  BY DEF SegOK, Stable
<1>2. \A s, t \in Known : Agree(s, t)'
  BY DEF Agree, OneCut
<1> QED BY <1>1, <1>2 DEF OneCut

\* The packets wait on: the MAC has none in hand, or nothing has changed.
LEMMA PendingStays ==
  ASSUME Sorted, UNCHANGED packetBuffer,
         mac'.took = 0 \/ UNCHANGED <<mac, segmentBuffer>>
  PROVE  Pending' \subseteq Pending /\ Sorted'
<1>1. Held' \subseteq Held
  BY DEF Held
<1>2. Elems(packetBuffer[1])' = Elems(packetBuffer[1])
  BY DEF Elems
<1> QED BY <1>1, <1>2 DEF Pending, Sorted

\* dl loses its first segment to the receive thread.
LEMMA ReceiveKnown ==
  ASSUME TypeOK, Receive, UNCHANGED duVars
  PROVE  Known' \subseteq Known
<1>1. dl \in Seq(Segment) /\ dl # <<>> /\ dl' = Tail(dl)
  BY DEF TypeOK, Receive
<1>2. {dl'[k] : k \in DOMAIN dl'} \subseteq {dl[k] : k \in DOMAIN dl}
  <2>1. \A k \in DOMAIN dl' : k + 1 \in DOMAIN dl /\ dl'[k] = dl[k + 1]
    BY <1>1
  <2> QED BY <2>1
<1>3. ue'.seg = dl[1] /\ 1 \in DOMAIN dl
  BY <1>1 DEF Receive, IdleUe
<1>4. UNCHANGED <<segmentBuffer, ctx>>
  BY DEF Receive, duVars
<1> QED BY <1>2, <1>3, <1>4 DEF Known

\* A delivery leaves the receive thread about to record the status.
LEMMA DeliverFacts ==
  ASSUME TypeOK, NEW parts, NEW size, Deliver(parts, size)
  PROVE  ue'.pc = "record" /\ ue'.seg = ue.seg /\ ue'.parts = parts /\ ue'.size = size
<1>1. ue \in UeState /\ ue' = [ue EXCEPT !.pc = "record", !.size = size, !.parts = parts]
  BY DEF TypeOK, Deliver
<1> QED BY <1>1 DEF UeState

\* The UE adds no segment to the known ones.
LEMMA UeKnown ==
  ASSUME TypeOK, UeNext, UNCHANGED duVars
  PROVE  Known' \subseteq Known
<1>1. CASE StoreSegment
  <2> DEFINE s == ue.seg
             c == [Context(s) EXCEPT !.got = @ \cup {s}]
  <2>1. /\ ue.pc = "process" /\ ue'.pc # "process" /\ UNCHANGED <<dl, segmentBuffer>>
        /\ ctx' = [ctx EXCEPT ![s.id] = NoContext] \/ ctx' = [ctx EXCEPT ![s.id] = c]
    <3>1. /\ ue.pc = "process" /\ UNCHANGED <<dl, segmentBuffer>>
          /\ \/ Deliver(c.got, c.size) /\ ctx' = [ctx EXCEPT ![s.id] = NoContext]
             \/ ue' = IdleUe /\ ctx' = [ctx EXCEPT ![s.id] = c]
      BY <1>1 DEF StoreSegment, duVars
    <3> HIDE DEF c
    <3>2. Deliver(c.got, c.size) => ue'.pc # "process"
      BY DeliverFacts
    <3> QED BY <3>1, <3>2 DEF IdleUe
  <2>2. s.id \in Ids /\ ctx \in [Ids -> Contexts] /\ Context(s) \in Contexts
    BY ContextType DEF TypeOK
  <2>3. c.got = Context(s).got \cup {s} /\ Context(s).got \subseteq ctx[s.id].got
    BY <2>2 DEF Context, Contexts
  <2>4. \A i \in Ids : ctx'[i].got \subseteq ctx[i].got \cup {s}
    <3> HIDE DEF c, s
    <3> QED BY <2>1, <2>2, <2>3 DEF NoContext
  <2> HIDE DEF c
  <2> QED BY <2>1, <2>4 DEF Known
<1>2. CASE Receive
  BY <1>2, ReceiveKnown
<1>3. CASE ProcessWhole \/ DropSegment \/ RecordStatus
  <2>1. UNCHANGED <<dl, segmentBuffer, ctx>> /\ ue'.pc # "process"
    <3>1. ue' = IdleUe \/ Deliver({ue.seg}, ue.seg.len)
      BY <1>3 DEF ProcessWhole, DropSegment, RecordStatus
    <3>2. Deliver({ue.seg}, ue.seg.len) => ue'.pc # "process"
      BY DeliverFacts
    <3> QED BY <1>3, <3>1, <3>2 DEF ProcessWhole, DropSegment, RecordStatus, IdleUe,
                    duVars
  <2> QED BY <2>1 DEF Known
<1>4. ASSUME NEW expired \in SUBSET Expirable, StatusCollect(expired) PROVE Known' \subseteq Known
  <2>1. UNCHANGED <<dl, segmentBuffer, ue>> /\ \A i \in Ids : ctx'[i].got \subseteq ctx[i].got
    BY <1>4 DEF StatusCollect, NoContext, duVars
  <2> QED BY <2>1 DEF Known
<1>5. CASE StatusWake \/ TxOpportunity \/ (\E id \in Ids : TransmitStatusPdu(id))
  <2>1. UNCHANGED <<dl, segmentBuffer, ue, ctx>>
    BY <1>5 DEF StatusWake, TxOpportunity, TransmitStatusPdu, duVars
  <2> QED BY <2>1 DEF Known
<1> QED BY <1>1, <1>2, <1>3, <1>4, <1>5 DEF UeNext, ProcessSegment

\* A new packet is later than all that have segments.
LEMMA OneCutEnqueue ==
  ASSUME OneQueue, TypeOK, Indices, Numbered, OneCut, UNCHANGED ueVars,
         NEW size \in Sizes, EnqueuePacket(1, size)
  PROVE  OneCut'
<1> DEFINE b == packetBuffer[1]
           n == Len(pkts) + 1
<1>1. Stable
  <2>1. Next
    BY OneQueueFacts DEF Next, DuNext
  <2> QED BY <2>1, RegisterStable
<1>2. Known' = Known
  BY DEF EnqueuePacket, Known, ueVars
<1>3. \A s \in Known : SegOK(s)'
  BY <1>1 DEF OneCut, SegOK, Stable
<1>4. \A s, t \in Known : Agree(s, t)'
  BY DEF Agree, OneCut
<1>5. packetBuffer'[1] = Append(b, n) /\ b \in Seq(Nat) /\ Len(pkts) \in Nat /\ DOMAIN pkts = 1..Len(pkts)
  <2>1. packetBuffer \in [Queues -> Seq(Nat)] /\ pkts \in Seq(Packet)
    BY DEF TypeOK
  <2> QED BY <2>1, OneQueueFacts DEF EnqueuePacket
<1>6. \A k \in DOMAIN b : b[k] \in DOMAIN pkts
  BY OneQueueFacts DEF Indices
<1>7. \A s \in Known : s.pkt \in DOMAIN pkts
  BY DEF OneCut, SegOK
<1> HIDE DEF b
<1>8. \A k \in DOMAIN packetBuffer'[1] :
        \/ k \in DOMAIN b /\ packetBuffer'[1][k] = b[k]
        \/ k = Len(b) + 1 /\ packetBuffer'[1][k] = n
  BY <1>5
<1>9. \A k \in DOMAIN b : b[k] \in Elems(b)
  BY DEF Elems
<1>10. Elems(packetBuffer'[1]) \subseteq Elems(b) \cup {n}
  BY <1>8, <1>9 DEF Elems
<1>11. Held' = Held /\ \A p \in Held : p \in DOMAIN pkts
  <2>1. UNCHANGED <<mac, segmentBuffer>>
    BY DEF EnqueuePacket
  <2> QED BY <2>1 DEF Held, Indices
<1>12. \A s \in Known, p \in Pending' : s.pkt < p
  <2>1. \A s \in Known : s.pkt < n
    BY <1>5, <1>7
  <2>2. Pending' \subseteq Pending \cup {n}
    BY <1>10, <1>11 DEF Pending, b, Elems
  <2> QED BY <2>1, <2>2 DEF OneCut
<1>13. \A j, k \in DOMAIN packetBuffer'[1] : j < k => packetBuffer'[1][j] < packetBuffer'[1][k]
  <2>1. \A j, k \in DOMAIN b : j < k => b[j] < b[k]
    BY DEF OneCut, Sorted, b
  <2>2. \A j \in DOMAIN b : b[j] < n /\ j \in Nat /\ j < Len(b) + 1
    BY <1>5, <1>6
  <2> QED BY <1>5, <1>8, <2>1, <2>2
<1>14. \A p \in Held, x \in Elems(packetBuffer'[1]) : p < x
  <2>1. \A p \in Held : p < n
    BY <1>5, <1>11
  <2>2. \A p \in Held, x \in Elems(b) : p < x
    BY DEF OneCut, Sorted, b
  <2> QED BY <1>10, <2>1, <2>2
<1>15. Sorted'
  BY <1>11, <1>13, <1>14 DEF Sorted, Elems
<1> QED BY <1>2, <1>3, <1>4, <1>12, <1>15 DEF OneCut

\* A segment leaves segmentBuffer, perhaps with the poll bit set.
LEMMA OneCutSegment ==
  ASSUME OneQueue, TypeOK, OneCut, FirstSegmentLeaves(1), mac'.took = 0,
         UNCHANGED <<pkts, packetBuffer>>, UNCHANGED ueVars
  PROVE  OneCut'
<1> DEFINE b == segmentBuffer[1]
           s == Head(b)
           t == [s EXCEPT !.poll = @ \/ (pollDue[1] /\ s.num = s.total - 1)]
<1>1. /\ b \in Seq(Segment) /\ b # <<>> /\ dl \in Seq(Segment)
      /\ segmentBuffer' = [segmentBuffer EXCEPT ![1] = Tail(b)] /\ dl' = Append(dl, t)
      /\ 1 \in Queues /\ segmentBuffer \in [Queues -> Seq(Segment)]
  BY OneQueueFacts DEF FirstSegmentLeaves, Sent, TypeOK
<1>2. s = b[1] /\ s \in Segment /\ 1 \in DOMAIN b
  BY <1>1
<1>3. /\ t.pkt = s.pkt /\ t.id = s.id /\ t.num = s.num /\ t.total = s.total
      /\ t.size = s.size /\ t.off = s.off /\ t.len = s.len
  BY <1>2 DEF Segment
<1> HIDE DEF s, t
<1>4. s \in Known
  BY <1>2 DEF Known
<1>5. Known' \subseteq Known \cup {t}
  <2>1. segmentBuffer'[1] = Tail(b)
    BY <1>1
  <2>2. \A k \in DOMAIN segmentBuffer'[1] : k + 1 \in DOMAIN b /\ segmentBuffer'[1][k] = b[k + 1]
    BY <1>1, <2>1
  <2>3. \A k \in DOMAIN dl' : (k \in DOMAIN dl /\ dl'[k] = dl[k]) \/ dl'[k] = t
    BY <1>1
  <2>4. UNCHANGED <<ue, ctx>>
    BY DEF ueVars
  <2> QED BY <2>2, <2>3, <2>4 DEF Known
<1>6. \A x \in Known \cup {t} : SegOK(x)
  BY <1>3, <1>4 DEF OneCut, SegOK
<1>7. \A x, y \in Known \cup {t} : Agree(x, y)
  <2>1. \A x, y \in Known : Agree(x, y)
    BY DEF OneCut
  <2>2. Agree(s, s)
    BY <1>4, <2>1
  <2>3. Agree(t, t)
    BY <1>3, <2>2 DEF Agree
  <2>4. \A x \in Known : Agree(x, t) /\ Agree(t, x)
    <3> TAKE x \in Known
    <3>1. Agree(x, s) /\ Agree(s, x)
      BY <1>4, <2>1
    <3> QED BY <1>3, <3>1 DEF Agree
  <2> QED BY <2>1, <2>3, <2>4
<1>8. \A x \in Known \cup {t}, p \in Pending : x.pkt < p
  BY <1>3, <1>4 DEF OneCut
<1>9. \A x \in Known' : SegOK(x)'
  BY <1>1, <1>5, <1>6 DEF SegOK, Named
<1>10. \A x, y \in Known' : Agree(x, y)'
  BY <1>5, <1>7 DEF Agree
<1>11. Pending' \subseteq Pending /\ Sorted'
  BY PendingStays DEF OneCut
<1> QED BY <1>5, <1>8, <1>9, <1>10, <1>11 DEF OneCut

\* The first packet of the queue is taken: the rest is later, and in order.
LEMMA TakeFirst ==
  ASSUME OneQueue, TypeOK, Indices, OneCut, Unsegmented(1), Take(1)
  PROVE  /\ First(1) \in Elems(packetBuffer[1]) /\ First(1) \in DOMAIN pkts /\ First(1) # 0
         /\ mac'.took = First(1)
         /\ \A x \in Elems(packetBuffer[1])' : x \in Elems(packetBuffer[1]) /\ First(1) < x
         /\ \A j, k \in DOMAIN packetBuffer'[1] :
              j < k => packetBuffer'[1][j] < packetBuffer'[1][k]
<1> DEFINE b == packetBuffer[1]
<1>1. b \in Seq(Nat) /\ b # <<>> /\ packetBuffer'[1] = Tail(b)
  <2>1. packetBuffer \in [Queues -> Seq(Nat)] /\ packetBuffer' = [packetBuffer EXCEPT ![1] = Tail(@)]
    BY DEF TypeOK, Take
  <2> QED BY <2>1, OneQueueFacts DEF Unsegmented
<1>2. First(1) = b[1] /\ 1 \in DOMAIN b /\ First(1) \in DOMAIN pkts
  BY OneQueueFacts, FirstFacts
<1>3. First(1) # 0
  BY <1>2 DEF TypeOK
<1>4. \A k \in DOMAIN packetBuffer'[1] :
        /\ k \in Nat /\ k + 1 \in DOMAIN b /\ 1 < k + 1 /\ packetBuffer'[1][k] = b[k + 1]
  BY <1>1
<1>5. \A j, k \in DOMAIN b : j < k => b[j] < b[k]
  BY DEF OneCut, Sorted
<1>6. mac'.took = First(1)
  BY DEF TypeOK, MacState, Take
<1> HIDE DEF b
<1>7. \A j, k \in DOMAIN packetBuffer'[1] : j < k => packetBuffer'[1][j] < packetBuffer'[1][k]
  BY <1>4, <1>5
<1>8. \A k \in DOMAIN packetBuffer'[1] :
        packetBuffer'[1][k] \in Elems(b) /\ First(1) < packetBuffer'[1][k]
  BY <1>2, <1>4, <1>5 DEF Elems
<1>9. First(1) \in Elems(b) /\ Elems(packetBuffer[1])' = Elems(packetBuffer'[1])
  BY <1>2 DEF Elems
<1>10. \A x \in Elems(packetBuffer[1])' : x \in Elems(b) /\ First(1) < x
  BY <1>8, <1>9 DEF Elems
<1> QED BY <1>2, <1>3, <1>6, <1>7, <1>9, <1>10 DEF b

\* A packet that is taken to be sent whole stays ahead of the rest.
LEMMA OneCutTake ==
  ASSUME OneQueue, TypeOK, Indices, Numbered, OneCut, UNCHANGED ueVars, TakeWhole(1)
  PROVE  OneCut'
<1>1. Unsegmented(1) /\ Take(1) /\ UNCHANGED <<pkts, dl, segmentBuffer, ue, ctx>>
  BY DEF TakeWhole, ueVars
<1>2. Stable /\ Known' \subseteq Known
  BY <1>1 DEF Stable, Named, Known
<1>3. Held' = {First(1)}
  BY <1>1, TakeFirst DEF Held, Unsegmented
<1>4. Pending' \subseteq Pending
  BY <1>1, <1>3, TakeFirst DEF Pending
<1>5. Sorted'
  BY <1>1, <1>3, TakeFirst DEF Sorted
<1> QED BY <1>2, <1>4, <1>5, OneCutStutter

\* A pending packet gets segments, all of one cut.
LEMMA OneCutTaken ==
  ASSUME OneQueue, TypeOK, OneCut, UNCHANGED pkts,
         NEW p \in Pending, p \in Nat, Held' = {}, Sorted',
         \A x \in Pending' : x \in Pending /\ p < x,
         NEW New, Known' \subseteq Known \cup New,
         \A s \in New : SegOK(s) /\ s.pkt = p,
         \A s, t \in New : Agree(s, t)
  PROVE  OneCut'
<1>1. \A s \in Known, t \in New : Agree(s, t) /\ Agree(t, s)
  <2> TAKE s \in Known, t \in New
  <2>1. s.pkt < p /\ t.pkt = p
    BY DEF OneCut
  <2>2. s.pkt # p
    <3>1. s.pkt \in DOMAIN pkts
      BY DEF OneCut, SegOK
    <3>2. s.pkt \in Nat
      BY <3>1 DEF TypeOK
    <3> QED BY <2>1, <3>2
  <2> QED BY <2>1, <2>2 DEF Agree
<1>2. \A s \in Known', x \in Pending' : s.pkt < x
  BY DEF OneCut
<1>3. \A s \in Known' : SegOK(s)'
  BY DEF OneCut, SegOK, Named
<1>4. \A s, t \in Known' : Agree(s, t)'
  <2>1. \A s, t \in Known \cup New : Agree(s, t)
    BY <1>1 DEF OneCut
  <2> QED BY <2>1 DEF Agree
<1> QED BY <1>2, <1>3, <1>4 DEF OneCut

\* A packet sent whole is a cut of one segment.
LEMMA OneCutWhole ==
  ASSUME OneQueue, TypeOK, Indices, Numbered, OneCut, UNCHANGED ueVars, SendWhole(1)
  PROVE  OneCut'
<1> DEFINE w == Whole(1)
           p == mac.took
<1>1. /\ Took(1) /\ 1 \in Queues /\ segmentBuffer[1] = <<>>
      /\ UNCHANGED <<pkts, packetBuffer, segmentBuffer, ue, ctx>>
      /\ dl' = Append(dl, w) \/ dl' = dl
  BY OneQueueFacts DEF SendWhole, Sent, ueVars
<1>2. dl \in Seq(Segment) /\ w \in Segment
  BY <1>1, WholeFacts DEF TypeOK
<1>3. /\ w.pkt = p /\ w.id = pkts[p].id /\ w.num = 0 /\ w.total = 1
      /\ w.size = pkts[p].size /\ w.off = 0 /\ w.len = pkts[p].size
      /\ p \in DOMAIN pkts /\ w.size \in Nat /\ p \in Nat /\ p # 0
  BY <1>1, TookFacts DEF Whole
<1>4. Held = {p} /\ Held' = {}
  BY <1>1, <1>3, TookServe DEF Held
<1> HIDE DEF w, p
<1>5. Known' \subseteq Known \cup {w}
  <2>1. \A k \in DOMAIN dl' : (k \in DOMAIN dl /\ dl'[k] = dl[k]) \/ dl'[k] = w
    BY <1>1, <1>2
  <2> QED BY <1>1, <2>1 DEF Known
<1>6. w.id # 0 => w.id = p /\ Named(p)
  BY <1>3 DEF Numbered, Named
<1>7. SegOK(w) /\ Agree(w, w)
  BY <1>3, <1>6 DEF SegOK, Agree
<1>8. Sorted' /\ p \in Pending /\ \A x \in Pending' : x \in Pending /\ p < x
  <2>1. Elems(packetBuffer[1])' = Elems(packetBuffer[1])
    BY <1>1 DEF Elems
  <2>2. Sorted' /\ \A x \in Elems(packetBuffer[1]) : p < x
    BY <1>1, <1>4, <2>1 DEF OneCut, Sorted
  <2> QED BY <1>4, <2>1, <2>2 DEF Pending
<1> DEFINE New == {w}
<1>9. /\ Known' \subseteq Known \cup New
      /\ \A s \in New : SegOK(s) /\ s.pkt = p
      /\ \A s, t \in New : Agree(s, t)
  BY <1>3, <1>5, <1>7
<1> HIDE DEF New
<1> QED BY <1>1, <1>3, <1>4, <1>8, <1>9, OneCutTaken

\* The segments of a packet that is cut agree with one another.
LEMMA OneCutCut ==
  ASSUME OneQueue, TypeOK, Indices, Numbered, OneCut, UNCHANGED ueVars, CutPacket(1)
  PROVE  OneCut'
<1> DEFINE p == First(1)
           New == {Cut(1)[i] : i \in DOMAIN Cut(1)}
<1>1. /\ Unsegmented(1) /\ Take(1) /\ 1 \in Queues /\ UNCHANGED <<pkts, dl, ue, ctx>>
      /\ SegmentSize >= 100
      /\ segmentBuffer' = [segmentBuffer EXCEPT ![1] = Kept(1)]
  BY OneQueueFacts DEF CutPacket, Kept, Cut, ueVars
<1>2. PICK total \in Nat, payload \in Nat :
           /\ EndToEnd(Cut(1), p, total, payload)
           /\ Kept(1) \in Seq(Segment) /\ Len(Kept(1)) \in 1..total
           /\ \A i \in 1..Len(Kept(1)) : Kept(1)[i] = Cut(1)[i]
           /\ Kept(1) # <<>>
  BY <1>1, CutFacts
<1>3. p \in DOMAIN pkts /\ p \in Nat
  BY <1>1, FirstFacts
<1>4. DOMAIN Cut(1) = 1..total /\ Cut(1) \in Seq(Segment) /\ total # 0
  BY <1>2 DEF EndToEnd
<1>5. segmentBuffer'[1] = Kept(1)
  BY <1>1 DEF TypeOK
<1>6. Known' \subseteq Known \cup New
  <2>1. DOMAIN Kept(1) = 1..Len(Kept(1))
    BY <1>2
  <2>2. \A k \in DOMAIN segmentBuffer'[1] : segmentBuffer'[1][k] \in New
    BY <1>2, <1>4, <1>5, <2>1
  <2> HIDE DEF New
  <2> QED BY <1>1, <2>2 DEF Known
<1>7. pkts[p].id # 0 => pkts[p].id = p /\ Named(p)
  BY <1>3 DEF Numbered, Named
<1>8. ASSUME NEW i \in 1..total
      PROVE  SegOK(Cut(1)[i]) /\ Cut(1)[i].pkt = p
  <2>1. Cut(1)[i] \in Segment
    BY <1>4
  <2> DEFINE s == Cut(1)[i]
  <2>2. /\ s.pkt = p /\ s.id = pkts[p].id /\ s.size = pkts[p].size
        /\ s.num = i - 1 /\ s.total = total
        /\ i = 1 => s.off = 0
        /\ i = total => s.off + s.len = pkts[p].size
    BY <1>2 DEF EndToEnd
  <2> HIDE DEF s
  <2>3. /\ s.num < s.total /\ (s.num = 0 => s.off = 0)
        /\ (s.num = s.total - 1 => s.off + s.len = s.size)
    BY <2>2
  <2>4. s.id # 0 => s.id = s.pkt /\ Named(s.pkt)
    BY <1>7, <2>2
  <2> QED BY <1>3, <2>2, <2>3, <2>4 DEF SegOK, s
<1>9. ASSUME NEW i \in 1..total, NEW j \in 1..total
      PROVE  Agree(Cut(1)[i], Cut(1)[j])
  <2>1. Cut(1)[i].num = i - 1 /\ Cut(1)[j].num = j - 1 /\ Cut(1)[i].total = Cut(1)[j].total
    BY <1>2 DEF EndToEnd
  <2>2. i < total => Cut(1)[i + 1].off = Cut(1)[i].off + Cut(1)[i].len
    BY <1>2 DEF EndToEnd
  <2>3. j - 1 = (i - 1) + 1 => j = i + 1 /\ i < total
    OBVIOUS
  <2> QED BY <2>1, <2>2, <2>3 DEF Agree
<1>10. /\ \A s \in New : SegOK(s) /\ s.pkt = p
       /\ \A s, t \in New : Agree(s, t)
  BY <1>4, <1>8, <1>9
<1> HIDE DEF New
<1>11. Held' = {}
  BY <1>2, <1>5 DEF Held
<1>12. Sorted' /\ p \in Pending /\ \A x \in Pending' : x \in Pending /\ p < x
  BY <1>1, <1>11, TakeFirst DEF Sorted, Pending
<1> QED BY <1>1, <1>3, <1>6, <1>10, <1>11, <1>12, OneCutTaken

\* Every step preserves OneCut.
LEMMA OneCutKept ==
  ASSUME OneQueue, TypeOK, Indices, Numbered, OneCut, [Next]_vars
  PROVE  OneCut'
<1>0. Stable /\ Queues = {1}
  BY RegisterStable, OneQueueFacts
<1>1. CASE UeNext /\ UNCHANGED duVars
  <2>1. Known' \subseteq Known /\ UNCHANGED <<packetBuffer, segmentBuffer, mac>>
    BY <1>1, UeKnown DEF duVars
  <2>2. Pending' \subseteq Pending /\ Sorted'
    BY <2>1, PendingStays DEF OneCut
  <2> QED BY <1>0, <2>1, <2>2, OneCutStutter
<1>2. ASSUME UNCHANGED <<dl, segmentBuffer, ue, ctx, packetBuffer>>, mac' = mac \/ mac'.took = 0
      PROVE  OneCut'
  <2>1. Known' \subseteq Known
    BY <1>2 DEF Known
  <2>2. Pending' \subseteq Pending /\ Sorted'
    BY <1>2, PendingStays DEF OneCut
  <2> QED BY <1>0, <2>1, <2>2, OneCutStutter
<1>3. CASE DuNext /\ UNCHANGED ueVars
  <2>0. UNCHANGED <<ue, ctx>>
    BY <1>3 DEF ueVars
  <2>1. CASE \E q \in Queues, size \in Sizes : EnqueuePacket(q, size)
    <3>1. PICK size \in Sizes : EnqueuePacket(1, size)
      BY <1>0, <2>1
    <3> QED BY <1>3, <3>1, OneCutEnqueue
  <2>2. CASE AssignId \/ CountBytes \/ AddPacket \/ ExecPoll
             \/ (\E q \in Queues : PollTimerExpires(q))
             \/ (\E id \in Ids : ProcessAck(id))
    BY <1>2, <2>0, <2>2, Zenon DEF AssignId, CountBytes, AddPacket, ExecPoll,
       PollTimerExpires, ProcessAck
  <2>3. CASE MacAdvance \/ (\E b \in Budgets : SlotBegin(b))
    <3>1. UNCHANGED <<dl, segmentBuffer, packetBuffer>>
      BY <2>3, Zenon DEF MacAdvance, SlotBegin
    <3> QED BY <1>2, <2>0, <2>3, <3>1, TookAdvance
  <2>4. CASE BlockedBySegment(1) \/ TooSmallToSegment(1)
    <3>1. UNCHANGED <<dl, segmentBuffer, packetBuffer>>
      BY <2>4, Zenon DEF BlockedBySegment, TooSmallToSegment
    <3> QED BY <1>0, <1>2, <2>0, <2>4, <3>1, TookServe
  <2>5. CASE SendSegment(1) \/ SendFirstSegment(1)
    <3>1. FirstSegmentLeaves(1) /\ UNCHANGED <<pkts, packetBuffer>>
      BY <2>5 DEF SendSegment, SendFirstSegment
    <3>2. mac'.took = 0
      BY <1>0, <2>5, TookServe
    <3> QED BY <1>3, <3>1, <3>2, OneCutSegment
  <2> QED BY <1>0, <1>3, <2>1, <2>2, <2>3, <2>4, <2>5, OneCutTake, OneCutWhole, OneCutCut
         DEF DuNext, Serve
<1>4. CASE UNCHANGED vars
  BY <1>2, <1>4 DEF vars, duVars, ueVars
<1> QED BY <1>1, <1>3, <1>4 DEF Next

-----------------------------------------------------------------------------
(* Reassembly.                                                             *)

\* The segment in hand and its context, when it has an id.
LEMMA StoreFacts ==
  ASSUME OneQueue, TypeOK, OneCut, OneContext, ue.pc = "process", ue.seg.id # 0
  PROVE  LET s == ue.seg
             c == [Context(s) EXCEPT !.got = @ \cup {s}]
         IN /\ SegOK(s) /\ s.pkt = s.id /\ Named(s.id) /\ s \in c.got
            /\ c.total = s.total /\ c.size = pkts[s.id].size
            /\ \A x \in c.got : /\ x \in Known /\ x \in Segment /\ x.id = s.id /\ x.pkt = s.id
                                /\ x.total = c.total /\ x.size = c.size
            /\ s.id \in Ids
<1> DEFINE s == ue.seg
           i == s.id
           c == [Context(s) EXCEPT !.got = @ \cup {s}]
<1>1. s \in Known /\ s \in Segment /\ i \in Ids \ {0} /\ Context(s) \in Contexts
  BY ContextType DEF Known
<1>2. SegOK(s) /\ s.pkt = i /\ Named(i) /\ s.size = pkts[i].size
  BY <1>1 DEF OneCut, SegOK
<1>3. c.got = Context(s).got \cup {s} /\ c.total = Context(s).total /\ c.size = Context(s).size
  BY <1>1 DEF Contexts
<1>4. \A x \in ctx[i].got : x \in Known /\ x \in Segment /\ x.id = i /\ x.pkt = i
                            /\ x.total = ctx[i].total /\ x.size = ctx[i].size
                            /\ x.size = s.size /\ x.total = s.total
  <2> TAKE x \in ctx[i].got
  <2>1. x \in Known /\ x \in Segment
    <3>1. ctx[i] \in Contexts
      BY <1>1 DEF TypeOK
    <3> QED BY <1>1, <3>1 DEF Known, Contexts
  <2>2. x.id = i /\ x.total = ctx[i].total /\ x.size = ctx[i].size
    BY <1>1 DEF OneContext
  <2>3. SegOK(x) /\ Agree(x, s)
    BY <1>1, <2>1 DEF OneCut
  <2>4. x.pkt = i /\ x.size = s.size
    BY <1>1, <1>2, <2>2, <2>3 DEF SegOK
  <2> QED BY <1>2, <2>1, <2>2, <2>3, <2>4 DEF Agree
<1>5. CASE ctx[i].total > 0
  <2>1. Context(s) = ctx[i]
    BY <1>5 DEF Context
  <2>2. ctx[i].got # {}
    BY <1>1, <1>5 DEF OneContext
  <2>3. ctx[i].total = s.total /\ ctx[i].size = s.size
    BY <1>4, <2>2
  <2> QED BY <1>1, <1>2, <1>3, <1>4, <2>1, <2>3
<1>6. CASE ~(ctx[i].total > 0)
  <2>1. Context(s).total = s.total /\ Context(s).size = s.size /\ Context(s).got = {}
    BY <1>6 DEF Context
  <2> QED BY <1>1, <1>2, <1>3, <2>1
<1> QED BY <1>5, <1>6

\* Every step preserves OneContext.
LEMMA OneContextKept ==
  ASSUME OneQueue, TypeOK, OneCut, OneContext, [Next]_vars
  PROVE  OneContext'
<1>1. CASE UNCHANGED ctx
  BY <1>1 DEF OneContext
<1>2. CASE StoreSegment
  <2> DEFINE s == ue.seg
             c == [Context(s) EXCEPT !.got = @ \cup {s}]
  <2>1. /\ ue.pc = "process" /\ s.id \in Ids /\ ctx \in [Ids -> Contexts]
        /\ ctx' = [ctx EXCEPT ![s.id] = NoContext] \/ ctx' = [ctx EXCEPT ![s.id] = c]
    BY <1>2, ContextType DEF StoreSegment, TypeOK
  <2>2. s.id # 0 => /\ s \in c.got
                    /\ \A x \in c.got : x.id = s.id /\ x.total = c.total /\ x.size = c.size
    BY <2>1, StoreFacts
  <2> HIDE DEF c, s
  <2>3. \A i \in Ids : ctx'[i] = ctx[i] \/ (i = s.id /\ ctx'[i] \in {c, NoContext})
    BY <2>1
  <2> QED BY <2>2, <2>3 DEF OneContext, NoContext
<1>3. ASSUME NEW expired \in SUBSET Expirable, StatusCollect(expired) PROVE OneContext'
  <2>1. \A i \in Ids : ctx'[i] = ctx[i] \/ ctx'[i] = NoContext
    BY <1>3 DEF StatusCollect
  <2> QED BY <2>1 DEF OneContext, NoContext
<1>4. CASE DuNext /\ UNCHANGED ueVars
  BY <1>1, <1>4 DEF ueVars
<1>5. CASE UeNext
  <2>1. CASE \/ Receive \/ ProcessWhole \/ DropSegment \/ RecordStatus \/ StatusWake
             \/ TxOpportunity \/ (\E id \in Ids : TransmitStatusPdu(id))
    BY <1>1, <2>1 DEF Receive, ProcessWhole, DropSegment, RecordStatus, StatusWake,
       TxOpportunity, TransmitStatusPdu
  <2> QED BY <1>2, <1>3, <1>5, <2>1 DEF UeNext, ProcessSegment
<1> QED BY <1>1, <1>4, <1>5 DEF Next, vars, ueVars

\* What a delivery under an id hands up.
Good(parts, size, i) ==
  /\ i \in DOMAIN pkts /\ pkts[i].size = size /\ Reassembles(parts, i)
  /\ {s.pkt : s \in parts} = {i} /\ Named(i)

\* A packet received whole is the packet that was sent.
LEMMA WholeIsGood ==
  ASSUME OneQueue, TypeOK, OneCut, ProcessWhole, ue.seg.id # 0
  PROVE  Good({ue.seg}, ue.seg.len, ue.seg.id)
<1> DEFINE s == ue.seg
<1>1. s \in Known /\ s \in Segment /\ s.total = 1
  BY ContextType DEF ProcessWhole, Known
<1>2. SegOK(s)
  BY <1>1 DEF OneCut
<1>3. s.pkt = s.id /\ Named(s.id) /\ s.id \in DOMAIN pkts /\ s.size = pkts[s.id].size
  BY <1>2 DEF SegOK
<1>4. s.num = 0
  BY <1>1, <1>2 DEF SegOK, Segment
<1>5. s.off = 0 /\ s.off + s.len = s.size
  BY <1>1, <1>2, <1>4 DEF SegOK
<1>6. s.len = s.size
  BY <1>1, <1>5 DEF Segment
<1> HIDE DEF s
<1>7. Reassembles({s}, s.id)
  BY <1>3, <1>4, <1>5 DEF Reassembles
<1> QED BY <1>3, <1>6, <1>7 DEF Good, s

\* A complete context holds every segment of one cut of one packet.
LEMMA CompleteIsGood ==
  ASSUME OneQueue, TypeOK, OneCut, OneContext, ue.pc = "process", ue.seg.id # 0,
         Complete([Context(ue.seg) EXCEPT !.got = @ \cup {ue.seg}])
  PROVE  Good([Context(ue.seg) EXCEPT !.got = @ \cup {ue.seg}].got,
              [Context(ue.seg) EXCEPT !.got = @ \cup {ue.seg}].size, ue.seg.id)
<1> DEFINE s == ue.seg
           i == s.id
           c == [Context(s) EXCEPT !.got = @ \cup {s}]
<1>1. /\ SegOK(s) /\ s.pkt = i /\ Named(i) /\ s \in c.got
      /\ c.total = s.total /\ c.size = pkts[i].size
      /\ \A x \in c.got : /\ x \in Known /\ x \in Segment /\ x.id = i /\ x.pkt = i
                          /\ x.total = c.total /\ x.size = c.size
  BY StoreFacts
<1>2. Complete(c)
  OBVIOUS
<1>3. i \in DOMAIN pkts /\ s \in Segment
  BY <1>1 DEF SegOK
<1> HIDE DEF c, i, s
<1>4. c.total \in Nat /\ 0 < c.total
  BY <1>1, <1>3 DEF SegOK, Segment
<1>5. \A n \in 0..(c.total - 1) : \E x \in c.got : x.num = n
  BY <1>2 DEF Complete
<1>6. \A x \in c.got : SegOK(x) /\ x.num \in Nat
  BY <1>1 DEF OneCut, Segment
<1>7. ASSUME NEW x \in c.got
      PROVE  /\ x.num = 0 => x.off = 0
             /\ x.num # 0 => \E y \in c.got : y.num = x.num - 1 /\ y.off + y.len = x.off
  <2>1. x.num = 0 => x.off = 0
    BY <1>6 DEF SegOK
  <2>2. ASSUME x.num # 0
        PROVE  \E y \in c.got : y.num = x.num - 1 /\ y.off + y.len = x.off
    <3>1. x.num - 1 \in 0..(c.total - 1)
      BY <1>1, <1>4, <1>6, <2>2 DEF SegOK
    <3>2. PICK y \in c.got : y.num = x.num - 1
      BY <1>5, <3>1
    <3>3. Agree(y, x)
      BY <1>1 DEF OneCut
    <3>4. y.pkt = x.pkt /\ x.num = y.num + 1
      BY <1>1, <1>6, <3>2
    <3> QED BY <3>2, <3>3, <3>4 DEF Agree
  <2> QED BY <2>1, <2>2
<1>8. \E x \in c.got : x.off + x.len = pkts[i].size
  <2>1. PICK x \in c.got : x.num = c.total - 1
    BY <1>4, <1>5
  <2> QED BY <1>1, <1>6, <2>1 DEF SegOK
<1>9. Reassembles(c.got, i)
  BY <1>1, <1>7, <1>8 DEF Reassembles
<1>10. {x.pkt : x \in c.got} = {i}
  BY <1>1
<1>11. Good(c.got, c.size, i)
  BY <1>1, <1>3, <1>9, <1>10 DEF Good
<1> QED BY <1>11 DEF c, i, s

\* Every delivery is good; nothing else enters the state "record".
LEMMA Deliveries ==
  ASSUME OneQueue, TypeOK, OneCut, OneContext, UeNext
  PROVE  \/ /\ UNCHANGED delivered
            /\ ue'.pc = "record" => UNCHANGED ue
         \/ \E parts, size :
              /\ Deliver(parts, size) /\ ue.pc = "process"
              /\ UNCHANGED <<pendingStatus, waiting, txQueue, pendingPdus, ul>>
              /\ ue.seg.id # 0 => Good(parts, size, ue.seg.id)
<1>1. CASE ProcessWhole
  <2>1. ue.seg.id # 0 => Good({ue.seg}, ue.seg.len, ue.seg.id)
    BY <1>1, WholeIsGood
  <2> QED BY <1>1, <2>1 DEF ProcessWhole
<1>2. CASE StoreSegment
  <2> DEFINE c == [Context(ue.seg) EXCEPT !.got = @ \cup {ue.seg}]
  <2>1. CASE Complete(c) /\ Deliver(c.got, c.size)
    <3>1. ue.seg.id # 0 => Good(c.got, c.size, ue.seg.id)
      BY <1>2, <2>1, CompleteIsGood DEF StoreSegment
    <3>2. ue.pc = "process" /\ UNCHANGED <<pendingStatus, waiting, txQueue, pendingPdus, ul>>
      BY <1>2 DEF StoreSegment
    <3> HIDE DEF c
    <3> QED BY <2>1, <3>1, <3>2
  <2>2. CASE ue' = IdleUe /\ UNCHANGED delivered
    BY <2>2 DEF IdleUe
  <2> QED BY <1>2, <2>1, <2>2 DEF StoreSegment
<1>3. CASE \/ Receive \/ DropSegment \/ RecordStatus \/ StatusWake
           \/ (\E expired \in SUBSET Expirable : StatusCollect(expired))
           \/ TxOpportunity \/ (\E id \in Ids : TransmitStatusPdu(id))
  <2>1. CASE Receive
    BY <2>1 DEF Receive, IdleUe
  <2> QED BY <1>3, <2>1 DEF DropSegment, RecordStatus, StatusWake, StatusCollect,
         TxOpportunity, TransmitStatusPdu, IdleUe
<1> QED BY <1>1, <1>2, <1>3 DEF UeNext, ProcessSegment

\* Every step preserves Intact.
LEMMA IntactKept ==
  ASSUME OneQueue, TypeOK, Indices, Numbered, OneCut, OneContext, Intact, [Next]_vars
  PROVE  Intact'
<1>0. Stable
  BY RegisterStable
<1>1. CASE UNCHANGED ue
  <2>1. \A p \in DOMAIN pkts : Reassembles(ue.parts, p) => Reassembles(ue.parts, p)'
    BY <1>0, <1>1 DEF Stable, Reassembles
  <2> SUFFICES ASSUME ue.pc = "record", ue.seg.id # 0
               PROVE  (\E p \in DOMAIN pkts : pkts[p].size = ue.size /\ Reassembles(ue.parts, p))'
    BY <1>1 DEF Intact
  <2>2. PICK p \in DOMAIN pkts : pkts[p].size = ue.size /\ Reassembles(ue.parts, p)
    BY DEF Intact
  <2>3. p \in DOMAIN pkts' /\ pkts'[p].size = ue'.size /\ Reassembles(ue.parts, p)'
    BY <1>0, <1>1, <2>1, <2>2 DEF Stable
  <2> QED BY <2>3
<1>2. CASE ue'.pc # "record"
  BY <1>2 DEF Intact
<1>3. ASSUME UeNext, UNCHANGED duVars, NEW parts, NEW size,
             Deliver(parts, size), ue.seg.id # 0 => Good(parts, size, ue.seg.id)
      PROVE  Intact'
  <2>1. ue'.seg = ue.seg /\ ue'.parts = parts /\ ue'.size = size
    BY <1>3, DeliverFacts
  <2>2. pkts' = pkts
    BY <1>3, UeFrame
  <2> QED BY <1>3, <2>1, <2>2 DEF Good, Intact, Reassembles
<1>4. CASE UeNext /\ UNCHANGED duVars
  BY <1>1, <1>2, <1>3, <1>4, Deliveries
<1> QED BY <1>1, <1>4 DEF Next, vars, ueVars

-----------------------------------------------------------------------------
(* Acknowledgements.                                                       *)

\* Between the stores of the UE and the uplink nothing is lost and nothing appears.
LEMMA UeUnderway ==
  ASSUME TypeOK, UeNext, UNCHANGED delivered, ue'.pc = "record" => UNCHANGED ue
  PROVE  \A i \in Ids : AckUnderway(i)' <=> AckUnderway(i)
<1> USE DEF AckUnderway
<1>0. /\ txQueue \in [Ids -> Nat] /\ pendingPdus \in [Ids -> Nat] /\ ul \in [Ids -> Nat]
      /\ waiting \subseteq Ids /\ pendingStatus \subseteq Ids
  BY DEF TypeOK, Pdus
<1>1. CASE Receive
  BY <1>1 DEF Receive, IdleUe
<1>2. CASE ProcessWhole
  <2>1. ue'.pc = "record" /\ ue.pc = "process"
    BY <1>2, DeliverFacts DEF ProcessWhole
  <2> QED BY <2>1
<1>3. CASE DropSegment
  BY <1>3 DEF DropSegment, IdleUe
<1>4. CASE StoreSegment
  <2> DEFINE c == [Context(ue.seg) EXCEPT !.got = @ \cup {ue.seg}]
  <2>1. Deliver(c.got, c.size) => ue'.pc = "record"
    <3> HIDE DEF c
    <3> QED BY DeliverFacts
  <2>2. ue.pc = "process" /\ UNCHANGED <<pendingStatus, waiting, txQueue, pendingPdus, ul>>
        /\ (Deliver(c.got, c.size) \/ ue' = IdleUe)
    BY <1>4 DEF StoreSegment
  <2> HIDE DEF c
  <2> QED BY <2>1, <2>2 DEF IdleUe
<1>5. CASE RecordStatus
  BY <1>5 DEF RecordStatus, IdleUe
<1>6. CASE StatusWake
  BY <1>6 DEF StatusWake
<1>7. ASSUME NEW expired \in SUBSET Expirable, StatusCollect(expired), NEW i \in Ids
      PROVE  AckUnderway(i)' <=> AckUnderway(i)
  <2>1. UNCHANGED <<ue, pendingPdus, ul>> /\ pendingStatus' = {}
    BY <1>7 DEF StatusCollect
  <2>2. CASE st.poll
    <3>1. waiting' = {}
          /\ txQueue'[i] = IF i \in waiting \cup pendingStatus THEN txQueue[i] + 1 ELSE txQueue[i]
      BY <1>7, <2>2 DEF StatusCollect, Add
    <3> QED BY <1>0, <2>1, <3>1
  <2>3. CASE ~st.poll
    <3>1. waiting' = waiting \cup pendingStatus /\ txQueue' = txQueue
      BY <1>7, <2>3 DEF StatusCollect
    <3> QED BY <2>1, <3>1
  <2> QED BY <2>2, <2>3
<1>8. ASSUME TxOpportunity, NEW i \in Ids
      PROVE  AckUnderway(i)' <=> AckUnderway(i)
  <2>1. /\ txQueue'[i] = 0 /\ pendingPdus'[i] = pendingPdus[i] + txQueue[i]
        /\ UNCHANGED <<ue, waiting, pendingStatus, ul>>
    BY <1>8 DEF TxOpportunity, NoPdus, Merge
  <2> QED BY <1>0, <2>1
<1>9. ASSUME NEW id \in Ids, TransmitStatusPdu(id), NEW i \in Ids
      PROVE  AckUnderway(i)' <=> AckUnderway(i)
  <2>1. /\ UNCHANGED <<ue, waiting, pendingStatus, txQueue>> /\ pendingPdus[id] > 0
        /\ pendingPdus'[i] = IF i = id THEN pendingPdus[i] - 1 ELSE pendingPdus[i]
        /\ ul'[i] = IF i = id THEN ul[i] + 1 ELSE ul[i]
    BY <1>0, <1>9 DEF TransmitStatusPdu
  <2> QED BY <1>0, <2>1
<1> QED BY <1>1, <1>2, <1>3, <1>4, <1>5, <1>6, <1>7, <1>8, <1>9 DEF UeNext, ProcessSegment

\* A delivery records one arrival and puts its id under way.
LEMMA DeliverUnderway ==
  ASSUME TypeOK, NEW parts, NEW size, Deliver(parts, size), ue.pc = "process",
         UNCHANGED <<pendingStatus, waiting, txQueue, pendingPdus, ul>>
  PROVE  /\ \A i \in Ids : AckUnderway(i)' <=> AckUnderway(i) \/ i = ue.seg.id
         /\ Arrived' = Arrived \cup {[id |-> ue.seg.id, from |-> {s.pkt : s \in parts}]}
<1>1. ue'.pc = "record" /\ ue'.seg = ue.seg
  BY DeliverFacts
<1>2. \A i \in Ids : AckUnderway(i)' <=> AckUnderway(i) \/ i = ue.seg.id
  BY <1>1 DEF AckUnderway
<1> DEFINE d == [id |-> ue.seg.id, from |-> {s.pkt : s \in parts}]
<1>3. delivered' = Append(delivered, d) /\ delivered \in Seq(Arrival)
  BY DEF Deliver, TypeOK
<1> HIDE DEF d
<1>4. Arrived' = Arrived \cup {d}
  <2>1. DOMAIN delivered' = DOMAIN delivered \cup {Len(delivered) + 1}
    BY <1>3
  <2>2. \A k \in DOMAIN delivered : delivered'[k] = delivered[k]
    BY <1>3
  <2>3. delivered'[Len(delivered) + 1] = d
    BY <1>3
  <2> QED BY <2>1, <2>2, <2>3 DEF Arrived
<1> QED BY <1>2, <1>4 DEF d

\* What arrived has an id.
LEMMA ArrivedType ==
  ASSUME TypeOK, NEW d \in Arrived
  PROVE  d.id \in Ids
<1>1. delivered \in Seq(Arrival)
  BY DEF TypeOK
<1>2. d \in Arrival
  BY <1>1 DEF Arrived
<1> QED BY <1>2 DEF Arrival

\* An acknowledgement reaches the entry of the packet it is for.
LEMMA AckStep ==
  ASSUME OneQueue, DeliveryInv, NEW id \in Ids, ProcessAck(id), UNCHANGED ueVars
  PROVE  Acknowledging' /\ AckedDelivered' /\ AckAccounted'
<1>0. /\ TypeOK /\ Numbered /\ Registered /\ Acknowledging /\ AckedDelivered /\ AckAccounted
  BY DEF DeliveryInv
<1>1. /\ ul[id] > 0 /\ ul' = [ul EXCEPT ![id] = @ - 1] /\ enq.pc = "idle" /\ pkts' = pkts
      /\ acked' = acked \cup ({retx[1][id]} \ {0})
      /\ UNCHANGED <<ue, delivered, waiting, pendingStatus, txQueue, pendingPdus>>
  BY DEF ProcessAck, ueVars
<1>2. /\ txQueue \in [Ids -> Nat] /\ pendingPdus \in [Ids -> Nat] /\ ul \in [Ids -> Nat]
  BY <1>0 DEF TypeOK, Pdus
<1>3. AckUnderway(id)
  BY <1>1, <1>2 DEF AckUnderway
<1>4. \A i \in Ids : ul'[i] = IF i = id THEN ul[i] - 1 ELSE ul[i]
  BY <1>1, <1>2
<1>5. \A i \in Ids : /\ AckUnderway(i)' => AckUnderway(i)
                     /\ i # id => (AckUnderway(i) => AckUnderway(i)')
  BY <1>1, <1>2, <1>4 DEF AckUnderway
<1>6. Arrived' = Arrived
  BY <1>1 DEF Arrived
<1>7. Acknowledging'
  BY <1>0, <1>1, <1>5, <1>6 DEF Acknowledging, HasArrived, Named
<1>8. AckedDelivered'
  <2>1. ASSUME retx[1][id] # 0
        PROVE  retx[1][id] = id /\ HasArrived(id)
    <3>1. retx[1][id] = id
      BY <1>0, <2>1 DEF Registered
    <3> QED BY <1>0, <1>3, <2>1, <3>1 DEF Acknowledging
  <2> QED BY <1>0, <1>1, <1>6, <2>1 DEF AckedDelivered, HasArrived
<1>9. AckAccounted'
  <2> SUFFICES ASSUME NEW d \in Arrived, d.id # 0
               PROVE  AckUnderway(d.id)' \/ \E p \in acked' : pkts[p].id = d.id
    BY <1>1, <1>6 DEF AckAccounted
  <2>1. d.id \in Ids /\ Named(d.id)
    BY <1>0, ArrivedType DEF Acknowledging
  <2>2. CASE d.id # id
    BY <1>0, <1>1, <1>5, <2>1, <2>2 DEF AckAccounted
  <2>3. CASE d.id = id
    <3>1. retx[1][id] = id \/ id \in acked
      BY <1>0, <1>1, <2>1, <2>3 DEF Registered, Named
    <3>2. id \in acked' /\ pkts[id].id = id
      BY <1>1, <2>1, <2>3, <3>1 DEF Named
    <3> QED BY <2>3, <3>2
  <2> QED BY <2>2, <2>3
<1> QED BY <1>7, <1>8, <1>9

\* Steps that leave arrivals and acknowledgements where they are.
LEMMA QuietStep ==
  ASSUME DeliveryInv, Stable, UNCHANGED <<acked, delivered>>,
         \A i \in Ids : AckUnderway(i)' <=> AckUnderway(i)
  PROVE  Acknowledging' /\ AckedDelivered' /\ AckAccounted'
<1>0. /\ TypeOK /\ Registered /\ Acknowledging /\ AckedDelivered /\ AckAccounted
  BY DEF DeliveryInv
<1>1. Arrived' = Arrived
  BY DEF Arrived
<1>2. \A d \in Arrived : d.id \in Ids
  BY <1>0, ArrivedType
<1>3. Acknowledging' /\ AckedDelivered'
  BY <1>0, <1>1 DEF Acknowledging, AckedDelivered, HasArrived, Stable
<1>4. \A p \in acked : pkts'[p].id = pkts[p].id
  BY <1>0 DEF Registered, Stable, Named
<1> QED BY <1>0, <1>1, <1>2, <1>3, <1>4 DEF AckAccounted

\* A delivery makes its id's acknowledgement justified.
LEMMA DeliverStep ==
  ASSUME DeliveryInv, UNCHANGED <<pkts, acked>>, NEW parts, NEW size,
         Deliver(parts, size), ue.pc = "process",
         UNCHANGED <<pendingStatus, waiting, txQueue, pendingPdus, ul>>,
         ue.seg.id # 0 => Good(parts, size, ue.seg.id)
  PROVE  Acknowledging' /\ AckedDelivered' /\ AckAccounted'
<1>0. /\ TypeOK /\ Acknowledging /\ AckedDelivered /\ AckAccounted
  BY DEF DeliveryInv
<1> DEFINE d == [id |-> ue.seg.id, from |-> {s.pkt : s \in parts}]
<1>1. /\ \A i \in Ids : AckUnderway(i)' <=> AckUnderway(i) \/ i = ue.seg.id
      /\ Arrived' = Arrived \cup {d}
  BY <1>0, DeliverUnderway
<1>2. d.id = ue.seg.id /\ ue.seg.id \in Ids
  BY <1>0, ContextType
<1>3. d.id # 0 => d.from = {d.id} /\ Named(d.id)
  BY DEF Good
<1> HIDE DEF d
<1>4. \A e \in Arrived : e.id \in Ids
  BY <1>0, ArrivedType
<1>5. AckedDelivered'
  BY <1>0, <1>1 DEF AckedDelivered
<1>6. Acknowledging'
  BY <1>0, <1>1, <1>2, <1>3 DEF Acknowledging, HasArrived, Named
<1>7. AckAccounted'
  BY <1>0, <1>1, <1>2, <1>4 DEF AckAccounted
<1> QED BY <1>5, <1>6, <1>7

\* Every step preserves what is known of acknowledgements.
LEMMA AcksKept ==
  ASSUME OneQueue, DeliveryInv, [Next]_vars
  PROVE  Acknowledging' /\ AckedDelivered' /\ AckAccounted'
<1>0. TypeOK /\ Indices /\ Numbered /\ OneCut /\ OneContext
  BY DEF DeliveryInv
<1>1. Stable
  BY <1>0, RegisterStable
<1>2. CASE UNCHANGED <<acked, delivered, ue, pendingStatus, waiting, txQueue, pendingPdus, ul>>
  <2>1. \A i \in Ids : AckUnderway(i)' <=> AckUnderway(i)
    BY <1>2 DEF AckUnderway
  <2> QED BY <1>1, <1>2, <2>1, QuietStep
<1>3. CASE UeNext /\ UNCHANGED duVars
  <2>1. UNCHANGED <<pkts, acked>>
    BY <1>3, UeFrame
  <2>2. CASE UNCHANGED delivered /\ (ue'.pc = "record" => UNCHANGED ue)
    <3>1. \A i \in Ids : AckUnderway(i)' <=> AckUnderway(i)
      BY <1>0, <1>3, <2>2, UeUnderway
    <3> QED BY <1>1, <2>1, <2>2, <3>1, QuietStep
  <2>3. ASSUME NEW parts, NEW size, Deliver(parts, size), ue.pc = "process",
               UNCHANGED <<pendingStatus, waiting, txQueue, pendingPdus, ul>>,
               ue.seg.id # 0 => Good(parts, size, ue.seg.id)
        PROVE  Acknowledging' /\ AckedDelivered' /\ AckAccounted'
    BY <2>1, <2>3, DeliverStep
  <2> QED BY <1>0, <1>3, <2>2, <2>3, Deliveries
<1>4. CASE DuNext /\ UNCHANGED ueVars
  <2>1. CASE \E id \in Ids : ProcessAck(id)
    BY <1>4, <2>1, AckStep
  <2>2. CASE \/ (\E q \in Queues, size \in Sizes : EnqueuePacket(q, size))
             \/ AssignId \/ CountBytes \/ AddPacket
    BY <1>2, <1>4, <2>2 DEF EnqueuePacket, AssignId, CountBytes, AddPacket, ueVars
  <2>3. CASE \/ ExecPoll \/ MacAdvance \/ (\E q \in Queues : PollTimerExpires(q))
             \/ (\E b \in Budgets : SlotBegin(b)) \/ (\E q \in Queues : Serve(q))
    BY <1>2, <1>4, <2>3, DuFrame DEF ueVars
  <2> QED BY <1>4, <2>1, <2>2, <2>3 DEF DuNext
<1> QED BY <1>2, <1>3, <1>4 DEF Next, vars, duVars, ueVars

-----------------------------------------------------------------------------
\* The initial states satisfy DeliveryInv.
LEMMA DeliveryInit ==
  ASSUME OneQueue, Init
  PROVE  DeliveryInv
<1>1. TypeOK /\ Indices
  BY InitType
<1> USE DEF Init, DuInit, UeInit
<1>2. Numbered
  BY OneQueueFacts DEF Numbered, IdleEnq
<1>3. Registered
  BY OneQueueFacts DEF Registered
<1>4. Known = {} /\ Held = {}
  BY OneQueueFacts DEF Known, Held, IdleUe, IdleMac, NoContext
<1>5. OneCut /\ OneContext
  BY <1>4, OneQueueFacts DEF OneCut, Sorted, OneContext, NoContext
<1>6. Intact /\ AckedDelivered
  BY DEF Intact, IdleUe, AckedDelivered
<1>7. Arrived = {}
  BY DEF Arrived
<1>8. Acknowledging /\ AckAccounted
  BY <1>7 DEF Acknowledging, AckAccounted, AckUnderway, IdleUe, NoPdus
<1> QED BY <1>1, <1>2, <1>3, <1>5, <1>6, <1>8 DEF DeliveryInv

\* DeliveryInv is inductive.
LEMMA DeliveryStep ==
  ASSUME OneQueue, DeliveryInv, [Next]_vars
  PROVE  DeliveryInv'
  BY TypeKept, IndicesKept, NumberedKept, RegisteredKept, OneCutKept, OneContextKept,
     IntactKept, AcksKept DEF DeliveryInv

\* With one queue DeliveryInv always holds.
LEMMA DeliveryInvariance ==
  ASSUME OneQueue
  PROVE  Spec => []DeliveryInv
<1>1. Init => DeliveryInv
  BY DeliveryInit
<1>2. DeliveryInv /\ [Next]_vars => DeliveryInv'
  BY DeliveryStep
<1> QED BY <1>1, <1>2, PTL DEF Spec

(***************************************************************************)
(* Under one queue, what RlcReassemblyManager::processSegment hands up     *)
(* under an id is exactly one packet of the DU, whatever segments were     *)
(* dropped, expired or cut for whatever slots before.                      *)
(***************************************************************************)
THEOREM DeliveredIntact ==
  ASSUME OneQueue
  PROVE  Spec => []Intact
<1>1. DeliveryInv => Intact
  BY DEF DeliveryInv
<1> QED BY <1>1, DeliveryInvariance, PTL

(***************************************************************************)
(* Under one queue no acknowledgement disappears between delivery at the   *)
(* UE and the retransmission buffer of the DU.                             *)
(***************************************************************************)
THEOREM AcknowledgementsAccounted ==
  ASSUME OneQueue
  PROVE  Spec => []AckAccounted
<1>1. DeliveryInv => AckAccounted
  BY DEF DeliveryInv
<1> QED BY <1>1, DeliveryInvariance, PTL
=============================================================================
