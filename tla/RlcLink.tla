------------------------------ MODULE RlcLink -------------------------------
(***************************************************************************)
(* One emulated radio link: a DuSender and a UeReceiver joined by the two  *)
(* Link sockets of RlcAir.                                                 *)
(***************************************************************************)
EXTENDS DuSender, UeReceiver

vars == <<pkts, dl, ul, duVars, ueVars>>

Init ==
  /\ pkts = <<>> /\ dl = <<>> /\ ul = NoPdus
  /\ DuInit /\ UeInit

Next ==
  \/ DuNext /\ UNCHANGED ueVars
  \/ UeNext /\ UNCHANGED duVars

Spec == Init /\ [][Next]_vars

-----------------------------------------------------------------------------
Packet  == [q : Queues, size : Nat, id : Ids]
Arrival == [id : Ids, from : SUBSET Nat]
Pdus    == [Ids -> Nat]
Contexts == [total : Nat, size : Nat, got : SUBSET Segment]
EnqState == [pc : {"idle", "assign", "count", "add"}, p : Nat]
MacState == [on : BOOLEAN, avail : Nat, last : Nat, level : Levels \cup {0},
             attempts : Nat, found : BOOLEAN, took : Nat]
UeState  == [pc : {"idle", "process", "record"}, seg : Segment, size : Nat,
             parts : SUBSET Segment]

\* The state of both ends has its type throughout.
TypeOK ==
  /\ pkts \in Seq(Packet) /\ dl \in Seq(Segment) /\ ul \in Pdus
  /\ packetBuffer \in [Queues -> Seq(Nat)]
  /\ segmentBuffer \in [Queues -> Seq(Segment)]
  /\ nextId \in [Queues -> Nat] /\ bytes \in [Queues -> Int]
  /\ retx \in [Queues -> [Ids -> Nat]]
  /\ pollDue \in [Queues -> BOOLEAN]
  /\ enq \in EnqState /\ mac \in MacState
  /\ acked \subseteq Nat /\ lost \subseteq Nat
  /\ ue \in UeState
  /\ ctx \in [Ids -> Contexts]
  /\ delivered \in Seq(Arrival)
  /\ broken \subseteq Nat
  /\ pendingPoll \in BOOLEAN /\ pendingStatus \subseteq Ids
  /\ st \in [pc : {"wait", "collect"}, poll : BOOLEAN]
  /\ waiting \subseteq Ids
  /\ txQueue \in Pdus /\ pendingPdus \in Pdus

Arrived == {delivered[k] : k \in DOMAIN delivered}

\* The parts are all the bytes of packet p, each segment starting where the one
\* before it ends.
Reassembles(parts, p) ==
  /\ \A s \in parts : s.pkt = p
  /\ \A s \in parts :
       /\ s.num = 0 => s.off = 0
       /\ s.num # 0 => \E t \in parts : t.num = s.num - 1 /\ t.off + t.len = s.off
  /\ \E s \in parts : s.off + s.len = pkts[p].size

(***************************************************************************)
(* What the UE hands up is one packet of the DU, whole and unmixed         *)
(* (RlcReassemblyManager::processSegment finds the context by packet_id    *)
(* alone).  A packet the MAC took before enqueuePacket gave it its id      *)
(* travels under id 0, where this is not promised.                         *)
(***************************************************************************)
Intact ==
  ue.pc = "record" /\ ue.seg.id # 0 =>
    \E p \in DOMAIN pkts : pkts[p].size = ue.size /\ Reassembles(ue.parts, p)

\* The acknowledgement of id is still recorded somewhere between UE and DU.
AckUnderway(id) ==
  \/ ue.pc = "record" /\ ue.seg.id = id
  \/ id \in pendingStatus \cup waiting
  \/ txQueue[id] + pendingPdus[id] + ul[id] > 0

(***************************************************************************)
(* No acknowledgement is dropped: a delivered packet is acknowledged at    *)
(* the DU or its id waits in one of the stores on the way, although the    *)
(* status PDU thread may use up the poll before the packet is recorded.    *)
(***************************************************************************)
AckAccounted ==
  \A d \in Arrived : d.id # 0 =>
    \/ AckUnderway(d.id)
    \/ \E p \in acked : pkts[p].id = d.id

(***************************************************************************)
(* segmentBuffer never holds more than the rest of one packet, in order    *)
(* and without a hole, so with room for one packet's segments none is ever *)
(* dropped by "Segment buffer full" in dequeuePacket.                      *)
(***************************************************************************)
RestOfOnePacket ==
  \A q \in Queues : LET b == segmentBuffer[q] IN
    b # <<>> =>
      /\ b[Len(b)].num = b[Len(b)].total - 1
      /\ \A i \in 1..(Len(b) - 1) :
           /\ b[i + 1].pkt = b[i].pkt /\ b[i + 1].num = b[i].num + 1
           /\ b[i + 1].off = b[i].off + b[i].len

\* What a sequence of numbers adds up to, and the sizes of the packets of queue q.
SumOf(s) ==
  LET sum[i \in 0..Len(s)] == IF i = 0 THEN 0 ELSE sum[i - 1] + s[i]
  IN  sum[Len(s)]
QueuedSizes(q) == [i \in DOMAIN packetBuffer[q] |-> pkts[packetBuffer[q][i]].size]

\* What enqueuePacket has handed over on queue q and not counted yet, and what
\* dequeuePacket has taken from it and not counted off yet.
Uncounted(q) ==
  IF enq.pc \in {"assign", "count"} /\ pkts[enq.p].q = q THEN pkts[enq.p].size ELSE 0
TakenSize(q) == IF Took(q) THEN pkts[mac.took].size ELSE 0

(***************************************************************************)
(* totalBufferedBytes, which the KPM thread reports, differs from the size *)
(* of what packetBuffer holds by what the receive thread and the MAC       *)
(* thread have in hand, and by no more: one packet of each, although both  *)
(* threads change queue and counter in two steps and the MAC may subtract  *)
(* a packet before it was added.                                           *)
(***************************************************************************)
BufferedBytes ==
  \A q \in Queues :
    bytes[q] = SumOf(QueuedSizes(q)) + TakenSize(q) - Uncounted(q)

\* The packet an arrival holds, or 0 if it is mixed from several.
Sole(S) == IF \E p \in S : S = {p} THEN CHOOSE p \in S : S = {p} ELSE 0

\* What came out, packet by packet.
OutOf == [k \in DOMAIN delivered |-> Sole(delivered[k].from)]

Fifo == INSTANCE AckedFifo WITH accepted <- Len(pkts), out <- OutOf

(***************************************************************************)
(* With one bearer queue the link is a FIFO that loses packets: segments   *)
(* of several slots, whole packets and reassembly never let a packet come  *)
(* out twice or overtake another, and an acknowledgement follows delivery. *)
(***************************************************************************)
ImplementsFifo == Fifo!Spec

(***************************************************************************)
(* A poll that finds a delivered packet recorded gets it acknowledged:     *)
(* status thread, MAC uplink and DU all do their part, with nothing more   *)
(* sent (the "fast link ACK" of statusPduThreadFunc).                      *)
(***************************************************************************)
PolledIsAcked ==
  \A id \in Ids \ {0} :
    (pendingPoll /\ id \in pendingStatus) ~> (retx[1][id] = 0)

\* Where packets wait whole, where their segments are, and what has come out.
Queued    == {mac.took} \cup UNION {{packetBuffer[q][i] : i \in DOMAIN packetBuffer[q]} :
                                     q \in Queues}
InTransit ==
  {dl[k] : k \in DOMAIN dl} \cup {s \in {ue.seg} : ue.pc = "process"}
  \cup UNION {ctx[i].got : i \in Ids}
  \cup UNION {{segmentBuffer[q][k] : k \in DOMAIN segmentBuffer[q]} : q \in Queues}
Reached   == UNION {d.from : d \in Arrived}

(***************************************************************************)
(* A packet gets lost in two places only, the MAC that has taken it and    *)
(* finds it too large and the reassembly manager that refuses or expires   *)
(* one of its segments: any other packet waits whole, has been handed up,  *)
(* or all its bytes are under way, in the order in which they were cut.    *)
(***************************************************************************)
Conserved ==
  \A p \in DOMAIN pkts :
    \/ p \in lost \cup broken \cup Queued \cup Reached
    \/ Reassembles({s \in InTransit : s.pkt = p}, p)
=============================================================================
