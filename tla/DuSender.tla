------------------------------ MODULE DuSender ------------------------------
(***************************************************************************)
(* The DU side of a link: RlcSenderModule (one per bearer queue) with its  *)
(* RlcRetransmissionManager, fed by the Link's receive thread, drained by  *)
(* MacSenderModule's scheduler thread into PhySenderModule.                *)
(*                                                                         *)
(* enqueuePacket puts the packet into the lock-free packetBuffer and only  *)
(* then gives it an id, counts its bytes and enters it into the            *)
(* retransmission buffer, so its four steps are four actions; the MAC      *)
(* thread may take the packet between any two of them.  The same receive   *)
(* thread handles STATUS_REPORT, so an ACK is never processed in between.  *)
(***************************************************************************)
EXTENDS RlcAir

VARIABLES
  packetBuffer,   \* per queue: packets, first to leave first
  segmentBuffer,  \* per queue: segments of a packet that was cut up
  nextId,         \* per queue: next_packet_id
  bytes,          \* per queue: totalBufferedBytes (a negative value is a wrapped size_t)
  retx,           \* per queue: retransmission_buffer, the packet under each id or 0
  pollDue,        \* per queue: poll_bit_pending, or t_pollRetransmit_expiry has passed
  enq,            \* the receive thread's place in enqueuePacket
  mac,            \* the MAC thread's place in processSlot
  acked,          \* packets whose entry a status PDU removed (packets_acked)
  lost            \* packets the MAC took from their queue and did not send

duVars == <<packetBuffer, segmentBuffer, nextId, bytes, retx, pollDue, enq, mac, acked, lost>>

Levels      == {Priority[q] : q \in Queues}
Highest(S)  == {l \in S : \A m \in S : m <= l}
Group(l)    == {q \in Queues : Priority[q] = l}
IdleMac     == [on |-> FALSE, avail |-> 0, last |-> 0, level |-> 0,
                attempts |-> 0, found |-> FALSE, took |-> 0]
IdleEnq     == [pc |-> "idle", p |-> 0]

\* poll_bit_pending is not initialised by the constructor.
DuInit ==
  /\ packetBuffer = [q \in Queues |-> <<>>]
  /\ segmentBuffer = [q \in Queues |-> <<>>]
  /\ nextId = [q \in Queues |-> 1]
  /\ bytes = [q \in Queues |-> 0]
  /\ retx = [q \in Queues |-> [i \in Ids |-> 0]]
  /\ pollDue \in [Queues -> BOOLEAN]
  /\ enq = IdleEnq
  /\ mac = IdleMac
  /\ acked = {}
  /\ lost = {}
-----------------------------------------------------------------------------
(* enqueuePacket, by the receive thread.  A full buffer refuses the packet *)
(* and changes nothing.                                                    *)

EnqueuePacket(q, size) ==
  /\ enq.pc = "idle"
  /\ Len(pkts) < MaxPackets
  /\ Len(packetBuffer[q]) < BufferSize
  /\ pkts' = Append(pkts, [q |-> q, size |-> size, id |-> 0])
  /\ packetBuffer' = [packetBuffer EXCEPT ![q] = Append(@, Len(pkts) + 1)]
  /\ enq' = [pc |-> "assign", p |-> Len(pkts) + 1]
  /\ UNCHANGED <<dl, ul, segmentBuffer, nextId, bytes, retx, pollDue, mac, acked, lost>>

AssignId ==
  /\ enq.pc = "assign"
  /\ LET q == pkts[enq.p].q IN
       /\ pkts' = [pkts EXCEPT ![enq.p].id = nextId[q] % IdMod]
       /\ nextId' = [nextId EXCEPT ![q] = @ + 1]
  /\ enq' = [enq EXCEPT !.pc = "count"]
  /\ UNCHANGED <<dl, ul, packetBuffer, segmentBuffer, bytes, retx, pollDue, mac, acked, lost>>

CountBytes ==
  /\ enq.pc = "count"
  /\ bytes' = [bytes EXCEPT ![pkts[enq.p].q] = @ + pkts[enq.p].size]
  /\ enq' = [enq EXCEPT !.pc = "add"]
  /\ UNCHANGED <<pkts, dl, ul, packetBuffer, segmentBuffer, nextId, retx,
                 pollDue, mac, acked, lost>>

AddPacket ==
  /\ enq.pc = "add"
  /\ retx' = [retx EXCEPT ![pkts[enq.p].q][pkts[enq.p].id] = enq.p]
  /\ enq' = IdleEnq
  /\ UNCHANGED <<pkts, dl, ul, packetBuffer, segmentBuffer, nextId, bytes,
                 pollDue, mac, acked, lost>>
-----------------------------------------------------------------------------
(* poll_bit_pending is read only after checkPollTimer has raised it for an *)
(* expired timer, and both are reset together, so one flag stands for the  *)
(* two.  main() hands every status PDU to getRlcModule(), the first queue. *)

PollTimerExpires(q) ==
  /\ ~pollDue[q]
  /\ pollDue' = [pollDue EXCEPT ![q] = TRUE]
  /\ UNCHANGED <<pkts, dl, ul, packetBuffer, segmentBuffer, nextId, bytes, retx,
                 enq, mac, acked, lost>>

ExecPoll ==
  /\ pollDue' = [q \in Queues |-> TRUE]
  /\ UNCHANGED <<pkts, dl, ul, packetBuffer, segmentBuffer, nextId, bytes, retx,
                 enq, mac, acked, lost>>

ProcessAck(id) ==
  /\ enq.pc = "idle"
  /\ ul[id] > 0
  /\ ul' = [ul EXCEPT ![id] = @ - 1]
  /\ pollDue' = [pollDue EXCEPT ![1] = FALSE]
  /\ acked' = acked \cup ({retx[1][id]} \ {0})
  /\ retx' = [retx EXCEPT ![1][id] = 0]
  /\ UNCHANGED <<pkts, dl, packetBuffer, segmentBuffer, nextId, bytes, enq, mac, lost>>
-----------------------------------------------------------------------------
(* The MAC thread.  A slot has a byte budget; the priority levels are      *)
(* served from the highest, round robin within a level, and whenever a     *)
(* level sent something the next round starts at the top again.            *)
(* dequeuePacket takes a packet from its queue in one step and subtracts   *)
(* its bytes from the counter in the next; mac.took is the packet in       *)
(* between, and 0 otherwise.                                               *)

SlotBegin(budget) ==
  /\ ~mac.on
  /\ \E l \in Highest(Levels) :
       mac' = [IdleMac EXCEPT !.on = TRUE, !.avail = budget, !.level = l]
  /\ UNCHANGED <<pkts, dl, ul, packetBuffer, segmentBuffer, nextId, bytes, retx,
                 pollDue, enq, acked, lost>>

HasPackets(q) == packetBuffer[q] # <<>> \/ segmentBuffer[q] # <<>>

LevelDone ==
  \/ mac.attempts >= Cardinality(Group(mac.level))
  \/ mac.avail = 0
  \/ \A q \in Group(mac.level) : ~HasPackets(q)

Below(l) == {m \in Levels : m < l}

MacAdvance ==
  /\ mac.on /\ mac.took = 0 /\ LevelDone
  /\ \/ /\ mac.avail = 0 \/ (~mac.found /\ Below(mac.level) = {})
        /\ mac' = IdleMac
     \/ /\ mac.avail # 0
        /\ \E l \in Highest(IF mac.found THEN Levels ELSE Below(mac.level)) :
             mac' = [mac EXCEPT !.attempts = 0, !.found = FALSE, !.level = l]
  /\ UNCHANGED <<pkts, dl, ul, packetBuffer, segmentBuffer, nextId, bytes, retx,
                 pollDue, enq, acked, lost>>

\* The queue's place among the queues of its level, and how far it is from last.
Rank(q)   == Cardinality({r \in Group(mac.level) : r < q})
Turn(q)   == (Rank(q) - mac.last) % Cardinality(Group(mac.level))

Serves(q) ==
  /\ mac.on /\ mac.took = 0 /\ ~LevelDone
  /\ q \in Group(mac.level) /\ HasPackets(q)
  /\ \A r \in Group(mac.level) : HasPackets(r) => Turn(q) <= Turn(r)

After(q) == [mac EXCEPT !.last = (Rank(q) + 1) % Cardinality(Group(mac.level)),
                        !.took = 0]

\* phyCallback: handed to the Link at once.
Sent(q, s) ==
  /\ dl' = Append(dl, s)
  /\ mac' = [After(q) EXCEPT !.avail = @ - WireSize(s), !.attempts = 0, !.found = TRUE]

Skipped(q) == mac' = [After(q) EXCEPT !.attempts = @ + 1]

\* The poll bit, once placed, restarts the timer.
Placed(q) == pollDue' = [pollDue EXCEPT ![q] = FALSE]

\* dequeuePacket: the first queued segment fits ...
SegmentFitsMutant(q) == Head(segmentBuffer[q]).len <= mac.avail   \* without its header
SegmentFits(q) == WireSize(Head(segmentBuffer[q])) <= mac.avail

FirstSegmentLeaves(q) ==
  LET s == Head(segmentBuffer[q])
      placed == pollDue[q] /\ s.num = s.total - 1
  IN /\ segmentBuffer[q] # <<>> /\ SegmentFits(q)
     /\ segmentBuffer' = [segmentBuffer EXCEPT ![q] = Tail(@)]
     /\ pollDue' = [pollDue EXCEPT ![q] = @ /\ ~placed]
     /\ Sent(q, [s EXCEPT !.poll = @ \/ placed])

SendSegment(q) ==
  /\ Serves(q)
  /\ FirstSegmentLeaves(q)
  /\ UNCHANGED <<pkts, ul, packetBuffer, nextId, bytes, retx, enq, acked, lost>>

\* ... or it does not, and holds up everything behind it.
BlockedBySegment(q) ==
  /\ Serves(q)
  /\ segmentBuffer[q] # <<>> /\ ~SegmentFits(q)
  /\ Skipped(q)
  /\ UNCHANGED <<pkts, dl, ul, packetBuffer, segmentBuffer, nextId, bytes, retx,
                 pollDue, enq, acked, lost>>

First(q)  == Head(packetBuffer[q])
Take(q) ==
  /\ packetBuffer' = [packetBuffer EXCEPT ![q] = Tail(@)]
  /\ mac' = [mac EXCEPT !.took = First(q)]
Took(q) == mac.took # 0 /\ pkts[mac.took].q = q
UncountMutant(q) ==   \* the bytes on the wire
  bytes' = [bytes EXCEPT ![q] = @ - (pkts[mac.took].size + RLC_SEGMENT_HEADER_SIZE)]
Uncount(q) == bytes' = [bytes EXCEPT ![q] = @ - pkts[mac.took].size]

\* "packet->size + 16 <= availableBytes", although the header has 22 bytes.
Fits(q)   == pkts[First(q)].size + 16 <= mac.avail
Unsegmented(q) == segmentBuffer[q] = <<>> /\ packetBuffer[q] # <<>>

TakeWhole(q) ==
  /\ Serves(q) /\ Unsegmented(q) /\ Fits(q)
  /\ Take(q)
  /\ UNCHANGED <<pkts, dl, ul, segmentBuffer, nextId, bytes, retx, pollDue, enq,
                 acked, lost>>

\* offset_in_original is neither set nor read for a packet sent whole.
Whole(q) ==
  LET p == pkts[mac.took]
  IN [pkt |-> mac.took, id |-> p.id, num |-> 0, total |-> 1, size |-> p.size,
      off |-> 0, len |-> p.size, poll |-> pollDue[q]]

\* The packet leaves whole.  If the budget is short of the header's last six
\* bytes, the MAC drops what it has just taken.
SendWhole(q) ==
  /\ Took(q) /\ segmentBuffer[q] = <<>>
  /\ Uncount(q) /\ Placed(q)
  /\ \/ /\ WireSize(Whole(q)) <= mac.avail
        /\ Sent(q, Whole(q))
        /\ UNCHANGED lost
     \/ /\ WireSize(Whole(q)) > mac.avail
        /\ Skipped(q)
        /\ lost' = lost \cup {mac.took}
        /\ UNCHANGED dl
  /\ UNCHANGED <<pkts, ul, packetBuffer, segmentBuffer, nextId, retx, enq, acked>>

SegmentSize == IF RLC_MAX_SEGMENT_SIZE < mac.avail THEN RLC_MAX_SEGMENT_SIZE ELSE mac.avail

\* Too little left to cut the packet up.
TooSmallToSegment(q) ==
  /\ Serves(q) /\ Unsegmented(q) /\ ~Fits(q)
  /\ SegmentSize < 100
  /\ Skipped(q)
  /\ UNCHANGED <<pkts, dl, ul, packetBuffer, segmentBuffer, nextId, bytes, retx,
                 pollDue, enq, acked, lost>>

\* RlcSegmentationManager::segmentPacket, with payload bytes in each segment.
TotalMutant(size, payload) == size \div payload   \* rounded down
Total(size, payload) == (size + payload - 1) \div payload
SegmentPacket(p, payload, poll) ==
  LET size == pkts[p].size
      total == Total(size, payload)
  IN [i \in 1..total |->
        [pkt |-> p, id |-> pkts[p].id, num |-> i - 1, total |-> total, size |-> size,
         off |-> (i - 1) * payload,
         len |-> IF size - (i - 1) * payload > payload THEN payload
                 ELSE size - (i - 1) * payload,
         poll |-> poll /\ i = total]]

SegmentCapacityMutant == BufferSize   \* as large as packetBuffer
SegmentCapacity == 4 * BufferSize

\* The packet is cut for the budget of this slot, as many segments as fit into
\* segmentBuffer are queued, and the packet is taken ...
CutPacket(q) ==
  LET segs == SegmentPacket(First(q), SegmentSize - RLC_SEGMENT_HEADER_SIZE, pollDue[q])
      kept == SubSeq(segs, 1, IF Len(segs) < SegmentCapacity THEN Len(segs) ELSE SegmentCapacity)
  IN /\ Serves(q) /\ Unsegmented(q) /\ ~Fits(q)
     /\ SegmentSize >= 100
     /\ Take(q) /\ Placed(q)
     /\ segmentBuffer' = [segmentBuffer EXCEPT ![q] = kept]
     /\ UNCHANGED <<pkts, dl, ul, nextId, bytes, retx, enq, acked, lost>>

\* ... and counted off; dequeuePacket calls itself for the first of them.
SendFirstSegment(q) ==
  /\ Took(q)
  /\ Uncount(q)
  /\ FirstSegmentLeaves(q)
  /\ UNCHANGED <<pkts, ul, packetBuffer, nextId, retx, enq, acked, lost>>

Serve(q) ==
  \/ SendSegment(q)
  \/ BlockedBySegment(q)
  \/ TakeWhole(q)
  \/ SendWhole(q)
  \/ TooSmallToSegment(q)
  \/ CutPacket(q)
  \/ SendFirstSegment(q)

DuNext ==
  \/ \E q \in Queues, size \in Sizes : EnqueuePacket(q, size)
  \/ AssignId
  \/ CountBytes
  \/ AddPacket
  \/ \E q \in Queues : PollTimerExpires(q)
  \/ ExecPoll
  \/ \E id \in Ids : ProcessAck(id)
  \/ \E b \in Budgets : SlotBegin(b)
  \/ MacAdvance
  \/ \E q \in Queues : Serve(q)
=============================================================================
