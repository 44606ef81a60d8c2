----------------------------- MODULE MCRlcLink ------------------------------
(***************************************************************************)
(* RlcLink for TLC.  The DU's two threads interleave freely with each      *)
(* other, and so do the UE's threads and the uplink, but the two groups    *)
(* take turns: the UE works through what a slot sent while no slot is in   *)
(* progress, and the next slot, packet or poll finds it done.              *)
(***************************************************************************)
EXTENDS RlcLink

\* The priority of queue q is its number.
Ranked == [q \in 1..NQ |-> q]

DuQuiet == ~mac.on /\ enq.pc = "idle"
UeQuiet == /\ dl = <<>> /\ ue.pc = "idle"
           /\ txQueue = NoPdus /\ pendingPdus = NoPdus /\ ul = NoPdus

\* The slot and the round of the status thread that can change something.
SlotDue  == UeQuiet /\ \E q \in Queues : HasPackets(q)
RoundDue == pendingPoll \/ pendingStatus # {} \/ Open # {}

Arrive(q, size) == UeQuiet /\ EnqueuePacket(q, size) /\ UNCHANGED ueVars
Enqueuing       == (AssignId \/ CountBytes \/ AddPacket) /\ UNCHANGED ueVars
PollDue         == /\ UeQuiet /\ DuQuiet /\ UNCHANGED ueVars
                   /\ (ExecPoll \/ \E q \in Queues : PollTimerExpires(q))
Ack(id)         == ProcessAck(id) /\ UNCHANGED ueVars
Slot(b)         == SlotDue /\ SlotBegin(b) /\ UNCHANGED ueVars
MacStep         == (MacAdvance \/ \E q \in Queues : Serve(q)) /\ UNCHANGED ueVars
Segments        == DuQuiet /\ ProcessSegment /\ UNCHANGED duVars
StatusRound     == /\ DuQuiet /\ UNCHANGED duVars
                   /\ \/ RoundDue /\ StatusWake
                      \/ \E expired \in SUBSET Expirable : StatusCollect(expired)
Opportunity     == DuQuiet /\ TxOpportunity /\ UNCHANGED duVars
Transmit(id)    == DuQuiet /\ TransmitStatusPdu(id) /\ UNCHANGED duVars

TurnsNext ==
  \/ \E q \in Queues, size \in Sizes : Arrive(q, size)
  \/ Enqueuing
  \/ PollDue
  \/ \E id \in Ids : Ack(id)
  \/ \E b \in Budgets : Slot(b)
  \/ MacStep
  \/ Segments
  \/ StatusRound
  \/ Opportunity
  \/ \E id \in Ids : Transmit(id)

(***************************************************************************)
(* Every thread of the DU and the UE runs; nothing is assumed of the       *)
(* slots.  The status PDU thread waits for no slot in the code, only for   *)
(* its turn here, so it is not passed over for ever by slots that send     *)
(* nothing.                                                                *)
(***************************************************************************)
Fairness ==
  /\ WF_vars(Enqueuing) /\ WF_vars(MacStep)
  /\ WF_vars(Segments) /\ SF_vars(StatusRound) /\ WF_vars(Opportunity)
  /\ \A id \in Ids : WF_vars(Transmit(id)) /\ WF_vars(Ack(id))

TurnsSpec == Init /\ [][TurnsNext]_vars /\ Fairness
=============================================================================
