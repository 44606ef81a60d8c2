----------------------------- MODULE UeReceiver -----------------------------
(***************************************************************************)
(* The UE side of a link: RlcReceiverModule with its RlcReassemblyManager  *)
(* and status PDU thread, and MacReceiverModule's two uplink threads.      *)
(*                                                                         *)
(* The Link's receive thread raises pending_poll when it sees the poll     *)
(* bit, then reassembles and delivers, and only then records the packet in *)
(* pending_status_pdus; the status PDU thread takes the poll flag first    *)
(* and the recorded ids after it.  Every one of these is a step.           *)
(***************************************************************************)
EXTENDS RlcAir

VARIABLES
  ue,             \* the receive thread in processSegment: its place, the segment and,
                  \* once delivered, the packet made of it
  ctx,            \* reassembly_contexts, by id; total = 0 where there is none
  delivered,      \* what encapsulateAndDeliver handed up, in order: the id it came
                  \* under and the packets whose bytes it holds
  broken,         \* packets that lost a segment in the reassembly manager
  pendingPoll,    \* pending_poll
  pendingStatus,  \* pending_status_pdus
  st,             \* the status PDU thread: waiting or collecting, and the poll it took
  waiting,        \* its waiting_queue
  txQueue,        \* MAC: status PDUs without a transmission opportunity
  pendingPdus     \* MAC: status PDUs granted one, waiting for their delay

ueVars == <<ue, ctx, delivered, broken, pendingPoll, pendingStatus, st, waiting,
            txQueue, pendingPdus>>

NoSegment == [pkt |-> 0, id |-> 0, num |-> 0, total |-> 1, size |-> 0, off |-> 0,
              len |-> 0, poll |-> FALSE]
NoContext == [total |-> 0, size |-> 0, got |-> {}]
IdleUe    == [pc |-> "idle", seg |-> NoSegment, size |-> 0, parts |-> {}]

UeInit ==
  /\ ue = IdleUe
  /\ ctx = [i \in Ids |-> NoContext]
  /\ delivered = <<>>
  /\ broken = {}
  /\ pendingPoll = FALSE
  /\ pendingStatus = {}
  /\ st = [pc |-> "wait", poll |-> FALSE]
  /\ waiting = {}
  /\ txQueue = NoPdus
  /\ pendingPdus = NoPdus
-----------------------------------------------------------------------------
(* processSegment, by the Link's receive thread.                           *)

ReceiveMutant ==   \* the id recorded when its first segment comes
  /\ ue.pc = "idle"
  /\ dl # <<>>
  /\ dl' = Tail(dl)
  /\ pendingPoll' = (pendingPoll \/ Head(dl).poll)
  /\ pendingStatus' = pendingStatus \cup {Head(dl).id}
  /\ ue' = [IdleUe EXCEPT !.pc = "process", !.seg = Head(dl)]
  /\ UNCHANGED <<pkts, ul, ctx, delivered, broken, st, waiting, txQueue, pendingPdus>>

Receive ==
  /\ ue.pc = "idle"
  /\ dl # <<>>
  /\ dl' = Tail(dl)
  /\ pendingPoll' = (pendingPoll \/ Head(dl).poll)
  /\ ue' = [IdleUe EXCEPT !.pc = "process", !.seg = Head(dl)]
  /\ UNCHANGED <<pkts, ul, ctx, delivered, broken, pendingStatus, st, waiting,
                 txQueue, pendingPdus>>

Deliver(parts, size) ==
  /\ delivered' = Append(delivered, [id |-> ue.seg.id, from |-> {s.pkt : s \in parts}])
  /\ ue' = [ue EXCEPT !.pc = "record", !.size = size, !.parts = parts]

ProcessWhole ==
  /\ ue.pc = "process" /\ ue.seg.total = 1
  /\ Deliver({ue.seg}, ue.seg.len)
  /\ UNCHANGED <<pkts, dl, ul, ctx, broken, pendingPoll, pendingStatus, st, waiting,
                 txQueue, pendingPdus>>

Open == {i \in Ids : ctx[i].total > 0}

\* The segment's context, made from the segment itself when there is none.
Context(s) == IF ctx[s.id].total > 0 THEN ctx[s.id]
              ELSE [total |-> s.total, size |-> s.size, got |-> {}]

Refused(s) ==
  \/ Cardinality(Open) >= MaxContexts /\ s.id \notin Open
  \/ s.num >= Context(s).total
  \/ \E t \in Context(s).got : t.num = s.num
  \/ s.off + s.len > Context(s).size

CompleteMutant(c) == \E s \in c.got : s.num = c.total - 1   \* the last one has come
Complete(c) == \A n \in 0..(c.total - 1) : \E s \in c.got : s.num = n

DropSegment ==
  /\ ue.pc = "process" /\ ue.seg.total # 1
  /\ Refused(ue.seg)
  /\ broken' = broken \cup {ue.seg.pkt}
  /\ ue' = IdleUe
  /\ UNCHANGED <<pkts, dl, ul, ctx, delivered, pendingPoll, pendingStatus, st,
                 waiting, txQueue, pendingPdus>>

StoreSegment ==
  LET s == ue.seg
      c == [Context(s) EXCEPT !.got = @ \cup {s}]
  IN /\ ue.pc = "process" /\ s.total # 1
     /\ ~Refused(s)
     /\ \/ /\ Complete(c)
           /\ ctx' = [ctx EXCEPT ![s.id] = NoContext]
           /\ Deliver(c.got, c.size)
        \/ /\ ~Complete(c)
           /\ ctx' = [ctx EXCEPT ![s.id] = c]
           /\ ue' = IdleUe
           /\ UNCHANGED delivered
     /\ UNCHANGED <<pkts, dl, ul, broken, pendingPoll, pendingStatus, st, waiting,
                    txQueue, pendingPdus>>

RecordStatus ==
  /\ ue.pc = "record"
  /\ pendingStatus' = pendingStatus \cup {ue.seg.id}
  /\ ue' = IdleUe
  /\ UNCHANGED <<pkts, dl, ul, ctx, delivered, broken, pendingPoll, st, waiting,
                 txQueue, pendingPdus>>
-----------------------------------------------------------------------------
(* statusPduThreadFunc: woken by pending_poll or by t_statusProhibit, it   *)
(* takes the poll, then the recorded ids; without a poll they only wait.   *)
(* Every 500 ms the round ends with cleanupExpired.                        *)

StatusWakeMutant ==   \* reset before it is read
  /\ st.pc = "wait"
  /\ st' = [pc |-> "collect", poll |-> FALSE]
  /\ pendingPoll' = FALSE
  /\ UNCHANGED <<pkts, dl, ul, ue, ctx, delivered, broken, pendingStatus, waiting,
                 txQueue, pendingPdus>>

StatusWake ==
  /\ st.pc = "wait"
  /\ st' = [pc |-> "collect", poll |-> pendingPoll]
  /\ pendingPoll' = FALSE
  /\ UNCHANGED <<pkts, dl, ul, ue, ctx, delivered, broken, pendingStatus, waiting,
                 txQueue, pendingPdus>>

Expirable == IF MayExpire THEN Open ELSE {}

StatusCollectMutant(expired) ==   \* the ids that waited are replaced, not joined
  LET due == waiting \cup pendingStatus
  IN /\ st.pc = "collect"
     /\ pendingStatus' = {}
     /\ waiting' = IF st.poll THEN {} ELSE pendingStatus
     /\ txQueue' = IF st.poll THEN Add(txQueue, due) ELSE txQueue
     /\ ctx' = [i \in Ids |-> IF i \in expired THEN NoContext ELSE ctx[i]]
     /\ broken' = broken \cup {s.pkt : s \in UNION {ctx[i].got : i \in expired}}
     /\ st' = [pc |-> "wait", poll |-> FALSE]
     /\ UNCHANGED <<pkts, dl, ul, ue, delivered, pendingPoll, pendingPdus>>

StatusCollect(expired) ==
  LET due == waiting \cup pendingStatus
  IN /\ st.pc = "collect"
     /\ pendingStatus' = {}
     /\ waiting' = IF st.poll THEN {} ELSE due
     /\ txQueue' = IF st.poll THEN Add(txQueue, due) ELSE txQueue
     /\ ctx' = [i \in Ids |-> IF i \in expired THEN NoContext ELSE ctx[i]]
     /\ broken' = broken \cup {s.pkt : s \in UNION {ctx[i].got : i \in expired}}
     /\ st' = [pc |-> "wait", poll |-> FALSE]
     /\ UNCHANGED <<pkts, dl, ul, ue, delivered, pendingPoll, pendingPdus>>

\* opportunityThreadFunction grants everything queued a transmission ...
TxOpportunity ==
  /\ txQueue # NoPdus
  /\ txQueue' = NoPdus
  /\ pendingPdus' = Merge(pendingPdus, txQueue)
  /\ UNCHANGED <<pkts, dl, ul, ue, ctx, delivered, broken, pendingPoll,
                 pendingStatus, st, waiting>>

\* ... and transmissionThreadFunction sends each PDU when its delay is over.
TransmitStatusPdu(id) ==
  /\ pendingPdus[id] > 0
  /\ pendingPdus' = [pendingPdus EXCEPT ![id] = @ - 1]
  /\ ul' = [ul EXCEPT ![id] = @ + 1]
  /\ UNCHANGED <<pkts, dl, ue, ctx, delivered, broken, pendingPoll, pendingStatus,
                 st, waiting, txQueue>>

ProcessSegment == Receive \/ ProcessWhole \/ DropSegment \/ StoreSegment \/ RecordStatus

UeNext ==
  \/ ProcessSegment
  \/ StatusWake
  \/ \E expired \in SUBSET Expirable : StatusCollect(expired)
  \/ TxOpportunity
  \/ \E id \in Ids : TransmitStatusPdu(id)
=============================================================================
