---------------------------- MODULE PdcpReceiver ----------------------------
(***************************************************************************)
(* The UE-side PDCP reordering buffer (UE_pdcp/pdcp_receiver.cpp) and the  *)
(* process around it (UE_pdcp/pdcp_receiver_main.cpp).                     *)
(*                                                                         *)
(* One Link thread per path calls processPacket, the receiver's own timer  *)
(* thread runs timerThreadFunc, and the main thread registers the delivery *)
(* callback and later tears everything down.  nextExpected,                *)
(* highestReceived, highestEpoch and timerRunning are atomics read and     *)
(* written without bufferMutex, so every such access is a step of its own; *)
(* a block under bufferMutex is one step.                                  *)
(***************************************************************************)
EXTENDS Integers, Sequences, FiniteSets

CONSTANTS
  Paths,        \* the Link threads, one per path
  Timer,        \* the receiver's timer thread
  NumPackets,   \* bound: packets the sender numbers, 0 .. NumPackets-1
  WindowBase,   \* the 1024 of  #define PDCP_MAX_REORDER_WINDOW 1024*8
  WindowMult,   \* the 8 of the same macro
  SeqLimit,     \* PDCP_SEQ_LIMIT, the largest 32-bit sequence number
  WrapCounted   \* does the sender bump the header's epoch when seq wraps?

ASSUME ThreadsAssumption == Timer \notin Paths
ASSUME SizesAssumption ==
  /\ NumPackets \in Nat
  /\ WindowBase \in Nat \ {0}
  /\ WindowMult \in Nat \ {0}
  /\ SeqLimit \in Nat
  /\ WrapCounted \in BOOLEAN

VARIABLES
  unseen,           \* unseen[p]: packets no copy of which has arrived on p
  slot,             \* packets[] and packetPresent[]: the packet, or Empty
  nextExpected,
  highestReceived,
  highestEpoch,
  timerRunning,
  deliveredCount,
  droppedCount,
  out,              \* UE_ARRIVAL messages sent to the PDCP processor
  pc,               \* where each Link thread and the timer thread is
  held,             \* held[p]: the packet thread p is processing
  main              \* phase of pdcp_receiver_main

counters == <<nextExpected, highestReceived, highestEpoch>>
stats == <<deliveredCount, droppedCount>>
vars == <<unseen, slot, counters, timerRunning, stats, out, pc, held, main>>

-----------------------------------------------------------------------------
(* The sender's stream: packet n carries sequence number n modulo 2^32.    *)

Packet == 0 .. NumPackets - 1
Empty == -1
Threads == Paths \cup {Timer}

SeqOf(n) == n % (SeqLimit + 1)
EpochOf(n) == IF WrapCounted THEN n \div (SeqLimit + 1) ELSE 0

(***************************************************************************)
(* The macro has no parentheses, so  seq % PDCP_MAX_REORDER_WINDOW  is     *)
(* (seq % 1024) * 8  in an array of 1024*8 slots.                          *)
(***************************************************************************)
WindowSize == WindowBase * WindowMult

Index(seq) == (seq % WindowBase) * WindowMult

Present(seq) == slot[Index(seq)] # Empty

CallbackSet == main # "setup"
StopThread == main = "joining"

(* bufferMutex is only ever kept across steps by a scan that never ends;   *)
(* callbackMutex_ is held by the thread inside the delivery callback.      *)
BufferFree == pc[Timer] # "spin"
CallbackFree == \A t \in Threads : pc[t] # "deliver"

Goto(t, where) == pc' = [pc EXCEPT ![t] = where]

(* Where a thread continues once its callback has returned.                *)
Resume(t) == IF t = Timer THEN "eval" ELSE "idle"

(* timerCV.notify_one(): wakes the timer thread if it is asleep in wait(). *)
Notified(on, pcs) ==
  IF on /\ pcs[Timer] = "asleep" THEN [pcs EXCEPT ![Timer] = "eval"] ELSE pcs

-----------------------------------------------------------------------------
Init ==
  /\ unseen = [p \in Paths |-> Packet]
  /\ slot = [i \in 0 .. WindowSize - 1 |-> Empty]
  /\ nextExpected = 0
  /\ highestReceived = 0
  /\ highestEpoch = 0
  /\ timerRunning = FALSE
  /\ deliveredCount = 0
  /\ droppedCount = 0
  /\ out = <<>>
  /\ pc = [t \in Threads |-> Resume(t)]
  /\ held = [p \in Paths |-> Empty]
  /\ main = "setup"

-----------------------------------------------------------------------------
(* processPacket, run by the Link thread of path p.  A copy of any packet  *)
(* not yet received on p may arrive; one that never does was lost.         *)

Old(n) == SeqOf(n) < nextExpected /\ EpochOf(n) <= highestEpoch

ArrivesMutant(p, n) ==   \* the packet is not recorded
  /\ main \in {"setup", "running"}
  /\ pc[p] = "idle"
  /\ n \in unseen[p]
  /\ unseen' = [unseen EXCEPT ![p] = @ \ {n}]
  /\ UNCHANGED held

Arrives(p, n) ==
  /\ main \in {"setup", "running"}
  /\ pc[p] = "idle"
  /\ n \in unseen[p]
  /\ unseen' = [unseen EXCEPT ![p] = @ \ {n}]
  /\ held' = [held EXCEPT ![p] = n]

(* "very old": counted as delivered, but what processPacket returns is     *)
(* ignored by its caller and nothing is sent up.                           *)
ProcessOld(p, n) ==
  /\ Arrives(p, n)
  /\ Old(n)
  /\ deliveredCount' = deliveredCount + 1
  /\ UNCHANGED <<slot, counters, timerRunning, droppedCount, out, pc, main>>

ProcessFresh(p, n) ==
  /\ Arrives(p, n)
  /\ ~Old(n)
  /\ Goto(p, "dupcheck")
  /\ UNCHANGED <<slot, counters, timerRunning, stats, out, main>>

Duplicate(n) == nextExpected >= SeqOf(n) + 1

DropDuplicate(p) ==
  /\ pc[p] = "dupcheck"
  /\ Duplicate(held[p])
  /\ droppedCount' = droppedCount + 1
  /\ Goto(p, "idle")
  /\ UNCHANGED <<unseen, slot, counters, timerRunning, deliveredCount, out,
                 held, main>>

PassDuplicateCheck(p) ==
  /\ pc[p] = "dupcheck"
  /\ ~Duplicate(held[p])
  /\ Goto(p, "buffer")
  /\ UNCHANGED <<unseen, slot, counters, timerRunning, stats, out, held, main>>

BufferPacket(p) ==
  /\ pc[p] = "buffer"
  /\ BufferFree
  /\ slot' = [slot EXCEPT ![Index(SeqOf(held[p]))] = held[p]]
  /\ Goto(p, "load")
  /\ UNCHANGED <<unseen, counters, timerRunning, stats, out, held, main>>

(* The end of processPacket: call the callback if one is registered.       *)
AfterUpdate == IF CallbackSet THEN "lock" ELSE "idle"

(* The loads that decide whether highestReceived is to be stored ...       *)
Load(p, from, to) ==
  /\ pc[p] = from
  /\ Goto(p, to)
  /\ UNCHANGED <<unseen, slot, counters, timerRunning, stats, out, held, main>>

LoadEpoch(p) ==
  Load(p, "load", IF EpochOf(held[p]) = highestEpoch THEN "compare" ELSE "newer")

LoadHighest(p) ==
  Load(p, "compare",
       IF SeqOf(held[p]) > highestReceived THEN "highest" ELSE AfterUpdate)

LoadEpochAgain(p) ==
  Load(p, "newer",
       IF EpochOf(held[p]) > highestEpoch THEN "epoch" ELSE AfterUpdate)

(* ... and the stores, which another thread's may precede.                 *)
StoreEpoch(p) ==
  /\ pc[p] = "epoch"
  /\ highestEpoch' = EpochOf(held[p])
  /\ Goto(p, "highest")
  /\ UNCHANGED <<unseen, slot, nextExpected, highestReceived, timerRunning,
                 stats, out, held, main>>

StoreHighest(p) ==
  /\ pc[p] = "highest"
  /\ highestReceived' = SeqOf(held[p])
  /\ Goto(p, AfterUpdate)
  /\ UNCHANGED <<unseen, slot, nextExpected, highestEpoch, timerRunning,
                 stats, out, held, main>>

-----------------------------------------------------------------------------
(* The delivery callback: deliverPacket until it returns false, all under  *)
(* callbackMutex_.  It is run by Link threads and by the timer thread.     *)

EnterCallback(t) ==
  /\ pc[t] = "lock"
  /\ CallbackFree
  /\ Goto(t, "deliver")
  /\ UNCHANGED <<unseen, slot, counters, timerRunning, stats, out, held, main>>

DeliverNothingMutant(t) ==   \* a gap of one packet is not timed
  LET gap == nextExpected + 1 < highestReceived
  IN /\ pc[t] = "deliver"
     /\ BufferFree
     /\ ~Present(nextExpected)
     /\ timerRunning' = (timerRunning \/ gap)
     /\ pc' = Notified(gap /\ ~timerRunning, [pc EXCEPT ![t] = Resume(t)])
     /\ UNCHANGED <<unseen, slot, counters, stats, out, held, main>>

(* Nothing at nextExpected: startReorderingTimer on a gap, return false.   *)
DeliverNothing(t) ==
  LET gap == nextExpected <= highestReceived
  IN /\ pc[t] = "deliver"
     /\ BufferFree
     /\ ~Present(nextExpected)
     /\ timerRunning' = (timerRunning \/ gap)
     /\ pc' = Notified(gap /\ ~timerRunning, [pc EXCEPT ![t] = Resume(t)])
     /\ UNCHANGED <<unseen, slot, counters, stats, out, held, main>>

AfterMutant(seq) == seq + 1   \* no reset at PDCP_SEQ_LIMIT

After(seq) == IF seq = SeqLimit THEN 0 ELSE seq + 1

DeliverPacketMutant(t) ==   \* the callback delivers one packet and returns
  /\ pc[t] = "deliver"
  /\ BufferFree
  /\ Present(nextExpected)
  /\ timerRunning' = (timerRunning /\ nextExpected # highestReceived)
  /\ slot' = [slot EXCEPT ![Index(nextExpected)] = Empty]
  /\ nextExpected' = After(nextExpected)
  /\ deliveredCount' = deliveredCount + 1
  /\ out' = Append(out, slot[Index(nextExpected)])
  /\ Goto(t, Resume(t))
  /\ UNCHANGED <<unseen, highestReceived, highestEpoch, droppedCount, held,
                 main>>

(***************************************************************************)
(* deliverPacket takes what is in the slot of nextExpected, whatever its   *)
(* sequence number, and the callback sends it on.  Once the main thread    *)
(* has closed the processor link, the send throws in the timer thread and  *)
(* nobody catches it.                                                      *)
(***************************************************************************)
DeliverPacket(t) ==
  LET last == nextExpected = highestReceived
      closed == main \in {"closed", "joining"}
  IN /\ pc[t] = "deliver"
     /\ BufferFree
     /\ Present(nextExpected)
     /\ timerRunning' = (timerRunning /\ ~last)
     /\ slot' = [slot EXCEPT ![Index(nextExpected)] = Empty]
     /\ nextExpected' = After(nextExpected)
     /\ deliveredCount' = deliveredCount + 1
     /\ out' = IF closed THEN out ELSE Append(out, slot[Index(nextExpected)])
     /\ pc' = IF closed THEN [pc EXCEPT ![t] = "crashed"]
                        ELSE Notified(last /\ timerRunning, pc)
     /\ UNCHANGED <<unseen, highestReceived, highestEpoch, droppedCount, held,
                    main>>

-----------------------------------------------------------------------------
(* timerThreadFunc.  timerMutex is free exactly while it is blocked in     *)
(* wait ("asleep") or wait_for ("timing").                                 *)

TimerEval ==
  /\ pc[Timer] = "eval"
  /\ Goto(Timer, IF StopThread THEN "done"
                 ELSE IF timerRunning THEN "timing" ELSE "block")
  /\ UNCHANGED <<unseen, slot, counters, timerRunning, stats, out, held, main>>

(* The predicate was false; the thread blocks only now.  A notify between  *)
(* the two steps is lost: the notifiers do not take timerMutex.            *)
TimerBlock ==
  /\ pc[Timer] = "block"
  /\ Goto(Timer, "asleep")
  /\ UNCHANGED <<unseen, slot, counters, timerRunning, stats, out, held, main>>

SpuriousWakeup ==
  /\ pc[Timer] = "asleep"
  /\ Goto(Timer, "eval")
  /\ UNCHANGED <<unseen, slot, counters, timerRunning, stats, out, held, main>>

(* wait_for returns: the thread is stopped, the timer was turned off ...   *)
TimerStopped ==
  /\ pc[Timer] = "timing"
  /\ StopThread \/ ~timerRunning
  /\ Goto(Timer, IF StopThread THEN "done" ELSE "eval")
  /\ UNCHANGED <<unseen, slot, counters, timerRunning, stats, out, held, main>>

(* ... or reorderTimeoutMs have passed with the timer on.                  *)
TimerExpired ==
  /\ pc[Timer] = "timing"
  /\ timerRunning /\ ~StopThread
  /\ Goto(Timer, "check")
  /\ UNCHANGED <<unseen, slot, counters, timerRunning, stats, out, held, main>>

(***************************************************************************)
(* checkReorderingTimeout: the loop  for (uint32_t seq = nextExpected;     *)
(* seq <= maxSeq; seq++)  wraps around when maxSeq is the largest uint32_t *)
(* and then never ends unless some slot is occupied.                       *)
(***************************************************************************)
Scanned ==
  IF highestReceived < SeqLimit THEN nextExpected .. highestReceived
                                ELSE 0 .. SeqLimit

Distance(seq) == (seq - nextExpected) % (SeqLimit + 1)

FirstReceivedMutant(seq) ==   \* gives up one number without looking
  seq = nextExpected + 1

FirstReceived(seq) ==
  /\ Present(seq)
  /\ \A other \in Scanned : Present(other) => Distance(seq) <= Distance(other)

CheckTimeoutFound ==
  /\ pc[Timer] = "check"
  /\ \E seq \in Scanned : FirstReceived(seq) /\ nextExpected' = seq
  /\ Goto(Timer, IF CallbackSet THEN "lock" ELSE "eval")
  /\ UNCHANGED <<unseen, slot, highestReceived, highestEpoch, timerRunning,
                 stats, out, held, main>>

CheckTimeoutNone ==
  /\ pc[Timer] = "check"
  /\ \A seq \in Scanned : ~Present(seq)
  /\ Goto(Timer, IF highestReceived < SeqLimit THEN "eval" ELSE "spin")
  /\ UNCHANGED <<unseen, slot, counters, timerRunning, stats, out, held, main>>

-----------------------------------------------------------------------------
(* pdcp_receiver_main: the links are started before the callback is set;   *)
(* at the end they are joined, the processor link is closed, and only then *)
(* is the receiver destroyed, which stops and joins the timer thread.      *)

MainStep(from, to) ==
  /\ main = from
  /\ main' = to
  /\ UNCHANGED <<unseen, slot, counters, timerRunning, stats, out, held>>

SetDeliveryCallback == MainStep("setup", "running") /\ UNCHANGED pc

JoinLinks ==
  /\ \A p \in Paths : pc[p] = "idle"
  /\ MainStep("running", "drained")
  /\ UNCHANGED pc

CloseProcessorLink == MainStep("drained", "closed") /\ UNCHANGED pc

DestroyReceiverMutant ==   \* stopThread is set, nobody is notified
  /\ pc[Timer] \in {"asleep", "timing"}
  /\ MainStep("closed", "joining")
  /\ UNCHANGED pc

DestroyReceiver ==
  /\ pc[Timer] \in {"asleep", "timing"}
  /\ MainStep("closed", "joining")
  /\ pc' = Notified(TRUE, pc)

(* The process has ended.                                                  *)
Terminated ==
  /\ pc[Timer] \in {"done", "crashed"}
  /\ UNCHANGED vars

-----------------------------------------------------------------------------
Callback(t) == EnterCallback(t) \/ DeliverNothing(t) \/ DeliverPacket(t)

Receive(p) == \E n \in Packet : ProcessOld(p, n) \/ ProcessFresh(p, n)

Process(p) ==
  \/ DropDuplicate(p) \/ PassDuplicateCheck(p) \/ BufferPacket(p)
  \/ LoadEpoch(p) \/ LoadHighest(p) \/ LoadEpochAgain(p)
  \/ StoreEpoch(p) \/ StoreHighest(p)
  \/ Callback(p)

TimerLoop ==
  \/ TimerEval \/ TimerBlock \/ TimerStopped
  \/ CheckTimeoutFound \/ CheckTimeoutNone
  \/ Callback(Timer)

TimerStep == TimerExpired \/ TimerLoop

Shutdown == CloseProcessorLink \/ DestroyReceiver

(* All but the arrival of a packet and the passing of reorderTimeoutMs.    *)
Internal ==
  \/ \E p \in Paths : Process(p)
  \/ TimerLoop
  \/ SpuriousWakeup
  \/ SetDeliveryCallback \/ JoinLinks \/ Shutdown
  \/ Terminated

Next == (\E p \in Paths : Receive(p)) \/ TimerExpired \/ Internal

Spec == Init /\ [][Next]_vars

(***************************************************************************)
(* Threads that can run do run.  Whether a packet arrives, the condition   *)
(* variable wakes spuriously or the operator stops the process is left     *)
(* open.  The timer thread gives timerMutex back for a whole timeout each  *)
(* time round, so the destructor gets it in the end: strong fairness.      *)
(***************************************************************************)
Fairness ==
  /\ \A p \in Paths : WF_vars(Process(p))
  /\ WF_vars(TimerStep)
  /\ WF_vars(SetDeliveryCallback)
  /\ SF_vars(Shutdown)

FairSpec == Spec /\ Fairness
-----------------------------------------------------------------------------
(* Type correctness: the counters stay 32-bit sequence numbers and every   *)
(* slot holds nothing or a packet of the stream.                           *)
LinkPc == {"idle", "dupcheck", "buffer", "load", "compare", "newer", "epoch",
           "highest"}
TimerPc == {"eval", "block", "asleep", "timing", "check", "spin", "done",
            "crashed"}
CallbackPc == {"lock", "deliver"}

TypeOK ==
  /\ unseen \in [Paths -> SUBSET Packet]
  /\ slot \in [0 .. WindowSize - 1 -> Packet \cup {Empty}]
  /\ nextExpected \in 0 .. SeqLimit
  /\ highestReceived \in 0 .. SeqLimit
  /\ highestEpoch \in Nat
  /\ timerRunning \in BOOLEAN
  /\ deliveredCount \in Nat /\ droppedCount \in Nat
  /\ out \in Seq(Packet)
  /\ pc \in [Threads -> LinkPc \cup TimerPc \cup CallbackPc]
  /\ pc[Timer] \in TimerPc \cup CallbackPc
  /\ \A p \in Paths : pc[p] \in LinkPc \cup CallbackPc
  /\ held \in [Paths -> Packet \cup {Empty}]
  /\ \A p \in Paths : pc[p] # "idle" => held[p] \in Packet
  /\ main \in {"setup", "running", "drained", "closed", "joining"}

Seen == {n \in Packet : \E p \in Paths : n \notin unseen[p]}

Quiet ==
  /\ \A p \in Paths : pc[p] = "idle"
  /\ pc[Timer] \notin CallbackPc

Buffered == {n \in Packet : slot[Index(SeqOf(n))] = n}
Ahead == {n \in Buffered : SeqOf(n) >= nextExpected}

(* In-sequence delivery: packets are sent up in the sender's order and     *)
(* none twice, however the Link threads and the timer thread interleave.   *)
InOrder == \A i, j \in DOMAIN out : i < j => out[i] < out[j]

(* A gap the receiver knows of never goes untimed: once every thread has   *)
(* returned from the callback, either nextExpected has passed              *)
(* highestReceived or the reordering timer is on.                          *)
GapTimed ==
  Quiet /\ Seen # {} /\ nextExpected <= highestReceived => timerRunning

(* Sequence-number wraparound loses nothing: on one path that delivers     *)
(* every packet in order and in time, whatever has arrived is handed up.   *)
WrapTransparent ==
  \A p \in Paths : Quiet /\ main # "setup" =>
    out = [i \in 1 .. NumPackets - Cardinality(unseen[p]) |-> i - 1]

(* A packet buffered at nextExpected is eventually handed up, unless the   *)
(* process dies first.                                                     *)
HeadDelivered ==
  \A seq \in 0 .. SeqLimit :
    (nextExpected = seq /\ Present(seq))
      ~> (nextExpected # seq \/ pc[Timer] = "crashed")

(* A gap with packets behind it is eventually skipped once the reordering  *)
(* timer runs: the timer thread cannot sleep through it.                   *)
GapSkipped ==
  \A seq \in 0 .. SeqLimit :
    (timerRunning /\ nextExpected = seq /\ Ahead # {})
      ~> (nextExpected # seq \/ main # "running")

(* Tearing the process down never blocks: once the links are joined, the   *)
(* timer thread ends.                                                      *)
ShutdownNeverHangs == main = "drained" ~> pc[Timer] \in {"done", "crashed"}

(***************************************************************************)
(* The receiver implements in-order delivery: nextExpected is the horizon  *)
(* below which everything has come out or was given up.  The packet whose  *)
(* send brought the process down was not delivered.                        *)
(***************************************************************************)
Horizon == IF pc[Timer] = "crashed" THEN nextExpected - 1 ELSE nextExpected

Abstract == INSTANCE InOrderDelivery WITH seen <- Seen, horizon <- Horizon

ImplementsInOrder == Abstract!Spec
=============================================================================
