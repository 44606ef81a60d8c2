-------------------------- MODULE PdcpArrivalProofs --------------------------
(***************************************************************************)
(* Theorems about PdcpReceiver under the arrivals of MCPdcpReceiver: a gap *)
(* the receiver knows of is timed, and a path that loses and reorders      *)
(* nothing is handed up whole however often its sequence numbers wrap.     *)
(***************************************************************************)
EXTENDS PdcpReceiverProofs, FiniteSetTheorems, SequenceTheorems

(* Places from which a Link thread still comes to the delivery callback.   *)
Inside == {"buffer", "load", "compare", "newer", "epoch", "highest"} \cup CallbackPc

(* The packet received first: nothing can make the duplicate check drop it.*)
FirstPacket ==
  /\ nextExpected = 0 /\ highestReceived = 0
  /\ \E p \in Paths : pc[p] = "dupcheck"

(* The timer thread before it was ever needed, and in the callback.        *)
Early == {"eval", "block", "asleep", "done"}
Late  == CallbackPc \cup {"crashed"}

(* A wrap or a late store may leave the gap to the timer thread alone; a   *)
(* stream that stays in its window ("tight") does not.                     *)
TimerInside(tight) == ~tight /\ pc[Timer] \in Late

Untouched ==
  /\ nextExpected = 0 /\ highestReceived = 0 /\ ~timerRunning
  /\ \A p \in Paths : pc[p] = "idle"
  /\ pc[Timer] \in Early

GapInv(tight) ==
  /\ Seen = {} => Untouched
  /\ main = "setup" => Seen = {}
  /\ Seen # {} /\ nextExpected <= highestReceived /\ ~timerRunning =>
       (\E p \in Paths : pc[p] \in Inside) \/ FirstPacket \/ TimerInside(tight)

(* Initially nothing has arrived.                                          *)
LEMMA GapInit ==
  ASSUME NEW tight \in BOOLEAN, Init
  PROVE  GapInv(tight)
  <1>1. Untouched
    BY ThreadsAssumption DEF Init, Untouched, Resume, Threads, Early
  <1>2. Seen = {}
    BY DEF Init, Seen
  <1>3. QED
    BY <1>1, <1>2 DEF GapInv

(* A step that leaves the gap alone, and whoever is on the way to the      *)
(* callback on that way.                                                   *)
GapKept ==
  /\ UNCHANGED <<unseen, nextExpected, highestReceived, timerRunning>>
  /\ main' = main \/ main' # "setup"
  /\ \A p \in Paths :
       /\ pc[p] = "idle" => pc'[p] = "idle"
       /\ pc[p] \in Inside => pc'[p] \in Inside
       /\ pc[p] = "dupcheck" => \/ pc'[p] \in Inside \/ pc'[p] = "dupcheck"
                               \/ nextExpected # 0
  /\ pc[Timer] \in Early /\ ~timerRunning => pc'[Timer] \in Early
  /\ pc[Timer] \in Late => pc'[Timer] \in Late

(* Such a step keeps the invariant.                                        *)
LEMMA GapFrame ==
  ASSUME NEW tight \in BOOLEAN, GapInv(tight), GapKept
  PROVE  GapInv(tight)'
  <1> USE DEF GapKept
  <1>1. Seen' = Seen
    BY DEF Seen
  <1>2. (Seen = {} => Untouched)'
    BY <1>1 DEF GapInv, Untouched
  <1>3. (main = "setup" => Seen = {})'
    BY <1>1 DEF GapInv
  <1>4. ASSUME Seen # {}, nextExpected <= highestReceived, ~timerRunning
        PROVE  ((\E p \in Paths : pc[p] \in Inside) \/ FirstPacket \/ TimerInside(tight))'
    <2>1. CASE \E p \in Paths : pc[p] \in Inside
      BY <2>1
    <2>2. CASE FirstPacket
      BY <2>2 DEF FirstPacket
    <2>3. CASE TimerInside(tight)
      BY <2>3 DEF TimerInside, Late
    <2>4. QED
      BY <1>4, <2>1, <2>2, <2>3 DEF GapInv
  <1>5. QED
    BY <1>1, <1>2, <1>3, <1>4 DEF GapInv

(* Arrivals: the first packet is on its way, a later one changes nothing.  *)
LEMMA GapReceive ==
  ASSUME NEW tight \in BOOLEAN, TypeOK, GapInv(tight), NEW p \in Paths,
         Receive(p), AfterRegistration
  PROVE  GapInv(tight)'
  <1>1. PICK n \in Packet : ProcessOld(p, n) \/ ProcessFresh(p, n)
    BY DEF Receive
  <1>2. /\ UNCHANGED <<nextExpected, highestReceived, timerRunning, main>>
        /\ main = "running" /\ pc[p] = "idle"
        /\ \A q \in Paths : q # p => pc'[q] = pc[q]
        /\ pc'[Timer] = pc[Timer]
    BY <1>1, ThreadsAssumption
       DEF ProcessOld, ProcessFresh, Arrives, counters, Goto, TypeOK,
           AfterRegistration, Threads
  <1>3. n \in Seen'
    BY <1>1 DEF ProcessOld, ProcessFresh, Arrives, Seen, TypeOK
  <1>4. CASE Seen = {}
    <2>1. Untouched
      BY <1>4 DEF GapInv
    <2>2. ~Old(n)
      BY <2>1, HeaderTypes, SizesAssumption DEF Untouched, Old
    <2>3. pc'[p] = "dupcheck"
      BY <1>1, <2>2 DEF ProcessOld, ProcessFresh, Goto, TypeOK, Threads
    <2>4. FirstPacket'
      BY <1>2, <2>1, <2>3 DEF Untouched, FirstPacket
    <2>5. QED
      BY <1>2, <1>3, <2>4 DEF GapInv
  <1>5. CASE Seen # {}
    <2>1. FirstPacket => FirstPacket'
      BY <1>2 DEF FirstPacket
    <2>2. TimerInside(tight) => TimerInside(tight)'
      BY <1>2 DEF TimerInside
    <2>3. \A q \in Paths : pc[q] \in Inside => pc'[q] \in Inside
      BY <1>2 DEF Inside, CallbackPc
    <2>4. QED
      BY <1>2, <1>3, <1>5, <2>1, <2>2, <2>3 DEF GapInv
  <1>6. QED
    BY <1>4, <1>5

(* A Link thread that is not idle has received a packet, so the callback   *)
(* is registered.                                                          *)
LEMMA BusyRegistered ==
  ASSUME NEW tight \in BOOLEAN, GapInv(tight), NEW p \in Paths, pc[p] # "idle"
  PROVE  Seen # {} /\ CallbackSet
  BY DEF GapInv, Untouched, CallbackSet

(* processPacket up to the callback: only a duplicate is dropped, and a    *)
(* duplicate of nothing does not exist.                                    *)
LEMMA GapProcess ==
  ASSUME NEW tight \in BOOLEAN, TypeOK, GapInv(tight), NEW p \in Paths,
         \/ DropDuplicate(p) \/ PassDuplicateCheck(p) \/ BufferPacket(p)
         \/ LoadEpoch(p) \/ LoadHighest(p) \/ LoadEpochAgain(p) \/ StoreEpoch(p)
         \/ StoreHighest(p)
  PROVE  GapInv(tight)'
  <1> USE ThreadsAssumption DEF counters, Goto, TypeOK, Threads
  <1>1. pc[p] # "idle"
    BY DEF DropDuplicate, PassDuplicateCheck, BufferPacket, LoadEpoch, LoadHighest,
           LoadEpochAgain, Load, StoreEpoch,
           StoreHighest
  <1>2. AfterUpdate = "lock" /\ Seen # {}
    BY <1>1, BusyRegistered DEF AfterUpdate
  <1>3. CASE DropDuplicate(p)
    <2>1. held[p] \in Packet
      BY <1>1
    <2>2. nextExpected # 0
      BY <1>3, <2>1, HeaderTypes, SizesAssumption DEF DropDuplicate, Duplicate
    <2>3. GapKept
      BY <1>3, <2>2 DEF DropDuplicate, GapKept, Inside, CallbackPc
    <2>4. QED
      BY <2>3, GapFrame
  <1>4. CASE \/ PassDuplicateCheck(p) \/ BufferPacket(p) \/ LoadEpoch(p)
             \/ LoadHighest(p) \/ LoadEpochAgain(p) \/ StoreEpoch(p)
    <2>1. pc'[p] \in Inside /\ \A t \in Threads : t # p => pc'[t] = pc[t]
      BY <1>2, <1>4 DEF PassDuplicateCheck, BufferPacket, LoadEpoch, LoadHighest,
                    LoadEpochAgain, Load, StoreEpoch, Inside,
                        CallbackPc
    <2>2. UNCHANGED <<unseen, nextExpected, highestReceived, timerRunning, main>>
      BY <1>4 DEF PassDuplicateCheck, BufferPacket, LoadEpoch, LoadHighest,
                  LoadEpochAgain, Load, StoreEpoch
    <2>3. GapKept
      BY <1>1, <2>1, <2>2 DEF GapKept
    <2>4. QED
      BY <2>3, GapFrame
  <1>5. CASE StoreHighest(p)
    <2>1. /\ pc'[p] \in Inside
          /\ UNCHANGED <<unseen, main>>
      BY <1>2, <1>5 DEF StoreHighest, Inside, CallbackPc
    <2>2. Seen' = Seen
      BY <2>1 DEF Seen
    <2>3. QED
      BY <1>2, <2>1, <2>2 DEF GapInv
  <1>6. QED
    BY <1>3, <1>4, <1>5

(* The callback: it ends only with the timer on or no gap.                 *)
LEMMA GapCallback ==
  ASSUME NEW tight \in BOOLEAN, TypeOK, Joined, tight => NoWrap /\ WindowInv,
         GapInv(tight), NEW t \in Threads, Callback(t)
  PROVE  GapInv(tight)'
  <1> USE ThreadsAssumption DEF counters, Goto, TypeOK, Threads
  <1>1. Seen # {} /\ Seen' = Seen /\ main # "setup" /\ main' = main
    <2>1. pc[t] \in CallbackPc
      BY DEF Callback, EnterCallback, DeliverNothing, DeliverPacket, CallbackPc
    <2>2. Seen # {}
      BY <2>1 DEF GapInv, Untouched, CallbackPc, Early
    <2>3. unseen' = unseen /\ main' = main
      BY DEF Callback, EnterCallback, DeliverNothing, DeliverPacket
    <2>4. QED
      BY <2>2, <2>3 DEF GapInv, Seen
  <1>2. CASE EnterCallback(t)
    <2>1. GapKept
      BY <1>2 DEF EnterCallback, GapKept, Inside, CallbackPc, Early, Late
    <2>2. QED
      BY <2>1, GapFrame
  <1>3. CASE DeliverNothing(t)
    <2>1. nextExpected <= highestReceived => timerRunning'
      BY <1>3 DEF DeliverNothing
    <2>2. UNCHANGED <<nextExpected, highestReceived>>
      BY <1>3 DEF DeliverNothing
    <2>3. QED
      BY <1>1, <2>1, <2>2 DEF GapInv
  <1>4. CASE DeliverPacket(t) /\ t \in Paths
    <2>1. main \notin {"closed", "joining"}
      BY <1>4 DEF DeliverPacket, Joined
    <2>2. pc'[t] \in Inside
      BY <1>4, <2>1 DEF DeliverPacket, Notified, Inside, CallbackPc
    <2>3. QED
      BY <1>1, <1>4, <2>2 DEF GapInv
  <1>5. CASE DeliverPacket(Timer) /\ ~tight
    <2>1. pc'[Timer] \in Late
      BY <1>5 DEF DeliverPacket, Notified, CallbackPc, Late
    <2>2. TimerInside(tight)'
      BY <1>5, <2>1 DEF TimerInside
    <2>3. QED
      BY <1>1, <2>2 DEF GapInv
  <1>6. CASE DeliverPacket(Timer) /\ tight
    <2>1. nextExpected' = nextExpected + 1 /\ nextExpected \in Nat /\ highestReceived \in Nat
      BY <1>6, SizesAssumption DEF DeliverPacket, After, WindowInv, CountersInWindow,
                    NoWrap
    <2>2. SUFFICES ASSUME nextExpected' <= highestReceived', ~timerRunning'
                   PROVE  \E p \in Paths : pc'[p] \in Inside
      BY <1>1 DEF GapInv
    <2>3. nextExpected < highestReceived /\ ~timerRunning
      BY <1>6, <2>1, <2>2 DEF DeliverPacket
    <2>4. PICK p \in Paths : pc[p] \in Inside
      BY <1>1, <1>6, <2>1, <2>3 DEF GapInv, FirstPacket, TimerInside
    <2>5. pc'[p] = pc[p]
      BY <1>6 DEF DeliverPacket, Notified
    <2>6. QED
      BY <2>4, <2>5
  <1>7. QED
    BY <1>2, <1>3, <1>4, <1>5, <1>6 DEF Callback

(* The timer thread and the main thread leave the Link threads alone, and  *)
(* a timeout moves nextExpected only within the gap.                       *)
LEMMA GapTimer ==
  ASSUME NEW tight \in BOOLEAN, TypeOK, tight => NoWrap /\ WindowInv, GapInv(tight),
         \/ TimerEval \/ TimerBlock \/ SpuriousWakeup \/ TimerStopped \/ TimerExpired
         \/ CheckTimeoutFound \/ CheckTimeoutNone
  PROVE  GapInv(tight)'
  <1> USE ThreadsAssumption DEF counters, Goto, TypeOK, Threads
  <1>1. CASE CheckTimeoutFound
    <2>1. /\ \A p \in Paths : pc'[p] = pc[p]
          /\ UNCHANGED <<unseen, highestReceived, timerRunning, main>>
          /\ pc[Timer] = "check"
      BY <1>1 DEF CheckTimeoutFound
    <2>2. Seen' = Seen /\ Seen # {} /\ CallbackSet
      BY <2>1 DEF Seen, GapInv, Untouched, CallbackSet, Early
    <2>3. CASE ~tight
      <3>1. TimerInside(tight)'
        BY <1>1, <2>2, <2>3 DEF CheckTimeoutFound, TimerInside, CallbackPc, Late
      <3>2. QED
        BY <2>1, <2>2, <3>1 DEF GapInv, CallbackSet
    <2>4. CASE tight
      <3>1. nextExpected' \in nextExpected .. highestReceived
        BY <1>1, <2>4, SizesAssumption
           DEF CheckTimeoutFound, Scanned, WindowInv, CountersInWindow, NoWrap
      <3>2. nextExpected <= highestReceived
        BY <3>1
      <3>3. FirstPacket => FirstPacket'
        BY <2>1, <3>1 DEF FirstPacket
      <3>4. QED
        BY <2>1, <2>2, <2>4, <3>2, <3>3 DEF GapInv, TimerInside, CallbackSet
    <2>5. QED
      BY <2>3, <2>4
  <1>2. CASE \/ TimerEval \/ TimerBlock \/ SpuriousWakeup \/ TimerStopped \/ TimerExpired
             \/ CheckTimeoutNone
    <2>1. /\ \A p \in Paths : pc'[p] = pc[p]
          /\ UNCHANGED <<unseen, nextExpected, highestReceived, timerRunning, main>>
          /\ pc[Timer] \notin Late
      BY <1>2 DEF TimerEval, TimerBlock, SpuriousWakeup, TimerStopped, TimerExpired,
                  CheckTimeoutNone, CallbackPc, Late
    <2>2. pc[Timer] \in Early /\ ~timerRunning => pc'[Timer] \in Early
      BY <1>2 DEF TimerEval, TimerBlock, SpuriousWakeup, TimerStopped, TimerExpired,
                  CheckTimeoutNone, Early
    <2>3. GapKept
      BY <2>1, <2>2 DEF GapKept, Early, Late
    <2>4. QED
      BY <2>3, GapFrame
  <1>3. QED
    BY <1>1, <1>2

(* The main thread registers the callback before anything arrives.         *)
LEMMA GapMain ==
  ASSUME NEW tight \in BOOLEAN, TypeOK, GapInv(tight),
         SetDeliveryCallback \/ JoinLinks \/ CloseProcessorLink \/ DestroyReceiver
  PROVE  GapInv(tight)'
  <1> USE ThreadsAssumption DEF counters, TypeOK, Threads
  <1>1. /\ \A p \in Paths : pc'[p] = pc[p]
        /\ UNCHANGED <<unseen, nextExpected, highestReceived, timerRunning>>
        /\ main' # "setup"
    BY DEF SetDeliveryCallback, JoinLinks, CloseProcessorLink, DestroyReceiver, MainStep,
           Notified
  <1>2. \/ pc'[Timer] = pc[Timer]
        \/ pc[Timer] = "asleep" /\ pc'[Timer] = "eval"
    BY DEF SetDeliveryCallback, JoinLinks, CloseProcessorLink, DestroyReceiver, MainStep,
           Notified
  <1>3. GapKept
    BY <1>1, <1>2 DEF GapKept, Early, Late, CallbackPc
  <1>4. QED
    BY <1>3, GapFrame

(* GapInv is inductive.                                                    *)
LEMMA GapStep ==
  ASSUME NEW tight \in BOOLEAN, TypeOK, Joined, tight => NoWrap /\ WindowInv,
         GapInv(tight), [RegisteredNext]_vars
  PROVE  GapInv(tight)'
  <1>1. CASE UNCHANGED vars
    <2>1. GapKept
      BY <1>1 DEF vars, counters, GapKept
    <2>2. QED
      BY <2>1, GapFrame
  <1>2. ASSUME NEW p \in Paths, Process(p) PROVE GapInv(tight)'
    BY <1>2, GapProcess, GapCallback DEF Process, Threads
  <1>3. CASE TimerLoop
    BY <1>3, GapTimer, GapCallback DEF TimerLoop, Threads
  <1>4. QED
    BY <1>1, <1>2, <1>3, GapReceive, GapTimer, GapMain
       DEF RegisteredNext, Internal, Shutdown, Terminated

(* What GapInv says once every thread has returned.                        *)
LEMMA GapInvTimes ==
  ASSUME NEW tight \in BOOLEAN, TypeOK, GapInv(tight), tight \/ pc[Timer] # "crashed"
  PROVE  GapTimed
  BY DEF GapInv, GapTimed, Quiet, FirstPacket, TimerInside, Late, Inside, CallbackPc,
         TypeOK

(* GapInv holds throughout, with the invariants it rests on.               *)
LEMMA GapCorrect == RegisteredSpec => [](TypeOK /\ GapInv(FALSE))
  <1>1. RegisteredSpec => Spec
    <2>1. [RegisteredNext]_vars => [Next]_vars
      BY DEF RegisteredNext, Next
    <2>2. QED
      BY <2>1, PTL DEF RegisteredSpec, Spec
  <1>2. Init => GapInv(FALSE)
    BY GapInit
  <1>3. TypeOK /\ Joined /\ GapInv(FALSE) /\ [RegisteredNext]_vars => GapInv(FALSE)'
    BY GapStep
  <1>4. QED
    BY <1>1, <1>2, <1>3, TypeCorrect, PTL DEF RegisteredSpec

(* A known gap is timed for every window, number of paths and wraparound,  *)
(* as long as the process lives: whoever leaves the callback with a packet *)
(* missing has turned the reordering timer on, and whoever turns it off    *)
(* looks again before it leaves.                                           *)
THEOREM GapTimedWhileAlive == RegisteredSpec => [](pc[Timer] # "crashed" => GapTimed)
  <1>1. TypeOK /\ GapInv(FALSE) => (pc[Timer] # "crashed" => GapTimed)
    BY GapInvTimes
  <1>2. QED
    BY <1>1, GapCorrect, PTL

(* For a stream that stays within the window and is stored in time, the    *)
(* gap is timed even when the timer thread has died in the callback.       *)
THEOREM GapTimedInStream ==
  ASSUME NoWrap
  PROVE  StreamSpec => []GapTimed
  <1>1. Init => GapInv(TRUE)
    BY GapInit
  <1>2. [StreamNext]_vars => [RegisteredNext]_vars
    BY DEF StreamNext, RegisteredNext
  <1>3. TypeOK /\ Joined /\ WindowInv /\ GapInv(TRUE) /\ [StreamNext]_vars => GapInv(TRUE)'
    BY <1>2, GapStep
  <1>4. TypeOK /\ GapInv(TRUE) => GapTimed
    BY GapInvTimes
  <1>5. QED
    BY <1>1, <1>3, <1>4, WindowCorrect, StreamIsSpec, TypeCorrect, PTL DEF StreamSpec
-----------------------------------------------------------------------------
(***************************************************************************)
(* One path that loses and reorders nothing, and no timeout: each packet   *)
(* is handed up before the next arrives.                                   *)
(***************************************************************************)
HandedUp(k) == [i \in 1 .. k |-> i - 1]

SlotsEmpty == \A i \in 0 .. WindowSize - 1 : slot[i] = Empty

(* All of the k packets that have arrived are up.                          *)
Between(k) == nextExpected = SeqOf(k) /\ out = HandedUp(k) /\ SlotsEmpty

(* All but packet n are, and n is in the thread's hands or in its slot.    *)
Carrying(p, n) ==
  /\ held[p] = n /\ nextExpected = SeqOf(n) /\ out = HandedUp(n)
  /\ pc[p] \in {"dupcheck", "buffer"} => SlotsEmpty
  /\ pc[p] \notin {"dupcheck", "buffer"} =>
       \A i \in 0 .. WindowSize - 1 : slot[i] = IF i = Index(SeqOf(n)) THEN n ELSE Empty

PromptAt(p, k) ==
  /\ unseen[p] = k .. NumPackets - 1
  /\ \/ pc[p] \in {"idle", "deliver"} /\ Between(k)
     \/ pc[p] # "idle" /\ k > 0 /\ Carrying(p, k - 1)

PromptInv(p) ==
  /\ \E k \in 0 .. NumPackets : PromptAt(p, k)
  /\ main = "setup" => pc[p] = "idle"
  /\ pc[Timer] \in Early \cup {"timing"}

(* Division by a positive number: quotient and remainder are unique.       *)
LEMMA ModuloUnique ==
  ASSUME NEW b \in Nat \ {0}, NEW q \in Nat, NEW r \in 0 .. b - 1
  PROVE  (q * b + r) % b = r
  OBVIOUS

(* The sequence number after a packet's is the next packet's, also at      *)
(* PDCP_SEQ_LIMIT.                                                         *)
LEMMA SeqAfter ==
  ASSUME NEW n \in Nat
  PROVE  SeqOf(n + 1) = After(SeqOf(n))
  <1> DEFINE b == SeqLimit + 1
  <1>1. b \in Nat \ {0} /\ SeqLimit = b - 1
    BY SizesAssumption
  <1> HIDE DEF b
  <1>2. PICK q \in Nat, r \in 0 .. b - 1 : n = q * b + r
    <2>1. n % b = n - b * (n \div b)
      BY <1>1
    <2>2. n \div b \in Nat /\ n % b \in 0 .. b - 1
      BY <1>1, DivisionNat, ModuloRange
    <2>3. PICK q \in Nat, r \in 0 .. b - 1 : r = n - b * q
      BY <2>1, <2>2
    <2>4. n = q * b + r
      <3>1. b * q \in Int /\ q * b = b * q
        BY <1>1
      <3>2. QED
        BY <1>1, <2>3, <3>1
    <2>5. QED
      BY <2>4
  <1>3. n % b = r
    BY <1>1, <1>2, ModuloUnique
  <1>4. CASE r = b - 1
    <2>1. n + 1 = (q + 1) * b + 0 /\ q + 1 \in Nat /\ 0 \in 0 .. b - 1
      BY <1>1, <1>2, <1>4
    <2>2. (n + 1) % b = 0
      BY <1>1, <2>1, ModuloUnique
    <2>3. QED
      BY <1>1, <1>3, <1>4, <2>2 DEF SeqOf, After, b
  <1>5. CASE r # b - 1
    <2>1. n + 1 = q * b + (r + 1) /\ r + 1 \in 0 .. b - 1
      BY <1>1, <1>2, <1>5
    <2>2. (n + 1) % b = r + 1
      BY <1>1, <2>1, ModuloUnique
    <2>3. QED
      BY <1>1, <1>3, <1>5, <2>2 DEF SeqOf, After, b
  <1>6. QED
    BY <1>4, <1>5

(* Handing up one packet more.                                             *)
LEMMA HandedUpNext ==
  ASSUME NEW n \in Nat
  PROVE  Append(HandedUp(n), n) = HandedUp(n + 1)
  <1>1. HandedUp(n) \in Seq(Nat) /\ Len(HandedUp(n)) = n
    BY DEF HandedUp
  <1>2. HandedUp(n + 1) \in Seq(Nat) /\ Len(HandedUp(n + 1)) = n + 1
    BY DEF HandedUp
  <1>3. Append(HandedUp(n), n) \in Seq(Nat) /\ Len(Append(HandedUp(n), n)) = n + 1
    BY <1>1
  <1>4. \A i \in 1 .. Len(Append(HandedUp(n), n)) : Append(HandedUp(n), n)[i] = HandedUp(n + 1)[i]
    BY <1>1, <1>3 DEF HandedUp
  <1>5. QED
    BY <1>2, <1>3, <1>4, SeqEqual, Zenon

(* Initially nothing has arrived and nothing is stored.                    *)
LEMMA PromptInit ==
  ASSUME NEW p, Paths = {p}, Init
  PROVE  PromptInv(p)
  <1>1. pc[p] = "idle" /\ pc[Timer] = "eval"
    BY ThreadsAssumption DEF Init, Threads, Resume
  <1>2. SeqOf(0) = 0 /\ 0 \in 0 .. NumPackets
    BY SizesAssumption, ModuloSmall DEF SeqOf
  <1>3. out = HandedUp(0)
    BY DEF Init, HandedUp
  <1>4. PromptAt(p, 0)
    BY <1>1, <1>2, <1>3 DEF Init, PromptAt, Between, SlotsEmpty, Packet
  <1>5. QED
    BY <1>1, <1>2, <1>4 DEF PromptInv, Early

(* An arrival: the next packet in order, which is neither old nor a        *)
(* duplicate because nextExpected is its number.                           *)
LEMMA PromptReceive ==
  ASSUME NEW p, Paths = {p}, TypeOK, PromptInv(p), Receive(p), AfterRegistration,
         InOrderArrival(p)
  PROVE  PromptInv(p)'
  <1> USE SizesAssumption, ThreadsAssumption
  <1>1. PICK n \in Packet : ProcessOld(p, n) \/ ProcessFresh(p, n)
    BY DEF Receive
  <1>2. Arrives(p, n) /\ UNCHANGED <<slot, counters, out, main>>
    BY <1>1 DEF ProcessOld, ProcessFresh
  <1>3. /\ pc[p] = "idle" /\ main = "running" /\ n \in unseen[p]
        /\ unseen'[p] = unseen[p] \ {n} /\ held'[p] = n
    BY <1>2 DEF Arrives, TypeOK, AfterRegistration
  <1>4. PICK k \in 0 .. NumPackets : unseen[p] = k .. NumPackets - 1 /\ Between(k)
    BY <1>3 DEF PromptInv, PromptAt
  <1>5. n = k /\ k < NumPackets
    <2>1. Arriving(p) = {n}
      BY <1>3 DEF Arriving
    <2>2. \A m \in unseen'[p] : n < m
      BY <2>1 DEF InOrderArrival
    <2>3. n \in k .. NumPackets - 1
      BY <1>3, <1>4
    <2>4. k # n => k \in unseen'[p]
      BY <1>3, <1>4, <2>3
    <2>5. QED
      BY <2>2, <2>3, <2>4
  <1>6. unseen'[p] = (k + 1) .. NumPackets - 1
    BY <1>3, <1>4, <1>5
  <1>7. ~Old(n)
    BY <1>4, <1>5 DEF Old, Between, TypeOK
  <1>8. pc'[p] = "dupcheck" /\ pc'[Timer] = pc[Timer]
    BY <1>1, <1>7 DEF ProcessOld, ProcessFresh, Goto, TypeOK, Threads
  <1>9. Carrying(p, k)'
    BY <1>2, <1>3, <1>4, <1>5, <1>8 DEF Carrying, Between, SlotsEmpty, counters
  <1>10. PromptAt(p, k + 1)' /\ k + 1 \in 0 .. NumPackets
    BY <1>5, <1>6, <1>8, <1>9 DEF PromptAt
  <1>11. QED
    BY <1>2, <1>3, <1>8, <1>10 DEF PromptInv

(* What a busy thread carries.                                             *)
LEMMA PromptCarried ==
  ASSUME NEW p, PromptInv(p), pc[p] \notin {"idle", "deliver"}
  PROVE  /\ main # "setup"
         /\ \E k \in 1 .. NumPackets : /\ unseen[p] = k .. NumPackets - 1
                                       /\ Carrying(p, k - 1)
  BY SizesAssumption DEF PromptInv, PromptAt

(* Where a thread that carries a packet goes on with it.                   *)
LEMMA PromptCarriedOn ==
  ASSUME NEW p, NEW k \in 1 .. NumPackets,
         unseen'[p] = k .. NumPackets - 1, Carrying(p, k - 1)', pc'[p] # "idle",
         main' # "setup", pc'[Timer] \in Early \cup {"timing"}
  PROVE  PromptInv(p)'
  <1>1. PromptAt(p, k)' /\ k \in 0 .. NumPackets
    BY SizesAssumption DEF PromptAt
  <1>2. QED
    BY <1>1 DEF PromptInv

(* processPacket stores the packet in the slot of nextExpected and goes on *)
(* to the callback.                                                        *)
LEMMA PromptProcess ==
  ASSUME NEW p, Paths = {p}, TypeOK, PromptInv(p),
         \/ DropDuplicate(p) \/ PassDuplicateCheck(p) \/ BufferPacket(p)
         \/ LoadEpoch(p) \/ LoadHighest(p) \/ LoadEpochAgain(p) \/ StoreEpoch(p)
         \/ StoreHighest(p) \/ EnterCallback(p)
  PROVE  PromptInv(p)'
  <1> USE SizesAssumption, ThreadsAssumption DEF Goto, counters
  <1>1. /\ pc[p] \notin {"idle", "deliver"}
        /\ p \in Threads /\ Timer \in Threads /\ p # Timer /\ DOMAIN pc = Threads
    BY DEF DropDuplicate, PassDuplicateCheck, BufferPacket, LoadEpoch, LoadHighest,
           LoadEpochAgain, Load, StoreEpoch,
           StoreHighest, EnterCallback, Threads, TypeOK
  <1>2. PICK k \in 1 .. NumPackets : unseen[p] = k .. NumPackets - 1 /\ Carrying(p, k - 1)
    BY <1>1, PromptCarried
  <1>3. AfterUpdate = "lock"
    BY <1>1, PromptCarried DEF AfterUpdate, CallbackSet
  <1>4. SeqOf(k - 1) \in 0 .. SeqLimit /\ k - 1 \in Packet
    BY HeaderTypes DEF Packet
  <1>5. pc'[Timer] \in Early \cup {"timing"} /\ unseen' = unseen /\ main' # "setup"
    BY <1>1, PromptCarried
       DEF DropDuplicate, PassDuplicateCheck, BufferPacket, LoadEpoch, LoadHighest,
           LoadEpochAgain, Load, StoreEpoch,
           StoreHighest, EnterCallback, PromptInv
  <1>6. CASE DropDuplicate(p)
    BY <1>2, <1>4, <1>6 DEF DropDuplicate, Duplicate, Carrying
  <1>7. CASE PassDuplicateCheck(p)
    <2>1. pc'[p] = "buffer" /\ pc[p] = "dupcheck"
      BY <1>1, <1>7 DEF PassDuplicateCheck
    <2>2. Carrying(p, k - 1)'
      BY <1>2, <1>7, <2>1 DEF PassDuplicateCheck, Carrying, SlotsEmpty
    <2>3. QED
      BY <1>2, <1>5, <2>1, <2>2, PromptCarriedOn
  <1>8. CASE BufferPacket(p)
    <2>1. pc'[p] = "load" /\ pc[p] = "buffer"
      BY <1>1, <1>8 DEF BufferPacket
    <2>2. held[p] = k - 1 /\ SlotsEmpty
      BY <1>2, <2>1 DEF Carrying
    <2>3. Index(SeqOf(k - 1)) \in 0 .. WindowSize - 1
      BY <1>4, IndexInArray
    <2>4. \A i \in 0 .. WindowSize - 1 :
            slot'[i] = IF i = Index(SeqOf(k - 1)) THEN k - 1 ELSE Empty
      BY <1>8, <2>2, <2>3 DEF BufferPacket, SlotsEmpty, TypeOK
    <2>5. Carrying(p, k - 1)'
      BY <1>2, <1>8, <2>1, <2>4 DEF BufferPacket, Carrying
    <2>6. QED
      BY <1>2, <1>5, <2>1, <2>5, PromptCarriedOn
  <1>9. CASE \/ LoadEpoch(p) \/ LoadHighest(p) \/ LoadEpochAgain(p) \/ StoreEpoch(p)
             \/ StoreHighest(p) \/ EnterCallback(p)
    <2>1. /\ pc[p] \in {"load", "compare", "newer", "epoch", "highest", "lock"}
          /\ pc'[p] \in {"compare", "newer", "epoch", "highest", "lock", "deliver"}
      BY <1>1, <1>3, <1>9 DEF LoadEpoch, LoadHighest, LoadEpochAgain, Load, StoreEpoch,
                    StoreHighest, EnterCallback
    <2>2. UNCHANGED <<slot, nextExpected, out, held>>
      BY <1>9 DEF LoadEpoch, LoadHighest, LoadEpochAgain, Load, StoreEpoch,
                  StoreHighest, EnterCallback
    <2>3. Carrying(p, k - 1)'
      BY <1>2, <2>1, <2>2 DEF Carrying
    <2>4. QED
      BY <1>2, <1>5, <2>1, <2>3, PromptCarriedOn
  <1>10. QED
    BY <1>6, <1>7, <1>8, <1>9

(* The callback hands up the packet the thread carried, and nothing else.  *)
LEMMA PromptDeliver ==
  ASSUME NEW p, Paths = {p}, TypeOK, Joined, PromptInv(p),
         DeliverNothing(p) \/ DeliverPacket(p)
  PROVE  PromptInv(p)'
  <1> USE SizesAssumption, ThreadsAssumption DEF counters
  <1>1. /\ pc[p] = "deliver" /\ unseen' = unseen /\ main' = main /\ held' = held
        /\ main \notin {"setup", "closed", "joining"}
        /\ p \in Threads /\ Timer \in Threads /\ p # Timer /\ DOMAIN pc = Threads
    BY DEF DeliverNothing, DeliverPacket, Threads, TypeOK, Joined, PromptInv
  <1>2. PICK k \in 0 .. NumPackets : PromptAt(p, k)
    BY DEF PromptInv
  <1>3. pc'[Timer] \in Early \cup {"timing"}
    BY <1>1 DEF DeliverNothing, DeliverPacket, Notified, Resume, PromptInv, Early
  <1>4. Index(nextExpected) \in 0 .. WindowSize - 1
    BY IndexInArray DEF TypeOK
  <1>5. CASE DeliverNothing(p)
    <2>1. pc'[p] = "idle" /\ UNCHANGED <<slot, nextExpected, out>>
      BY <1>1, <1>5 DEF DeliverNothing, Resume, Notified
    <2>2. ~Carrying(p, k - 1) \/ k = 0
      BY <1>1, <1>4, <1>5 DEF DeliverNothing, Present, Carrying, Empty
    <2>3. Between(k)
      BY <1>2, <2>2 DEF PromptAt
    <2>4. PromptAt(p, k)'
      BY <1>1, <1>2, <2>1, <2>3 DEF PromptAt, Between, SlotsEmpty
    <2>5. QED
      BY <1>3, <2>1, <2>4 DEF PromptInv
  <1>6. CASE DeliverPacket(p)
    <2>1. ~Between(k)
      BY <1>4, <1>6 DEF DeliverPacket, Present, Between, SlotsEmpty
    <2>2. k > 0 /\ Carrying(p, k - 1)
      BY <1>2, <2>1 DEF PromptAt
    <2>3. /\ nextExpected = SeqOf(k - 1) /\ out = HandedUp(k - 1)
          /\ \A i \in 0 .. WindowSize - 1 :
               slot[i] = IF i = Index(nextExpected) THEN k - 1 ELSE Empty
      BY <1>1, <2>2 DEF Carrying
    <2>4. nextExpected' = SeqOf(k)
      <3>1. SeqOf((k - 1) + 1) = After(SeqOf(k - 1)) /\ (k - 1) + 1 = k
        BY <2>2, SeqAfter
      <3>2. QED
        BY <1>6, <2>3, <3>1 DEF DeliverPacket
    <2>5. out' = HandedUp(k)
      <3>1. k - 1 \in Nat /\ (k - 1) + 1 = k
        BY <2>2
      <3>2. Append(HandedUp(k - 1), k - 1) = HandedUp(k)
        BY <3>1, HandedUpNext
      <3>3. out' = Append(out, slot[Index(nextExpected)])
        BY <1>1, <1>6 DEF DeliverPacket
      <3>4. QED
        BY <1>4, <2>3, <3>2, <3>3
    <2>6. SlotsEmpty'
      BY <1>4, <1>6, <2>3 DEF DeliverPacket, SlotsEmpty, TypeOK
    <2>7. pc'[p] = "deliver"
      BY <1>1, <1>6 DEF DeliverPacket, Notified
    <2>8. PromptAt(p, k)'
      BY <1>1, <1>2, <2>4, <2>5, <2>6, <2>7 DEF PromptAt, Between
    <2>9. QED
      BY <1>1, <1>3, <2>8 DEF PromptInv
  <1>7. QED
    BY <1>5, <1>6

(* Timer and main thread change nothing of this: no timeout comes.         *)
LEMMA PromptOthers ==
  ASSUME NEW p, Paths = {p}, TypeOK, PromptInv(p),
         \/ TimerLoop \/ SpuriousWakeup \/ SetDeliveryCallback \/ JoinLinks \/ Shutdown
         \/ UNCHANGED vars
  PROVE  PromptInv(p)'
  <1> USE ThreadsAssumption DEF Goto, counters
  <1>1. /\ pc[Timer] \in {"eval", "block", "asleep", "timing", "done"}
        /\ p \in Threads /\ Timer \in Threads /\ p # Timer /\ DOMAIN pc = Threads
    BY DEF PromptInv, Early, Threads, TypeOK
  <1>2. CASE TimerLoop \/ SpuriousWakeup
    <2>1. TimerEval \/ TimerBlock \/ TimerStopped \/ SpuriousWakeup
      BY <1>1, <1>2 DEF TimerLoop, CheckTimeoutFound, CheckTimeoutNone, Callback,
                    EnterCallback,
                        DeliverNothing, DeliverPacket
    <2>2. /\ pc'[p] = pc[p] /\ pc'[Timer] \in Early \cup {"timing"}
          /\ UNCHANGED <<unseen, slot, nextExpected, out, held, main>>
      BY <1>1, <2>1 DEF TimerEval, TimerBlock, TimerStopped, SpuriousWakeup, Early
    <2>3. QED
      BY <2>2 DEF PromptInv, PromptAt, Between, Carrying, SlotsEmpty
  <1>3. CASE SetDeliveryCallback \/ JoinLinks \/ Shutdown \/ UNCHANGED vars
    <2>1. /\ pc'[p] = pc[p] /\ pc'[Timer] \in Early \cup {"timing"}
          /\ UNCHANGED <<unseen, slot, nextExpected, out, held>>
          /\ main' = main \/ main' # "setup"
      BY <1>1, <1>3 DEF SetDeliveryCallback, JoinLinks, Shutdown, CloseProcessorLink,
                        DestroyReceiver, MainStep, Notified, Early, vars
    <2>2. QED
      BY <2>1 DEF PromptInv, PromptAt, Between, Carrying, SlotsEmpty
  <1>4. QED
    BY <1>2, <1>3

(* PromptInv is inductive.                                                 *)
LEMMA PromptStep ==
  ASSUME NEW p, Paths = {p}, TypeOK, Joined, PromptInv(p), [PromptNext]_vars
  PROVE  PromptInv(p)'
  <1>1. CASE Process(p)
    BY <1>1, PromptProcess, PromptDeliver DEF Process, Callback
  <1>2. CASE Receive(p) /\ AfterRegistration /\ InOrderArrival(p)
    BY <1>2, PromptReceive
  <1>3. CASE \/ TimerLoop \/ SpuriousWakeup \/ SetDeliveryCallback \/ JoinLinks
             \/ Shutdown
             \/ UNCHANGED vars
    BY <1>3, PromptOthers
  <1>4. ~(TimerExpired /\ InTime)
    BY DEF TimerExpired, InTime, Goto, TypeOK, Threads
  <1>5. QED
    BY <1>1, <1>2, <1>3, <1>4 DEF PromptNext, Internal, Terminated

(* Sequence-number wraparound loses nothing: for any PDCP_SEQ_LIMIT, any   *)
(* window and either way of counting epochs, a single path that delivers   *)
(* every packet in order and in time has all of them handed up.            *)
THEOREM WraparoundTransparent ==
  ASSUME NEW p, Paths = {p}
  PROVE  PromptSpec => []WrapTransparent
  <1>1. PromptSpec => Spec
    <2>1. [PromptNext]_vars => [Next]_vars
      BY DEF PromptNext, Next
    <2>2. QED
      BY <2>1, PTL DEF PromptSpec, Spec
  <1>2. Init => PromptInv(p)
    BY PromptInit
  <1>3. TypeOK /\ Joined /\ PromptInv(p) /\ [PromptNext]_vars => PromptInv(p)'
    BY PromptStep
  <1>4. PromptInv(p) => WrapTransparent
    <2> SUFFICES ASSUME PromptInv(p), Quiet
                 PROVE  out = HandedUp(NumPackets - Cardinality(unseen[p]))
      BY DEF WrapTransparent, HandedUp
    <2>1. PICK k \in 0 .. NumPackets : PromptAt(p, k)
      BY DEF PromptInv
    <2>2. unseen[p] = k .. NumPackets - 1 /\ out = HandedUp(k)
      BY <2>1 DEF PromptAt, Between, Quiet
    <2>3. Cardinality(k .. NumPackets - 1) = NumPackets - k
      <3>1. k \in Int /\ NumPackets - 1 \in Int
        BY SizesAssumption
      <3>2. Cardinality(k .. NumPackets - 1)
              = IF k > NumPackets - 1 THEN 0 ELSE (NumPackets - 1) - k + 1
        BY <3>1, FS_Interval
      <3>3. QED
        BY <3>1, <3>2, SizesAssumption
    <2>4. NumPackets - (NumPackets - k) = k
      BY SizesAssumption
    <2>5. QED
      BY <2>2, <2>3, <2>4
  <1>5. QED
    BY <1>1, <1>2, <1>3, <1>4, TypeCorrect, PTL DEF PromptSpec
=============================================================================
