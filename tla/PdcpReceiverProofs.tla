------------------------- MODULE PdcpReceiverProofs -------------------------
(***************************************************************************)
(* Theorems about PdcpReceiver, for any number of paths and packets and    *)
(* any window.  TypeCorrect holds always; in-order delivery and its        *)
(* refinement hold for a stream that uses every slot again and again, as   *)
(* long as it stays within the window and no store comes late              *)
(* (StreamSpec of MCPdcpReceiver).                                         *)
(***************************************************************************)
EXTENDS MCPdcpReceiver, TLAPS

(* Arithmetic about the ring index.                                        *)
LEMMA ModuloRange ==
  ASSUME NEW a \in Nat, NEW b \in Nat \ {0}
  PROVE  a % b \in 0 .. b - 1
  OBVIOUS

(* A value below the modulus is its own residue.                           *)
LEMMA ModuloSmall ==
  ASSUME NEW b \in Nat \ {0}, NEW a \in 0 .. b - 1
  PROVE  a % b = a
  OBVIOUS

(* The quotient of naturals is a natural.                                  *)
LEMMA DivisionNat ==
  ASSUME NEW a \in Nat, NEW b \in Nat \ {0}
  PROVE  a \div b \in Nat
  OBVIOUS

(* The scaled residue stays inside the array.                              *)
LEMMA ProductRange ==
  ASSUME NEW b \in Nat \ {0}, NEW m \in Nat \ {0}, NEW r \in 0 .. b - 1
  PROVE  r * m \in 0 .. b * m - 1
  OBVIOUS

(* Scaling by WindowMult separates residues.                               *)
LEMMA ProductInjective ==
  ASSUME NEW m \in Nat \ {0}, NEW a \in Nat, NEW c \in Nat, a * m = c * m
  PROVE  a = c
  OBVIOUS

(* Index never leaves the array packets[] was allocated with.              *)
LEMMA IndexInArray ==
  ASSUME NEW seq \in Nat
  PROVE  Index(seq) \in 0 .. WindowSize - 1
  <1>1. seq % WindowBase \in 0 .. WindowBase - 1
    BY ModuloRange, SizesAssumption
  <1>2. QED
    BY <1>1, ProductRange, SizesAssumption DEF Index, WindowSize

(* Sequence numbers and epochs of the stream's packets.                    *)
LEMMA HeaderTypes ==
  ASSUME NEW n \in Packet
  PROVE  SeqOf(n) \in 0 .. SeqLimit /\ EpochOf(n) \in Nat
  <1>1. n \in Nat /\ SeqLimit + 1 \in Nat \ {0}
    BY SizesAssumption DEF Packet
  <1>2. n % (SeqLimit + 1) \in 0 .. SeqLimit
    BY <1>1, ModuloRange, SizesAssumption
  <1>3. n \div (SeqLimit + 1) \in Nat
    BY <1>1, DivisionNat
  <1>4. QED
    BY <1>2, <1>3 DEF SeqOf, EpochOf

-----------------------------------------------------------------------------
(* After JoinLinks no Link thread runs: only the timer thread can meet the *)
(* closed processor link.  TypeOK is not inductive without it.             *)
Joined ==
  /\ main \in {"drained", "closed", "joining"} => \A p \in Paths : pc[p] = "idle"
  /\ pc[Timer] = "crashed" => main \in {"closed", "joining"}

(* The typing invariant and the fact it rests on, together.                *)
LEMMA TypeCorrect == Spec => [](TypeOK /\ Joined)
  <1>1. Init => TypeOK /\ Joined
    <2> SUFFICES ASSUME Init PROVE TypeOK /\ Joined
      OBVIOUS
    <2> USE SizesAssumption, ThreadsAssumption DEF Init
    <2>1. out \in Seq(Packet)
      OBVIOUS
    <2>2. /\ pc \in [Threads -> LinkPc \cup TimerPc \cup CallbackPc]
          /\ pc[Timer] = "eval"
          /\ \A p \in Paths : pc[p] = "idle"
      BY DEF Threads, Resume, LinkPc, TimerPc, CallbackPc
    <2>3. /\ unseen \in [Paths -> SUBSET Packet]
          /\ slot \in [0 .. WindowSize - 1 -> Packet \cup {Empty}]
          /\ held \in [Paths -> Packet \cup {Empty}]
      OBVIOUS
    <2>4. timerRunning \in BOOLEAN
      OBVIOUS
    <2>5. QED
      BY <2>1, <2>2, <2>3, <2>4 DEF TypeOK, Joined, LinkPc, TimerPc
  <1>2. TypeOK /\ Joined /\ [Next]_vars => (TypeOK /\ Joined)'
    <2> SUFFICES ASSUME TypeOK, Joined, [Next]_vars
                 PROVE  TypeOK' /\ Joined'
      OBVIOUS
    <2> USE SizesAssumption, ThreadsAssumption
        DEF TypeOK, Joined, Threads, LinkPc, TimerPc, CallbackPc, counters,
            stats, Goto
    <2>1. ASSUME NEW p \in Paths, NEW n \in Packet, ProcessOld(p, n)
          PROVE  TypeOK' /\ Joined'
      BY <2>1 DEF ProcessOld, Arrives
    <2>2. ASSUME NEW p \in Paths, NEW n \in Packet, ProcessFresh(p, n)
          PROVE  TypeOK' /\ Joined'
      BY <2>2 DEF ProcessFresh, Arrives
    <2>3. ASSUME NEW p \in Paths, DropDuplicate(p)
          PROVE  TypeOK' /\ Joined'
      BY <2>3 DEF DropDuplicate
    <2>4. ASSUME NEW p \in Paths, PassDuplicateCheck(p)
          PROVE  TypeOK' /\ Joined'
      BY <2>4 DEF PassDuplicateCheck
    <2>5. ASSUME NEW p \in Paths, BufferPacket(p)
          PROVE  TypeOK' /\ Joined'
      <3>1. held[p] \in Packet
        BY <2>5 DEF BufferPacket
      <3>2. QED
        BY <2>5, <3>1 DEF BufferPacket
    <2>6. ASSUME NEW p \in Paths, LoadEpoch(p) \/ LoadHighest(p) \/ LoadEpochAgain(p)
          PROVE  TypeOK' /\ Joined'
      BY <2>6 DEF LoadEpoch, LoadHighest, LoadEpochAgain, Load, AfterUpdate, CallbackSet
    <2>7. ASSUME NEW p \in Paths, StoreEpoch(p)
          PROVE  TypeOK' /\ Joined'
      <3>1. EpochOf(held[p]) \in Nat
        BY <2>7, HeaderTypes DEF StoreEpoch
      <3>2. QED
        BY <2>7, <3>1 DEF StoreEpoch
    <2>8. ASSUME NEW p \in Paths, StoreHighest(p)
          PROVE  TypeOK' /\ Joined'
      <3>1. SeqOf(held[p]) \in 0 .. SeqLimit
        BY <2>8, HeaderTypes DEF StoreHighest
      <3>2. QED
        BY <2>8, <3>1 DEF StoreHighest, AfterUpdate, CallbackSet
    <2>9. ASSUME NEW t \in Threads, EnterCallback(t)
          PROVE  TypeOK' /\ Joined'
      BY <2>9 DEF EnterCallback
    <2>10. ASSUME NEW t \in Threads, DeliverNothing(t)
           PROVE  TypeOK' /\ Joined'
      BY <2>10 DEF DeliverNothing, Resume, Notified
    <2>11. ASSUME NEW t \in Threads, DeliverPacket(t)
           PROVE  TypeOK' /\ Joined'
      <3>1. Index(nextExpected) \in 0 .. WindowSize - 1
        BY IndexInArray
      <3>2. slot[Index(nextExpected)] \in Packet
        BY <2>11, <3>1 DEF DeliverPacket, Present
      <3>3. nextExpected' \in 0 .. SeqLimit
        BY <2>11 DEF DeliverPacket, After
      <3>4. out' \in Seq(Packet)
        BY <2>11, <3>2 DEF DeliverPacket
      <3>5. slot' \in [0 .. WindowSize - 1 -> Packet \cup {Empty}]
        BY <2>11, <3>1 DEF DeliverPacket
      <3>6. main \in {"closed", "joining"} => t = Timer
        BY <2>11 DEF DeliverPacket
      <3>7. QED
        BY <2>11, <3>3, <3>4, <3>5, <3>6 DEF DeliverPacket, Notified
    <2>12. CASE TimerEval
      BY <2>12 DEF TimerEval
    <2>13. CASE TimerBlock
      BY <2>13 DEF TimerBlock
    <2>14. CASE SpuriousWakeup
      BY <2>14 DEF SpuriousWakeup
    <2>15. CASE TimerStopped
      BY <2>15 DEF TimerStopped
    <2>16. CASE TimerExpired
      BY <2>16 DEF TimerExpired
    <2>17. CASE CheckTimeoutFound
      <3>1. nextExpected' \in 0 .. SeqLimit
        BY <2>17 DEF CheckTimeoutFound, Scanned
      <3>2. QED
        BY <2>17, <3>1 DEF CheckTimeoutFound
    <2>18. CASE CheckTimeoutNone
      BY <2>18 DEF CheckTimeoutNone
    <2>19. CASE SetDeliveryCallback
      BY <2>19 DEF SetDeliveryCallback, MainStep
    <2>20. CASE JoinLinks
      BY <2>20 DEF JoinLinks, MainStep
    <2>21. CASE CloseProcessorLink
      BY <2>21 DEF CloseProcessorLink, MainStep
    <2>22. CASE DestroyReceiver
      BY <2>22 DEF DestroyReceiver, MainStep, Notified
    <2>23. CASE UNCHANGED vars
      BY <2>23 DEF vars
    <2>24. QED
      BY <2>1, <2>2, <2>3, <2>4, <2>5, <2>6, <2>7, <2>8, <2>9, <2>10, <2>11,
         <2>12, <2>13, <2>14, <2>15, <2>16, <2>17, <2>18, <2>19, <2>20, <2>21,
         <2>22, <2>23
         DEF Next, Internal, Receive, Process, TimerLoop, Callback, Shutdown,
           Terminated
  <1>3. QED
    BY <1>1, <1>2, PTL DEF Spec

(* Type correctness of the receiver for every value of the constants: in   *)
(* particular every slot index lies inside packets[], the counters stay    *)
(* sequence numbers, and no Link thread dies in the callback.              *)
THEOREM TypeInvariance == Spec => []TypeOK
  BY TypeCorrect, PTL

-----------------------------------------------------------------------------
(***************************************************************************)
(* The stream is not so long that the 32-bit sequence number wraps.        *)
(***************************************************************************)
NoWrap == NumPackets < SeqLimit

(* The window: the packets that have a slot of their own now.              *)
Window == nextExpected .. nextExpected + WindowBase - 1

SlotsFaithful ==
  \A i \in 0 .. WindowSize - 1 :
    slot[i] # Empty => i = Index(slot[i]) /\ slot[i] \in Seen /\ slot[i] \in Window

HeldSeen ==
  \A p \in Paths : pc[p] # "idle" =>
    held[p] \notin unseen[p] /\ held[p] < nextExpected + WindowBase

HeldAhead == \A p \in Paths : pc[p] = "buffer" => nextExpected <= held[p]

OutBelow == \A i \in DOMAIN out : out[i] < nextExpected

CountersInWindow ==
  /\ nextExpected <= NumPackets
  /\ highestReceived <= NumPackets
  /\ highestReceived < nextExpected + WindowBase

WindowInv ==
  /\ SlotsFaithful
  /\ HeldSeen
  /\ HeldAhead
  /\ OutBelow
  /\ CountersInWindow
  /\ InOrder

(* Without a wrap the header's sequence number is the packet's own.        *)
LEMMA SeqOfNoWrap ==
  ASSUME NoWrap, NEW n \in Packet
  PROVE  SeqOf(n) = n
  <1>1. n \in 0 .. (SeqLimit + 1) - 1 /\ SeqLimit + 1 \in Nat \ {0}
    BY SizesAssumption DEF NoWrap, Packet
  <1>2. QED
    BY <1>1, ModuloSmall DEF SeqOf

(* Less than a multiple apart, equal residues mean equal numbers.          *)
LEMMA ResidueSeparates ==
  ASSUME NEW w \in Nat \ {0}, NEW a \in Nat, NEW b \in Nat,
         a <= b, b < a + w, a % w = b % w
  PROVE  a = b
  <1>1. PICK q \in Nat : a % w = a - w * q
    <2>1. a % w = a - w * (a \div w)
      OBVIOUS
    <2>2. QED
      BY <2>1, DivisionNat
  <1>2. PICK r \in Nat : b % w = b - w * r
    <2>1. b % w = b - w * (b \div w)
      OBVIOUS
    <2>2. QED
      BY <2>1, DivisionNat
  <1>3. w * q \in Int /\ w * r \in Int
    OBVIOUS
  <1>4. w * q <= w * r /\ w * r < w * q + w
    BY <1>1, <1>2, <1>3
  <1>5. ASSUME r >= q + 1 PROVE FALSE
    <2>1. w * r >= w * (q + 1) /\ w * (q + 1) = w * q + w
      BY <1>5
    <2>2. QED
      BY <1>3, <1>4, <2>1
  <1>6. ASSUME q >= r + 1 PROVE FALSE
    <2>1. w * q >= w * (r + 1) /\ w * (r + 1) = w * r + w
      BY <1>6
    <2>2. QED
      BY <1>3, <1>4, <2>1
  <1>7. q = r
    BY <1>5, <1>6
  <1>8. QED
    BY <1>1, <1>2, <1>3, <1>7

(* What is below the end of the window stays so when the window moves up.  *)
LEMMA WindowGrows ==
  ASSUME NEW h \in Nat, NEW a \in Nat, NEW b \in Nat, NEW w \in Nat,
         a <= b, h < a + w
  PROVE  h < b + w
  OBVIOUS

(* No two numbers of the window share a slot.                              *)
LEMMA IndexInjective ==
  ASSUME nextExpected \in Nat, NEW a \in Window, NEW b \in Window,
         Index(a) = Index(b)
  PROVE  a = b
  <1>1. a \in Nat /\ b \in Nat /\ a < b + WindowBase /\ b < a + WindowBase
    BY SizesAssumption DEF Window
  <1>2. a % WindowBase \in Nat /\ b % WindowBase \in Nat
    BY <1>1, ModuloRange, SizesAssumption
  <1>3. a % WindowBase = b % WindowBase
    BY <1>2, ProductInjective, SizesAssumption DEF Index
  <1>4. CASE a <= b
    BY <1>1, <1>3, <1>4, ResidueSeparates, SizesAssumption
  <1>5. CASE b <= a
    BY <1>1, <1>3, <1>5, ResidueSeparates, SizesAssumption
  <1>6. QED
    BY <1>1, <1>4, <1>5

(* What sits in the slot of a number of the window is that very packet.    *)
LEMMA SlotHoldsSeq ==
  ASSUME TypeOK, SlotsFaithful, NEW seq \in Window, Present(seq)
  PROVE  /\ slot[Index(seq)] = seq
         /\ seq \in Packet
         /\ seq \in Seen
  <1>1. nextExpected \in Nat /\ seq \in Nat
    BY SizesAssumption DEF TypeOK, Window
  <1>2. Index(seq) \in 0 .. WindowSize - 1
    BY <1>1, IndexInArray
  <1>3. slot[Index(seq)] \in Packet
    BY <1>2 DEF TypeOK, Present
  <1>4. /\ Index(seq) = Index(slot[Index(seq)])
        /\ slot[Index(seq)] \in Seen /\ slot[Index(seq)] \in Window
    BY <1>2 DEF SlotsFaithful, Present
  <1>5. seq = slot[Index(seq)]
    BY <1>1, <1>4, IndexInjective
  <1>6. QED
    BY <1>3, <1>4, <1>5

(* The scan of checkReorderingTimeout finds a packet that has arrived,     *)
(* never moves nextExpected back, and leaves no stored packet behind.      *)
LEMMA ScanFindsSeen ==
  ASSUME NoWrap, TypeOK, SlotsFaithful, CountersInWindow, CheckTimeoutFound
  PROVE  /\ nextExpected' \in Packet
         /\ nextExpected' \in Seen
         /\ nextExpected <= nextExpected'
         /\ \A i \in 0 .. WindowSize - 1 :
              slot[i] # Empty => nextExpected' <= slot[i]
  <1> USE SizesAssumption
  <1>1. PICK seq \in Scanned : FirstReceived(seq) /\ nextExpected' = seq
    BY DEF CheckTimeoutFound
  <1>2. Scanned = nextExpected .. highestReceived
    BY DEF Scanned, CountersInWindow, NoWrap, TypeOK
  <1>3. nextExpected \in Nat /\ highestReceived \in Nat /\ seq \in Window
    BY <1>1, <1>2 DEF CountersInWindow, Window, TypeOK
  <1>4. Present(seq)
    BY <1>1 DEF FirstReceived
  <1>5. seq \in Packet /\ seq \in Seen /\ nextExpected <= seq
    BY <1>3, <1>4, SlotHoldsSeq DEF Window
  <1>6. \A other \in Scanned : Distance(other) = other - nextExpected
    <2> SUFFICES ASSUME NEW other \in Scanned
                 PROVE  Distance(other) = other - nextExpected
      OBVIOUS
    <2>1. other - nextExpected \in 0 .. (SeqLimit + 1) - 1
      BY <1>2, <1>3 DEF CountersInWindow, NoWrap
    <2>2. QED
      BY <2>1, ModuloSmall DEF Distance
  <1>7. ASSUME NEW i \in 0 .. WindowSize - 1, slot[i] # Empty
        PROVE  seq <= slot[i]
    <2>1. i = Index(slot[i]) /\ slot[i] \in Window /\ slot[i] \in Nat
      BY <1>3, <1>7 DEF SlotsFaithful, Window
    <2>2. CASE slot[i] <= highestReceived
      <3>1. slot[i] \in Scanned /\ Present(slot[i])
        BY <1>2, <1>3, <1>7, <2>1, <2>2 DEF Present, Window
      <3>2. Distance(seq) <= Distance(slot[i])
        BY <1>1, <3>1 DEF FirstReceived
      <3>3. seq - nextExpected <= slot[i] - nextExpected
        BY <1>1, <1>6, <3>1, <3>2
      <3>4. QED
        BY <1>3, <2>1, <3>3 DEF Window
    <2>3. CASE slot[i] > highestReceived
      BY <1>1, <1>2, <1>3, <2>1, <2>3 DEF Window
    <2>4. QED
      BY <1>3, <2>1, <2>2, <2>3
  <1>8. QED
    BY <1>1, <1>5, <1>7

-----------------------------------------------------------------------------
(* Moving nextExpected up to a packet, with nothing stored left behind.    *)
LEMMA SlotsMoved ==
  ASSUME TypeOK, SlotsFaithful, nextExpected' \in Nat, nextExpected <= nextExpected',
         unseen' = unseen,
         \A i \in 0 .. WindowSize - 1 : slot'[i] # Empty =>
           slot'[i] = slot[i] /\ nextExpected' <= slot[i]
  PROVE  SlotsFaithful'
  <1> SUFFICES ASSUME NEW i \in 0 .. WindowSize - 1, slot'[i] # Empty
               PROVE  i = Index(slot'[i]) /\ slot'[i] \in Seen' /\ slot'[i] \in Window'
    BY DEF SlotsFaithful
  <1>1. i = Index(slot[i]) /\ slot[i] \in Seen /\ slot[i] \in Window /\ slot'[i] = slot[i]
    BY DEF SlotsFaithful
  <1>2. Seen' = Seen
    BY DEF Seen
  <1>3. slot'[i] \in Window'
    BY <1>1, SizesAssumption DEF Window, TypeOK
  <1>4. QED
    BY <1>1, <1>2, <1>3

(* Handing up one packet more, the one numbered nextExpected.              *)
LEMMA OutExtended ==
  ASSUME TypeOK, OutBelow, InOrder, nextExpected \in Packet,
         nextExpected' = nextExpected + 1,
         out' = out \/ out' = Append(out, nextExpected)
  PROVE  OutBelow' /\ InOrder'
  <1>1. CASE out' = out
    BY <1>1, SizesAssumption DEF OutBelow, InOrder, TypeOK, Packet
  <1>2. CASE out' = Append(out, nextExpected)
    <2>1. /\ DOMAIN out = 1 .. Len(out)
          /\ DOMAIN out' = 1 .. Len(out) + 1
          /\ out'[Len(out) + 1] = nextExpected
          /\ \A i \in 1 .. Len(out) : out'[i] = out[i]
          /\ Len(out) \in Nat
      <3>1. out \in Seq(Packet)
        BY DEF TypeOK
      <3>2. QED
        BY <1>2, <3>1
    <2>2. \A i \in 1 .. Len(out) : out[i] \in Nat /\ out[i] < nextExpected
      <3>1. \A i \in 1 .. Len(out) : out[i] \in Packet
        BY DEF TypeOK
      <3>2. QED
        BY <2>1, <3>1, SizesAssumption DEF OutBelow, Packet
    <2>3. nextExpected \in Nat
      BY SizesAssumption DEF TypeOK
    <2>4. OutBelow'
      <3>1. ASSUME NEW i \in 1 .. Len(out) + 1 PROVE out'[i] < nextExpected + 1
        <4>1. i \in 1 .. Len(out) \/ i = Len(out) + 1
          BY <2>1
        <4>2. QED
          BY <2>1, <2>2, <2>3, <4>1
      <3>2. QED
        BY <2>1, <3>1 DEF OutBelow
    <2>5. InOrder'
      <3>1. ASSUME NEW i \in 1 .. Len(out) + 1, NEW j \in 1 .. Len(out) + 1, i < j
            PROVE  out'[i] < out'[j]
        <4>1. i \in 1 .. Len(out) /\ (j \in 1 .. Len(out) \/ j = Len(out) + 1)
          BY <2>1, <3>1
        <4>2. out'[i] = out[i]
          BY <2>1, <4>1
        <4>3. CASE j \in 1 .. Len(out)
          BY <2>1, <3>1, <4>1, <4>2, <4>3 DEF InOrder
        <4>4. CASE j = Len(out) + 1
          BY <2>1, <2>2, <4>1, <4>2, <4>4
        <4>5. QED
          BY <4>1, <4>3, <4>4
      <3>2. QED
        BY <2>1, <3>1 DEF InOrder
    <2>6. QED
      BY <2>4, <2>5
  <1>3. QED
    BY <1>1, <1>2

(* WindowInv is inductive: only BufferPacket fills a slot and only         *)
(* DeliverPacket and CheckTimeoutFound move nextExpected.                  *)
LEMMA WindowStep ==
  ASSUME NoWrap, TypeOK, Joined, WindowInv, [StreamNext]_vars, TypeOK'
  PROVE  WindowInv'
  <1> USE SizesAssumption, ThreadsAssumption
      DEF WindowInv, counters, stats, Goto, Threads
  <1>1. ASSUME NEW p \in Paths, NEW n \in Packet, Arrives(p, n), WithinWindow(p),
               UNCHANGED <<slot, nextExpected, highestReceived, out>>,
               pc' = pc \/ pc' = [pc EXCEPT ![p] = "dupcheck"]
        PROVE  WindowInv'
    <2>1. n < nextExpected + WindowBase
      BY <1>1 DEF Arrives, WithinWindow, Arriving, TypeOK
    <2>2. SlotsFaithful'
      BY <1>1 DEF Arrives, SlotsFaithful, Window, Seen, TypeOK
    <2>3. HeldSeen'
      BY <1>1, <2>1 DEF Arrives, HeldSeen, TypeOK
    <2>4. HeldAhead'
      BY <1>1 DEF Arrives, HeldAhead, TypeOK
    <2>5. QED
      BY <1>1, <2>2, <2>3, <2>4 DEF OutBelow, CountersInWindow, InOrder
  <1>2. ASSUME NEW p \in Paths, Receive(p), WithinWindow(p)
        PROVE  WindowInv'
    <2>1. PICK n \in Packet : ProcessOld(p, n) \/ ProcessFresh(p, n)
      BY <1>2 DEF Receive
    <2>2. QED
      BY <1>1, <1>2, <2>1 DEF ProcessOld, ProcessFresh
  <1>3. ASSUME UNCHANGED <<unseen, slot, nextExpected, highestReceived, out, held>>,
               \A p \in Paths : /\ pc'[p] # "idle" => pc[p] # "idle"
                                /\ pc'[p] = "buffer" => pc[p] = "buffer"
        PROVE  WindowInv'
    BY <1>3 DEF SlotsFaithful, HeldSeen, HeldAhead, OutBelow, CountersInWindow, InOrder,
                Seen, Window
  <1>4. ASSUME NEW p \in Paths, PassDuplicateCheck(p)
        PROVE  WindowInv'
    <2>1. nextExpected <= held[p]
      <3>1. held[p] \in Packet /\ SeqOf(held[p]) = held[p]
        BY <1>4, SeqOfNoWrap DEF PassDuplicateCheck, TypeOK
      <3>2. QED
        BY <1>4, <3>1 DEF PassDuplicateCheck, Duplicate, TypeOK, Packet
    <2>2. HeldSeen' /\ HeldAhead'
      BY <1>4, <2>1 DEF PassDuplicateCheck, HeldSeen, HeldAhead, TypeOK
    <2>3. QED
      BY <1>4, <2>2 DEF PassDuplicateCheck, SlotsFaithful, OutBelow, CountersInWindow,
                        InOrder, Seen, Window
  <1>5. ASSUME NEW p \in Paths, BufferPacket(p)
        PROVE  WindowInv'
    <2>1. held[p] \in Packet /\ held[p] \in Seen /\ SeqOf(held[p]) = held[p]
      BY <1>5, SeqOfNoWrap DEF BufferPacket, TypeOK, HeldSeen, Seen
    <2>2. held[p] \in Window
      BY <1>5, <2>1 DEF BufferPacket, HeldSeen, HeldAhead, Window, Packet, TypeOK
    <2>3. SlotsFaithful'
      BY <1>5, <2>1, <2>2 DEF BufferPacket, SlotsFaithful, Seen, Window, TypeOK
    <2>4. HeldSeen' /\ HeldAhead'
      BY <1>5 DEF BufferPacket, HeldSeen, HeldAhead, TypeOK
    <2>5. QED
      BY <1>5, <2>3, <2>4 DEF BufferPacket, OutBelow, CountersInWindow, InOrder
  <1>6. ASSUME NEW p \in Paths, StoreHighest(p)
        PROVE  WindowInv'
    <2>1. SeqOf(held[p]) = held[p] /\ held[p] \in Packet
      BY <1>6, SeqOfNoWrap DEF StoreHighest, TypeOK
    <2>2. highestReceived' <= NumPackets /\ highestReceived' < nextExpected + WindowBase
      BY <1>6, <2>1 DEF StoreHighest, Packet, HeldSeen
    <2>3. HeldSeen' /\ HeldAhead'
      BY <1>6 DEF StoreHighest, HeldSeen, HeldAhead, AfterUpdate, TypeOK
    <2>4. QED
      BY <1>6, <2>2, <2>3 DEF StoreHighest, SlotsFaithful, OutBelow, CountersInWindow,
                              InOrder, Seen, Window
  <1>7. ASSUME NEW t \in Threads, DeliverPacket(t), StoresInTime
        PROVE  WindowInv'
    <2>1. nextExpected \in Window /\ Present(nextExpected) /\ nextExpected \in Nat
      BY <1>7 DEF DeliverPacket, Window, TypeOK
    <2>2. slot[Index(nextExpected)] = nextExpected /\ nextExpected \in Packet
      BY <2>1, SlotHoldsSeq
    <2>3. nextExpected' = nextExpected + 1 /\ nextExpected' <= NumPackets
      BY <1>7, <2>2 DEF DeliverPacket, After, Packet, NoWrap
    <2>4. OutBelow' /\ InOrder'
      BY <1>7, <2>2, <2>3, OutExtended DEF DeliverPacket
    <2>5. SlotsFaithful'
      <3>1. ASSUME NEW i \in 0 .. WindowSize - 1, slot'[i] # Empty
            PROVE  slot'[i] = slot[i] /\ nextExpected' <= slot[i]
        <4>1. i # Index(nextExpected) /\ slot'[i] = slot[i]
          BY <1>7, <3>1 DEF DeliverPacket, TypeOK
        <4>2. slot[i] \in Window /\ i = Index(slot[i])
          BY <3>1, <4>1 DEF SlotsFaithful
        <4>3. slot[i] # nextExpected
          BY <4>1, <4>2
        <4>4. QED
          BY <2>1, <2>3, <4>1, <4>2, <4>3 DEF Window
      <3>2. unseen' = unseen
        BY <1>7 DEF DeliverPacket
      <3>3. QED
        BY <2>1, <2>3, <3>1, <3>2, SlotsMoved
    <2>6. HeldSeen' /\ HeldAhead'
      <3>0. /\ pc[t] = "deliver" /\ held' = held /\ unseen' = unseen
            /\ \/ pc' = pc \/ pc' = [pc EXCEPT ![t] = "crashed"]
               \/ pc' = [pc EXCEPT ![Timer] = "eval"]
        BY <1>7 DEF DeliverPacket, Notified
      <3>1. /\ \A p \in Paths : pc'[p] # "idle" => pc[p] # "idle"
            /\ \A p \in Paths : pc'[p] = "buffer" => pc[p] = "buffer"
        BY <3>0 DEF TypeOK
      <3>2. HeldAhead'
        BY <1>7, <3>0, <3>1 DEF StoresInTime, HeldAhead
      <3>3. HeldSeen'
        BY <2>1, <2>3, <3>0, <3>1 DEF HeldSeen, TypeOK, Packet, Empty
      <3>4. QED
        BY <3>2, <3>3
    <2>7. QED
      BY <1>7, <2>1, <2>3, <2>4, <2>5, <2>6 DEF DeliverPacket, CountersInWindow, TypeOK
  <1>8. ASSUME CheckTimeoutFound, StoresInTime
        PROVE  WindowInv'
    <2>1. /\ nextExpected' \in Packet /\ nextExpected <= nextExpected'
          /\ \A i \in 0 .. WindowSize - 1 : slot[i] # Empty => nextExpected' <= slot[i]
      BY <1>8, ScanFindsSeen
    <2>2. nextExpected \in Nat /\ nextExpected' \in Nat /\ nextExpected' <= NumPackets
      BY <2>1 DEF TypeOK, Packet
    <2>3. /\ UNCHANGED <<unseen, slot, highestReceived, out, held>>
          /\ \A p \in Paths : pc'[p] = pc[p]
      BY <1>8 DEF CheckTimeoutFound, TypeOK
    <2>4. SlotsFaithful'
      BY <2>1, <2>2, <2>3, SlotsMoved
    <2>5. HeldAhead'
      BY <1>8, <2>3 DEF StoresInTime, HeldAhead
    <2>6. HeldSeen'
      BY <2>1, <2>2, <2>3 DEF HeldSeen, TypeOK, Packet, Empty
    <2>7. OutBelow' /\ InOrder'
      BY <2>1, <2>2, <2>3 DEF OutBelow, InOrder, TypeOK, Packet
    <2>8. QED
      <3>1. highestReceived \in Nat /\ highestReceived' = highestReceived
        BY <2>3 DEF TypeOK
      <3>2. CountersInWindow'
        <4>1. /\ highestReceived <= NumPackets
              /\ highestReceived < nextExpected + WindowBase
              /\ nextExpected <= nextExpected' /\ WindowBase \in Nat
          BY <2>1 DEF CountersInWindow
        <4>2. highestReceived < nextExpected' + WindowBase
          BY <2>2, <3>1, <4>1, WindowGrows
        <4>3. /\ nextExpected' <= NumPackets
              /\ highestReceived' <= NumPackets
              /\ highestReceived' < nextExpected' + WindowBase
          BY <2>2, <3>1, <4>1, <4>2
        <4>4. QED
          BY <4>3 DEF CountersInWindow
      <3>3. QED
        BY <2>4, <2>5, <2>6, <2>7, <3>2
  <1>9. ASSUME NEW p \in Paths,
               \/ DropDuplicate(p) \/ StoreEpoch(p)
               \/ LoadEpoch(p) \/ LoadHighest(p) \/ LoadEpochAgain(p)
        PROVE  WindowInv'
    BY <1>3, <1>9 DEF DropDuplicate, LoadEpoch, LoadHighest, LoadEpochAgain, Load,
                    StoreEpoch,
                       AfterUpdate, TypeOK
  <1>10. ASSUME NEW t \in Threads, EnterCallback(t) \/ DeliverNothing(t)
         PROVE  WindowInv'
    BY <1>3, <1>10 DEF EnterCallback, DeliverNothing, Notified, Resume, TypeOK
  <1>11. CASE \/ TimerEval \/ TimerBlock \/ SpuriousWakeup \/ TimerStopped
              \/ TimerExpired \/ CheckTimeoutNone
    BY <1>3, <1>11 DEF TimerEval, TimerBlock, SpuriousWakeup, TimerStopped,
                       TimerExpired, CheckTimeoutNone, TypeOK
  <1>12. CASE \/ SetDeliveryCallback \/ JoinLinks \/ CloseProcessorLink
              \/ DestroyReceiver
    BY <1>3, <1>12 DEF SetDeliveryCallback, JoinLinks, CloseProcessorLink,
                       DestroyReceiver, MainStep, Notified, TypeOK
  <1>13. CASE UNCHANGED vars
    BY <1>3, <1>13 DEF vars
  <1>14. QED
    BY <1>2, <1>4, <1>5, <1>6, <1>7, <1>8, <1>9, <1>10, <1>11, <1>12, <1>13
       DEF StreamNext, Internal, Process, TimerLoop, Callback, Shutdown, Terminated

(* The stream environment only leaves steps of the receiver out.           *)
LEMMA StreamIsSpec == StreamSpec => Spec
  <1>1. [StreamNext]_vars => [Next]_vars
    BY DEF StreamNext, Next
  <1>2. QED
    BY <1>1, PTL DEF StreamSpec, Spec

(* WindowInv is an invariant of the receiver under such a stream.          *)
LEMMA WindowCorrect ==
  ASSUME NoWrap
  PROVE  StreamSpec => []WindowInv
  <1>1. Init => WindowInv
    BY SizesAssumption, ThreadsAssumption
       DEF Init, WindowInv, SlotsFaithful, HeldSeen, HeldAhead, OutBelow,
           CountersInWindow, InOrder, Resume, Threads
  <1>2. TypeOK /\ Joined /\ TypeOK' /\ WindowInv /\ [StreamNext]_vars => WindowInv'
    BY WindowStep
  <1>3. QED
    BY <1>1, <1>2, StreamIsSpec, TypeCorrect, PTL DEF StreamSpec

(* In-sequence delivery: however long the stream and however often a slot  *)
(* is used again, packets leave the receiver in the sender's order and at  *)
(* most once, for any number of paths and any interleaving of their        *)
(* threads, the timer thread and the teardown in which packets arrive      *)
(* within the window and are stored before nextExpected has passed them.   *)
THEOREM StreamInOrder ==
  ASSUME NoWrap
  PROVE  StreamSpec => []InOrder
  <1>1. WindowInv => InOrder
    BY DEF WindowInv
  <1>2. QED
    BY <1>1, WindowCorrect, PTL

-----------------------------------------------------------------------------
(* Every step of the receiver is a step of InOrderDelivery or changes      *)
(* nothing there.                                                          *)
LEMMA RefinementStep ==
  ASSUME NoWrap, TypeOK, Joined, WindowInv, [Next]_vars
  PROVE  [Abstract!Next]_(Abstract!vars)
  <1> USE SizesAssumption, ThreadsAssumption
      DEF counters, stats, Goto, Threads
  <1>1. ASSUME UNCHANGED <<unseen, nextExpected, out>>,
               pc'[Timer] = "crashed" <=> pc[Timer] = "crashed"
        PROVE  UNCHANGED Abstract!vars
    BY <1>1 DEF Abstract!vars, Seen, Horizon
  <1>2. ASSUME NEW p \in Paths, NEW n \in Packet, Arrives(p, n),
               UNCHANGED <<nextExpected, out>>, pc'[Timer] = pc[Timer]
        PROVE  Abstract!Next
    <2>1. Seen' = Seen \cup {n}
      BY <1>2 DEF Arrives, Seen, TypeOK
    <2>2. Horizon' = Horizon
      BY <1>2 DEF Horizon
    <2>3. Abstract!Arrive(n)
      BY <1>2, <2>1, <2>2 DEF Abstract!Arrive
    <2>4. QED
      BY <2>3 DEF Abstract!Next, Packet
  <1>3. ASSUME NEW p \in Paths, NEW n \in Packet, ProcessOld(p, n)
        PROVE  Abstract!Next
    BY <1>2, <1>3 DEF ProcessOld
  <1>4. ASSUME NEW p \in Paths, NEW n \in Packet, ProcessFresh(p, n)
        PROVE  Abstract!Next
    BY <1>2, <1>4 DEF ProcessFresh, TypeOK
  <1>5. ASSUME NEW t \in Threads, DeliverPacket(t)
        PROVE  [Abstract!Next]_(Abstract!vars)
    <2>1. /\ slot[Index(nextExpected)] = nextExpected
          /\ nextExpected \in Packet
          /\ nextExpected \in Seen
      BY <1>5, SlotHoldsSeq DEF DeliverPacket, WindowInv, Window, TypeOK
    <2>2. nextExpected' = nextExpected + 1 /\ UNCHANGED Seen
      BY <1>5, <2>1 DEF DeliverPacket, After, Packet, NoWrap, Seen
    <2>3. pc[Timer] # "crashed"
      BY <1>5 DEF DeliverPacket, Joined
    <2>4. CASE main \in {"closed", "joining"}
      <3>1. t = Timer
        BY <1>5, <2>4 DEF DeliverPacket, Joined
      <3>2. pc'[Timer] = "crashed" /\ out' = out
        BY <1>5, <2>4, <3>1 DEF DeliverPacket, TypeOK
      <3>3. QED
        BY <2>2, <2>3, <3>2 DEF Abstract!vars, Horizon, TypeOK
    <2>5. CASE main \notin {"closed", "joining"}
      <3>1. pc'[Timer] # "crashed" /\ out' = Append(out, nextExpected)
        BY <1>5, <2>1, <2>3, <2>5 DEF DeliverPacket, Notified, TypeOK
      <3>2. Abstract!Deliver
        BY <2>1, <2>2, <2>3, <3>1 DEF Abstract!Deliver, Horizon
      <3>3. QED
        BY <3>2 DEF Abstract!Next
    <2>6. QED
      BY <2>4, <2>5
  <1>6. CASE CheckTimeoutFound
    <2>1. /\ nextExpected' \in Packet
          /\ nextExpected' \in Seen
          /\ nextExpected <= nextExpected'
      BY <1>6, ScanFindsSeen DEF WindowInv
    <2>2. /\ Horizon = nextExpected /\ Horizon' = nextExpected'
          /\ UNCHANGED <<Seen, out>>
      BY <1>6 DEF CheckTimeoutFound, Horizon, TypeOK, Seen
    <2>3. CASE nextExpected' = nextExpected
      BY <2>2, <2>3 DEF Abstract!vars
    <2>4. CASE nextExpected' # nextExpected
      <3>1. nextExpected < nextExpected'
        BY <2>1, <2>4 DEF TypeOK, Packet
      <3>2. Abstract!GiveUpTo(nextExpected')
        BY <2>1, <2>2, <3>1 DEF Abstract!GiveUpTo
      <3>3. QED
        BY <2>1, <3>2 DEF Abstract!Next, Packet
    <2>5. QED
      BY <2>3, <2>4
  <1>7. ASSUME NEW p \in Paths,
               \/ DropDuplicate(p) \/ PassDuplicateCheck(p)
               \/ LoadEpoch(p) \/ LoadHighest(p) \/ LoadEpochAgain(p)
               \/ BufferPacket(p) \/ StoreEpoch(p) \/ StoreHighest(p)
        PROVE  UNCHANGED Abstract!vars
    BY <1>1, <1>7 DEF DropDuplicate, PassDuplicateCheck, LoadEpoch,
                      LoadHighest, LoadEpochAgain, Load, BufferPacket, StoreEpoch, StoreHighest, TypeOK
  <1>8. ASSUME NEW t \in Threads, EnterCallback(t) \/ DeliverNothing(t)
        PROVE  UNCHANGED Abstract!vars
    BY <1>1, <1>8 DEF EnterCallback, DeliverNothing, Notified, Resume, TypeOK
  <1>9. CASE \/ TimerEval \/ TimerBlock \/ SpuriousWakeup \/ TimerStopped
             \/ TimerExpired \/ CheckTimeoutNone
    BY <1>1, <1>9 DEF TimerEval, TimerBlock, SpuriousWakeup, TimerStopped,
                      TimerExpired, CheckTimeoutNone, TypeOK
  <1>10. CASE \/ SetDeliveryCallback \/ JoinLinks \/ CloseProcessorLink
              \/ DestroyReceiver
    BY <1>1, <1>10 DEF SetDeliveryCallback, JoinLinks, CloseProcessorLink,
                       DestroyReceiver, MainStep, Notified, TypeOK
  <1>11. CASE UNCHANGED vars
    BY <1>1, <1>11 DEF vars
  <1>12. QED
    BY <1>3, <1>4, <1>5, <1>6, <1>7, <1>8, <1>9, <1>10, <1>11
       DEF Next, Internal, Receive, Process, TimerLoop, Callback, Shutdown,
           Terminated

(* Under such a stream the receiver implements InOrderDelivery: a packet   *)
(* that does not come out was given up for a later one that had arrived.   *)
THEOREM RefinesInOrderDelivery ==
  ASSUME NoWrap
  PROVE  StreamSpec => ImplementsInOrder
  <1>1. Init => Abstract!Init
    BY DEF Init, Abstract!Init, Seen, Horizon, Resume, Threads
  <1>2. TypeOK /\ Joined /\ WindowInv /\ [Next]_vars
          => [Abstract!Next]_(Abstract!vars)
    BY RefinementStep
  <1>3. QED
    BY <1>1, <1>2, TypeCorrect, WindowCorrect, StreamIsSpec, PTL
       DEF Spec, ImplementsInOrder, Abstract!Spec
=============================================================================
