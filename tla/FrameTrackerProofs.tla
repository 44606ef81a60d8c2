------------------------- MODULE FrameTrackerProofs -------------------------
(***************************************************************************)
(* Theorems about FrameTracker, for any number of frames and links and any *)
(* sizes: the anchor leads, what waits in ready_frames_ is acknowledged,   *)
(* and no frame is counted, revived or re-injected twice.  They all follow *)
(* from one fact more: nothing the tracker remembers, in any of its tables *)
(* or in a scheduler's hand, is newer than recent_timestamp_.              *)
(***************************************************************************)
EXTENDS FrameTracker, WellFoundedInduction, TLAPS

\* A frame that left a trace is not newer than recent_timestamp_, so the frame
\* that a packet creates has none.
Traces(f) == f \in Tracked \cup ready_frames_ \cup sch.cands
             \/ delays[f] > 0 \/ bursts[f] > 0
Seen ==
  /\ oldest_inflight_ <= recent_timestamp_
  /\ \A f \in Frames : Traces(f) => f <= recent_timestamp_

\* Only the sweep leaves a frame timed out, and has counted it once.
TimedOut == \A f \in Frames : status[f] = "timeout" => f \in expired /\ delays[f] = 1

\* A tracked frame a burst was sent for is marked; a candidate has had none.
Marked ==
  /\ \A f \in Tracked : bursts[f] > 0 => reinjected[f]
  /\ \A f \in sch.cands : bursts[f] = 0

TrackerInv ==
  /\ TypeOK
  /\ Seen
  /\ AnchorLeads
  /\ ReadyIsAcked
  /\ TimedOut
  /\ CountedIsSettled
  /\ CountedOnce
  /\ Marked
  /\ ReinjectedOnce
-----------------------------------------------------------------------------
(* A set of naturals that is not empty has a least element.                 *)
LEMMA LeastNatural ==
  ASSUME NEW S, S \subseteq Nat, S # {}
  PROVE  \E m \in S : \A n \in S : m <= n
  <1> DEFINE Less == {p \in Nat \X Nat : p[1] < p[2]}
  <1>1. IsWellFoundedOn(Less, Nat)
    BY NatLessThanWellFounded DEF OpToRel
  <1> HIDE DEF Less
  <1>2. PICK m \in S : \A n \in S : <<n, m>> \notin Less
    BY <1>1, WFMin
  <1>3. \A n \in S : ~(n < m)
    BY <1>2 DEF Less
  <1>4. QED
    BY <1>3

(* Frames are positive numbers.                                             *)
LEMMA FramesAreNumbers ==
  MaxFrames \in Nat /\ \A f \in Frames : f \in Nat /\ f >= 1 /\ f <= MaxFrames
  BY TrackerAssumption DEF Frames

(* Anchor is the oldest of a set of frames, and 0 if there is none.         *)
LEMMA AnchorIsLeast ==
  ASSUME NEW S \in SUBSET Frames
  PROVE  /\ S = {} => Anchor(S) = 0
         /\ S # {} => Anchor(S) \in S
         /\ \A f \in S : Anchor(S) <= f
         /\ Anchor(S) \in 0 .. MaxFrames
  <1>1. CASE S = {}
    BY <1>1, FramesAreNumbers DEF Anchor
  <1>2. CASE S # {}
    <2>1. S \subseteq Nat
      BY FramesAreNumbers
    <2>2. \E f \in S : \A g \in S : f <= g
      BY <1>2, <2>1, LeastNatural
    <2>3. Anchor(S) \in S /\ \A g \in S : Anchor(S) <= g
      BY <1>2, <2>2 DEF Anchor
    <2>4. Anchor(S) \in 0 .. MaxFrames
      BY <2>3, FramesAreNumbers
    <2>5. QED
      BY <1>2, <2>3, <2>4
  <1>3. QED
    BY <1>1, <1>2

(* There is a newest frame among the tracked ones, and the scheduler's      *)
(* choice of it is a frame.                                                 *)
LEMMA NewestIsFrame ==
  ASSUME NEW S \in SUBSET Frames, S # {}
  PROVE  (CHOOSE f \in Last(S) : TRUE) \in 0 .. MaxFrames
  <1> DEFINE Flipped == {MaxFrames - f : f \in S}
  <1>1. Flipped \subseteq Nat /\ Flipped # {}
    <2>1. \A f \in S : MaxFrames - f \in Nat
      BY FramesAreNumbers
    <2>2. QED
      BY <2>1
  <1>2. PICK m \in Flipped : \A n \in Flipped : m <= n
    BY <1>1, LeastNatural
  <1>3. PICK f \in S : m = MaxFrames - f
    BY <1>2
  <1>4. \A g \in S : MaxFrames - f <= MaxFrames - g
    BY <1>2, <1>3
  <1>5. \A g \in S : g <= f
    BY <1>4, FramesAreNumbers
  <1>6. f \in Last(S)
    BY <1>5 DEF Last
  <1>7. \A g \in Last(S) : g \in 0 .. MaxFrames
    BY FramesAreNumbers DEF Last
  <1>8. QED
    BY <1>6, <1>7

(* The bytes of a frame are laid on path or link numbers.                   *)
LEMMA TargetsType ==
  ASSUME NEW R \in SUBSET Paths, NEW bytes \in Nat, NEW t \in Targets(R, bytes)
  PROVE  DOMAIN t \subseteq Keys /\ \A k \in DOMAIN t : t[k] \in Nat
  <1>1. NumLinks \in Nat /\ NumLinks >= 1 /\ Percents \subseteq 0 .. 100
    BY TrackerAssumption
  <1>2. R \subseteq Keys /\ 1 \in Keys /\ \A p \in R : p + 1 \in Keys
    BY <1>1 DEF Paths, Keys
  <1>3. CASE t \in Splits(R, bytes)
    <2>1. \A p \in Percents : (bytes * p) \div 100 \in Nat
      <3>1. SUFFICES ASSUME NEW p \in Percents PROVE (bytes * p) \div 100 \in Nat
        OBVIOUS
      <3>2. p \in Nat
        BY <1>1
      <3>3. bytes * p \in Nat
        BY <3>2
      <3>4. QED
        BY <3>3
    <2>2. PICK s \in [R \ Last(R) -> {(bytes * p) \div 100 : p \in Percents}] :
            /\ Rest(s, bytes) \in 0 .. bytes
            /\ t = [k \in R |-> IF k \in Last(R) THEN Rest(s, bytes) ELSE s[k]]
      BY <1>3 DEF Splits
    <2>3. \A k \in R \ Last(R) : s[k] \in Nat
      BY <2>1, <2>2
    <2>4. QED
      BY <2>2, <2>3, <1>2
  <1>4. CASE t \in {[k \in {1} |-> bytes]} \cup {[k \in {p + 1} |-> bytes] : p \in R}
    BY <1>2, <1>4
  <1>5. QED
    BY <1>3, <1>4 DEF Targets
-----------------------------------------------------------------------------
(* Each kind of step preserves the types.                                   *)

(* Initial states are of the right types.                                   *)
LEMMA InitType == Init => TypeOK
  <1>1. NumLinks \in Nat /\ MaxFrames \in Nat
    BY TrackerAssumption
  <1>2. QED
    BY <1>1 DEF Init, TypeOK, IdleKpm, IdleSch, KpmType, SchType, NoBytes, Status

(* Only what a step assigns has to be looked at.                            *)
LEMMA AddPacketType ==
  ASSUME TypeOK, NEW f \in Frames, NEW isMarker \in BOOLEAN,
         NEW size \in {0, PacketSize}, AddPacket(f, isMarker, size)
  PROVE  TypeOK'
  <1>1. total[f] + size \in Nat
    BY TrackerAssumption DEF TypeOK
  <1>2. \A R \in RatiosSeen : R \in SUBSET Paths
    BY DEF RatiosSeen, TypeOK, SchType
  <1>3. carriers' \in [Frames -> SUBSET Keys] /\ target' \in [Frames -> [Keys -> Nat]]
    <2>1. CASE SetsMarker(f, isMarker)
      <3>1. PICK R \in RatiosSeen : \E t \in Targets(R, total[f] + size) :
              /\ carriers' = [carriers EXCEPT ![f] = DOMAIN t]
              /\ target' = [target EXCEPT ![f] =
                              [k \in Keys |-> IF k \in DOMAIN t THEN t[k] ELSE 0]]
        BY <2>1 DEF AddPacket
      <3>2. PICK t \in Targets(R, total[f] + size) :
              /\ carriers' = [carriers EXCEPT ![f] = DOMAIN t]
              /\ target' = [target EXCEPT ![f] =
                              [k \in Keys |-> IF k \in DOMAIN t THEN t[k] ELSE 0]]
        BY <3>1
      <3>3. DOMAIN t \subseteq Keys /\ \A k \in DOMAIN t : t[k] \in Nat
        BY <1>1, <1>2, <3>1, <3>2, TargetsType
      <3>4. QED
        BY <3>2, <3>3 DEF TypeOK
    <2>2. CASE ~SetsMarker(f, isMarker)
      BY <2>2 DEF AddPacket, TypeOK
    <2>3. QED
      BY <2>1, <2>2
  <1>4. status' \in [Frames -> Status] /\ total' \in [Frames -> Nat]
    BY <1>1 DEF AddPacket, TypeOK, Status
  <1>5. marker' \in [Frames -> BOOLEAN]
    BY DEF AddPacket, TypeOK
  <1>6. recent_timestamp_' \in 0 .. MaxFrames /\ oldest_inflight_' \in 0 .. MaxFrames
    BY FramesAreNumbers DEF AddPacket, TypeOK
  <1>7. UNCHANGED <<acked, reinjected, ready_frames_, ratios, kpm, sch, delays,
                    expired, bursts>>
    BY DEF AddPacket, history
  <1>8. QED
    BY <1>3, <1>4, <1>5, <1>6, <1>7 DEF TypeOK

(* A skipped packet touches the markers only.                               *)
LEMMA SkipPacketType ==
  ASSUME TypeOK, NEW f \in Frames, SkipPacket(f)
  PROVE  TypeOK'
  BY DEF SkipPacket, TypeOK, anchor, history

(* A report sets the locals of the KPM thread.                              *)
LEMMA ReportType ==
  ASSUME TypeOK, KpmReport
  PROVE  TypeOK'
  <1>1. PICK l \in Links, bytes \in Reports : Report(l, bytes)
    BY DEF KpmReport
  <1>2. l \in 0 .. NumLinks /\ bytes \in Nat /\ 0 \in 0 .. MaxFrames
    BY TrackerAssumption DEF Links
  <1>3. kpm' \in KpmType
    BY <1>1, <1>2 DEF Report, IdleKpm, KpmType
  <1>4. QED
    BY <1>1, <1>3 DEF Report, TypeOK, info, anchor, history

(* The bytes a report gives a frame are no more than it has left.           *)
LEMMA AppliedBound ==
  ASSUME TypeOK, NEW f \in Frames, Concerned(f)
  PROVE  Applied(f) \in Nat /\ kpm.rem - Applied(f) \in Nat /\ kpm.link \in Keys
  <1>1. kpm.link \in Keys
    BY DEF TypeOK, Concerned
  <1>2. target[f][kpm.link] \in Nat /\ acked[f][kpm.link] \in Nat /\ kpm.rem \in Nat
    BY <1>1 DEF TypeOK, KpmType
  <1>3. Needed(f) \in Nat
    BY <1>2 DEF Needed
  <1>4. QED
    BY <1>1, <1>2, <1>3 DEF Applied

(* Acknowledging bytes keeps counts natural and the anchor a frame or 0.    *)
LEMMA ApplyAckType ==
  ASSUME TypeOK, ApplyAck
  PROVE  TypeOK'
  <1>1. PICK f \in First(Unvisited) :
          /\ Concerned(f)
          /\ acked' = [acked EXCEPT ![f] =
                         [acked[f] EXCEPT ![kpm.link] = @ + Applied(f)]]
          /\ Acknowledge(f, [acked[f] EXCEPT ![kpm.link] = @ + Applied(f)])
    BY DEF ApplyAck
  <1>2. f \in Frames /\ f \in 0 .. MaxFrames
    BY FramesAreNumbers DEF First, Unvisited, Tracked
  <1>3. Applied(f) \in Nat /\ kpm.rem - Applied(f) \in Nat /\ kpm.link \in Keys
    BY <1>1, <1>2, AppliedBound
  <1>4. acked' \in [Frames -> [Keys -> Nat]]
    BY <1>1, <1>2, <1>3 DEF TypeOK
  <1>5. Anchor(InProgress) \in 0 .. MaxFrames
    BY AnchorIsLeast DEF InProgress
  <1>6. Drained(Anchor(InProgress)) \subseteq Frames
    BY DEF Drained, First, TypeOK
  <1>7. /\ kpm' \in KpmType
        /\ oldest_inflight_' \in 0 .. MaxFrames
        /\ ready_frames_' \subseteq Frames
    <2> DEFINE got == [acked[f] EXCEPT ![kpm.link] = @ + Applied(f)]
    <2>1. CASE ~(FullyAcked(f, got) /\ marker[f])
      <3>1. kpm' = [kpm EXCEPT !.at = f, !.rem = @ - Applied(f)] /\ UNCHANGED anchor
        BY <1>1, <2>1 DEF Acknowledge
      <3>2. kpm' \in KpmType
        BY <3>1, <1>2, <1>3 DEF TypeOK, KpmType
      <3>3. QED
        BY <3>1, <3>2 DEF TypeOK, anchor
    <2>2. CASE (FullyAcked(f, got) /\ marker[f]) /\ f = oldest_inflight_
      <3>1. /\ kpm' = [kpm EXCEPT !.at = f, !.rem = @ - Applied(f),
                       !.todo = @ \cup {f} \cup Drained(Anchor(InProgress))]
            /\ oldest_inflight_' = Anchor(InProgress)
            /\ ready_frames_' = ready_frames_ \ Drained(Anchor(InProgress))
        BY <1>1, <2>2 DEF Acknowledge
      <3>2. kpm' \in KpmType
        BY <3>1, <1>2, <1>3, <1>6 DEF TypeOK, KpmType
      <3>3. QED
        BY <3>1, <3>2, <1>5 DEF TypeOK
    <2>3. CASE (FullyAcked(f, got) /\ marker[f]) /\ f # oldest_inflight_
      <3>1. /\ kpm' = [kpm EXCEPT !.at = f, !.rem = @ - Applied(f)]
            /\ ready_frames_' = ready_frames_ \cup {f}
            /\ UNCHANGED oldest_inflight_
        BY <1>1, <2>3 DEF Acknowledge
      <3>2. kpm' \in KpmType
        BY <3>1, <1>2, <1>3 DEF TypeOK, KpmType
      <3>3. QED
        BY <3>1, <3>2, <1>2 DEF TypeOK
    <2>4. QED
      BY <2>1, <2>2, <2>3
  <1>8. QED
    BY <1>4, <1>7 DEF ApplyAck, TypeOK, history

(* The steps of the scan that change no frame.                              *)
LEMMA ScanType ==
  ASSUME TypeOK, PassOver \/ EndScan
  PROVE  TypeOK'
  <1>1. CASE PassOver
    <2>1. PICK f \in First(Unvisited) : kpm' = [kpm EXCEPT !.at = f]
      BY <1>1 DEF PassOver
    <2>2. f \in 0 .. MaxFrames
      BY FramesAreNumbers DEF First, Unvisited, Tracked
    <2>3. kpm' \in KpmType
      BY <2>1, <2>2 DEF TypeOK, KpmType
    <2>4. QED
      BY <1>1, <2>3 DEF PassOver, TypeOK, info, anchor, history
  <1>2. CASE EndScan
    <2>1. 0 \in 0 .. MaxFrames /\ 0 \in 0 .. NumLinks
      BY TrackerAssumption
    <2>2. kpm' \in KpmType
      BY <1>2, <2>1 DEF EndScan, IdleKpm, TypeOK, KpmType
    <2>3. QED
      BY <1>2, <2>2 DEF EndScan, TypeOK, info, anchor, history
  <1>3. QED
    BY <1>1, <1>2

(* completeFrame leaves a complete frame and one more entry of its delay.   *)
LEMMA CompleteFrameType ==
  ASSUME TypeOK, CompleteFrame
  PROVE  TypeOK'
  <1>1. PICK f \in First(kpm.todo) :
          /\ kpm' = [kpm EXCEPT !.todo = @ \ {f}]
          /\ IF CompletesNow(f)
             THEN /\ status' = [status EXCEPT ![f] = "complete"]
                  /\ delays' = [delays EXCEPT ![f] = @ + 1]
             ELSE UNCHANGED <<status, delays>>
    BY DEF CompleteFrame
  <1>2. kpm' \in KpmType
    BY <1>1 DEF TypeOK, KpmType
  <1>3. status' \in [Frames -> Status] /\ delays' \in [Frames -> Nat]
    <2>0. f \in Frames
      BY DEF First, TypeOK, KpmType
    <2>1. CASE CompletesNow(f)
      <3>1. /\ status' = [status EXCEPT ![f] = "complete"]
            /\ delays' = [delays EXCEPT ![f] = @ + 1]
        BY <1>1, <2>1
      <3>2. status \in [Frames -> Status] /\ delays \in [Frames -> Nat]
        BY DEF TypeOK
      <3>3. "complete" \in Status /\ delays[f] + 1 \in Nat
        BY <2>0, <3>2 DEF Status
      <3>4. QED
        BY <3>1, <3>2, <3>3
    <2>2. CASE ~CompletesNow(f)
      BY <1>1, <2>2 DEF TypeOK
    <2>3. QED
      BY <2>1, <2>2
  <1>4. QED
    BY <1>2, <1>3 DEF CompleteFrame, TypeOK, info, anchor

(* Clean-up resets the frames that go and chooses the anchor anew.          *)
LEMMA CleanupType ==
  ASSUME TypeOK, NEW idle \in SUBSET InProgress, CleanupOldFrames(idle)
  PROVE  TypeOK'
  <1>1. Anchor(InProgress \ idle) \in 0 .. MaxFrames
    <2>1. InProgress \ idle \in SUBSET Frames
      BY DEF InProgress
    <2>2. QED
      BY <2>1, AnchorIsLeast
  <1>2. Drained(Anchor(InProgress \ idle)) \subseteq Frames
    BY DEF Drained, First, TypeOK
  <1>3. 0 \in 0 .. MaxFrames /\ 0 \in 0 .. NumLinks
    BY TrackerAssumption
  <1>4. kpm' \in KpmType
    <2>1. \/ kpm' = IdleKpm
          \/ kpm' = [IdleKpm EXCEPT !.pc = "relock",
                                    !.todo = Drained(Anchor(InProgress \ idle))]
      BY DEF CleanupOldFrames
    <2>2. IdleKpm \in KpmType
      BY <1>3 DEF IdleKpm, KpmType
    <2>3. [IdleKpm EXCEPT !.pc = "relock",
                          !.todo = Drained(Anchor(InProgress \ idle))] \in KpmType
      BY <2>2, <1>2 DEF KpmType
    <2>4. QED
      BY <2>1, <2>2, <2>3
  <1>5. oldest_inflight_' \in 0 .. MaxFrames /\ ready_frames_' \subseteq Frames
    BY <1>1 DEF CleanupOldFrames, TypeOK, anchor
  <1>6. status' \in [Frames -> Status] /\ total' \in [Frames -> Nat]
    BY DEF CleanupOldFrames, TypeOK, Status
  <1>7. marker' \in [Frames -> BOOLEAN] /\ reinjected' \in [Frames -> BOOLEAN]
    BY DEF CleanupOldFrames
  <1>8. /\ carriers' \in [Frames -> SUBSET Keys]
        /\ target' \in [Frames -> [Keys -> Nat]]
        /\ acked' \in [Frames -> [Keys -> Nat]]
    BY DEF CleanupOldFrames, TypeOK, NoBytes
  <1>9. UNCHANGED <<recent_timestamp_, ratios, sch, delays, expired, bursts>>
    BY DEF CleanupOldFrames, history
  <1>10. QED
    BY <1>4, <1>5, <1>6, <1>7, <1>8, <1>9 DEF TypeOK

(* The steps of the scheduler thread.                                       *)
LEMMA SchedulerType ==
  ASSUME TypeOK, Scheduler
  PROVE  TypeOK'
  <1>0. 0 \in 0 .. MaxFrames
    BY TrackerAssumption
  <1>1. CASE \E R \in Plans : BeginSave(R)
    <2>1. PICK R \in Plans : BeginSave(R)
      BY <1>1
    <2>2. R \in SUBSET Paths
      BY TrackerAssumption DEF Paths
    <2>3. sch' \in SchType
      BY <1>0, <2>1, <2>2 DEF BeginSave, IdleSch, SchType
    <2>4. QED
      BY <2>1, <2>3 DEF BeginSave, TypeOK, info, anchor, history
  <1>2. CASE \E next \in {"idle", "newest"} : EndSave(next)
    <2>1. PICK next \in {"idle", "newest"} : EndSave(next)
      BY <1>2
    <2>2. sch' \in SchType /\ ratios' \subseteq Paths
      BY <1>0, <2>1 DEF EndSave, IdleSch, SchType, TypeOK
    <2>3. QED
      BY <2>1, <2>2 DEF EndSave, TypeOK, info, anchor, history
  <1>3. CASE GetNewestFrameTs
    <2>1. Tracked \in SUBSET Frames
      BY DEF Tracked
    <2>2. (IF Tracked = {} THEN 0 ELSE CHOOSE f \in Last(Tracked) : TRUE) \in 0 .. MaxFrames
      BY <1>0, <2>1, NewestIsFrame
    <2>3. sch' \in SchType
      BY <1>3, <2>2 DEF GetNewestFrameTs, SchType, TypeOK
    <2>4. QED
      BY <1>3, <2>3 DEF GetNewestFrameTs, TypeOK, info, anchor, history
  <1>4. CASE Sweep
    <2>1. PICK age \in 0 .. MaxFrames : SweepInProgressFrames(age)
      BY <1>4 DEF Sweep
    <2>2. AtRisk \in SUBSET Frames /\ SweptLate(age) \in SUBSET Frames
      BY DEF AtRisk, Swept, SweptLate, InProgress
    <2>3. sch' \in SchType
      BY <1>0, <2>1, <2>2 DEF SweepInProgressFrames, IdleSch, SchType
    <2>4. status' \in [Frames -> Status] /\ delays' \in [Frames -> Nat]
      BY <2>1 DEF SweepInProgressFrames, TypeOK, Status
    <2>5. marker' \in [Frames -> BOOLEAN]
      BY <2>1 DEF SweepInProgressFrames
    <2>6. expired' \subseteq Frames
      BY <2>1, <2>2 DEF SweepInProgressFrames, TypeOK
    <2>7. QED
      BY <2>1, <2>3, <2>4, <2>5, <2>6 DEF SweepInProgressFrames, TypeOK, anchor
  <1>5. CASE \E f \in Frames : Fire(f)
    <2>1. PICK f \in Frames : Fire(f)
      BY <1>5
    <2>2. sch' \in SchType
      BY <2>1 DEF Fire, SchType, TypeOK
    <2>3. bursts' \in [Frames -> Nat] /\ reinjected' \in [Frames -> BOOLEAN]
      BY <2>1 DEF Fire, TypeOK
    <2>4. QED
      BY <2>1, <2>2, <2>3 DEF Fire, TypeOK, anchor
  <1>6. CASE EndSweep
    <2>1. sch' \in SchType
      BY <1>0, <1>6 DEF EndSweep, IdleSch, SchType
    <2>2. QED
      BY <1>6, <2>1 DEF EndSweep, TypeOK, info, anchor, history
  <1>7. QED
    BY <1>1, <1>2, <1>3, <1>4, <1>5, <1>6 DEF Scheduler

(* Every step preserves the types.                                          *)
LEMMA NextType ==
  ASSUME TypeOK, [Next]_vars
  PROVE  TypeOK'
  <1>1. CASE Packet
    BY <1>1, AddPacketType, SkipPacketType DEF Packet
  <1>2. CASE KpmReport
    BY <1>2, ReportType
  <1>3. CASE Kpm
    BY <1>3, ApplyAckType, ScanType, CompleteFrameType, CleanupType
    DEF Kpm, Cleanup, Idle
  <1>4. CASE Scheduler
    BY <1>4, SchedulerType
  <1>5. CASE UNCHANGED vars
    BY <1>5 DEF vars, TypeOK, info, anchor, history
  <1>6. QED
    BY <1>1, <1>2, <1>3, <1>4, <1>5 DEF Next

(* The tracker keeps its types: reports never leave a negative remainder,   *)
(* and whatever the scheduler decides, targets stand under link or path     *)
(* numbers.                                                                 *)
THEOREM TrackerTypeInvariance == Spec => []TypeOK
  <1>1. TypeOK /\ [Next]_vars => TypeOK'
    BY NextType
  <1>2. QED
    BY <1>1, InitType, PTL DEF Spec
-----------------------------------------------------------------------------
(* TrackerInv without the types; each step has to preserve it.              *)
Bookkeeping ==
  /\ Seen
  /\ AnchorLeads
  /\ ReadyIsAcked
  /\ TimedOut
  /\ CountedIsSettled
  /\ CountedOnce
  /\ Marked
  /\ ReinjectedOnce

(* Steps that leave the frames alone and add no candidate.                  *)
LEMMA QuietStep ==
  ASSUME Bookkeeping,
         UNCHANGED <<status, marker, carriers, target, acked, reinjected,
                     recent_timestamp_, oldest_inflight_, ready_frames_,
                     delays, expired, bursts>>,
         sch'.cands \subseteq sch.cands
  PROVE  Bookkeeping'
  <1>1. Tracked' = Tracked /\ InProgress' = InProgress
    BY DEF Tracked, InProgress
  <1>2. Seen'
    BY <1>1 DEF Bookkeeping, Seen, Traces
  <1>3. AnchorLeads' /\ TimedOut' /\ CountedIsSettled' /\ CountedOnce' /\ ReinjectedOnce'
    BY <1>1 DEF Bookkeeping, AnchorLeads, TimedOut, CountedIsSettled, CountedOnce,
                ReinjectedOnce
  <1>4. ReadyIsAcked'
    BY <1>1 DEF Bookkeeping, ReadyIsAcked, FullyAcked
  <1>5. Marked'
    BY <1>1 DEF Bookkeeping, Marked
  <1>6. QED
    BY <1>2, <1>3, <1>4, <1>5 DEF Bookkeeping

(* A packet that is skipped may close a frame and does nothing else.        *)
LEMMA SkipPacketStep ==
  ASSUME TypeOK, Bookkeeping, NEW f \in Frames, SkipPacket(f)
  PROVE  Bookkeeping'
  <1>1. UNCHANGED <<status, carriers, target, acked, reinjected, recent_timestamp_,
                    oldest_inflight_, ready_frames_, sch, delays, expired, bursts>>
    BY DEF SkipPacket, anchor, history
  <1>2. Tracked' = Tracked /\ InProgress' = InProgress /\ sch'.cands = sch.cands
    BY <1>1 DEF Tracked, InProgress
  <1>3. \A g \in Frames : marker[g] => marker'[g]
    BY DEF SkipPacket
  <1>4. Seen'
    BY <1>1, <1>2 DEF Bookkeeping, Seen, Traces
  <1>5. AnchorLeads' /\ TimedOut' /\ CountedIsSettled' /\ CountedOnce' /\ ReinjectedOnce'
    BY <1>1, <1>2 DEF Bookkeeping, AnchorLeads, TimedOut, CountedIsSettled,
                      CountedOnce, ReinjectedOnce
  <1>6. ReadyIsAcked'
    BY <1>1, <1>2, <1>3 DEF Bookkeeping, ReadyIsAcked, FullyAcked, InProgress
  <1>7. Marked'
    BY <1>1, <1>2 DEF Bookkeeping, Marked
  <1>8. QED
    BY <1>4, <1>5, <1>6, <1>7 DEF Bookkeeping

(* A packet of a tracked frame: a frame that waits in ready_frames_ has its *)
(* marker, so its targets stay.                                             *)
LEMMA OldFramePacketStep ==
  ASSUME TypeOK, Bookkeeping, NEW f \in Frames, NEW isMarker \in BOOLEAN,
         NEW size \in {0, PacketSize}, AddPacket(f, isMarker, size),
         status[f] # "none"
  PROVE  Bookkeeping'
  <1>1. UNCHANGED <<acked, reinjected, recent_timestamp_, oldest_inflight_,
                    ready_frames_, sch, delays, expired, bursts>>
    BY DEF AddPacket, history
  <1>2. status' = status
    BY DEF AddPacket, TypeOK
  <1>3. Tracked' = Tracked /\ InProgress' = InProgress /\ sch'.cands = sch.cands
    BY <1>1, <1>2 DEF Tracked, InProgress
  <1>4. \A g \in Frames : marker[g] => marker'[g]
    BY DEF AddPacket
  <1>5. \A g \in Frames : marker[g] => carriers'[g] = carriers[g] /\ target'[g] = target[g]
    <2>1. CASE SetsMarker(f, isMarker)
      <3>1. ~marker[f]
        BY <2>1 DEF SetsMarker
      <3>2. PICK c, b : carriers' = [carriers EXCEPT ![f] = c]
                        /\ target' = [target EXCEPT ![f] = b]
        BY <2>1 DEF AddPacket
      <3>3. QED
        BY <3>1, <3>2 DEF TypeOK
    <2>2. CASE ~SetsMarker(f, isMarker)
      BY <2>2 DEF AddPacket
    <2>3. QED
      BY <2>1, <2>2
  <1>6. Seen'
    BY <1>1, <1>3 DEF Bookkeeping, Seen, Traces
  <1>7. AnchorLeads' /\ TimedOut' /\ CountedIsSettled' /\ CountedOnce' /\ ReinjectedOnce'
    BY <1>1, <1>2, <1>3 DEF Bookkeeping, AnchorLeads, TimedOut, CountedIsSettled,
                            CountedOnce, ReinjectedOnce
  <1>8. ReadyIsAcked'
    BY <1>1, <1>3, <1>4, <1>5 DEF Bookkeeping, ReadyIsAcked, FullyAcked, InProgress
  <1>9. Marked'
    BY <1>1, <1>3 DEF Bookkeeping, Marked
  <1>10. QED
    BY <1>6, <1>7, <1>8, <1>9 DEF Bookkeeping

(* A packet that creates a frame: by Seen nothing is known of that frame.   *)
LEMMA NewFramePacketStep ==
  ASSUME TypeOK, Bookkeeping, NEW f \in Frames, NEW isMarker \in BOOLEAN,
         NEW size \in {0, PacketSize}, AddPacket(f, isMarker, size),
         status[f] = "none"
  PROVE  Bookkeeping'
  <1>1. UNCHANGED <<acked, reinjected, ready_frames_, sch, delays, expired, bursts>>
    BY DEF AddPacket, history
  <1>2. /\ status' = [status EXCEPT ![f] = "inprogress"]
        /\ recent_timestamp_' = f
        /\ oldest_inflight_' = IF oldest_inflight_ = 0 THEN f ELSE oldest_inflight_
        /\ ~(f <= recent_timestamp_)
    BY DEF AddPacket, Skips, TypeOK
  <1>3. /\ InProgress' = InProgress \cup {f}
        /\ Tracked' = Tracked \cup {f}
        /\ \A g \in Frames : g # f => status'[g] = status[g]
    BY <1>2 DEF InProgress, Tracked, TypeOK
  <1>4. /\ recent_timestamp_ \in Nat /\ oldest_inflight_ \in Nat /\ f \in Nat
        /\ recent_timestamp_ < f
    BY <1>2, FramesAreNumbers DEF TypeOK
  <1>5. ~Traces(f)
    BY <1>2 DEF Bookkeeping, Seen
  <1>6. f \notin ready_frames_ /\ f \notin sch.cands /\ delays[f] = 0 /\ bursts[f] = 0
    BY <1>5 DEF Traces, TypeOK
  <1>7. Seen'
    <2>1. oldest_inflight_' <= f
      BY <1>2, <1>4 DEF Bookkeeping, Seen
    <2>2. ASSUME NEW g \in Frames, Traces(g)', g # f PROVE g <= f
      <3>1. Traces(g)
        BY <1>1, <1>3, <2>2 DEF Traces
      <3>2. g <= recent_timestamp_
        BY <3>1 DEF Bookkeeping, Seen
      <3>3. QED
        BY <1>4, <3>2, FramesAreNumbers
    <2>3. QED
      BY <1>2, <1>4, <2>1, <2>2 DEF Seen
  <1>8. AnchorLeads'
    <2>1. ASSUME NEW g \in InProgress PROVE oldest_inflight_' \in 1 .. g
      BY <1>2, <1>4, FramesAreNumbers DEF Bookkeeping, AnchorLeads, InProgress
    <2>2. oldest_inflight_' \in 1 .. f
      BY <1>2, <1>4, FramesAreNumbers DEF Bookkeeping, Seen
    <2>3. QED
      BY <1>3, <2>1, <2>2 DEF AnchorLeads
  <1>9. ReadyIsAcked'
    <2>1. ASSUME NEW g \in Frames, g # f
          PROVE  /\ marker[g] => marker'[g]
                 /\ carriers'[g] = carriers[g] /\ target'[g] = target[g]
      <3>1. marker[g] => marker'[g]
        BY DEF AddPacket
      <3>2. \/ UNCHANGED <<carriers, target>>
            \/ \E c, b : carriers' = [carriers EXCEPT ![f] = c]
                         /\ target' = [target EXCEPT ![f] = b]
        BY DEF AddPacket
      <3>3. QED
        BY <2>1, <3>1, <3>2 DEF TypeOK
    <2>2. \A g \in ready_frames_ \cap InProgress : g \in Frames /\ g # f
      BY <1>6 DEF InProgress
    <2>3. QED
      BY <1>1, <1>3, <1>6, <2>1, <2>2 DEF Bookkeeping, ReadyIsAcked, FullyAcked
  <1>10. TimedOut' /\ CountedIsSettled' /\ CountedOnce' /\ ReinjectedOnce'
    BY <1>1, <1>2, <1>3, <1>6 DEF Bookkeeping, TimedOut, CountedIsSettled, CountedOnce,
                            ReinjectedOnce, TypeOK
  <1>11. Marked'
    BY <1>1, <1>3, <1>6 DEF Bookkeeping, Marked
  <1>12. QED
    BY <1>7, <1>8, <1>9, <1>10, <1>11 DEF Bookkeeping

(* A report: what is acknowledged only grows, a frame enters ready_frames_  *)
(* acknowledged, and a new anchor is the oldest frame in progress.          *)
LEMMA ApplyAckStep ==
  ASSUME TypeOK, Bookkeeping, ApplyAck
  PROVE  Bookkeeping'
  <1>1. PICK f \in First(Unvisited) :
          /\ Concerned(f)
          /\ acked' = [acked EXCEPT ![f] =
                         [acked[f] EXCEPT ![kpm.link] = @ + Applied(f)]]
          /\ Acknowledge(f, [acked[f] EXCEPT ![kpm.link] = @ + Applied(f)])
    BY DEF ApplyAck
  <1>2. f \in Frames /\ f \in InProgress /\ f \in Tracked
    BY <1>1 DEF First, Unvisited, Tracked, Concerned, InProgress
  <1>3. UNCHANGED <<status, marker, carriers, target, reinjected, recent_timestamp_,
                    sch, delays, expired, bursts>>
    BY DEF ApplyAck, history
  <1>4. Tracked' = Tracked /\ InProgress' = InProgress /\ sch'.cands = sch.cands
    BY <1>3 DEF Tracked, InProgress
  <1> DEFINE a == Anchor(InProgress)
             got == [acked[f] EXCEPT ![kpm.link] = @ + Applied(f)]
  <1>5. a \in InProgress /\ \A g \in InProgress : a <= g
    <2>1. InProgress \in SUBSET Frames
      BY DEF InProgress
    <2>2. QED
      BY <1>2, <2>1, AnchorIsLeast
  <1>6. /\ UNCHANGED oldest_inflight_ \/ oldest_inflight_' = a
        /\ \/ ready_frames_' \subseteq ready_frames_
           \/ ready_frames_' = ready_frames_ \cup {f} /\ FullyAcked(f, got) /\ marker[f]
    BY <1>1 DEF Acknowledge, anchor
  <1> HIDE DEF a
  <1>7. a \in Nat /\ a >= 1 /\ a <= recent_timestamp_ /\ f <= recent_timestamp_
    <2>1. a \in Frames /\ Traces(a) /\ Traces(f)
      BY <1>2, <1>5 DEF InProgress, Tracked, Traces
    <2>2. QED
      BY <2>1, <1>2, FramesAreNumbers DEF Bookkeeping, Seen
  <1>8. Seen'
    <2>1. ASSUME NEW g \in Frames, Traces(g)' PROVE Traces(g) \/ g = f
      BY <2>1, <1>3, <1>4, <1>6 DEF Traces
    <2>2. QED
      BY <2>1, <1>3, <1>6, <1>7 DEF Bookkeeping, Seen
  <1>9. AnchorLeads'
    <2>1. \A g \in InProgress : g \in Nat
      BY FramesAreNumbers DEF InProgress
    <2>2. \A g \in InProgress : a \in 1 .. g
      BY <1>5, <1>7, <2>1
    <2>3. QED
      BY <1>4, <1>6, <2>2 DEF Bookkeeping, AnchorLeads
  <1>10. ReadyIsAcked'
    <2>1. \A g \in Frames : \A k \in Keys : acked[g][k] \in Nat /\ acked'[g][k] \in Nat
                                          /\ acked[g][k] <= acked'[g][k]
      <3>1. Applied(f) \in Nat /\ kpm.link \in Keys
        BY <1>1, <1>2, AppliedBound
      <3>2. QED
        BY <1>1, <1>2, <3>1 DEF TypeOK
    <2>2. ASSUME NEW g \in ready_frames_ \cap InProgress
          PROVE  marker[g] /\ FullyAcked(g, acked'[g])
      <3>1. g \in Frames /\ marker[g] /\ FullyAcked(g, acked[g])
        BY DEF Bookkeeping, ReadyIsAcked, InProgress
      <3>2. ASSUME NEW k \in carriers[g], Enough(target[g][k], acked[g][k])
            PROVE  Enough(target[g][k], acked'[g][k])
        <4>1. k \in Keys
          BY <3>1 DEF TypeOK
        <4>2. target[g][k] \in Nat
          BY <3>1, <4>1 DEF TypeOK
        <4>3. QED
          BY <2>1, <3>1, <3>2, <4>1, <4>2 DEF Enough
      <3>3. QED
        BY <3>1, <3>2 DEF FullyAcked
    <2>3. acked'[f] = got
      BY <1>1, <1>2 DEF TypeOK
    <2>4. ASSUME NEW g \in ready_frames_' \cap InProgress
          PROVE  marker[g] /\ FullyAcked(g, acked'[g])
      BY <1>6, <2>2, <2>3
    <2>5. \A g \in Frames : FullyAcked(g, acked[g])' <=> FullyAcked(g, acked'[g])
      BY <1>3 DEF FullyAcked
    <2>6. QED
      BY <1>3, <1>4, <2>4, <2>5 DEF ReadyIsAcked, InProgress
  <1>11. TimedOut' /\ CountedIsSettled' /\ CountedOnce' /\ ReinjectedOnce' /\ Marked'
    BY <1>3, <1>4 DEF Bookkeeping, TimedOut, CountedIsSettled, CountedOnce,
                      ReinjectedOnce, Marked
  <1>12. QED
    BY <1>8, <1>9, <1>10, <1>11 DEF Bookkeeping

(* A frame is completed once: a complete one is left alone, one in progress *)
(* has not been counted, one timed out by the sweep has been counted once.  *)
LEMMA CompleteFrameStep ==
  ASSUME TypeOK, Bookkeeping, CompleteFrame
  PROVE  Bookkeeping'
  <1>1. PICK f \in First(kpm.todo) :
          IF CompletesNow(f)
          THEN /\ status' = [status EXCEPT ![f] = "complete"]
               /\ delays' = [delays EXCEPT ![f] = @ + 1]
          ELSE UNCHANGED <<status, delays>>
    BY DEF CompleteFrame
  <1>2. f \in Frames
    BY DEF First, TypeOK, KpmType
  <1>3. UNCHANGED <<marker, carriers, target, acked, reinjected, recent_timestamp_,
                    oldest_inflight_, ready_frames_, sch, expired, bursts>>
    BY DEF CompleteFrame, info, anchor
  <1>4. CASE ~CompletesNow(f)
    BY <1>1, <1>3, <1>4, QuietStep
  <1>5. CASE CompletesNow(f)
    <2>1. /\ status' = [status EXCEPT ![f] = "complete"]
          /\ delays' = [delays EXCEPT ![f] = @ + 1]
          /\ status[f] \in {"inprogress", "timeout"}
      BY <1>1, <1>5 DEF CompletesNow
    <2>2. /\ InProgress' = InProgress \ {f}
          /\ Tracked' = Tracked
          /\ \A g \in Frames : g # f => status'[g] = status[g] /\ delays'[g] = delays[g]
          /\ status'[f] = "complete" /\ delays'[f] = delays[f] + 1 /\ delays[f] \in Nat
      BY <1>2, <2>1 DEF InProgress, Tracked, TypeOK
    <2>3. Seen'
      BY <1>2, <1>3, <2>1, <2>2 DEF Bookkeeping, Seen, Traces, Tracked
    <2>4. AnchorLeads' /\ ReadyIsAcked' /\ Marked' /\ ReinjectedOnce'
      BY <1>3, <2>2 DEF Bookkeeping, AnchorLeads, ReadyIsAcked, FullyAcked, Marked,
                        ReinjectedOnce
    <2>5. TimedOut' /\ CountedIsSettled'
      BY <1>3, <2>2 DEF Bookkeeping, TimedOut, CountedIsSettled, InProgress
    <2>6. CountedOnce'
      BY <1>2, <1>3, <2>1, <2>2
      DEF Bookkeeping, TimedOut, CountedIsSettled, CountedOnce, InProgress
    <2>7. QED
      BY <2>3, <2>4, <2>5, <2>6 DEF Bookkeeping
  <1>6. QED
    BY <1>4, <1>5

(* Clean-up: what stays in progress is untouched, and its oldest leads.     *)
LEMMA CleanupStep ==
  ASSUME TypeOK, Bookkeeping, NEW idle \in SUBSET InProgress, CleanupOldFrames(idle)
  PROVE  Bookkeeping'
  <1>1. UNCHANGED <<recent_timestamp_, sch, delays, expired, bursts>>
    BY DEF CleanupOldFrames, history
  <1>2. \A g \in Frames :
          IF g \in Gone(idle) THEN status'[g] = "none"
          ELSE /\ status'[g] = status[g] /\ (marker'[g] <=> marker[g])
               /\ carriers'[g] = carriers[g] /\ target'[g] = target[g]
               /\ acked'[g] = acked[g] /\ (reinjected'[g] <=> reinjected[g])
    BY DEF CleanupOldFrames
  <1>3. /\ InProgress' = InProgress \ idle
        /\ Tracked' \subseteq Tracked
        /\ \A g \in Tracked' : g \in Frames /\ g \notin Gone(idle)
        /\ \A g \in InProgress' : g \in Frames /\ g \notin Gone(idle)
    BY <1>2 DEF InProgress, Tracked, Gone
  <1> DEFINE a == Anchor(InProgress \ idle)
  <1>4. /\ \/ Gone(idle) = {} /\ oldest_inflight_' = oldest_inflight_
           \/ oldest_inflight_' = a
        /\ ready_frames_' \subseteq ready_frames_
    BY DEF CleanupOldFrames, anchor
  <1>5. /\ InProgress \ idle = {} => a = 0
        /\ InProgress \ idle # {} => a \in InProgress \ idle
        /\ \A g \in InProgress \ idle : a <= g
    <2>1. InProgress \ idle \in SUBSET Frames
      BY DEF InProgress
    <2>2. QED
      BY <2>1, AnchorIsLeast
  <1> HIDE DEF a
  <1>6. \A g \in Frames : g \in Nat /\ g >= 1 /\ recent_timestamp_ \in Nat
    BY FramesAreNumbers DEF TypeOK
  <1>7. Seen'
    <2>1. a <= recent_timestamp_
      BY <1>5, <1>6 DEF Bookkeeping, Seen, Traces, InProgress, Tracked, TypeOK
    <2>2. \A g \in Frames : Traces(g)' => Traces(g)
      BY <1>1, <1>3, <1>4 DEF Traces
    <2>3. QED
      BY <1>1, <1>4, <2>1, <2>2 DEF Bookkeeping, Seen
  <1>8. AnchorLeads'
    <2>1. \A g \in InProgress \ idle : a \in 1 .. g
      BY <1>5, <1>6 DEF InProgress
    <2>2. QED
      BY <1>3, <1>4, <2>1 DEF Bookkeeping, AnchorLeads
  <1>9. ReadyIsAcked'
    BY <1>2, <1>3, <1>4 DEF Bookkeeping, ReadyIsAcked, FullyAcked
  <1>10. TimedOut' /\ CountedIsSettled' /\ CountedOnce' /\ ReinjectedOnce'
    BY <1>1, <1>2, <1>3 DEF Bookkeeping, TimedOut, CountedIsSettled, CountedOnce,
                            ReinjectedOnce
  <1>11. Marked'
    BY <1>1, <1>2, <1>3 DEF Bookkeeping, Marked
  <1>12. QED
    BY <1>7, <1>8, <1>9, <1>10, <1>11 DEF Bookkeeping

(* A sweep: only frames in progress, never counted, end or are handed out,  *)
(* and those handed out have no mark and so have had no burst.              *)
LEMMA SweepStep ==
  ASSUME TypeOK, Bookkeeping, NEW age \in 0 .. MaxFrames, SweepInProgressFrames(age)
  PROVE  Bookkeeping'
  <1>1. UNCHANGED <<carriers, target, acked, reinjected, recent_timestamp_,
                    oldest_inflight_, ready_frames_, bursts>>
    BY DEF SweepInProgressFrames, anchor
  <1> DEFINE done == SweptDone
             late == SweptLate(age)
  <1>2. /\ \A g \in Frames : status'[g] = IF g \in done THEN "complete"
                             ELSE IF g \in late THEN "timeout" ELSE status[g]
        /\ \A g \in Frames : delays'[g] = IF g \in done \cup late THEN delays[g] + 1
                                          ELSE delays[g]
        /\ \A g \in Frames : marker[g] => marker'[g]
        /\ expired' = expired \cup late
        /\ sch'.cands = AtRisk
    BY DEF SweepInProgressFrames, IdleSch
  <1>3. /\ done \subseteq InProgress /\ late \subseteq InProgress
        /\ done \cap late = {}
        /\ AtRisk \subseteq InProgress /\ \A g \in AtRisk : ~reinjected[g]
    BY DEF SweptDone, SweptLate, Swept, AtRisk
  <1> HIDE DEF done, late
  <1>4. InProgress' = InProgress \ (done \cup late) /\ Tracked' = Tracked
    BY <1>2, <1>3 DEF InProgress, Tracked
  <1>5. \A g \in InProgress : g \in Frames /\ g \in Tracked /\ delays[g] = 0
    BY DEF Bookkeeping, CountedIsSettled, InProgress, Tracked
  <1>6. Seen'
    <2>1. \A g \in Frames : Traces(g)' => Traces(g)
      BY <1>1, <1>2, <1>3, <1>4, <1>5 DEF Traces
    <2>2. QED
      BY <1>1, <2>1 DEF Bookkeeping, Seen
  <1>7. AnchorLeads' /\ ReinjectedOnce'
    BY <1>1, <1>4 DEF Bookkeeping, AnchorLeads, ReinjectedOnce
  <1>8. ReadyIsAcked'
    BY <1>1, <1>2, <1>4 DEF Bookkeeping, ReadyIsAcked, FullyAcked, InProgress
  <1>9. CountedIsSettled'
    BY <1>2, <1>4, <1>5 DEF CountedIsSettled
  <1>10. TimedOut'
    BY <1>2, <1>3, <1>5 DEF Bookkeeping, TimedOut
  <1>11. CountedOnce'
    BY <1>2, <1>3, <1>5 DEF Bookkeeping, CountedOnce
  <1>12. Marked'
    <2>1. \A g \in AtRisk : bursts[g] = 0
      BY <1>3, <1>5 DEF Bookkeeping, Marked, TypeOK
    <2>2. QED
      BY <1>1, <1>2, <1>4, <2>1 DEF Bookkeeping, Marked
  <1>13. QED
    BY <1>6, <1>7, <1>8, <1>9, <1>10, <1>11, <1>12 DEF Bookkeeping

(* A burst: its frame is a candidate without a burst, and is marked or gone. *)
LEMMA FireStep ==
  ASSUME TypeOK, Bookkeeping, NEW f \in Frames, Fire(f)
  PROVE  Bookkeeping'
  <1>1. UNCHANGED <<status, marker, carriers, target, acked, recent_timestamp_,
                    oldest_inflight_, ready_frames_, delays, expired>>
    BY DEF Fire, anchor
  <1>2. Tracked' = Tracked /\ InProgress' = InProgress
    BY <1>1 DEF Tracked, InProgress
  <1>3. /\ f \in sch.cands /\ sch'.cands = sch.cands \ {f}
        /\ bursts[f] = 0
        /\ \A g \in Frames : bursts'[g] = IF g = f THEN 1 ELSE bursts[g]
        /\ reinjected'[f] = (status[f] # "none")
        /\ \A g \in Frames : g # f => reinjected'[g] = reinjected[g]
    BY DEF Fire, Bookkeeping, Marked, TypeOK, SchType
  <1>4. Seen'
    BY <1>1, <1>2, <1>3 DEF Bookkeeping, Seen, Traces
  <1>5. AnchorLeads' /\ TimedOut' /\ CountedIsSettled' /\ CountedOnce'
    BY <1>1, <1>2 DEF Bookkeeping, AnchorLeads, TimedOut, CountedIsSettled, CountedOnce
  <1>6. ReadyIsAcked'
    BY <1>1, <1>2 DEF Bookkeeping, ReadyIsAcked, FullyAcked
  <1>7. ReinjectedOnce'
    BY <1>3 DEF Bookkeeping, ReinjectedOnce
  <1>8. Marked'
    <2>1. \A g \in sch.cands \ {f} : g \in Frames /\ g # f /\ bursts[g] = 0
      BY DEF TypeOK, SchType, Bookkeeping, Marked
    <2>2. ASSUME NEW g \in Tracked, bursts'[g] > 0 PROVE reinjected'[g]
      <3>1. g \in Frames /\ status[g] # "none" /\ (bursts[g] > 0 => reinjected[g])
        BY DEF Tracked, Bookkeeping, Marked
      <3>2. CASE g = f
        BY <1>3, <3>1, <3>2
      <3>3. CASE g # f
        BY <1>3, <2>2, <3>1, <3>3
      <3>4. QED
        BY <3>2, <3>3
    <2>3. \A g \in sch'.cands : bursts'[g] = 0
      BY <1>3, <2>1
    <2>4. QED
      BY <1>2, <2>2, <2>3 DEF Marked
  <1>9. QED
    BY <1>4, <1>5, <1>6, <1>7, <1>8 DEF Bookkeeping

(* Without frames there is nothing to keep.                                 *)
LEMMA InitBookkeeping == Init => Bookkeeping
  <1>1. SUFFICES ASSUME Init PROVE Bookkeeping
    OBVIOUS
  <1>2. /\ status = [f \in Frames |-> "none"]
        /\ delays = [f \in Frames |-> 0] /\ bursts = [f \in Frames |-> 0]
        /\ oldest_inflight_ = 0 /\ recent_timestamp_ = 0
        /\ ready_frames_ = {} /\ sch = IdleSch
    BY <1>1 DEF Init
  <1>3. /\ \A f \in Frames : delays[f] = 0 /\ bursts[f] = 0 /\ status[f] = "none"
        /\ oldest_inflight_ = 0 /\ recent_timestamp_ = 0
    BY <1>2
  <1>4. Tracked = {}
    BY <1>3 DEF Tracked
  <1>5. InProgress = {}
    BY <1>3 DEF InProgress
  <1>6. sch.cands = {}
    BY <1>2 DEF IdleSch
  <1>7. Seen
    BY <1>2, <1>3, <1>4, <1>6 DEF Seen, Traces
  <1>8. AnchorLeads /\ ReadyIsAcked /\ CountedIsSettled /\ Marked
    BY <1>2, <1>4, <1>5, <1>6 DEF AnchorLeads, ReadyIsAcked, CountedIsSettled, Marked
  <1>9. TimedOut /\ CountedOnce /\ ReinjectedOnce
    BY <1>3 DEF TimedOut, CountedOnce, ReinjectedOnce
  <1>10. QED
    BY <1>7, <1>8, <1>9 DEF Bookkeeping

(* Every step preserves Bookkeeping: one case for each action.              *)
LEMMA NextBookkeeping ==
  ASSUME TypeOK, Bookkeeping, [Next]_vars
  PROVE  Bookkeeping'
  <1>1. CASE Packet
    <2>1. PICK f \in Frames :
            \/ SkipPacket(f)
            \/ \E isMarker \in BOOLEAN, size \in {0, PacketSize} :
                 AddPacket(f, isMarker, size)
      BY <1>1 DEF Packet
    <2>2. QED
      BY <2>1, SkipPacketStep, OldFramePacketStep, NewFramePacketStep
  <1>2. CASE KpmReport
    BY <1>2, QuietStep DEF KpmReport, Report, info, anchor, history
  <1>3. CASE PassOver
    BY <1>3, QuietStep DEF PassOver, info, anchor, history
  <1>4. CASE EndScan
    BY <1>4, QuietStep DEF EndScan, info, anchor, history
  <1>5. CASE ApplyAck \/ CompleteFrame
    BY <1>5, ApplyAckStep, CompleteFrameStep
  <1>6. CASE Cleanup
    BY <1>6, CleanupStep DEF Cleanup, Idle
  <1>7. CASE \E R \in Plans : BeginSave(R)
    <2>1. sch'.cands = {}
      BY <1>7 DEF BeginSave, IdleSch
    <2>2. QED
      BY <1>7, <2>1, QuietStep DEF BeginSave, info, anchor, history
  <1>8. CASE \E next \in {"idle", "newest"} : EndSave(next)
    <2>1. sch'.cands = {}
      BY <1>8 DEF EndSave, IdleSch
    <2>2. QED
      BY <1>8, <2>1, QuietStep DEF EndSave, info, anchor, history
  <1>9. CASE GetNewestFrameTs
    <2>1. sch'.cands = sch.cands
      BY <1>9 DEF GetNewestFrameTs, TypeOK, SchType
    <2>2. QED
      BY <1>9, <2>1, QuietStep DEF GetNewestFrameTs, info, anchor, history
  <1>10. CASE Sweep
    BY <1>10, SweepStep DEF Sweep
  <1>11. CASE \E f \in Frames : Fire(f)
    BY <1>11, FireStep
  <1>12. CASE EndSweep
    <2>1. sch'.cands = {}
      BY <1>12 DEF EndSweep, IdleSch
    <2>2. QED
      BY <1>12, <2>1, QuietStep DEF EndSweep, info, anchor, history
  <1>13. CASE UNCHANGED vars
    BY <1>13, QuietStep DEF vars, info, anchor, history
  <1>14. QED
    BY <1>1, <1>2, <1>3, <1>4, <1>5, <1>6, <1>7, <1>8, <1>9, <1>10, <1>11, <1>12,
       <1>13 DEF Next, Kpm, Scheduler

(* TrackerInv is inductive.                                                 *)
THEOREM TrackerInvariance == Spec => []TrackerInv
  <1>1. Init => TrackerInv
    BY InitType, InitBookkeeping DEF TrackerInv, Bookkeeping
  <1>2. TrackerInv /\ [Next]_vars => TrackerInv'
    <2>1. ASSUME TrackerInv, [Next]_vars PROVE TypeOK' /\ Bookkeeping'
      <3>1. TypeOK /\ Bookkeeping
        BY <2>1 DEF TrackerInv, Bookkeeping
      <3>2. QED
        BY <2>1, <3>1, NextType, NextBookkeeping
    <2>2. QED
      BY <2>1 DEF TrackerInv, Bookkeeping
  <1>3. QED
    BY <1>1, <1>2, PTL DEF Spec

(* The anchor is never newer than a frame in progress, although sweeps end  *)
(* frames without moving it.                                                *)
THEOREM AnchorLeadsAlways == Spec => []AnchorLeads
  <1>1. TrackerInv => AnchorLeads
    BY DEF TrackerInv
  <1>2. QED
    BY <1>1, TrackerInvariance, PTL

(* Whatever packets, markers and decisions come after it was put there, a   *)
(* frame that waits in ready_frames_ is acknowledged.                       *)
THEOREM ReadyFramesAcknowledged == Spec => []ReadyIsAcked
  <1>1. TrackerInv => ReadyIsAcked
    BY DEF TrackerInv
  <1>2. QED
    BY <1>1, TrackerInvariance, PTL

(* frame_delays gets one entry for a frame, or a second after a time-out by *)
(* the sweep.                                                               *)
THEOREM FramesCountedOnce == Spec => []CountedOnce
  <1>1. TrackerInv => CountedOnce
    BY DEF TrackerInv
  <1>2. QED
    BY <1>1, TrackerInvariance, PTL

(* A frame that was counted is never in progress again.                     *)
THEOREM CountedFramesSettled == Spec => []CountedIsSettled
  <1>1. TrackerInv => CountedIsSettled
    BY DEF TrackerInv
  <1>2. QED
    BY <1>1, TrackerInvariance, PTL

(* No frame gets a second burst, also when it is erased between the sweep   *)
(* and markFrameReinjected.                                                 *)
THEOREM OneBurstPerFrame == Spec => []ReinjectedOnce
  <1>1. TrackerInv => ReinjectedOnce
    BY DEF TrackerInv
  <1>2. QED
    BY <1>1, TrackerInvariance, PTL
=============================================================================
