---------------------------- MODULE FrameTracker ----------------------------
(***************************************************************************)
(* The RIC's view of the video frames in flight (RIC/qoe_processor.cpp):   *)
(* the map frames, the anchor oldest_inflight_, the set ready_frames_ of   *)
(* frames acknowledged out of order, and frame_delays, from which the      *)
(* scheduler derives its deadlines.                                        *)
(*                                                                         *)
(* Three threads meet at frames_mutex.  The processing thread adds sniffed *)
(* RTP packets.  The KPM thread spreads the bytes of a link report over    *)
(* the frames, completes those that are acknowledged and cleans up, taking *)
(* the mutex anew for each.  A scheduler thread, one at a time because of  *)
(* its own mutex_, stores the split ratios and sweeps the frames for ones  *)
(* worth a second transmission.                                            *)
(*                                                                         *)
(* A frame is its RTP timestamp.  A frame is created only when its         *)
(* timestamp exceeds that of every frame before it and leaves              *)
(* frame_arrival_order with its entry in frames, so that order is the      *)
(* ascending order of Tracked and is not kept apart.                       *)
(***************************************************************************)
EXTENDS Integers, FiniteSets
LOCAL INSTANCE Functions

CONSTANTS
  MaxFrames,   \* timestamps are 1 .. MaxFrames; 0 is no frame
  NumLinks,    \* links are reported as 1 .. NumLinks
  PacketSize,  \* bytes of a packet
  MaxTotal,    \* bound on the bytes of a frame
  Percents,    \* shares of a frame that a split may give to a path
  Plans,       \* the path sets, keys of split_ratio, a decision may have
  Reports      \* bytes a report may acknowledge

ASSUME TrackerAssumption ==
  /\ {MaxFrames, NumLinks, PacketSize, MaxTotal} \subseteq Nat \ {0}
  /\ Percents \subseteq 0 .. 100
  /\ Plans \subseteq SUBSET (0 .. NumLinks - 1)
  /\ Reports \subseteq Nat \ {0}

Frames == 1 .. MaxFrames
Links  == 1 .. NumLinks
Paths  == 0 .. NumLinks - 1
Keys   == 0 .. NumLinks          \* of rlc_bytes_to_be_arrived
Status == {"none", "inprogress", "complete", "timeout"}

VARIABLES
  status,             \* per frame; "none": not in frames
  marker,             \* has_marker
  total,              \* total_size
  carriers,           \* keys of rlc_bytes_to_be_arrived
  target,             \* its values; 0 where there is no entry
  acked,              \* rlc_bytes_acked
  reinjected,         \* reinjected_to_alt
  recent_timestamp_,
  oldest_inflight_,
  ready_frames_,
  ratios,             \* keys of recent_split_ratios_
  kpm,                \* the KPM thread: place and locals of updateFrameProgress
  sch,                \* the scheduler thread: place and locals
  delays,             \* per frame: how often its delay entered frame_delays
  expired,            \* frames whose time-out the sweep has recorded
  bursts              \* per frame: re-injection bursts sent for it

info    == <<marker, total, carriers, target, acked, reinjected>>
anchor  == <<oldest_inflight_, ready_frames_>>
history == <<delays, expired, bursts>>
vars    == <<status, info, recent_timestamp_, anchor, ratios, kpm, sch, history>>

IdleKpm == [pc |-> "idle", link |-> 0, rem |-> 0, at |-> 0, todo |-> {}]
IdleSch == [pc |-> "idle", plan |-> {}, newest |-> 0, cands |-> {}]

Tracked    == {f \in Frames : status[f] # "none"}
InProgress == {f \in Frames : status[f] = "inprogress"}
First(S)   == {f \in S : \A g \in S : f <= g}
Last(S)    == {f \in S : \A g \in S : g <= f}
NoBytes    == [k \in Keys |-> 0]

\* The KPM thread keeps frames_mutex from step to step only while it scans the
\* frames, and for ever once it has locked the mutex it already holds.
MutexFree == kpm.pc \notin {"scan", "relock"}

Init ==
  /\ status = [f \in Frames |-> "none"]
  /\ marker = [f \in Frames |-> FALSE]
  /\ total = [f \in Frames |-> 0]
  /\ carriers = [f \in Frames |-> {}]
  /\ target = [f \in Frames |-> NoBytes]
  /\ acked = [f \in Frames |-> NoBytes]
  /\ reinjected = [f \in Frames |-> FALSE]
  /\ recent_timestamp_ = 0
  /\ oldest_inflight_ = 0
  /\ ready_frames_ = {}
  /\ ratios = {}
  /\ kpm = IdleKpm
  /\ sch = IdleSch
  /\ delays = [f \in Frames |-> 0]
  /\ expired = {}
  /\ bursts = [f \in Frames |-> 0]
-----------------------------------------------------------------------------
(* addFramePacket, by the processing thread, under frames_mutex.  A packet *)
(* of another timestamp than the newest frame's closes that frame.         *)

Closes(f) ==
  {g \in Last(Tracked) : g # f /\ ~marker[g] /\ status[g] = "inprogress"}

\* A packet of a timestamp that is not newer than every frame seen, and that
\* has no frame, is skipped.
SkipsMutant(f) == status[f] = "none" /\ f < recent_timestamp_   \* off by one
Skips(f) == status[f] = "none" /\ f <= recent_timestamp_

SkipPacket(f) ==
  /\ MutexFree
  /\ Skips(f)
  /\ marker' = [g \in Frames |-> marker[g] \/ g \in Closes(f)]
  /\ UNCHANGED <<status, total, carriers, target, acked, reinjected,
                 recent_timestamp_, anchor, ratios, kpm, sch, history>>

\* The keys the processing thread finds in recent_split_ratios_.  The scheduler
\* assigns the map without a lock; a reader may find it half rebuilt.
RatiosSeen ==
  IF sch.pc = "saving" THEN SUBSET (ratios \cup sch.plan) ELSE {ratios}

\* How the bytes of a frame are laid on the links: all on link 1 when there are
\* no ratios; a single path p is link p + 1; several paths stand under their own
\* numbers, each with its share, and the last one with the rest.  Shares that add up
\* to more than the frame, possible with three links or more when the ratios do,
\* would make the uint32_t rest wrap; they are left out.
Rest(share, bytes) == bytes - FoldFunction(LAMBDA m, n : m + n, 0, share)

Splits(R, bytes) ==
  LET shares == [R \ Last(R) -> {(bytes * p) \div 100 : p \in Percents}]
  IN {[k \in R |-> IF k \in Last(R) THEN Rest(s, bytes) ELSE s[k]] :
        s \in {s \in shares : Rest(s, bytes) \in 0 .. bytes}}

Targets(R, bytes) ==
  IF R = {} THEN {[k \in {1} |-> bytes]}
  ELSE IF Cardinality(R) = 1 THEN {[k \in {p + 1} |-> bytes] : p \in R}
  ELSE Splits(R, bytes)

SetsMarkerMutant(f, isMarker) == isMarker   \* also a second time
SetsMarker(f, isMarker) == isMarker /\ ~marker[f]

AddPacket(f, isMarker, size) ==
  /\ MutexFree
  /\ ~Skips(f)
  /\ size = 0 => status[f] # "none"    \* 0: the seq_num has been counted
  /\ total[f] + size <= MaxTotal
  /\ status' = [status EXCEPT ![f] = IF @ = "none" THEN "inprogress" ELSE @]
  /\ recent_timestamp_' = IF status[f] = "none" THEN f ELSE recent_timestamp_
  /\ oldest_inflight_' = IF status[f] = "none" /\ oldest_inflight_ = 0
                         THEN f ELSE oldest_inflight_
  /\ total' = [total EXCEPT ![f] = @ + size]
  /\ marker' = [g \in Frames |->
                  marker[g] \/ g \in Closes(f) \/ (g = f /\ isMarker)]
  /\ IF SetsMarker(f, isMarker)
     THEN \E R \in RatiosSeen : \E t \in Targets(R, total[f] + size) :
            /\ carriers' = [carriers EXCEPT ![f] = DOMAIN t]
            /\ target' = [target EXCEPT ![f] =
                             [k \in Keys |-> IF k \in DOMAIN t THEN t[k] ELSE 0]]
     ELSE UNCHANGED <<carriers, target>>
  /\ UNCHANGED <<acked, reinjected, ready_frames_, ratios, kpm, sch, history>>

-----------------------------------------------------------------------------
(* updateFrameProgress and what follows it, by the KPM thread: a report of *)
(* a link is spread over the frames, oldest first; frames_mutex is held    *)
(* throughout the scan.                                                    *)

Report(l, bytes) ==
  /\ kpm.pc = "idle"
  /\ kpm' = [IdleKpm EXCEPT !.pc = "scan", !.link = l, !.rem = bytes]
  /\ UNCHANGED <<status, info, recent_timestamp_, anchor, ratios, sch, history>>

Unvisited == {f \in Tracked : f > kpm.at}

\* Complete and timed-out frames, and frames that expect nothing on this link,
\* are passed over.
Concerned(f) == status[f] = "inprogress" /\ kpm.link \in carriers[f]

PassOver ==
  /\ kpm.pc = "scan" /\ kpm.rem > 0
  /\ \E f \in First(Unvisited) : ~Concerned(f) /\ kpm' = [kpm EXCEPT !.at = f]
  /\ UNCHANGED <<status, info, recent_timestamp_, anchor, ratios, sch, history>>

\* isFullyAcked: 95 percent of every non-empty target.
Enough(need, got) == need = 0 \/ 20 * got >= 19 * need
FullyAcked(f, got) ==
  /\ carriers[f] # {}
  /\ \A k \in carriers[f] : Enough(target[f][k], got[k])

Needed(f) == IF target[f][kpm.link] > acked[f][kpm.link]
             THEN target[f][kpm.link] - acked[f][kpm.link] ELSE 0
AppliedMutant(f) == Needed(f)   \* more than is left
Applied(f) == IF kpm.rem < Needed(f) THEN kpm.rem ELSE Needed(f)

\* advanceOldestInflight: the anchor among the frames S in progress.
AnchorMutant(S) ==   \* the newest
  IF S = {} THEN 0 ELSE CHOOSE f \in S : \A g \in S : g <= f
Anchor(S) == IF S = {} THEN 0 ELSE CHOOSE f \in S : \A g \in S : f <= g

\* drainReadyFrames, called with the anchor a that advanceOldestInflight has
\* just found.  What it releases is still in progress, so advancing again finds
\* a once more, no longer in the set: the loop runs at most once.
Drained(a) == {f \in First(ready_frames_) : f = a}

Acknowledge(f, got) ==
  IF ~(FullyAcked(f, got) /\ marker[f])
  THEN kpm' = [kpm EXCEPT !.at = f, !.rem = @ - Applied(f)] /\ UNCHANGED anchor
  ELSE IF f = oldest_inflight_
  THEN LET a == Anchor(InProgress) IN
       /\ kpm' = [kpm EXCEPT !.at = f, !.rem = @ - Applied(f),
                             !.todo = @ \cup {f} \cup Drained(a)]
       /\ oldest_inflight_' = a
       /\ ready_frames_' = ready_frames_ \ Drained(a)
  ELSE /\ kpm' = [kpm EXCEPT !.at = f, !.rem = @ - Applied(f)]
       /\ ready_frames_' = ready_frames_ \cup {f}
       /\ UNCHANGED oldest_inflight_

ApplyAck ==
  /\ kpm.pc = "scan" /\ kpm.rem > 0
  /\ \E f \in First(Unvisited) :
       /\ Concerned(f)
       /\ LET got == [acked[f] EXCEPT ![kpm.link] = @ + Applied(f)] IN
            /\ acked' = [acked EXCEPT ![f] = got]
            /\ Acknowledge(f, got)
  /\ UNCHANGED <<status, marker, total, carriers, target, reinjected,
                 recent_timestamp_, ratios, sch, history>>

EndScan ==
  /\ kpm.pc = "scan"
  /\ kpm.rem = 0 \/ Unvisited = {}
  /\ kpm' = [IdleKpm EXCEPT !.pc = "complete", !.todo = kpm.todo]
  /\ UNCHANGED <<status, info, recent_timestamp_, anchor, ratios, sch, history>>

\* completeFrame: one locked section for each frame, oldest first.
CompletesNowMutant(f) == status[f] # "none"   \* not asked whether it is complete
CompletesNow(f) == status[f] \in {"inprogress", "timeout"}

CompleteFrame ==
  /\ kpm.pc = "complete"
  /\ \E f \in First(kpm.todo) :
       /\ kpm' = [kpm EXCEPT !.todo = @ \ {f}]
       /\ IF CompletesNow(f)
          THEN /\ status' = [status EXCEPT ![f] = "complete"]
               /\ delays' = [delays EXCEPT ![f] = @ + 1]
          ELSE UNCHANGED <<status, delays>>
  /\ UNCHANGED <<info, recent_timestamp_, anchor, ratios, sch, expired, bursts>>

(***************************************************************************)
(* cleanupOldFrames, one locked section.  idle are the frames in progress  *)
(* without a packet for a second: they time out and go, with all complete  *)
(* and timed-out ones.  If any goes, the anchor is chosen anew, and the    *)
(* frame that now leads is completed if it was waiting in ready_frames_:   *)
(* by completeFrame, which locks frames_mutex again ("relock").            *)
(***************************************************************************)
Gone(idle) == (Tracked \ InProgress) \cup idle

CleanupOldFrames(idle) ==
  LET gone == Gone(idle)
      a == Anchor(InProgress \ idle)
  IN
  /\ kpm.pc = "complete" /\ kpm.todo = {}
  /\ status' = [f \in Frames |-> IF f \in gone THEN "none" ELSE status[f]]
  /\ marker' = [f \in Frames |-> f \notin gone /\ marker[f]]
  /\ total' = [f \in Frames |-> IF f \in gone THEN 0 ELSE total[f]]
  /\ carriers' = [f \in Frames |-> IF f \in gone THEN {} ELSE carriers[f]]
  /\ target' = [f \in Frames |-> IF f \in gone THEN NoBytes ELSE target[f]]
  /\ acked' = [f \in Frames |-> IF f \in gone THEN NoBytes ELSE acked[f]]
  /\ reinjected' = [f \in Frames |-> f \notin gone /\ reinjected[f]]
  /\ IF gone = {} THEN kpm' = IdleKpm /\ UNCHANGED anchor
     ELSE /\ oldest_inflight_' = a
          /\ ready_frames_' = ready_frames_ \ Drained(a)
          /\ kpm' = IF Drained(a) = {} THEN IdleKpm
                    ELSE [IdleKpm EXCEPT !.pc = "relock", !.todo = Drained(a)]
  /\ UNCHANGED <<recent_timestamp_, ratios, sch, history>>

\* Time is not modelled: any frames in progress may be idle.
IdleMutant == {f \in InProgress : marker[f]}   \* an open frame never times out
Idle == InProgress

Cleanup == \E idle \in SUBSET Idle : CleanupOldFrames(idle)
-----------------------------------------------------------------------------
(* makeDecisionInternal, by a scheduler thread that holds mutex_: store    *)
(* the split ratios without a lock, then, unless the decision is multipath *)
(* or only one link is known, sweep.                                       *)

BeginSave(R) ==
  /\ sch.pc = "idle"
  /\ sch' = [IdleSch EXCEPT !.pc = "saving", !.plan = R]
  /\ UNCHANGED <<status, info, recent_timestamp_, anchor, ratios, kpm, history>>

EndSave(next) ==
  /\ sch.pc = "saving"
  /\ next = "newest" => Cardinality(sch.plan) <= 1
  /\ ratios' = sch.plan
  /\ sch' = [IdleSch EXCEPT !.pc = next]
  /\ UNCHANGED <<status, info, recent_timestamp_, anchor, kpm, history>>

GetNewestFrameTs ==
  /\ sch.pc = "newest"
  /\ MutexFree
  /\ sch' = [sch EXCEPT !.pc = "sweep",
                        !.newest = IF Tracked = {} THEN 0
                                   ELSE CHOOSE f \in Last(Tracked) : TRUE]
  /\ UNCHANGED <<status, info, recent_timestamp_, anchor, ratios, kpm, history>>

\* The sum of rlc_bytes_acked over the links of rlc_bytes_to_be_arrived.
AckedSum(f) ==
  FoldFunction(LAMBDA m, n : m + n, 0, [k \in carriers[f] |-> acked[f][k]])
AllAcked(f) == AckedSum(f) >= total[f]

\* Frames older than `age` have passed their deadline: start times ascend.
Swept == InProgress \ {sch.newest}
SweptDone == {f \in Swept : AllAcked(f)}
SweptLate(age) == {f \in Swept : ~AllAcked(f) /\ f <= age}

\* The caller fires only for a frame not marked before the sweep.
AtRiskMutant == Swept \ SweptDone   \* already_reinjected ignored
AtRisk == {f \in Swept \ SweptDone : ~reinjected[f]}

SweepInProgressFrames(age) ==
  LET late == SweptLate(age) done == SweptDone IN
  /\ sch.pc = "sweep"
  /\ MutexFree
  /\ status' = [f \in Frames |-> IF f \in done THEN "complete"
                                 ELSE IF f \in late THEN "timeout" ELSE status[f]]
  /\ marker' = [f \in Frames |-> marker[f] \/ f \in done]
  /\ delays' = [f \in Frames |-> IF f \in done \cup late THEN delays[f] + 1
                                 ELSE delays[f]]
  /\ expired' = expired \cup late
  /\ sch' = [IdleSch EXCEPT !.pc = "fire", !.cands = AtRisk]
  /\ UNCHANGED <<total, carriers, target, acked, reinjected, recent_timestamp_,
                 anchor, ratios, kpm, bursts>>

\* sendReinjectBurst, then markFrameReinjected if the frame is still there.
Fire(f) ==
  /\ sch.pc = "fire"
  /\ MutexFree
  /\ f \in sch.cands
  /\ bursts' = [bursts EXCEPT ![f] = @ + 1]
  /\ reinjected' = [reinjected EXCEPT ![f] = status[f] # "none"]
  /\ sch' = [sch EXCEPT !.cands = @ \ {f}]
  /\ UNCHANGED <<status, marker, total, carriers, target, acked,
                 recent_timestamp_, anchor, ratios, kpm, delays, expired>>

EndSweep ==
  /\ sch.pc = "fire"
  /\ sch' = IdleSch
  /\ UNCHANGED <<status, info, recent_timestamp_, anchor, ratios, kpm, history>>

Sweep == \E age \in 0 .. MaxFrames : SweepInProgressFrames(age)
-----------------------------------------------------------------------------
\* A thread that locks a std::mutex it holds waits for ever, and all with it.
Hung == kpm.pc = "relock"

Packet == \E f \in Frames :
            \/ SkipPacket(f)
            \/ \E isMarker \in BOOLEAN, size \in {0, PacketSize} :
                 AddPacket(f, isMarker, size)

Kpm == PassOver \/ ApplyAck \/ EndScan \/ CompleteFrame \/ Cleanup

Scheduler ==
  \/ \E R \in Plans : BeginSave(R)
  \/ \E next \in {"idle", "newest"} : EndSave(next)
  \/ GetNewestFrameTs
  \/ Sweep
  \/ \E f \in Frames : Fire(f)
  \/ EndSweep

KpmReport == \E l \in Links, bytes \in Reports : Report(l, bytes)

Next == Packet \/ KpmReport \/ Kpm \/ Scheduler \/ (Hung /\ UNCHANGED vars)

\* Reports keep coming, the KPM thread runs, and a frame that gets no packets
\* is found idle by some later clean-up.
Fairness ==
  /\ WF_vars(KpmReport)
  /\ WF_vars(Kpm)
  /\ \A f \in Frames :
       SF_vars(\E idle \in SUBSET Idle : f \in idle /\ CleanupOldFrames(idle))

Spec == Init /\ [][Next]_vars /\ Fairness
-----------------------------------------------------------------------------
KpmType ==
  [pc : {"idle", "scan", "complete", "relock"}, link : 0 .. NumLinks, rem : Nat,
   at : 0 .. MaxFrames, todo : SUBSET Frames]
SchType ==
  [pc : {"idle", "saving", "newest", "sweep", "fire"}, plan : SUBSET Paths,
   newest : 0 .. MaxFrames, cands : SUBSET Frames]

\* Types; a target stands under a path or link number and is never negative.
TypeOK ==
  /\ status \in [Frames -> Status]
  /\ marker \in [Frames -> BOOLEAN]
  /\ total \in [Frames -> Nat]
  /\ carriers \in [Frames -> SUBSET Keys]
  /\ target \in [Frames -> [Keys -> Nat]]
  /\ acked \in [Frames -> [Keys -> Nat]]
  /\ reinjected \in [Frames -> BOOLEAN]
  /\ recent_timestamp_ \in 0 .. MaxFrames
  /\ oldest_inflight_ \in 0 .. MaxFrames
  /\ ready_frames_ \subseteq Frames
  /\ ratios \subseteq Paths
  /\ kpm \in KpmType
  /\ sch \in SchType
  /\ delays \in [Frames -> Nat]
  /\ expired \subseteq Frames
  /\ bursts \in [Frames -> Nat]

\* No frame in progress is older than the anchor, and while there is one there
\* is an anchor: the frame every ready frame waits for is really the oldest,
\* although the sweep ends frames without choosing a new anchor.
AnchorLeads ==
  \A f \in InProgress : oldest_inflight_ \in 1 .. f

\* A frame that waits in ready_frames_ and is still in progress has its marker
\* and 95 percent of what it needs on every link: later packets and markers of
\* the frame do not raise its targets.
ReadyIsAcked ==
  \A f \in ready_frames_ \cap InProgress : marker[f] /\ FullyAcked(f, acked[f])

\* frame_delays gets one entry for a frame, whoever ends it, except that a frame
\* the sweep timed out while its completion was under way gets a second one.
CountedOnce ==
  \A f \in Frames : delays[f] <= IF f \in expired THEN 2 ELSE 1

\* A frame with an entry in frame_delays is not in progress again: a late packet
\* does not bring it back after the clean-up.
CountedIsSettled == \A f \in InProgress : delays[f] = 0

\* "so the next sweep doesn't fire the same burst again": one burst for a frame,
\* also when the frame is erased between the sweep and markFrameReinjected.
ReinjectedOnce == \A f \in Frames : bursts[f] <= 1

\* Every frame in progress is completed or timed out, or the KPM thread has
\* locked itself out.
Settled == \A f \in Frames : f \in InProgress ~> (f \notin InProgress \/ Hung)

\* "Complete frames outside the lock to avoid deadlocks" (qoe_processor.cpp:573):
\* no thread calls completeFrame while it holds frames_mutex.
CompletesOutsideTheLock == ~Hung
=============================================================================
