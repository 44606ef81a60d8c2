---------------------------- MODULE PathControl ----------------------------
(***************************************************************************)
(* The control loop that puts the sender on a path: the RIC's scheduler    *)
(* (scheduler_interface.cpp, QCON/qcon_scheduler.cpp), its request/reply   *)
(* channel (zmq_interface.cpp, ric_zmq_interface.c), and the CU sender's   *)
(* command handlers and per-packet routing (CU/pdcp_sender.cpp).           *)
(*                                                                         *)
(* Each RIC thread that calls runOnce decides under mutex_ and executes    *)
(* the decision after giving mutex_ back.  The CU's listen thread runs one *)
(* handler at a time; a handler makes two stores, and the data thread      *)
(* reads in between.  Links are numbered from 1 and their number is their  *)
(* cost; paths, as the CU knows them, are numbered from 0.                 *)
(***************************************************************************)
EXTENDS Integers, FiniteSets

CONSTANTS
  Threads,       \* RIC threads that call runOnce
  NumLinks,      \* total_link_num
  Uninit,        \* values the uninitialised current_link_id_ may start with
  MultilinkOff,  \* QCON_DISABLE_MULTILINK
  ReinjectBurst, \* QCON_REINJECT_BURST, in packets
  SweepOn,       \* QCON_DISABLE_REINJECT_BURST=0: bursts for in-flight frames
  SweepMax,      \* the 60 packets a sweep burst is cut to
  CanTimeOut,    \* may the CU keep a caller waiting beyond rcvtimeo?
  UintRange      \* 2^32

ASSUME ControlAssumption ==
  /\ NumLinks \in Nat \ {0}
  /\ Uninit \subseteq Int /\ Uninit # {}
  /\ {MultilinkOff, SweepOn, CanTimeOut} \subseteq BOOLEAN
  /\ ReinjectBurst \in Int
  /\ SweepMax \in Nat \ {0}
  /\ UintRange \in Nat /\ UintRange > SweepMax /\ UintRange > ReinjectBurst

Link == 1 .. NumLinks
Path == 0 .. NumLinks - 1

VARIABLES
  reported,            \* keys of link_metrics_
  measured,            \* keys of last_known_bw_mbps_
  current_link_id_,
  current_decision_,
  pc, decision, call,  \* per RIC thread: place, local decision, RPC under way
  req,                 \* per RIC thread: state of its REQ socket
  requests,            \* commands on their way to the CU
  handling,            \* what the CU's listen thread is handling: at most one
  replies,             \* threads whose reply has arrived and is unread
  active_path, multilink_active_, multilink_paths_,
  reinject_alt_path_, reinject_burst_remaining_,
  dpc, target          \* the CU's data thread and its target_path

metrics == <<reported, measured>>
believed == <<current_link_id_, current_decision_>>
threads == <<pc, decision, call>>
channel == <<requests, handling, replies>>
route == <<active_path, multilink_active_, multilink_paths_>>
burst == <<reinject_alt_path_, reinject_burst_remaining_>>
data == <<dpc, target>>
vars == <<metrics, believed, threads, req, channel, route, burst, data>>

-----------------------------------------------------------------------------
(* Decisions and commands.                                                 *)

Decision(selected, requires, multi, split) ==
  [selected |-> selected, requires |-> requires, multi |-> multi,
   split |-> split]

Command(kind, path, paths, n) ==
  [kind |-> kind, path |-> path, paths |-> paths, n |-> n]

NoDecision == Decision(0, FALSE, FALSE, {})
NoCall == [cmd |-> Command("none", 0, {}, 0), ret |-> "update"]

PathOf(link) == link - 1
Cheapest(links) == CHOOSE l \in links : \A k \in links : l <= k
Dearest(links) == CHOOSE l \in links : \A k \in links : l >= k

(* makeDecision holds mutex_ until makeDecisionInternal has sent its       *)
(* re-injection bursts and returned.                                       *)
Deciding(t) ==
  \/ pc[t] \in {"reinject", "sweep"}
  \/ pc[t] \in {"send", "await"} /\ call[t].ret # "update"
MutexFree == \A t \in Threads : ~Deciding(t)

Goto(t, where) == pc' = [pc EXCEPT ![t] = where]
Return(t, where) == Goto(t, where) /\ call' = [call EXCEPT ![t] = NoCall]
Forget(t) == decision' = [decision EXCEPT ![t] = NoDecision]

Init ==
  /\ reported = {} /\ measured = {}
  /\ current_link_id_ \in Uninit
  /\ current_decision_ = NoDecision
  /\ pc = [t \in Threads |-> "idle"]
  /\ decision = [t \in Threads |-> NoDecision]
  /\ call = [t \in Threads |-> NoCall]
  /\ req = [t \in Threads |-> "ready"]
  /\ requests = {} /\ handling = {} /\ replies = {}
  /\ active_path = 0 /\ multilink_active_ = FALSE /\ multilink_paths_ = {}
  /\ reinject_alt_path_ = 0 /\ reinject_burst_remaining_ = 0
  /\ dpc = "idle" /\ target = 0

-----------------------------------------------------------------------------
(* The KPM listen thread: a first report of a link.                        *)
KpmReport(link) ==
  /\ link \notin reported
  /\ reported' = reported \cup {link}
  /\ UNCHANGED <<measured, believed, threads, req, channel, route, burst,
                 data>>

-----------------------------------------------------------------------------
(* makeDecision.  "up" are the links whose measured bandwidth is not zero  *)
(* now, "meets" those that alone would deliver the frame by its deadline.  *)

Commit(t, d) ==
  /\ pc[t] = "idle"
  /\ MutexFree
  /\ decision' = [decision EXCEPT ![t] = d]
  /\ current_link_id_' = d.selected
  /\ current_decision_' = d
  /\ Goto(t, IF ~d.multi /\ Cardinality(reported) >= 2 THEN "reinject"
                                                       ELSE "execute")
  /\ UNCHANGED <<reported, call, req, channel, route, burst, data>>

(* No link has ever been measured: the previous decision stands.           *)
DecideDeferred(t) ==
  /\ measured = {}
  /\ Commit(t, current_decision_)
  /\ UNCHANGED measured

(* The cheapest link that meets the deadline, else the dearest.  The       *)
(* hold-off would keep a cheaper current link that meets the deadline; the *)
(* first pass has picked that one already, so it never changes anything.   *)
Chosen(available, meets) ==
  IF meets = {} THEN Dearest(available) ELSE Cheapest(meets)

Requires(path) == path # current_link_id_

SingleDecisionMutant(link) ==   \* the link's number instead of its path
  Decision(link, Requires(link), FALSE, {link})

SingleDecision(link) ==
  Decision(PathOf(link), Requires(PathOf(link)), FALSE, {PathOf(link)})

(* A link set findMinCostMultilinkSolution may return: links reported but  *)
(* never measured count as slow links, links that are down as useless.     *)
Solutions(up, available) ==
  {S \in SUBSET reported :
     Cardinality(S) >= 2 /\ S \cap (up \cup (reported \ available)) # {}}

TriesMultilink(available, meets) ==
  ~MultilinkOff /\ meets = {} /\ Cardinality(available) > 1

DecideSingle(t) ==
  \E up \in SUBSET reported : \E meets \in SUBSET up :
    LET available == up \cup measured
    IN /\ available # {}
       /\ TriesMultilink(available, meets) => Solutions(up, available) = {}
       /\ Commit(t, SingleDecision(Chosen(available, meets)))
       /\ measured' = available

(***************************************************************************)
(* The first pass has left its last link in split_ratio, and the solution  *)
(* is added to it.  selected_link_id is the number of the cheapest link,   *)
(* not its path.                                                           *)
(***************************************************************************)
MultiDecision(S, available) ==
  LET primary == Cheapest(S)
  IN Decision(primary,
              Requires(primary) \/ ~current_decision_.multi,
              TRUE,
              {PathOf(l) : l \in S \cup {Dearest(available)}})

DecideMulti(t) ==
  \E up \in SUBSET reported :
    LET available == up \cup measured
    IN /\ available # {}
       /\ TriesMultilink(available, {})
       /\ \E S \in Solutions(up, available) :
            Commit(t, MultiDecision(S, available))
       /\ measured' = available

-----------------------------------------------------------------------------
(* Re-injection, still under mutex_: evaluateReinjection, then the sweep   *)
(* over in-flight frames (bound: one of them fires per decision).          *)

Prepare(t, cmd, ret) ==
  /\ call' = [call EXCEPT ![t] = [cmd |-> cmd, ret |-> ret]]
  /\ Goto(t, "send")
  /\ UNCHANGED <<metrics, believed, decision, req, channel, route, burst, data>>

Alternatives == {p \in Path : p # current_decision_.selected}

SkipTo(t, from, to) ==
  /\ pc[t] = from
  /\ Goto(t, to)
  /\ UNCHANGED <<metrics, believed, decision, call, req, channel, route, burst,
                 data>>

NoReinjection(t) == SkipTo(t, "reinject", "sweep")

Reinject(t) ==
  /\ pc[t] = "reinject"
  /\ ReinjectBurst > 0
  /\ \E alt \in Alternatives :
       /\ alt + 1 \in measured
       /\ Prepare(t, Command("burst", alt, {}, ReinjectBurst), "sweep")

NoSweepBurst(t) == SkipTo(t, "sweep", "execute")

SweepSizeMutant(packets) ==   \* a frame with nothing unacknowledged
  IF packets > SweepMax THEN SweepMax ELSE packets

SweepSize(packets) ==
  IF packets > SweepMax THEN SweepMax ELSE IF packets < 1 THEN 1 ELSE packets

SweepBurst(t) ==
  /\ pc[t] = "sweep"
  /\ SweepOn
  /\ \E alt \in Alternatives, packets \in 0 .. SweepMax + 1 :
       /\ alt + 1 \in reported
       /\ Prepare(t, Command("burst", alt, {}, SweepSize(packets)), "execute")

-----------------------------------------------------------------------------
(* executeDecision.  What the send returns is ignored.                     *)

ExecuteChange(t) ==
  LET d == decision[t]
      multi == d.multi /\ Cardinality(d.split) > 1
  IN /\ pc[t] = "execute"
     /\ d.requires
     /\ Prepare(t, IF multi THEN Command("multi", 0, d.split, 0)
                            ELSE Command("single", d.selected, {}, 0),
                "update")

ExecuteNothing(t) == ~decision[t].requires /\ SkipTo(t, "execute", "update")

Update(t) ==
  /\ pc[t] = "update"
  /\ MutexFree
  /\ current_link_id_' = decision[t].selected
  /\ Goto(t, "idle")
  /\ Forget(t)
  /\ UNCHANGED <<metrics, current_decision_, call, req, channel, route, burst,
                 data>>

-----------------------------------------------------------------------------
(* sendRcCommand on the thread's own REQ socket.                           *)

Send(t) ==
  /\ pc[t] = "send"
  /\ req[t] = "ready"
  /\ req' = [req EXCEPT ![t] = "waiting"]
  /\ requests' = requests \cup {[from |-> t, cmd |-> call[t].cmd]}
  /\ Goto(t, "await")
  /\ UNCHANGED <<metrics, believed, decision, call, handling, replies, route,
                 burst, data>>

SendThrowsMutant(t) ==   \* the socket may send again although it waits
  /\ pc[t] = "send"
  /\ req[t] = "waiting"
  /\ requests' = requests \cup {[from |-> t, cmd |-> call[t].cmd]}
  /\ Goto(t, "await")
  /\ UNCHANGED <<metrics, believed, decision, call, req, handling, replies,
                 route, burst, data>>

(* The socket still waits for an earlier reply: send throws EFSM, and the  *)
(* thread's loop catches it.  mutex_ is released, the decision is dropped. *)
SendThrows(t) ==
  /\ pc[t] = "send"
  /\ req[t] = "waiting"
  /\ Return(t, "idle")
  /\ Forget(t)
  /\ UNCHANGED <<metrics, believed, req, channel, route, burst, data>>

Receive(t) ==
  /\ pc[t] = "await"
  /\ t \in replies
  /\ replies' = replies \ {t}
  /\ req' = [req EXCEPT ![t] = "ready"]
  /\ Return(t, call[t].ret)
  /\ UNCHANGED <<metrics, believed, decision, requests, handling, route, burst,
                 data>>


(* rcvtimeo has passed; nobody will read the reply if it still comes.      *)
TimeOut(t) ==
  /\ CanTimeOut
  /\ pc[t] = "await"
  /\ t \notin replies
  /\ Return(t, call[t].ret)
  /\ UNCHANGED <<metrics, believed, decision, req, channel, route, burst, data>>

-----------------------------------------------------------------------------
(* The CU's listen thread: the handler's first store, then its second and  *)
(* the reply.                                                              *)

Begin(r) ==
  /\ handling = {}
  /\ r \in requests
  /\ requests' = requests \ {r}
  /\ handling' = {r}
  /\ CASE r.cmd.kind = "single" ->
            /\ multilink_active_' = FALSE
            /\ UNCHANGED <<active_path, multilink_paths_, burst>>
       [] r.cmd.kind = "multi" ->
            /\ multilink_paths_' = r.cmd.paths \cap Path
            /\ UNCHANGED <<active_path, multilink_active_, burst>>
       [] r.cmd.kind = "burst" ->
            /\ reinject_alt_path_' = r.cmd.path
            /\ UNCHANGED <<route, reinject_burst_remaining_>>
  /\ UNCHANGED <<metrics, believed, threads, req, replies, data>>

Finish(r) ==
  /\ r \in handling
  /\ handling' = {}
  /\ replies' = replies \cup {r.from}
  /\ CASE r.cmd.kind = "single" ->
            /\ active_path' = IF r.cmd.path \in Path THEN r.cmd.path
                                                     ELSE active_path
            /\ UNCHANGED <<multilink_active_, multilink_paths_, burst>>
       [] r.cmd.kind = "multi" ->
            /\ multilink_active_' = TRUE
            /\ UNCHANGED <<active_path, multilink_paths_, burst>>
       [] r.cmd.kind = "burst" ->
            /\ reinject_burst_remaining_' = r.cmd.n
            /\ UNCHANGED <<route, reinject_alt_path_>>
  /\ UNCHANGED <<metrics, believed, threads, req, requests, data>>

-----------------------------------------------------------------------------
(* The CU's data thread: processPacket picks target_path and, while a      *)
(* burst lasts, also sends a copy on the alternative path.                 *)

DataStep(from, to) ==
  /\ dpc = from
  /\ dpc' = to
  /\ UNCHANGED <<metrics, believed, threads, req, channel, route,
                 reinject_alt_path_>>

LoadMode ==
  /\ DataStep("idle", IF multilink_active_ THEN "pick" ELSE "active")
  /\ UNCHANGED <<target, reinject_burst_remaining_>>

PickTarget ==
  /\ DataStep("pick", "burst")
  /\ target' \in IF multilink_paths_ # {} THEN multilink_paths_
                                          ELSE {active_path}
  /\ UNCHANGED reinject_burst_remaining_

LoadActivePath ==
  /\ DataStep("active", "burst")
  /\ target' = active_path
  /\ UNCHANGED reinject_burst_remaining_

LoadBurst ==
  /\ DataStep("burst", IF reinject_burst_remaining_ > 0 THEN "alt" ELSE "idle")
  /\ UNCHANGED <<target, reinject_burst_remaining_>>

LoadAlt ==
  /\ DataStep("alt", IF reinject_alt_path_ # target THEN "copy" ELSE "idle")
  /\ UNCHANGED <<target, reinject_burst_remaining_>>

(* The copy is sent and counted with fetch_sub, or the link refuses it.    *)
SendCopy ==
  /\ DataStep("copy", "idle")
  /\ reinject_burst_remaining_' \in
       {reinject_burst_remaining_, (reinject_burst_remaining_ - 1) % UintRange}
  /\ UNCHANGED target

-----------------------------------------------------------------------------
Decide(t) == DecideDeferred(t) \/ DecideSingle(t) \/ DecideMulti(t)

Execute(t) ==
  \/ NoReinjection(t) \/ Reinject(t) \/ NoSweepBurst(t) \/ SweepBurst(t)
  \/ ExecuteChange(t) \/ ExecuteNothing(t) \/ Update(t)

Rpc(t) == Send(t) \/ SendThrows(t) \/ Receive(t) \/ TimeOut(t)

RunOnce(t) == Decide(t) \/ Execute(t) \/ Rpc(t)

Handle == (\E r \in requests : Begin(r)) \/ (\E r \in handling : Finish(r))

ProcessPacket ==
  \/ LoadMode \/ PickTarget \/ LoadActivePath
  \/ LoadBurst \/ LoadAlt \/ SendCopy

Next ==
  \/ \E l \in Link : KpmReport(l)
  \/ \E t \in Threads : RunOnce(t)
  \/ Handle
  \/ ProcessPacket

Spec == Init /\ [][Next]_vars

(***************************************************************************)
(* The RIC's threads run, and a thread that wants mutex_ to record its     *)
(* decision gets it in the end: between two calls of runOnce the scheduler *)
(* thread sleeps and the frame thread waits for a frame, with mutex_ free. *)
(* Nothing is assumed of the CU.                                           *)
(***************************************************************************)
Fairness == \A t \in Threads : WF_vars(RunOnce(t)) /\ SF_vars(Update(t))

FairSpec == Spec /\ Fairness
-----------------------------------------------------------------------------
(* Type correctness: paths stay paths, links stay links, and each thread   *)
(* has at most one command in the channel.                                 *)
DecisionType ==
  [selected : Path, requires : BOOLEAN, multi : BOOLEAN, split : SUBSET Path]
CommandType ==
  [kind : {"single", "multi", "burst"}, path : Path, paths : SUBSET Path,
   n : 0 .. UintRange - 1]
RequestType == [from : Threads, cmd : CommandType]
CallType ==
  [cmd : CommandType \cup {NoCall.cmd}, ret : {"sweep", "execute", "update"}]

TypeOK ==
  /\ measured \subseteq reported /\ reported \subseteq Link
  /\ current_link_id_ \in Path \cup Uninit
  /\ current_decision_ \in DecisionType
  /\ decision \in [Threads -> DecisionType]
  /\ pc \in [Threads -> {"idle", "reinject", "sweep", "execute", "send",
                         "await", "update"}]
  /\ call \in [Threads -> CallType]
  /\ \A t \in Threads : pc[t] \in {"send", "await"} => call[t].cmd # NoCall.cmd
  /\ req \in [Threads -> {"ready", "waiting"}]
  /\ requests \subseteq RequestType /\ handling \subseteq RequestType
  /\ replies \subseteq Threads
  /\ active_path \in Path
  /\ multilink_active_ \in BOOLEAN /\ multilink_paths_ \subseteq Path
  /\ reinject_alt_path_ \in Path
  /\ reinject_burst_remaining_ \in 0 .. UintRange - 1
  /\ dpc \in {"idle", "pick", "active", "burst", "alt", "copy"}
  /\ target \in Path

Routes(d) ==
  IF d.multi THEN multilink_active_ /\ multilink_paths_ = d.split
             ELSE ~multilink_active_ /\ active_path = d.selected

(* The decision is the latest one, no other thread is in runOnce and no    *)
(* command is under way.                                                   *)
Latest(t) ==
  /\ decision[t] = current_decision_
  /\ requests = {} /\ handling = {}
  /\ \A u \in Threads \ {t} : pc[u] = "idle"

(* "Skipping no-op sends": when executeDecision sends nothing because the  *)
(* scheduler says nothing has changed, and nobody else is changing the     *)
(* path, the CU already routes as decided.                                 *)
SkipIsNoOp ==
  \A t \in Threads :
    pc[t] = "execute" /\ ~decision[t].requires /\ Latest(t)
      => Routes(decision[t])

(* What the CU has received of a thread and not answered.                  *)
Outstanding(t) == {r \in requests \cup handling : r.from = t}

(* A reply answers the command its caller waits for: a command given up on *)
(* after rcvtimeo, still queued or being handled, never has its late reply *)
(* taken for the reply to a later command of the same thread.              *)
ReplyMatches ==
  \A t \in Threads :
    pc[t] = "await" =>
      Outstanding(t) = IF t \in replies THEN {}
                       ELSE {[from |-> t, cmd |-> call[t].cmd]}

(* reinject_burst_remaining_ never wraps to 2^32-1: although the data      *)
(* thread tests it and decrements it in two steps, with the handler's      *)
(* store in between, a burst is never longer than a command asked for.     *)
BurstNeverWraps ==
  reinject_burst_remaining_ <= SweepMax
    \/ reinject_burst_remaining_ <= ReinjectBurst


(* "Catch ALL std exceptions so the scheduler thread doesn't silently      *)
(* die": a thread that keeps wanting to send commands keeps sending them.  *)
NeverDormant ==
  \A t \in Threads : []<>(pc[t] = "send") => []<>(pc[t] = "await")
=============================================================================
