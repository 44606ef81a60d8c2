--------------------------- MODULE MCPathControl ---------------------------
(***************************************************************************)
(* PathControl for TLC.  main() starts the scheduler before it listens for *)
(* KPM reports, so the first tick finds no metrics, and its deferred       *)
(* decision replaces the uninitialised current_link_id_.                   *)
(***************************************************************************)
EXTENDS PathControl

CONSTANT MaxTicks   \* bound: calls of runOnce, all threads together

VARIABLE ticks
mcvars == <<vars, ticks>>

FirstTickDeferred == reported # {} \/ current_link_id_ = 0

StartupInit == Init /\ ticks = 0

Tick(t) == Decide(t) /\ ticks < MaxTicks /\ ticks' = ticks + 1

StartupNext ==
  \/ \E l \in Link : KpmReport(l) /\ FirstTickDeferred /\ UNCHANGED ticks
  \/ \E t \in Threads : Tick(t)
  \/ \E t \in Threads : (Execute(t) \/ Rpc(t)) /\ UNCHANGED ticks
  \/ (Handle \/ ProcessPacket) /\ UNCHANGED ticks

TickFairness ==
  \A t \in Threads :
    /\ WF_mcvars(RunOnce(t) /\ UNCHANGED ticks)
    /\ SF_mcvars(Update(t) /\ UNCHANGED ticks)

StartupSpec == StartupInit /\ [][StartupNext]_mcvars /\ TickFairness
=============================================================================
