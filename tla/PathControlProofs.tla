------------------------- MODULE PathControlProofs -------------------------
(***************************************************************************)
(* Theorems about PathControl, for any number of RIC threads and links:    *)
(* paths stay paths although decisions mix link numbers and path numbers,  *)
(* the re-injection counter never wraps, and a reply answers the command   *)
(* its caller waits for.                                                   *)
(***************************************************************************)
EXTENDS PathControl, FiniteSetTheorems, WellFoundedInduction, TLAPS

(* A set of naturals has a least element.                                  *)
LEMMA LeastNatural ==
  ASSUME NEW S, S \subseteq Nat, S # {}
  PROVE  \E l \in S : \A k \in S : l <= k
  <1> DEFINE Less == {p \in Nat \X Nat : p[1] < p[2]}
  <1>1. IsWellFoundedOn(Less, Nat)
    BY NatLessThanWellFounded DEF OpToRel
  <1> HIDE DEF Less
  <1>2. PICK l \in S : \A k \in S : <<k, l>> \notin Less
    BY <1>1, WFMin
  <1>3. \A k \in S : ~(k < l)
    BY <1>2 DEF Less
  <1>4. QED
    BY <1>3

(* Cheapest picks a link of the set it is given, and none is cheaper.      *)
LEMMA CheapestIsLeast ==
  ASSUME NEW S \in SUBSET Link, S # {}
  PROVE  Cheapest(S) \in S /\ \A k \in S : Cheapest(S) <= k
  <1>1. S \subseteq Nat
    BY ControlAssumption DEF Link
  <1>2. \E l \in S : \A k \in S : l <= k
    BY <1>1, LeastNatural
  <1>3. QED
    BY <1>2 DEF Cheapest

(* Dearest picks a link of the set it is given.                            *)
LEMMA DearestIsMember ==
  ASSUME NEW S \in SUBSET Link, S # {}
  PROVE  Dearest(S) \in S
  <1> DEFINE Flipped == {NumLinks - l : l \in S}
  <1>1. Flipped \subseteq Nat /\ Flipped # {}
    <2>1. NumLinks \in Nat /\ \A l \in S : l \in 1 .. NumLinks
      BY ControlAssumption DEF Link
    <2>2. \A l \in S : NumLinks - l \in Nat
      BY <2>1
    <2>3. QED
      BY <2>2
  <1>2. PICK f \in Flipped : \A k \in Flipped : f <= k
    BY <1>1, LeastNatural
  <1>3. PICK l \in S : f = NumLinks - l
    BY <1>2
  <1>4. \A k \in S : NumLinks - l <= NumLinks - k
    BY <1>2, <1>3
  <1>5. \A k \in S : l >= k
    BY <1>4, ControlAssumption DEF Link
  <1>6. QED
    BY <1>5 DEF Dearest

(* A link's path number is a path.                                         *)
LEMMA PathOfLink ==
  ASSUME NEW l \in Link
  PROVE  PathOf(l) \in Path
  BY ControlAssumption DEF Link, Path, PathOf

(* The number of the cheapest of several links, which a multilink decision *)
(* stores where a path number belongs, is the number of some path.         *)
LEMMA PrimaryIsPath ==
  ASSUME NEW S \in SUBSET Link, Cardinality(S) >= 2
  PROVE  Cheapest(S) \in Path
  <1>1. IsFiniteSet(Link)
    BY FS_Interval, ControlAssumption DEF Link
  <1>2. IsFiniteSet(S)
    BY <1>1, FS_Subset
  <1>3. S # {}
    BY FS_EmptySet
  <1>4. PICK k \in S : k # Cheapest(S)
    <2>1. S # {Cheapest(S)}
      BY FS_Singleton
    <2>2. QED
      BY <2>1, <1>3
  <1>5. Cheapest(S) \in S /\ Cheapest(S) <= k
    BY <1>3, <1>4, CheapestIsLeast
  <1>6. NumLinks \in Nat /\ k \in 1 .. NumLinks /\ Cheapest(S) \in 1 .. NumLinks
    BY <1>4, <1>5, ControlAssumption DEF Link
  <1>7. Cheapest(S) < k
    BY <1>4, <1>5, <1>6
  <1>8. QED
    BY <1>6, <1>7 DEF Path

(* Single-link decisions are well typed.                                   *)
LEMMA SingleDecisionType ==
  ASSUME NEW l \in Link
  PROVE  SingleDecision(l) \in DecisionType
  BY PathOfLink DEF SingleDecision, Decision, DecisionType, Requires

(* Multilink decisions are well typed.                                     *)
LEMMA MultiDecisionType ==
  ASSUME TypeOK, NEW available \in SUBSET Link, available # {},
         NEW S \in SUBSET Link, Cardinality(S) >= 2
  PROVE  MultiDecision(S, available) \in DecisionType
  <1>1. Cheapest(S) \in Path
    BY PrimaryIsPath
  <1>2. Dearest(available) \in Link
    BY DearestIsMember
  <1>3. {PathOf(l) : l \in S \cup {Dearest(available)}} \subseteq Path
    BY <1>2, PathOfLink
  <1>4. (Requires(Cheapest(S)) \/ ~current_decision_.multi) \in BOOLEAN
    OBVIOUS
  <1>5. QED
    BY <1>1, <1>3, <1>4 DEF MultiDecision, Decision, DecisionType

-----------------------------------------------------------------------------
(* A burst command asks for at least one packet and no more than the       *)
(* RIC's limits.                                                           *)
Asked(cmd) ==
  cmd.kind = "burst" =>
    cmd.n > 0 /\ (cmd.n <= SweepMax \/ cmd.n <= ReinjectBurst)

BurstInv ==
  /\ BurstNeverWraps
  /\ dpc \in {"alt", "copy"} => reinject_burst_remaining_ > 0
  /\ \A r \in requests \cup handling : Asked(r.cmd)
  /\ \A t \in Threads : Asked(call[t].cmd)

IInv == TypeOK /\ BurstInv

(* The initial state satisfies the invariant.                              *)
LEMMA InitIInv == Init => IInv
  <1> SUFFICES ASSUME Init PROVE IInv
    OBVIOUS
  <1>1. 0 \in Path /\ 0 \in 0 .. UintRange - 1 /\ 0 <= SweepMax
    BY ControlAssumption DEF Path
  <1>2. NoDecision \in DecisionType /\ NoCall \in CallType
    BY <1>1 DEF NoDecision, Decision, DecisionType, NoCall, CallType
  <1>3. Asked(NoCall.cmd)
    BY DEF Asked, NoCall, Command
  <1>4. TypeOK
    BY <1>1, <1>2 DEF Init, TypeOK
  <1>5. BurstInv
    BY <1>1, <1>3 DEF Init, BurstInv, BurstNeverWraps
  <1>6. QED
    BY <1>4, <1>5 DEF IInv

(* Committing a well-typed decision preserves the invariant.               *)
LEMMA CommitIInv ==
  ASSUME IInv, NEW t \in Threads, NEW d \in DecisionType, Commit(t, d),
         measured' \subseteq reported
  PROVE  IInv'
  <1>1. TypeOK'
    <2>1. d.selected \in Path
      BY DEF DecisionType
    <2>2. decision' \in [Threads -> DecisionType]
      BY DEF IInv, TypeOK, Commit
    <2>3. pc'[t] \in {"reinject", "execute"} /\ pc' \in [Threads ->
             {"idle", "reinject", "sweep", "execute", "send", "await", "update"}]
      BY DEF IInv, TypeOK, Commit, Goto
    <2>4. \A u \in Threads :
            pc'[u] \in {"send", "await"} => call'[u].cmd # NoCall.cmd
      BY <2>3 DEF IInv, TypeOK, Commit, Goto
    <2>5. QED
      BY <2>1, <2>2, <2>3, <2>4
         DEF IInv, TypeOK, Commit, channel, route, burst, data
  <1>2. BurstInv'
    BY DEF IInv, BurstInv, BurstNeverWraps, Commit, channel, burst, data
  <1>3. QED
    BY <1>1, <1>2 DEF IInv

(* Every decision preserves the invariant.                                 *)
LEMMA DecideIInv ==
  ASSUME IInv, NEW t \in Threads, Decide(t)
  PROVE  IInv'
  <1> USE DEF IInv
  <1>1. CASE DecideDeferred(t)
    <2>1. current_decision_ \in DecisionType /\ measured' \subseteq reported
      BY <1>1 DEF TypeOK, DecideDeferred
    <2>2. QED
      BY <1>1, <2>1, CommitIInv DEF DecideDeferred
  <1>2. CASE DecideSingle(t)
    <2>1. PICK up \in SUBSET reported, meets \in SUBSET reported :
            /\ meets \subseteq up
            /\ up \cup measured # {}
            /\ Commit(t, SingleDecision(Chosen(up \cup measured, meets)))
            /\ measured' = up \cup measured
      BY <1>2 DEF DecideSingle
    <2>2. /\ up \cup measured \in SUBSET Link
          /\ meets \in SUBSET Link
          /\ measured' \subseteq reported
      BY <2>1 DEF TypeOK
    <2>3. Chosen(up \cup measured, meets) \in Link
      BY <2>1, <2>2, CheapestIsLeast, DearestIsMember DEF Chosen
    <2>4. QED
      BY <2>1, <2>2, <2>3, SingleDecisionType, CommitIInv
  <1>3. CASE DecideMulti(t)
    <2>1. PICK up \in SUBSET reported :
            /\ up \cup measured # {}
            /\ \E S \in Solutions(up, up \cup measured) :
                 Commit(t, MultiDecision(S, up \cup measured))
            /\ measured' = up \cup measured
      BY <1>3 DEF DecideMulti
    <2>2. PICK S \in SUBSET reported :
            Cardinality(S) >= 2 /\ Commit(t, MultiDecision(S, up \cup measured))
      BY <2>1 DEF Solutions
    <2>3. /\ up \cup measured \in SUBSET Link
          /\ S \in SUBSET Link
          /\ measured' \subseteq reported
      BY <2>1, <2>2 DEF TypeOK
    <2>4. MultiDecision(S, up \cup measured) \in DecisionType
      BY <2>1, <2>2, <2>3, MultiDecisionType
    <2>5. QED
      BY <2>2, <2>3, <2>4, CommitIInv
  <1>4. QED
    BY <1>1, <1>2, <1>3 DEF Decide

-----------------------------------------------------------------------------
(* Preparing a well-formed command preserves the invariant.                *)
LEMMA PrepareIInv ==
  ASSUME IInv, NEW t \in Threads, NEW cmd \in CommandType, Asked(cmd),
         NEW ret \in {"sweep", "execute", "update"}, Prepare(t, cmd, ret)
  PROVE  IInv'
  <1>1. cmd # NoCall.cmd
    BY DEF CommandType, NoCall, Command
  <1>2. call' \in [Threads -> CallType] /\ call'[t].cmd = cmd
    BY DEF IInv, TypeOK, Prepare, CallType
  <1>3. \A u \in Threads : u # t => call'[u] = call[u] /\ pc'[u] = pc[u]
    BY DEF IInv, TypeOK, Prepare, Goto
  <1>4. TypeOK'
    BY <1>1, <1>2, <1>3
       DEF IInv, TypeOK, Prepare, Goto, metrics, believed, channel, route,
           burst, data
  <1>5. BurstInv'
    BY <1>2, <1>3
       DEF IInv, BurstInv, BurstNeverWraps, Prepare, channel, burst, data
  <1>6. QED
    BY <1>4, <1>5 DEF IInv

(* A step that only moves a thread on preserves the invariant.             *)
LEMMA SkipIInv ==
  ASSUME IInv, NEW t \in Threads, NEW from,
         NEW to \in {"sweep", "execute", "update"}, SkipTo(t, from, to)
  PROVE  IInv'
  <1>1. TypeOK'
    BY DEF IInv, TypeOK, SkipTo, Goto, metrics, believed, channel, route,
           burst, data
  <1>2. BurstInv'
    BY DEF IInv, BurstInv, BurstNeverWraps, SkipTo, channel, burst, data
  <1>3. QED
    BY <1>1, <1>2 DEF IInv

(* Re-injection and executeDecision preserve the invariant.                *)
LEMMA ExecuteIInv ==
  ASSUME IInv, NEW t \in Threads, Execute(t)
  PROVE  IInv'
  <1>1. CASE NoReinjection(t)
    BY <1>1, SkipIInv DEF NoReinjection
  <1>2. CASE Reinject(t)
    <2>1. PICK alt \in Path :
            Prepare(t, Command("burst", alt, {}, ReinjectBurst), "sweep")
      BY <1>2 DEF Reinject, Alternatives
    <2>2. ReinjectBurst \in 0 .. UintRange - 1 /\ ReinjectBurst > 0
      BY <1>2, ControlAssumption DEF Reinject
    <2>3. /\ Command("burst", alt, {}, ReinjectBurst) \in CommandType
          /\ Asked(Command("burst", alt, {}, ReinjectBurst))
      BY <2>2 DEF Command, CommandType, Asked
    <2>4. QED
      BY <2>1, <2>3, PrepareIInv
  <1>3. CASE NoSweepBurst(t)
    BY <1>3, SkipIInv DEF NoSweepBurst
  <1>4. CASE SweepBurst(t)
    <2>1. PICK alt \in Path, packets \in 0 .. SweepMax + 1 :
            Prepare(t, Command("burst", alt, {}, SweepSize(packets)), "execute")
      BY <1>4 DEF SweepBurst, Alternatives
    <2>2. SweepSize(packets) \in 1 .. SweepMax
      BY ControlAssumption DEF SweepSize
    <2>3. SweepSize(packets) \in 0 .. UintRange - 1
      BY <2>2, ControlAssumption
    <2>4. /\ Command("burst", alt, {}, SweepSize(packets)) \in CommandType
          /\ Asked(Command("burst", alt, {}, SweepSize(packets)))
      BY <2>2, <2>3, ControlAssumption DEF Command, CommandType, Asked
    <2>5. QED
      BY <2>1, <2>4, PrepareIInv
  <1>5. CASE ExecuteChange(t)
    <2>1. decision[t] \in DecisionType
      BY DEF IInv, TypeOK
    <2>2. 0 \in Path /\ 0 \in 0 .. UintRange - 1
      BY ControlAssumption DEF Path
    <2> DEFINE multi == Command("multi", 0, decision[t].split, 0)
               single == Command("single", decision[t].selected, {}, 0)
    <2>3. multi \in CommandType /\ Asked(multi)
      BY <2>1, <2>2 DEF Command, CommandType, Asked, DecisionType
    <2>4. single \in CommandType /\ Asked(single)
      BY <2>1, <2>2 DEF Command, CommandType, Asked, DecisionType
    <2>5. Prepare(t, multi, "update") \/ Prepare(t, single, "update")
      BY <1>5 DEF ExecuteChange
    <2>6. QED
      BY <2>3, <2>4, <2>5, PrepareIInv
  <1>6. CASE ExecuteNothing(t)
    BY <1>6, SkipIInv DEF ExecuteNothing
  <1>7. CASE Update(t)
    <2>1. decision[t].selected \in Path
      BY DEF IInv, TypeOK, DecisionType
    <2>2. NoDecision \in DecisionType
      BY ControlAssumption DEF NoDecision, Decision, DecisionType, Path
    <2>3. TypeOK'
      BY <1>7, <2>1, <2>2
         DEF IInv, TypeOK, Update, Goto, Forget, metrics, channel, route,
             burst, data
    <2>4. BurstInv'
      BY <1>7 DEF IInv, BurstInv, BurstNeverWraps, Update, channel, burst, data
    <2>5. QED
      BY <2>3, <2>4 DEF IInv
  <1>8. QED
    BY <1>1, <1>2, <1>3, <1>4, <1>5, <1>6, <1>7 DEF Execute

-----------------------------------------------------------------------------
(* Returning from a call clears it.                                        *)
LEMMA ReturnIInv ==
  ASSUME IInv, NEW t \in Threads, NEW where, Return(t, where)
  PROVE  /\ call' \in [Threads -> CallType]
         /\ \A u \in Threads : u # t => call'[u] = call[u]
         /\ \A u \in Threads : Asked(call'[u].cmd)
  <1>1. NoCall \in CallType /\ Asked(NoCall.cmd)
    BY DEF NoCall, CallType, Asked, Command
  <1>2. QED
    BY <1>1 DEF IInv, TypeOK, BurstInv, Return

(* sendRcCommand preserves the invariant.                                  *)
LEMMA RpcIInv ==
  ASSUME IInv, NEW t \in Threads, Rpc(t)
  PROVE  IInv'
  <1> DEFINE Places == {"idle", "reinject", "sweep", "execute", "send",
                        "await", "update"}
  <1>1. CASE Send(t)
    <2>1. call[t].cmd \in CommandType /\ Asked(call[t].cmd)
      BY <1>1 DEF IInv, TypeOK, BurstInv, CallType, Send
    <2>2. [from |-> t, cmd |-> call[t].cmd] \in RequestType
      BY <2>1 DEF RequestType
    <2>3. TypeOK'
      BY <1>1, <2>2
         DEF IInv, TypeOK, Send, Goto, metrics, believed, route, burst, data
    <2>4. BurstInv'
      BY <1>1, <2>1
         DEF IInv, BurstInv, BurstNeverWraps, Send, burst, data
    <2>5. QED
      BY <2>3, <2>4 DEF IInv
  <1>2. ASSUME NEW where \in {"idle", "sweep", "execute", "update"},
               Return(t, where)
        PROVE  /\ pc' \in [Threads -> Places]
               /\ \A u \in Threads :
                    pc'[u] \in {"send", "await"} => call'[u].cmd # NoCall.cmd
    BY <1>2, ReturnIInv DEF IInv, TypeOK, Return, Goto
  <1>3. call[t].ret \in {"sweep", "execute", "update"}
    BY DEF IInv, TypeOK, CallType
  <1>4. CASE SendThrows(t)
    <2>1. NoDecision \in DecisionType
      BY ControlAssumption DEF NoDecision, Decision, DecisionType, Path
    <2>2. TypeOK'
      BY <1>2, <1>4, <2>1, ReturnIInv
         DEF IInv, TypeOK, SendThrows, Forget, metrics, believed, channel,
             route, burst, data
    <2>3. BurstInv'
      BY <1>4, ReturnIInv
         DEF IInv, BurstInv, BurstNeverWraps, SendThrows, channel, burst, data
    <2>4. QED
      BY <2>2, <2>3 DEF IInv
  <1>5. CASE Receive(t)
    <2>1. TypeOK'
      BY <1>2, <1>3, <1>5, ReturnIInv
         DEF IInv, TypeOK, Receive, metrics, believed, route, burst, data
    <2>2. BurstInv'
      BY <1>5, ReturnIInv
         DEF IInv, BurstInv, BurstNeverWraps, Receive, burst, data
    <2>3. QED
      BY <2>1, <2>2 DEF IInv
  <1>6. CASE TimeOut(t)
    <2>1. TypeOK'
      BY <1>2, <1>3, <1>6, ReturnIInv
         DEF IInv, TypeOK, TimeOut, metrics, believed, channel, route, burst,
             data
    <2>2. BurstInv'
      BY <1>6, ReturnIInv
         DEF IInv, BurstInv, BurstNeverWraps, TimeOut, channel, burst, data
    <2>3. QED
      BY <2>1, <2>2 DEF IInv
  <1>7. QED
    BY <1>1, <1>4, <1>5, <1>6 DEF Rpc

-----------------------------------------------------------------------------
(* The CU's handlers preserve the invariant: a burst is started with the   *)
(* number of packets asked for.                                            *)
LEMMA HandleIInv ==
  ASSUME IInv, Handle
  PROVE  IInv'
  <1>1. ASSUME NEW r \in requests, Begin(r)
        PROVE  IInv'
    <2>1. r \in RequestType /\ r.cmd \in CommandType /\ Asked(r.cmd)
      BY <1>1 DEF IInv, TypeOK, BurstInv, RequestType
    <2>2. r.cmd.kind \in {"single", "multi", "burst"} /\ r.cmd.path \in Path
      BY <2>1 DEF CommandType
    <2>3. TypeOK'
      BY <1>1, <2>1, <2>2
         DEF IInv, TypeOK, Begin, metrics, believed, threads, route, burst, data
    <2>4. BurstInv'
      BY <1>1, <2>1, <2>2
         DEF IInv, BurstInv, BurstNeverWraps, Begin, threads, route, burst, data
    <2>5. QED
      BY <2>3, <2>4 DEF IInv
  <1>2. ASSUME NEW r \in handling, Finish(r)
        PROVE  IInv'
    <2>1. /\ r \in RequestType /\ r.from \in Threads
          /\ r.cmd \in CommandType /\ Asked(r.cmd)
      BY <1>2 DEF IInv, TypeOK, BurstInv, RequestType
    <2>2. /\ r.cmd.kind \in {"single", "multi", "burst"}
          /\ r.cmd.n \in 0 .. UintRange - 1
      BY <2>1 DEF CommandType
    <2>3. TypeOK'
      BY <1>2, <2>1, <2>2
         DEF IInv, TypeOK, Finish, metrics, believed, threads, route, burst,
             data
    <2>4. BurstInv'
      BY <1>2, <2>1, <2>2
         DEF IInv, BurstInv, BurstNeverWraps, Finish, threads, route, burst,
             data, Asked
    <2>5. QED
      BY <2>3, <2>4 DEF IInv
  <1>3. QED
    BY <1>1, <1>2 DEF Handle

(* Counting a copy down from a positive number neither wraps nor grows.    *)
LEMMA CountDown ==
  ASSUME NEW n \in 1 .. UintRange - 1
  PROVE  (n - 1) % UintRange = n - 1
  BY ControlAssumption

(* The data thread preserves the invariant: only the handler can change    *)
(* the counter between the test and the decrement, and it stores at least  *)
(* one.                                                                    *)
LEMMA PacketIInv ==
  ASSUME IInv, ProcessPacket
  PROVE  IInv'
  <1> USE DEF DataStep, metrics, believed, threads, channel, route
  <1>1. CASE LoadMode
    BY <1>1 DEF IInv, TypeOK, BurstInv, BurstNeverWraps, LoadMode
  <1>2. CASE PickTarget
    BY <1>2 DEF IInv, TypeOK, BurstInv, BurstNeverWraps, PickTarget
  <1>3. CASE LoadActivePath
    BY <1>3 DEF IInv, TypeOK, BurstInv, BurstNeverWraps, LoadActivePath
  <1>4. CASE LoadBurst
    BY <1>4 DEF IInv, TypeOK, BurstInv, BurstNeverWraps, LoadBurst
  <1>5. CASE LoadAlt
    BY <1>5 DEF IInv, TypeOK, BurstInv, BurstNeverWraps, LoadAlt
  <1>6. CASE SendCopy
    <2>1. reinject_burst_remaining_ \in 1 .. UintRange - 1
      BY <1>6 DEF IInv, TypeOK, BurstInv, SendCopy
    <2>2. /\ reinject_burst_remaining_' \in 0 .. UintRange - 1
          /\ reinject_burst_remaining_' <= reinject_burst_remaining_
      <3>1. (reinject_burst_remaining_ - 1) % UintRange
              = reinject_burst_remaining_ - 1
        BY <2>1, CountDown
      <3>2. reinject_burst_remaining_' \in
              {reinject_burst_remaining_, reinject_burst_remaining_ - 1}
        BY <1>6, <3>1 DEF SendCopy
      <3>3. QED
        BY <2>1, <3>2, ControlAssumption
    <2>3. TypeOK'
      BY <1>6, <2>2 DEF IInv, TypeOK, SendCopy
    <2>4. BurstNeverWraps'
      BY <2>1, <2>2, ControlAssumption DEF IInv, BurstInv, BurstNeverWraps
    <2>5. BurstInv'
      BY <1>6, <2>4 DEF IInv, BurstInv, SendCopy
    <2>6. QED
      BY <2>3, <2>5 DEF IInv
  <1>7. QED
    BY <1>1, <1>2, <1>3, <1>4, <1>5, <1>6 DEF ProcessPacket

(* A KPM report preserves the invariant.                                   *)
LEMMA KpmIInv ==
  ASSUME IInv, NEW l \in Link, KpmReport(l)
  PROVE  IInv'
  BY DEF IInv, TypeOK, BurstInv, BurstNeverWraps, KpmReport, believed, threads,
         channel, route, burst, data

(* The invariant is inductive.                                             *)
LEMMA NextIInv == IInv /\ [Next]_vars => IInv'
  <1> SUFFICES ASSUME IInv, [Next]_vars PROVE IInv'
    OBVIOUS
  <1>1. ASSUME NEW l \in Link, KpmReport(l) PROVE IInv'
    BY <1>1, KpmIInv
  <1>2. ASSUME NEW t \in Threads, RunOnce(t) PROVE IInv'
    BY <1>2, DecideIInv, ExecuteIInv, RpcIInv DEF RunOnce
  <1>3. CASE Handle
    BY <1>3, HandleIInv
  <1>4. CASE ProcessPacket
    BY <1>4, PacketIInv
  <1>5. CASE UNCHANGED vars
    BY <1>5 DEF IInv, TypeOK, BurstInv, BurstNeverWraps, vars, metrics,
                believed, threads, channel, route, burst, data
  <1>6. QED
    BY <1>1, <1>2, <1>3, <1>4, <1>5 DEF Next

(* Type correctness of the control loop: whatever the threads, time-outs   *)
(* and link reports, the CU's active_path and target_path stay valid path  *)
(* numbers and the RIC never sends a command the CU would reject.          *)
THEOREM ControlTypeInvariance == Spec => []TypeOK
  <1>1. IInv => TypeOK
    BY DEF IInv
  <1>2. QED
    BY <1>1, InitIInv, NextIInv, PTL DEF Spec

(* The re-injection counter never wraps, for any number of RIC threads     *)
(* whose bursts overlap with the data thread's test and decrement.         *)
THEOREM BurstSafety == Spec => []BurstNeverWraps
  <1>1. IInv => BurstNeverWraps
    BY DEF IInv, BurstInv
  <1>2. QED
    BY <1>1, InitIInv, NextIInv, PTL DEF Spec

-----------------------------------------------------------------------------
(***************************************************************************)
(* Why a late reply is never taken for another command's: a command that   *)
(* is queued, handled or answered and not read keeps its thread's socket   *)
(* waiting, so there is at most one of them, and a thread that waits put   *)
(* it there itself.                                                        *)
(***************************************************************************)
OneAtATime ==
  /\ \A r, s \in handling : r = s
  /\ \A r \in handling, s \in requests : r.from # s.from
  /\ \A r, s \in requests : r.from = s.from => r = s

SocketWaits ==
  /\ \A r \in requests \cup handling :
       r.from \notin replies /\ req[r.from] = "waiting"
  /\ \A t \in replies : req[t] = "waiting"

Awaited(t) ==
  pc[t] = "await" =>
    /\ req[t] = "waiting"
    /\ \A r \in requests \cup handling : r.from = t => r.cmd = call[t].cmd
    /\ t \in replies \/ \E r \in requests \cup handling : r.from = t

ReplyInv == OneAtATime /\ SocketWaits /\ \A t \in Threads : Awaited(t)

(* Before the first command nothing is outstanding.                        *)
LEMMA InitReply == Init => ReplyInv
  BY DEF Init, ReplyInv, OneAtATime, SocketWaits, Awaited

(* A step that leaves the channel and the sockets alone, and moves at most *)
(* one thread to a place where it does not wait.                           *)
LEMMA ElsewhereReply ==
  ASSUME TypeOK, ReplyInv, NEW t \in Threads,
         NEW where \in {"idle", "reinject", "sweep", "execute", "send",
                        "update"},
         Goto(t, where), UNCHANGED <<channel, req>>,
         \A u \in Threads \ {t} : call'[u] = call[u]
  PROVE  ReplyInv'
  <1>1. \A u \in Threads : pc'[u] = "await" => u # t /\ pc[u] = "await"
    BY DEF TypeOK, Goto
  <1>2. requests' = requests /\ handling' = handling /\ replies' = replies
        /\ req' = req
    BY DEF channel
  <1>3. OneAtATime' /\ SocketWaits'
    BY <1>2 DEF ReplyInv, OneAtATime, SocketWaits
  <1>4. \A u \in Threads : Awaited(u)'
    BY <1>1, <1>2 DEF ReplyInv, Awaited
  <1>5. QED
    BY <1>3, <1>4 DEF ReplyInv

(* Deciding and executing leave the channel alone.                         *)
LEMMA DecideReply ==
  ASSUME TypeOK, ReplyInv, NEW t \in Threads, Decide(t) \/ Execute(t)
  PROVE  ReplyInv'
  <1>1. ASSUME NEW d, Commit(t, d) PROVE ReplyInv'
    <2>1. \E where \in {"reinject", "execute"} : Goto(t, where)
      BY <1>1 DEF Commit
    <2>2. QED
      BY <1>1, <2>1, ElsewhereReply DEF Commit
  <1>2. ASSUME NEW cmd, NEW ret, Prepare(t, cmd, ret) PROVE ReplyInv'
    <2>1. \A u \in Threads \ {t} : call'[u] = call[u]
      BY <1>2 DEF Prepare, TypeOK
    <2>2. Goto(t, "send") /\ UNCHANGED <<channel, req>>
      BY <1>2 DEF Prepare
    <2>3. QED
      BY <2>1, <2>2, ElsewhereReply
  <1>3. ASSUME NEW from, NEW to \in {"sweep", "execute", "update"},
               SkipTo(t, from, to)
        PROVE  ReplyInv'
    BY <1>3, ElsewhereReply DEF SkipTo
  <1>4. CASE Decide(t)
    <2>1. \E d : Commit(t, d)
      BY <1>4 DEF Decide, DecideDeferred, DecideSingle, DecideMulti
    <2>2. QED
      BY <1>1, <2>1
  <1>5. CASE NoReinjection(t) \/ NoSweepBurst(t) \/ ExecuteNothing(t)
    BY <1>3, <1>5 DEF NoReinjection, NoSweepBurst, ExecuteNothing
  <1>6. CASE Reinject(t) \/ SweepBurst(t) \/ ExecuteChange(t)
    <2>1. \E cmd, ret : Prepare(t, cmd, ret)
      BY <1>6 DEF Reinject, SweepBurst, ExecuteChange
    <2>2. QED
      BY <1>2, <2>1
  <1>7. CASE Update(t)
    BY <1>7, ElsewhereReply DEF Update
  <1>8. QED
    BY <1>4, <1>5, <1>6, <1>7, Zenon DEF Execute

(* sendRcCommand: only a ready socket sends, and it has nothing            *)
(* outstanding; a call that times out leaves its socket waiting.           *)
LEMMA RpcReply ==
  ASSUME TypeOK, ReplyInv, NEW t \in Threads, Rpc(t)
  PROVE  ReplyInv'
  <1>1. CASE Send(t)
    <2> DEFINE sent == [from |-> t, cmd |-> call[t].cmd]
    <2>1. /\ requests' = requests \cup {sent} /\ handling' = handling
          /\ replies' = replies /\ call' = call
          /\ req[t] = "ready" /\ req' = [req EXCEPT ![t] = "waiting"]
          /\ pc' = [pc EXCEPT ![t] = "await"]
      BY <1>1 DEF Send, Goto
    <2>2. \A r \in requests \cup handling : r.from # t
      BY <2>1 DEF ReplyInv, SocketWaits
    <2>3. t \notin replies
      BY <2>1 DEF ReplyInv, SocketWaits
    <2>4. sent.from = t /\ sent.cmd = call[t].cmd
      OBVIOUS
    <2> HIDE DEF sent
    <2>5. OneAtATime'
      BY <2>1, <2>2, <2>4 DEF ReplyInv, OneAtATime
    <2>6. \A r \in requests \cup handling : r.from \in Threads
      BY DEF TypeOK, RequestType
    <2>7. SocketWaits'
      BY <2>1, <2>2, <2>3, <2>4, <2>6 DEF ReplyInv, SocketWaits, TypeOK
    <2>8. \A u \in Threads : Awaited(u)'
      BY <2>1, <2>2, <2>4 DEF ReplyInv, Awaited, TypeOK
    <2>9. QED
      BY <2>5, <2>7, <2>8 DEF ReplyInv
  <1>2. CASE SendThrows(t)
    <2>1. \A u \in Threads \ {t} : call'[u] = call[u]
      BY <1>2 DEF SendThrows, Return, TypeOK
    <2>2. QED
      BY <1>2, <2>1, ElsewhereReply DEF SendThrows, Return
  <1>3. CASE Receive(t)
    <2>1. /\ requests' = requests /\ handling' = handling
          /\ t \in replies /\ replies' = replies \ {t}
          /\ req' = [req EXCEPT ![t] = "ready"]
          /\ call' = [call EXCEPT ![t] = NoCall]
          /\ pc' = [pc EXCEPT ![t] = call[t].ret]
      BY <1>3 DEF Receive, Return, Goto
    <2>2. \A r \in requests \cup handling : r.from # t
      BY <2>1 DEF ReplyInv, SocketWaits
    <2>3. OneAtATime' /\ SocketWaits'
      BY <2>1, <2>2 DEF ReplyInv, OneAtATime, SocketWaits, TypeOK
    <2>4. call[t].ret # "await"
      BY DEF TypeOK, CallType
    <2>5. \A u \in Threads : Awaited(u)'
      BY <2>1, <2>2, <2>4 DEF ReplyInv, Awaited, TypeOK
    <2>6. QED
      BY <2>3, <2>5 DEF ReplyInv
  <1>4. CASE TimeOut(t)
    <2>1. \A u \in Threads \ {t} : call'[u] = call[u]
      BY <1>4 DEF TimeOut, Return, TypeOK
    <2>2. call[t].ret \in {"sweep", "execute", "update"}
      BY DEF TypeOK, CallType
    <2>3. QED
      BY <1>4, <2>1, <2>2, ElsewhereReply DEF TimeOut, Return
  <1>5. QED
    BY <1>1, <1>2, <1>3, <1>4 DEF Rpc

(* The CU's listen thread: a command is taken once and answered once.      *)
LEMMA HandleReply ==
  ASSUME TypeOK, ReplyInv, Handle
  PROVE  ReplyInv'
  <1>1. ASSUME NEW r \in requests, Begin(r)
        PROVE  ReplyInv'
    <2>1. /\ handling = {} /\ requests' = requests \ {r} /\ handling' = {r}
          /\ replies' = replies /\ req' = req /\ pc' = pc /\ call' = call
      BY <1>1 DEF Begin, threads
    <2>2. requests' \cup handling' = requests \cup handling
      BY <1>1, <2>1
    <2>3. OneAtATime'
      BY <1>1, <2>1 DEF ReplyInv, OneAtATime
    <2>4. SocketWaits' /\ \A u \in Threads : Awaited(u)'
      BY <2>1, <2>2 DEF ReplyInv, SocketWaits, Awaited
    <2>5. QED
      BY <2>3, <2>4 DEF ReplyInv
  <1>2. ASSUME NEW r \in handling, Finish(r)
        PROVE  ReplyInv'
    <2>1. /\ requests' = requests /\ handling' = {}
          /\ replies' = replies \cup {r.from}
          /\ req' = req /\ pc' = pc /\ call' = call
      BY <1>2 DEF Finish, threads
    <2>2. handling = {r} /\ req[r.from] = "waiting"
      BY <1>2 DEF ReplyInv, OneAtATime, SocketWaits
    <2>3. \A s \in requests : s.from # r.from
      BY <1>2 DEF ReplyInv, OneAtATime
    <2>4. OneAtATime' /\ SocketWaits'
      BY <2>1, <2>2, <2>3 DEF ReplyInv, OneAtATime, SocketWaits
    <2>5. \A u \in Threads : Awaited(u)'
      BY <2>1, <2>2, <2>3 DEF ReplyInv, Awaited
    <2>6. QED
      BY <2>4, <2>5 DEF ReplyInv
  <1>3. QED
    BY <1>1, <1>2 DEF Handle

(* Reports and packets touch neither threads nor channel.                  *)
LEMMA QuietReply ==
  ASSUME ReplyInv, UNCHANGED <<threads, req, channel>>
  PROVE  ReplyInv'
  BY DEF ReplyInv, OneAtATime, SocketWaits, Awaited, threads, channel

LEMMA NextReply == TypeOK /\ ReplyInv /\ [Next]_vars => ReplyInv'
  <1> SUFFICES ASSUME TypeOK, ReplyInv, [Next]_vars PROVE ReplyInv'
    OBVIOUS
  <1>1. ASSUME NEW l \in Link, KpmReport(l) PROVE ReplyInv'
    BY <1>1, QuietReply DEF KpmReport
  <1>2. ASSUME NEW t \in Threads, RunOnce(t) PROVE ReplyInv'
    BY <1>2, DecideReply, RpcReply DEF RunOnce
  <1>3. CASE Handle
    BY <1>3, HandleReply
  <1>4. CASE ProcessPacket
    <2>1. \E from, to : DataStep(from, to)
      BY <1>4 DEF ProcessPacket, LoadMode, PickTarget, LoadActivePath,
                  LoadBurst, LoadAlt, SendCopy
    <2>2. QED
      BY <2>1, QuietReply DEF DataStep
  <1>5. CASE UNCHANGED vars
    BY <1>5, QuietReply DEF vars
  <1>6. QED
    BY <1>1, <1>2, <1>3, <1>4, <1>5 DEF Next

(* What a waiting thread has outstanding is the command it waits for.      *)
LEMMA AwaitedMatches == TypeOK /\ ReplyInv => ReplyMatches
  <1> SUFFICES ASSUME TypeOK, ReplyInv, NEW t \in Threads, pc[t] = "await"
               PROVE  Outstanding(t) = IF t \in replies THEN {}
                                       ELSE {[from |-> t, cmd |-> call[t].cmd]}
    BY DEF ReplyMatches
  <1>1. CASE t \in replies
    BY <1>1 DEF ReplyInv, SocketWaits, Outstanding
  <1>2. CASE t \notin replies
    <2>1. \A r \in requests \cup handling :
            r.from = t => r = [from |-> t, cmd |-> call[t].cmd]
      <3>1. SUFFICES ASSUME NEW r \in requests \cup handling, r.from = t
                     PROVE  r = [from |-> t, cmd |-> call[t].cmd]
        OBVIOUS
      <3>2. r \in RequestType /\ r.cmd = call[t].cmd
        BY <3>1 DEF TypeOK, ReplyInv, Awaited
      <3>3. QED
        BY <3>1, <3>2 DEF RequestType
    <2>2. \E r \in requests \cup handling : r.from = t
      BY <1>2 DEF ReplyInv, Awaited
    <2>3. QED
      BY <1>2, <2>1, <2>2 DEF Outstanding
  <1>3. QED
    BY <1>1, <1>2

(* A late reply is never taken for the reply to a later command, for any   *)
(* number of RIC threads, whatever times out.                              *)
THEOREM RepliesMatch == Spec => []ReplyMatches
  <1>1. TypeOK /\ ReplyInv /\ [Next]_vars => ReplyInv'
    BY NextReply
  <1>2. QED
    BY <1>1, InitReply, ControlTypeInvariance, AwaitedMatches, PTL DEF Spec
=============================================================================
