------------------------- MODULE EtcdClusterProofs -------------------------
(***************************************************************************)
(* The safety of EtcdCluster, for every set of members, every number of      *)
(* workers, and any number of faults.                                       *)
(*                                                                         *)
(* A step is a step of one member, so that every proof has two halves: what  *)
(* a step does to the member that takes it, and the frame: what it leaves    *)
(* alone in all the others.                                                 *)
(***************************************************************************)
EXTENDS EtcdCluster, NumberingProofs

(***************************************************************************)
(* The position that cluster_etcd_balance_() computes has its type.         *)
(***************************************************************************)
LEMMA PositionType ==
  ASSUME TypeOK, NEW n \in Node
  PROVE  Position(n) \in [index : Int, total : Int]
<1>1. IsFiniteSet(Members)
  BY NodeAssumption, FS_Subset DEF Members
<1>2. \A m \in Members : dir[m] \in (-MaxOwed)..MaxWorkers
  BY DEF TypeOK, Members, Listed, MinWorkers
<1>3. SumOf(dir, Members) \in Int /\ SumBefore(dir, Members, n) \in Int
  BY <1>1, <1>2, SumType, WorkersAssumption
<1> QED  BY <1>3 DEF Position

(***************************************************************************)
(* Waking the watchers keeps the balancer threads where they may be.        *)
(***************************************************************************)
LEMMA WakeType ==
  ASSUME TypeOK
  PROVE  Wake(bal) \in [Node -> BalLocations]
BY DEF TypeOK, Wake, BalLocations

(***************************************************************************)
(* What a join that starts its threads is left with, whether or not they     *)
(* could be created.                                                        *)
(***************************************************************************)
LEMMA Started ==
  ASSUME TypeOK, NEW k \in Node, StartThreads(k)
  PROVE  /\ app' = [app EXCEPT ![k] = "in"]
         /\ flags' = [flags EXCEPT ![k] = flags[k] \cup {"JOINED"}]
         /\ \E p \in {"loop"} \cup Missing : ping' = [ping EXCEPT ![k] = p]
         /\ \E b \in {"check"} \cup Missing : bal' = [bal EXCEPT ![k] = b]
         /\ changes' = changes /\ faults' \in 0..MaxFaults
         /\ faults' = 0 => faults = 0 /\ ping'[k] = "loop"
BY BoundsAssumption DEF StartThreads, Created, Missing, TypeOK, Fault, bounds

LEMMA StartedType ==
  ASSUME TypeOK, NEW k \in Node, StartThreads(k)
  PROVE  /\ app' \in [Node -> AppLocations]
         /\ flags' \in [Node -> SUBSET {"JOINED", "LEAVING", "PASSIVE"}]
         /\ ping' \in [Node -> PingLocations]
         /\ bal' \in [Node -> BalLocations]
<1>1. app' \in [Node -> AppLocations]
  BY Started DEF TypeOK, AppLocations
<1>2. flags' \in [Node -> SUBSET {"JOINED", "LEAVING", "PASSIVE"}]
  BY Started DEF TypeOK
<1>3. ping' \in [Node -> PingLocations]
  BY Started DEF TypeOK, PingLocations, Missing
<1>4. bal' \in [Node -> BalLocations]
  BY Started DEF TypeOK, BalLocations, Missing
<1> QED  BY <1>1, <1>2, <1>3, <1>4

(***************************************************************************)
(* The registry, the CLUSTER object and the threads keep their types.       *)
(***************************************************************************)
LEMMA TypeStep == TypeOK /\ [Next]_vars => TypeOK'
<1> SUFFICES ASSUME TypeOK, [Next]_vars PROVE TypeOK'
  OBVIOUS
<1> USE BoundsAssumption DEF TypeOK, object, threads, seen, bounds
<1>1. Wake(bal) \in [Node -> BalLocations]
  BY WakeType
<1>2. ASSUME NEW k \in Node, AppCalls(k) PROVE TypeOK'
  <2>1. ASSUME NEW p \in JoinModes(k),
               JoinConnect(k, p) \/ JoinConnectFail(k, p)
        PROVE  TypeOK'
    <3>1. UNCHANGED <<dir, workers, ping, bal, snap, changes>>
      BY <2>1 DEF JoinConnect, JoinConnectFail, BeginJoin, Fault
    <3>2. /\ flags' \in [Node -> SUBSET {"JOINED", "LEAVING", "PASSIVE"}]
          /\ told' \in [Node -> SUBSET ClusterState]
      <4>1. \/ flags' = [flags EXCEPT ![k] = flags[k] \cup {"PASSIVE"}]
            \/ flags' = [flags EXCEPT ![k] = flags[k]]
        BY <2>1, Zenon DEF JoinConnect, JoinConnectFail, BeginJoin
      <4>2. told' = [told EXCEPT ![k] = {}]
        BY <2>1 DEF JoinConnect, JoinConnectFail, BeginJoin
      <4> QED  BY <4>1, <4>2
    <3>3. pos' \in [Node -> [index : Int, total : Int]]
      <4>1. [pos[k] EXCEPT !.index = -1] \in [index : Int, total : Int]
        OBVIOUS
      <4>2. pos' = [pos EXCEPT ![k] = [pos[k] EXCEPT !.index = -1]]
        BY <2>1 DEF JoinConnect, JoinConnectFail, BeginJoin
      <4> QED  BY <4>1, <4>2
    <3>4. envdir' \in [Node -> BOOLEAN] /\ app' \in [Node -> AppLocations]
      BY <2>1 DEF JoinConnect, JoinConnectFail, AppLocations
    <3>5. faults' \in 0..MaxFaults
      BY <2>1 DEF JoinConnect, JoinConnectFail, Fault
    <3> QED  BY <3>1, <3>2, <3>3, <3>4, <3>5
  <2>2. ASSUME NEW w \in MinWorkers..MaxWorkers, SetWorkers(k, w) PROVE TypeOK'
    BY <2>2 DEF SetWorkers
  <2>3. ASSUME Leave(k) PROVE TypeOK'
    BY <2>3 DEF Leave, AppLocations
  <2> QED  BY <1>2, <2>1, <2>2, <2>3 DEF AppCalls
<1>3. ASSUME NEW k \in Node, AppSteps(k) PROVE TypeOK'
  <2>1. CASE JoinPing(k)
    BY <1>1, <2>1 DEF JoinPing, Put, AppLocations
  <2>2. CASE JoinBalance(k)
    <3>1. Position(k) \in [index : Int, total : Int]
      BY PositionType
    <3>2. pos' \in [Node -> [index : Int, total : Int]]
      BY <2>2, <3>1 DEF JoinBalance
    <3>3. /\ UNCHANGED <<dir, workers, envdir, snap, told, changes>>
          /\ faults' \in 0..MaxFaults
          /\ app' \in [Node -> AppLocations]
          /\ ping' \in [Node -> PingLocations]
          /\ bal' \in [Node -> BalLocations]
          /\ flags' \in [Node -> SUBSET {"JOINED", "LEAVING", "PASSIVE"}]
      <4>1. CASE /\ app' = [app EXCEPT ![k] = "notify"]
                 /\ UNCHANGED <<flags, ping, bal, bounds>>
        BY <2>2, <4>1 DEF JoinBalance, AppLocations
      <4>2. CASE StartThreads(k)
        BY <2>2, <4>2, Started, StartedType DEF JoinBalance
      <4> QED  BY <2>2, <4>1, <4>2 DEF JoinBalance
    <3> QED  BY <3>2, <3>3
  <2>3. CASE JoinSnapshot(k)
    <3>1. State(k) \in ClusterState
      BY DEF State, ClusterState
    <3> QED  BY <2>3, <3>1 DEF JoinSnapshot, Snapshot, AppLocations
  <2>4. CASE JoinCallback(k)
    BY <2>4 DEF JoinCallback, Callback, AppLocations
  <2>5. CASE JoinFinish(k)
    BY <2>5, Started, StartedType DEF JoinFinish
  <2>6. CASE LeaveJoinPing(k)
    BY <2>6 DEF LeaveJoinPing, AppLocations, PingLocations, Missing
  <2>7. CASE LeaveFinish(k)
    BY <2>7 DEF LeaveFinish, Unwind, AppLocations, BalLocations, Missing
  <2> QED
    BY <1>3, <2>1, <2>2, <2>3, <2>4, <2>5, <2>6, <2>7 DEF AppSteps
<1>4. ASSUME NEW k \in Node, PingSteps(k) PROVE TypeOK'
  <2>1. CASE PingLeave(k)
    BY <2>1 DEF PingLeave, PingLocations
  <2>2. CASE PingSend(k)
    BY <1>1, <2>2 DEF PingSend, Put
  <2>3. CASE Unping(k)
    BY <1>1, <2>3 DEF Unping, Remove, PingLocations
  <2> QED  BY <1>4, <2>1, <2>2, <2>3 DEF PingSteps
<1>5. ASSUME NEW k \in Node, BalSteps(k) PROVE TypeOK'
  <2> USE DEF BalStep, BalLocations
  <2>1. CASE BalCheck(k) \/ BalArm(k)
    BY <2>1 DEF BalCheck, BalArm
  <2>2. CASE BalBalance(k)
    <3>1. Position(k) \in [index : Int, total : Int]
      BY PositionType
    <3>2. pos' \in [Node -> [index : Int, total : Int]]
      BY <2>2, <3>1 DEF BalBalance
    <3>3. /\ UNCHANGED <<dir, workers, flags, envdir, app, ping, snap, told,
                         changes, faults>>
          /\ bal' \in [Node -> BalLocations]
      BY <2>2 DEF BalBalance
    <3> QED  BY <3>2, <3>3
  <2>3. CASE BalSnapshot(k)
    <3>1. State(k) \in ClusterState
      BY DEF State, ClusterState
    <3> QED  BY <2>3, <3>1 DEF BalSnapshot, Snapshot
  <2>4. CASE BalCallback(k)
    BY <2>4 DEF BalCallback, Callback
  <2> QED  BY <1>5, <2>1, <2>2, <2>3, <2>4 DEF BalSteps
<1>6. ASSUME NEW k \in Node, Failures(k) PROVE TypeOK'
  <2> USE DEF Fault, Unwind, AppLocations
  <2>1. CASE JoinPingFail(k)
    <3>1. /\ dir' \in [Node -> (MinWorkers..MaxWorkers) \cup {Absent}]
          /\ bal' \in [Node -> BalLocations]
      BY <1>1, <2>1 DEF JoinPingFail, Put
    <3>2. UNCHANGED <<workers, pos, ping, snap, told, changes>>
      BY <2>1 DEF JoinPingFail
    <3>3. /\ flags' \in [Node -> SUBSET {"JOINED", "LEAVING", "PASSIVE"}]
          /\ envdir' \in [Node -> BOOLEAN]
          /\ app' \in [Node -> AppLocations]
          /\ faults' \in 0..MaxFaults
      BY <2>1 DEF JoinPingFail
    <3> QED  BY <3>1, <3>2, <3>3
  <2>2. CASE JoinBalanceFail(k)
    BY <2>2 DEF JoinBalanceFail
  <2>3. CASE UnpingFail(k)
    BY <2>3 DEF UnpingFail, PingLocations
  <2>4. CASE BalWaitFail(k) \/ BalBalanceFail(k)
    BY <2>4 DEF BalWaitFail, BalBalanceFail, BalStep, BalLocations
  <2>5. CASE Crash(k)
    BY <2>5, WorkersAssumption
    DEF Crash, Fresh, MinWorkers, Missing, PingLocations, BalLocations
  <2> QED
    BY <1>6, <2>1, <2>2, <2>3, <2>4, <2>5 DEF Failures
<1>7. ASSUME NEW k \in Node, Expire(k) PROVE TypeOK'
  BY <1>1, <1>7 DEF Expire, Remove, Fault
<1>8. CASE UNCHANGED vars
  BY <1>8 DEF vars
<1> QED
  BY <1>2, <1>3, <1>4, <1>5, <1>6, <1>7, <1>8 DEF Next, Step

(***************************************************************************)
(* The state of the cluster always has its type, whatever the members do and  *)
(* whatever fails; in particular nothing is published but worker counts that   *)
(* the applications have set.                                               *)
(***************************************************************************)
THEOREM TypeCorrect == Spec => []TypeOK
<1>1. Init => TypeOK
  BY WorkersAssumption, BoundsAssumption
  DEF Init, TypeOK, Fresh, MinWorkers, Missing, AppLocations, PingLocations, BalLocations
<1> QED  BY <1>1, TypeStep, PTL DEF Spec

-----------------------------------------------------------------------------
(***************************************************************************)
(* The life cycle of a member: where the three threads can be together, and  *)
(* what the flags and the handles say then.                                 *)
(***************************************************************************)
LifeCycle(n) ==
  /\ app[n] \in {"out", "ping", "balance", "notify", "call", "finish"} =>
       ping[n] = "none" /\ bal[n] = "none"
         /\ "JOINED" \notin flags[n] /\ "LEAVING" \notin flags[n]
  /\ app[n] = "in" =>
       ping[n] \in {"loop"} \cup Missing /\ bal[n] # "ended"
         /\ "JOINED" \in flags[n] /\ "LEAVING" \notin flags[n]
  /\ app[n] \in {"joinping", "joinbal"} =>
       "JOINED" \in flags[n] /\ "LEAVING" \in flags[n]
  /\ app[n] = "joinbal" => ping[n] = "none"
  /\ app[n] # "out" => envdir[n]

(***************************************************************************)
(* What the application has been told, along the life of a member.          *)
(***************************************************************************)
Current(n, S) ==
  S # {} /\ \A s \in S : s.index = pos[n].index /\ s.total = pos[n].total

Untold(n) == told[n] = {} /\ pos[n].index = -1

Reported(n) ==
  /\ app[n] \in {"ping", "balance"} => Untold(n)
  /\ app[n] = "call" \/ bal[n] = "call" => Current(n, snap[n])
  /\ app[n] \in {"finish", "in", "joinping", "joinbal"}
       /\ bal[n] \notin {"notify", "call"} => Untold(n) \/ Current(n, told[n])

(***************************************************************************)
(* Where, without a fault, a member cannot be in the directory: it has a      *)
(* ping thread, which has removed the entry when it ends.                    *)
(***************************************************************************)
Gone(n) ==
  faults = 0 =>
    /\ app[n] \in {"in", "joinping"} => ping[n] \notin Missing
    /\ app[n] \in {"out", "ping", "joinbal"} \/ ping[n] = "ended" => ~Listed(n)

MemberInv(n) == LifeCycle(n) /\ Reported(n) /\ Gone(n)

(***************************************************************************)
(* The frame: a step of member k does at most one thing to another member n: *)
(* it wakes the balancer thread of n from its wait.                         *)
(***************************************************************************)
Framed(n) ==
  /\ app'[n] = app[n] /\ ping'[n] = ping[n]
  /\ flags'[n] = flags[n] /\ envdir'[n] = envdir[n]
  /\ pos'[n] = pos[n] /\ snap'[n] = snap[n] /\ told'[n] = told[n]
  /\ dir'[n] = dir[n] /\ workers'[n] = workers[n]
  /\ bal'[n] = bal[n] \/ (bal[n] = "wait" /\ bal'[n] = "woken")
  /\ faults' = 0 => faults = 0

LEMMA Frame ==
  ASSUME TypeOK, NEW k \in Node, Step(k), NEW n \in Node, n # k
  PROVE  Framed(n)
<1> USE DEF TypeOK, Framed, object, threads, seen, bounds, Fault
<1>1. CASE AppCalls(k)
  BY <1>1 DEF AppCalls, JoinConnect, JoinConnectFail, BeginJoin, SetWorkers,
              Leave
<1>2. CASE AppSteps(k)
  <2>1. CASE JoinPing(k)
    BY <2>1 DEF JoinPing, Put, Wake
  <2>2. CASE JoinBalance(k)
    <3>1. CASE StartThreads(k)
      BY <2>2, <3>1, Started DEF JoinBalance
    <3> QED  BY <2>2, <3>1 DEF JoinBalance
  <2>3. CASE JoinSnapshot(k) \/ JoinCallback(k)
    BY <2>3 DEF JoinSnapshot, JoinCallback, Snapshot, Callback
  <2>4. CASE JoinFinish(k)
    BY <2>4, Started DEF JoinFinish
  <2>5. CASE LeaveJoinPing(k) \/ LeaveFinish(k)
    BY <2>5 DEF LeaveJoinPing, LeaveFinish, Unwind
  <2> QED  BY <1>2, <2>1, <2>2, <2>3, <2>4, <2>5 DEF AppSteps
<1>3. CASE PingSteps(k)
  BY <1>3 DEF PingSteps, PingLeave, PingSend, Unping, Put, Remove, Wake
<1>4. CASE BalSteps(k)
  BY <1>4 DEF BalSteps, BalCheck, BalArm, BalBalance, BalSnapshot, BalCallback,
              BalStep, Snapshot, Callback
<1>5. CASE Failures(k)
  <2>1. CASE JoinPingFail(k)
    BY <2>1 DEF JoinPingFail, Put, Wake, Unwind
  <2>2. CASE JoinBalanceFail(k)
    BY <2>2 DEF JoinBalanceFail, Unwind
  <2>3. CASE UnpingFail(k) \/ BalWaitFail(k) \/ BalBalanceFail(k)
    BY <2>3 DEF UnpingFail, BalWaitFail, BalBalanceFail, BalStep
  <2>4. CASE Crash(k)
    BY <2>4 DEF Crash
  <2> QED  BY <1>5, <2>1, <2>2, <2>3, <2>4 DEF Failures
<1>6. CASE Expire(k)
  BY <1>6 DEF Expire, Remove, Wake
<1> QED  BY <1>1, <1>2, <1>3, <1>4, <1>5, <1>6 DEF Step

(***************************************************************************)
(* What a member is left with when another one takes a step.                *)
(***************************************************************************)
LEMMA OthersKeep ==
  ASSUME NEW n \in Node, MemberInv(n), Framed(n)
  PROVE  MemberInv(n)'
<1>1. LifeCycle(n)'
  BY DEF MemberInv, LifeCycle, Framed, BalRuns
<1>2. Reported(n)'
  BY DEF MemberInv, Reported, Framed, Untold, Current
<1>3. Gone(n)'
  BY DEF MemberInv, Gone, Framed, Listed
<1> QED  BY <1>1, <1>2, <1>3 DEF MemberInv

(***************************************************************************)
(* The threads of a member follow its life cycle.                            *)
(***************************************************************************)
LEMMA LifeCycleStep ==
  ASSUME TypeOK, NEW k \in Node, MemberInv(k), Step(k)
  PROVE  LifeCycle(k)'
<1> USE DEF TypeOK, MemberInv, LifeCycle, BalRuns, Missing, AppLocations,
            PingLocations, BalLocations, object, threads, seen, bounds
<1>1. CASE AppCalls(k)
  <2>1. CASE \E p \in JoinModes(k) : JoinConnect(k, p)
    BY <2>1 DEF JoinConnect, BeginJoin
  <2>2. CASE \E p \in JoinModes(k) : JoinConnectFail(k, p)
    BY <2>2 DEF JoinConnectFail, BeginJoin, Fault
  <2>3. CASE \E w \in MinWorkers..MaxWorkers : SetWorkers(k, w)
    BY <2>3 DEF SetWorkers
  <2>4. CASE Leave(k)
    BY <2>4 DEF Leave
  <2> QED  BY <1>1, <2>1, <2>2, <2>3, <2>4 DEF AppCalls
<1>2. CASE AppSteps(k)
  <2>1. CASE JoinPing(k)
    BY <2>1 DEF JoinPing, Put, Wake
  <2>2. CASE JoinBalance(k)
    <3>1. CASE app' = [app EXCEPT ![k] = "notify"]
                 /\ UNCHANGED <<flags, ping, bal>>
      BY <2>2, <3>1 DEF JoinBalance
    <3>2. CASE StartThreads(k)
      <4>1. /\ app'[k] = "in" /\ ping'[k] \in {"loop"} \cup Missing
            /\ bal'[k] \in {"check"} \cup Missing
        BY <3>2, Started
      <4>2. flags'[k] = flags[k] \cup {"JOINED"} /\ envdir'[k]
        BY <2>2, <3>2, Started DEF JoinBalance
      <4> QED  BY <2>2, <4>1, <4>2 DEF JoinBalance
    <3> QED  BY <2>2, <3>1, <3>2 DEF JoinBalance
  <2>3. CASE JoinSnapshot(k)
    BY <2>3 DEF JoinSnapshot, Snapshot, State
  <2>4. CASE JoinCallback(k)
    BY <2>4 DEF JoinCallback, Callback
  <2>5. CASE JoinFinish(k)
    <3>1. /\ app'[k] = "in" /\ ping'[k] \in {"loop"} \cup Missing
          /\ bal'[k] \in {"check"} \cup Missing
      BY <2>5, Started DEF JoinFinish
    <3>2. flags'[k] = flags[k] \cup {"JOINED"} /\ envdir'[k]
      BY <2>5, Started DEF JoinFinish
    <3> QED  BY <2>5, <3>1, <3>2 DEF JoinFinish
  <2>6. CASE LeaveJoinPing(k)
    BY <2>6 DEF LeaveJoinPing
  <2>7. CASE LeaveFinish(k)
    BY <2>7 DEF LeaveFinish, Unwind
  <2> QED  BY <1>2, <2>1, <2>2, <2>3, <2>4, <2>5, <2>6, <2>7 DEF AppSteps
<1>3. CASE PingSteps(k)
  <2>1. CASE PingLeave(k)
    BY <2>1 DEF PingLeave
  <2>2. CASE PingSend(k)
    BY <2>2 DEF PingSend, Put, Wake
  <2>3. CASE Unping(k)
    BY <2>3 DEF Unping, Remove, Wake
  <2> QED  BY <1>3, <2>1, <2>2, <2>3 DEF PingSteps
<1>4. CASE BalSteps(k)
  <2>1. CASE BalCheck(k)
    BY <2>1 DEF BalCheck, BalStep
  <2>2. CASE BalArm(k)
    BY <2>2 DEF BalArm, BalStep
  <2>3. CASE BalBalance(k)
    BY <2>3 DEF BalBalance, BalStep
  <2>4. CASE BalSnapshot(k)
    BY <2>4 DEF BalSnapshot, BalStep, Snapshot, State
  <2>5. CASE BalCallback(k)
    BY <2>5 DEF BalCallback, BalStep, Callback
  <2> QED  BY <1>4, <2>1, <2>2, <2>3, <2>4, <2>5 DEF BalSteps
<1>5. CASE Failures(k)
  <2>1. CASE JoinPingFail(k)
    BY <2>1 DEF JoinPingFail, Put, Wake, Unwind, Fault
  <2>2. CASE JoinBalanceFail(k)
    BY <2>2 DEF JoinBalanceFail, Unwind, Fault
  <2>3. CASE UnpingFail(k)
    BY <2>3 DEF UnpingFail, Fault
  <2>4. CASE BalWaitFail(k)
    BY <2>4 DEF BalWaitFail, BalStep, Fault
  <2>5. CASE BalBalanceFail(k)
    BY <2>5 DEF BalBalanceFail, BalStep, Fault
  <2>6. CASE Crash(k)
    BY <2>6 DEF Crash, Fault
  <2> QED  BY <1>5, <2>1, <2>2, <2>3, <2>4, <2>5, <2>6 DEF Failures
<1>6. CASE Expire(k)
  BY <1>6 DEF Expire, Remove, Wake, Fault, Kept
<1> QED  BY <1>1, <1>2, <1>3, <1>4, <1>5, <1>6 DEF Step

(***************************************************************************)
(* A member's application is told what the library knows.                   *)
(***************************************************************************)
LEMMA ReportedStep ==
  ASSUME TypeOK, NEW k \in Node, MemberInv(k), Step(k)
  PROVE  Reported(k)'
<1> USE DEF TypeOK, MemberInv, LifeCycle, Reported, Untold, Current, BalRuns,
            Missing,
            object, threads, seen, bounds
<1>1. CASE AppCalls(k)
  <2>1. CASE \E p \in JoinModes(k) : JoinConnect(k, p)
    BY <2>1 DEF JoinConnect, BeginJoin
  <2>2. CASE \E p \in JoinModes(k) : JoinConnectFail(k, p)
    BY <2>2 DEF JoinConnectFail, BeginJoin, Fault
  <2>3. CASE \E w \in MinWorkers..MaxWorkers : SetWorkers(k, w)
    BY <2>3 DEF SetWorkers
  <2>4. CASE Leave(k)
    BY <2>4 DEF Leave
  <2> QED  BY <1>1, <2>1, <2>2, <2>3, <2>4 DEF AppCalls
<1>2. CASE AppSteps(k)
  <2>1. CASE JoinPing(k)
    BY <2>1 DEF JoinPing, Put, Wake
  <2>2. CASE JoinBalance(k)
    <3>1. CASE app' = [app EXCEPT ![k] = "notify"] /\ UNCHANGED bal
      <4>1. app'[k] = "notify" /\ bal'[k] = "none"
        BY <2>2, <3>1 DEF JoinBalance
      <4> QED  BY <4>1
    <3>2. CASE StartThreads(k) /\ UNCHANGED pos
      <4>1. app'[k] = "in" /\ bal'[k] \in {"check"} \cup Missing
        BY <3>2, Started
      <4>2. told'[k] = {} /\ pos'[k].index = -1
        BY <2>2, <3>2 DEF JoinBalance
      <4> QED  BY <4>1, <4>2
    <3> QED  BY <2>2, <3>1, <3>2 DEF JoinBalance
  <2>3. CASE JoinSnapshot(k)
    <3>1. snap'[k] = {State(k)} /\ pos'[k] = pos[k]
      BY <2>3 DEF JoinSnapshot, Snapshot
    <3>2. app'[k] = "call" /\ bal'[k] = "none"
      BY <2>3 DEF JoinSnapshot
    <3> QED  BY <3>1, <3>2 DEF State
  <2>4. CASE JoinCallback(k)
    BY <2>4 DEF JoinCallback, Callback
  <2>5. CASE JoinFinish(k)
    <3>1. app'[k] = "in" /\ bal'[k] \in {"check"} \cup Missing
      BY <2>5, Started DEF JoinFinish
    <3>2. told'[k] = told[k] /\ pos'[k] = pos[k]
      BY <2>5 DEF JoinFinish
    <3>3. Untold(k) \/ Current(k, told[k])
      BY <2>5 DEF JoinFinish
    <3> QED  BY <3>1, <3>2, <3>3
  <2>6. CASE LeaveJoinPing(k)
    BY <2>6 DEF LeaveJoinPing
  <2>7. CASE LeaveFinish(k)
    BY <2>7 DEF LeaveFinish, Unwind
  <2> QED  BY <1>2, <2>1, <2>2, <2>3, <2>4, <2>5, <2>6, <2>7 DEF AppSteps
<1>3. CASE PingSteps(k)
  <2>1. CASE PingLeave(k)
    BY <2>1 DEF PingLeave
  <2>2. CASE PingSend(k)
    BY <2>2 DEF PingSend, Put, Wake
  <2>3. CASE Unping(k)
    BY <2>3 DEF Unping, Remove, Wake
  <2> QED  BY <1>3, <2>1, <2>2, <2>3 DEF PingSteps
<1>4. CASE BalSteps(k)
  <2>1. CASE BalCheck(k)
    BY <2>1 DEF BalCheck, BalStep
  <2>2. CASE BalArm(k)
    BY <2>2 DEF BalArm, BalStep
  <2>3. CASE BalBalance(k)
    BY <2>3 DEF BalBalance, BalStep
  <2>4. CASE BalSnapshot(k)
    <3>1. snap'[k] = {State(k)} /\ pos'[k] = pos[k] /\ app'[k] = app[k]
      BY <2>4 DEF BalSnapshot, Snapshot
    <3>2. bal'[k] = "call" /\ bal[k] = "notify"
      BY <2>4 DEF BalSnapshot, BalStep
    <3> QED  BY <3>1, <3>2 DEF State
  <2>5. CASE BalCallback(k)
    BY <2>5 DEF BalCallback, BalStep, Callback
  <2> QED  BY <1>4, <2>1, <2>2, <2>3, <2>4, <2>5 DEF BalSteps
<1>5. CASE Failures(k)
  <2>1. CASE JoinPingFail(k)
    BY <2>1 DEF JoinPingFail, Put, Wake, Unwind, Fault
  <2>2. CASE JoinBalanceFail(k)
    BY <2>2 DEF JoinBalanceFail, Unwind, Fault
  <2>3. CASE UnpingFail(k)
    BY <2>3 DEF UnpingFail, Fault
  <2>4. CASE BalWaitFail(k)
    BY <2>4 DEF BalWaitFail, BalStep, Fault
  <2>5. CASE BalBalanceFail(k)
    BY <2>5 DEF BalBalanceFail, BalStep, Fault
  <2>6. CASE Crash(k)
    BY <2>6 DEF Crash, Fault
  <2> QED  BY <1>5, <2>1, <2>2, <2>3, <2>4, <2>5, <2>6 DEF Failures
<1>6. CASE Expire(k)
  BY <1>6 DEF Expire, Remove, Wake, Fault, Kept
<1> QED  BY <1>1, <1>2, <1>3, <1>4, <1>5, <1>6 DEF Step

(***************************************************************************)
(* Without a fault, a member that has left is not listed.                    *)
(***************************************************************************)
LEMMA GoneStep ==
  ASSUME TypeOK, NEW k \in Node, MemberInv(k), Step(k)
  PROVE  Gone(k)'
<1> USE DEF TypeOK, MemberInv, LifeCycle, Gone, Listed, Absent, Missing,
            PingLocations,
            object, threads, seen, bounds
<1>1. CASE AppCalls(k)
  <2>1. CASE \E p \in JoinModes(k) : JoinConnect(k, p)
    BY <2>1 DEF JoinConnect, BeginJoin
  <2>2. CASE \E p \in JoinModes(k) : JoinConnectFail(k, p)
    BY <2>2 DEF JoinConnectFail, BeginJoin, Fault
  <2>3. CASE \E w \in MinWorkers..MaxWorkers : SetWorkers(k, w)
    BY <2>3 DEF SetWorkers
  <2>4. CASE Leave(k)
    BY <2>4 DEF Leave
  <2> QED  BY <1>1, <2>1, <2>2, <2>3, <2>4 DEF AppCalls
<1>2. CASE AppSteps(k)
  <2>1. CASE JoinPing(k)
    BY <2>1 DEF JoinPing, Put, Wake
  <2>2. CASE JoinBalance(k)
    <3>1. CASE StartThreads(k)
      BY <2>2, <3>1, Started DEF JoinBalance
    <3> QED  BY <2>2, <3>1 DEF JoinBalance
  <2>3. CASE JoinSnapshot(k)
    BY <2>3 DEF JoinSnapshot, Snapshot, State
  <2>4. CASE JoinCallback(k)
    BY <2>4 DEF JoinCallback, Callback
  <2>5. CASE JoinFinish(k)
    BY <2>5, Started DEF JoinFinish
  <2>6. CASE LeaveJoinPing(k)
    BY <2>6 DEF LeaveJoinPing
  <2>7. CASE LeaveFinish(k)
    BY <2>7 DEF LeaveFinish, Unwind
  <2> QED  BY <1>2, <2>1, <2>2, <2>3, <2>4, <2>5, <2>6, <2>7 DEF AppSteps
<1>3. CASE PingSteps(k)
  <2>1. CASE PingLeave(k)
    BY <2>1 DEF PingLeave
  <2>2. CASE PingSend(k)
    BY <2>2 DEF PingSend, Put, Wake
  <2>3. CASE Unping(k)
    BY <2>3 DEF Unping, Remove, Wake
  <2> QED  BY <1>3, <2>1, <2>2, <2>3 DEF PingSteps
<1>4. CASE BalSteps(k)
  <2>1. CASE BalCheck(k)
    BY <2>1 DEF BalCheck, BalStep
  <2>2. CASE BalArm(k)
    BY <2>2 DEF BalArm, BalStep
  <2>3. CASE BalBalance(k)
    BY <2>3 DEF BalBalance, BalStep
  <2>4. CASE BalSnapshot(k)
    BY <2>4 DEF BalSnapshot, BalStep, Snapshot, State
  <2>5. CASE BalCallback(k)
    BY <2>5 DEF BalCallback, BalStep, Callback
  <2> QED  BY <1>4, <2>1, <2>2, <2>3, <2>4, <2>5 DEF BalSteps
<1>5. CASE Failures(k)
  <2>1. CASE JoinPingFail(k)
    BY <2>1 DEF JoinPingFail, Put, Wake, Unwind, Fault
  <2>2. CASE JoinBalanceFail(k)
    BY <2>2 DEF JoinBalanceFail, Unwind, Fault
  <2>3. CASE UnpingFail(k)
    BY <2>3 DEF UnpingFail, Fault
  <2>4. CASE BalWaitFail(k)
    BY <2>4 DEF BalWaitFail, BalStep, Fault
  <2>5. CASE BalBalanceFail(k)
    BY <2>5 DEF BalBalanceFail, BalStep, Fault
  <2>6. CASE Crash(k)
    BY <2>6 DEF Crash, Fault
  <2> QED  BY <1>5, <2>1, <2>2, <2>3, <2>4, <2>5, <2>6 DEF Failures
<1>6. CASE Expire(k)
  BY <1>6 DEF Expire, Remove, Wake, Fault, Kept
<1> QED  BY <1>1, <1>2, <1>3, <1>4, <1>5, <1>6 DEF Step

-----------------------------------------------------------------------------
Inv == TypeOK /\ \A n \in Node : MemberInv(n)

(***************************************************************************)
(* The inductive invariant of the cluster.                                  *)
(***************************************************************************)
LEMMA Invariance == Spec => []Inv
<1>1. Init => Inv
  <2> SUFFICES ASSUME Init PROVE \A n \in Node : MemberInv(n)
    BY WorkersAssumption, BoundsAssumption
    DEF Init, Inv, TypeOK, Fresh, MinWorkers, Missing, AppLocations, PingLocations,
        BalLocations
  <2> QED
    BY DEF Init, MemberInv, LifeCycle, Reported, Gone, BalRuns, Listed
<1>2. Inv /\ [Next]_vars => Inv'
  <2> SUFFICES ASSUME Inv, [Next]_vars PROVE Inv'
    OBVIOUS
  <2>1. TypeOK'
    BY TypeStep DEF Inv
  <2>2. ASSUME NEW k \in Node, Step(k), NEW n \in Node
        PROVE  MemberInv(n)'
    <3>1. CASE n = k
      BY <2>2, <3>1, LifeCycleStep, ReportedStep, GoneStep
      DEF Inv, MemberInv
    <3>2. CASE n # k
      BY <2>2, <3>2, Frame, OthersKeep DEF Inv
    <3> QED  BY <3>1, <3>2
  <2>3. CASE UNCHANGED vars
    BY <2>3
    DEF Inv, vars, object, threads, seen, bounds, TypeOK, MemberInv, LifeCycle,
        Reported, Gone, BalRuns, Listed, Untold, Current
  <2> QED  BY <2>1, <2>2, <2>3 DEF Next, Inv
<1> QED  BY <1>1, <1>2, PTL DEF Spec

(***************************************************************************)
(* For every number of members, and with any faults: cluster_etcd_leave_()    *)
(* never closes a handle that a thread still uses, and no thread outlives     *)
(* its membership.                                                          *)
(***************************************************************************)
THEOREM HandlesSafe == Spec => []HandleSafety
<1>1. Inv => HandleSafety
  BY DEF Inv, MemberInv, LifeCycle, HandleSafety, PingRuns, BalRuns, Missing, TypeOK,
         AppLocations
<1> QED  BY <1>1, Invariance, PTL

(***************************************************************************)
(* For every number of members, and with any faults: between two reports, the *)
(* application has been told the index and the total that the library holds.  *)
(***************************************************************************)
THEOREM Told == Spec => []ToldTheTruth
<1>1. Inv => ToldTheTruth
  BY DEF Inv, MemberInv, LifeCycle, Reported, ToldTheTruth, Untold, Current,
         TypeOK, AppLocations
<1> QED  BY <1>1, Invariance, PTL

(***************************************************************************)
(* For every number of members and of workers, and with any faults: members   *)
(* that have caught up with the directory divide the work among them without  *)
(* overlap or gap.  The library's part is that each application was told the  *)
(* current position (Reported); the rest is arithmetic (NumberingDivides).   *)
(***************************************************************************)
THEOREM Divided == Spec => []WorkDivided
<1>1. Inv => WorkDivided
  <2> SUFFICES ASSUME Inv, \A n \in Members : CaughtUp(n) /\ dir[n] >= 0
               PROVE  LET total == WorkerTotal(dir, Members) IN
                      /\ \A n \in Members : told[n] # {} /\ \A s \in told[n] :
                           s.total = total /\ s.index + workers[n] <= total
                      /\ \A i \in 0..(total - 1) :
                           \E n \in Members :
                             \A m \in Members : ActsOn(m, i) <=> m = n
    BY DEF WorkDivided
  <2> DEFINE total == WorkerTotal(dir, Members)
             first(n) == FirstIndex(dir, Members, n)
  <2>1. /\ Members \subseteq Int /\ IsFiniteSet(Members)
        /\ \A m \in Members : dir[m] \in 0..MaxWorkers
    <3>1. Members \in SUBSET Node
      BY DEF Members
    <3>2. IsFiniteSet(Members)
      BY <3>1, NodeAssumption, FS_Subset
    <3>3. \A m \in Members : dir[m] \in MinWorkers..MaxWorkers
      BY DEF Inv, TypeOK, Members, Listed
    <3>4. \A m \in Members : dir[m] \in 0..MaxWorkers
      BY <3>3, WorkersAssumption DEF MinWorkers
    <3> QED  BY <3>1, <3>2, <3>4, NodeAssumption
  <2>2. MaxWorkers \in Nat
    BY WorkersAssumption
  <2>3. \A n \in Members : first(n) \in Nat /\ first(n) + dir[n] <= total
    BY <2>1, <2>2, RangesInOrder
  <2>4. /\ \A i \in 0..(total - 1) : \E n \in Members : InRange(dir, Members, n, i)
        /\ \A i \in Int : \A n, m \in Members :
             InRange(dir, Members, n, i) /\ InRange(dir, Members, m, i) => n = m
    BY <2>1, <2>2, NumberingDivides
  <2>5. ASSUME NEW n \in Members
        PROVE  /\ told[n] # {} /\ dir[n] = workers[n]
               /\ \A s \in told[n] : s.index = first(n) /\ s.total = total
    <3>1. n \in Node /\ n \in Members /\ Listed(n) /\ CaughtUp(n)
      BY DEF Members
    <3>2. /\ pos[n].index = first(n) /\ pos[n].total = total
          /\ dir[n] = workers[n]
      <4>1. /\ SumOf(dir, Members) = total
            /\ SumBefore(dir, Members, n) = first(n)
        BY <2>1, <2>2, SumOfNaturals
      <4> QED  BY <3>1, <4>1 DEF CaughtUp, Position
    <3>3. /\ app[n] \in {"in", "joinping", "joinbal"}
          /\ bal[n] \notin {"notify", "call"}
      BY <3>1 DEF CaughtUp, Reporting, Inv, MemberInv, LifeCycle, TypeOK,
         AppLocations
    <3>4. Untold(n) \/ Current(n, told[n])
      BY <3>1, <3>3 DEF Inv, MemberInv, Reported
    <3>5. pos[n].index # -1
      BY <2>3, <3>2
    <3> QED  BY <3>2, <3>4, <3>5 DEF Untold, Current
  <2>6. ASSUME NEW n \in Members
        PROVE  /\ told[n] # {}
               /\ \A s \in told[n] : s.total = total /\ s.index + workers[n] <= total
    BY <2>3, <2>5
  <2>7. ASSUME NEW n \in Members, NEW i
        PROVE  ActsOn(n, i) <=> InRange(dir, Members, n, i)
    BY <2>5 DEF ActsOn, InRange
  <2>8. ASSUME NEW i \in 0..(total - 1)
        PROVE  \E n \in Members : \A m \in Members : ActsOn(m, i) <=> m = n
    <3>1. i \in Int
      BY <2>8
    <3>2. PICK n \in Members : InRange(dir, Members, n, i)
      BY <2>4
    <3>3. \A m \in Members : ActsOn(m, i) <=> m = n
      BY <2>4, <2>7, <3>1, <3>2
    <3> QED  BY <3>3
  <2> QED  BY <2>6, <2>8
<1> QED  BY <1>1, Invariance, PTL

(***************************************************************************)
(* For every number of members, as long as nothing fails: a member that has   *)
(* left is not in the directory.                                            *)
(***************************************************************************)
THEOREM GhostFree == Spec => []NoGhost
<1>1. Inv => NoGhost
  BY DEF Inv, MemberInv, Gone, NoGhost
<1> QED  BY <1>1, Invariance, PTL

(***************************************************************************)
(* For every number of members, and with any faults: only the initial ping of *)
(* a join creates an entry.                                                 *)
(***************************************************************************)
THEOREM CreatedByJoin == Spec => OnlyJoinCreates
<1>1. Inv /\ [Next]_vars
        => [\A n \in Node : ~Listed(n) /\ Listed(n)' => app[n] = "ping"]_vars
  <2> SUFFICES ASSUME Inv, NEW k \in Node, Step(k),
                      NEW n \in Node, ~Listed(n), Listed(n)'
               PROVE  app[n] = "ping"
    BY DEF Next
  <2>1. n = k
    BY Frame DEF Inv, Framed, Listed
  <2>2. dir'[k] # dir[k]
    BY <2>1 DEF Listed
  <2>3. JoinPing(k) \/ JoinPingFail(k) \/ PingSend(k) \/ Unping(k) \/ Expire(k)
    BY <2>2
    DEF Step, AppCalls, AppSteps, PingSteps, BalSteps, Failures,
        JoinConnect, JoinConnectFail, BeginJoin, SetWorkers, Leave,
        JoinBalance, JoinSnapshot, JoinCallback, JoinFinish, LeaveJoinPing,
        LeaveFinish, PingLeave, BalCheck, BalArm, BalBalance, BalSnapshot,
        BalCallback, JoinBalanceFail, UnpingFail, BalWaitFail, BalBalanceFail,
        Crash
  <2>4. ~Unping(k) /\ ~Expire(k)
    BY <2>1 DEF Inv, TypeOK, Unping, Expire, Remove, Listed
  <2>5. ~PingSend(k)
    BY <2>1 DEF PingSend
  <2> QED  BY <2>1, <2>3, <2>4, <2>5 DEF JoinPing, JoinPingFail
<1> QED  BY <1>1, Invariance, PTL DEF Spec, OnlyJoinCreates

-----------------------------------------------------------------------------
(***************************************************************************)
(* EtcdCluster implements Membership.  A step of member k changes the         *)
(* abstract state of k only.                                                *)
(***************************************************************************)
LEMMA Mapped ==
  ASSUME Inv, TypeOK', NEW k \in Node, Step(k)
  PROVE  /\ phaseBar' = [phaseBar EXCEPT ![k] = Phase(k)']
         /\ toldBar' = [toldBar EXCEPT ![k] = {Shown(s) : s \in told'[k]}]
         /\ pos' = [pos EXCEPT ![k] = pos'[k]]
         /\ dir' = [dir EXCEPT ![k] = dir'[k]]
         /\ workers' = [workers EXCEPT ![k] = workers'[k]]
         /\ Reporting(k)' => dueBar' = dueBar \cup {k}
         /\ ~Reporting(k)' => dueBar' = dueBar \ {k}
<1>1. \A n \in Node : n # k => Framed(n)
  BY Frame DEF Inv
<1>2. phaseBar' = [phaseBar EXCEPT ![k] = Phase(k)']
  <2>1. \A n \in Node : n # k => Phase(n)' = Phase(n)
    BY <1>1 DEF Framed, Phase
  <2> QED  BY <2>1 DEF phaseBar
<1>3. toldBar' = [toldBar EXCEPT ![k] = {Shown(s) : s \in told'[k]}]
  <2>1. \A n \in Node : n # k => told'[n] = told[n]
    BY <1>1 DEF Framed
  <2> QED  BY <2>1 DEF toldBar, Shown
<1>4. /\ pos' = [pos EXCEPT ![k] = pos'[k]]
      /\ dir' = [dir EXCEPT ![k] = dir'[k]]
      /\ workers' = [workers EXCEPT ![k] = workers'[k]]
  BY <1>1 DEF Framed, Inv, TypeOK
<1>5. \A n \in Node : n # k => (Reporting(n)' <=> Reporting(n))
  BY <1>1 DEF Framed, Reporting
<1>6. Reporting(k)' => dueBar' = dueBar \cup {k}
  BY <1>5 DEF dueBar
<1>7. ~Reporting(k)' => dueBar' = dueBar \ {k}
  BY <1>5 DEF dueBar
<1> QED  BY <1>2, <1>3, <1>4, <1>6, <1>7

(***************************************************************************)
(* The abstract state of k, when a part of it does not change.               *)
(***************************************************************************)
LEMMA Same ==
  ASSUME Inv, TypeOK', NEW k \in Node, Step(k)
  PROVE  /\ phaseBar[k] = Phase(k)
         /\ k \in dueBar <=> Reporting(k)
         /\ Phase(k)' = Phase(k) => phaseBar' = phaseBar
         /\ (Reporting(k)' <=> Reporting(k)) => dueBar' = dueBar
         /\ told'[k] = told[k] => toldBar' = toldBar
         /\ told'[k] = {} => toldBar' = [toldBar EXCEPT ![k] = {}]
<1>1. phaseBar[k] = Phase(k) /\ (k \in dueBar <=> Reporting(k))
  BY DEF phaseBar, dueBar
<1>2. Phase(k)' = Phase(k) => phaseBar' = phaseBar
  BY <1>1, Mapped DEF phaseBar
<1>3. (Reporting(k)' <=> Reporting(k)) => dueBar' = dueBar
  BY <1>1, Mapped
<1>4. told'[k] = told[k] => toldBar' = toldBar
  <2>1. toldBar[k] = {Shown(s) : s \in told[k]}
    BY DEF toldBar
  <2> QED  BY <2>1, Mapped DEF toldBar
<1>5. told'[k] = {} => toldBar' = [toldBar EXCEPT ![k] = {}]
  BY Mapped
<1> QED  BY <1>1, <1>2, <1>3, <1>4, <1>5

(***************************************************************************)
(* A report of the library is a report of the abstract protocol.            *)
(***************************************************************************)
LEMMA ReportStep ==
  ASSUME Inv, TypeOK', NEW k \in Node, Step(k), Callback(k), Current(k, snap[k]),
         UNCHANGED <<dir, workers, pos>>, Phase(k)' = Phase(k),
         Reporting(k), ~Reporting(k)'
  PROVE  Abstract!Report(k)
<1>1. told'[k] = snap[k]
  BY DEF Callback, Inv, TypeOK
<1>2. {Shown(s) : s \in snap[k]} = {pos[k]}
  <2>1. \A s \in snap[k] : Shown(s) = pos[k]
    BY DEF Inv, TypeOK, Shown, Current
  <2> QED  BY <2>1 DEF Current
<1>3. toldBar' = [toldBar EXCEPT ![k] = {pos[k]}]
  BY <1>1, <1>2, Mapped
<1>4. k \in dueBar /\ dueBar' = dueBar \ {k} /\ phaseBar' = phaseBar
  BY Mapped, Same
<1> QED  BY <1>3, <1>4 DEF Abstract!Report

(***************************************************************************)
(* A new position is an observation of the directory.                       *)
(***************************************************************************)
LEMMA ObserveStep ==
  ASSUME Inv, TypeOK', NEW k \in Node, Step(k),
         Position(k) # pos[k], pos' = [pos EXCEPT ![k] = Position(k)],
         UNCHANGED <<dir, workers, told>>, Phase(k)' = Phase(k),
         Phase(k) # "out", ~Reporting(k), Reporting(k)'
  PROVE  Abstract!Observe(k)
<1>1. Abstract!Numbered(k) = Position(k)
  <2>1. Abstract!Members = Members /\ (k \in Members <=> Listed(k))
    BY DEF Abstract!Members, Abstract!Absent, Members, Listed, Absent
  <2>2. \A S : Abstract!SumOf(dir, S) = SumOf(dir, S)
    BY DEF Abstract!SumOf, Abstract!Slots, Abstract!Owed, Abstract!Cardinality,
           SumOf, Slots, Owed, Cardinality
  <2>3. Abstract!SumBefore(dir, Members, k) = SumBefore(dir, Members, k)
    BY <2>2 DEF Abstract!SumBefore, SumBefore
  <2> QED  BY <2>1, <2>2, <2>3 DEF Abstract!Numbered, Position
<1>2. k \notin dueBar /\ dueBar' = dueBar \cup {k} /\ phaseBar' = phaseBar
  BY Mapped, Same
<1>3. toldBar' = toldBar /\ phaseBar[k] # "out"
  BY Same
<1> QED  BY <1>1, <1>2, <1>3 DEF Abstract!Observe

(***************************************************************************)
(* A step of which the abstract protocol sees nothing.                      *)
(***************************************************************************)
LEMMA Unseen ==
  ASSUME Inv, TypeOK', NEW k \in Node, Step(k),
         UNCHANGED <<dir, workers, pos, told>>, Phase(k)' = Phase(k),
         Reporting(k)' <=> Reporting(k)
  PROVE  UNCHANGED Abstract!vars
BY Same DEF Abstract!vars

(***************************************************************************)
(* A step that changes the phase of a member only.                           *)
(***************************************************************************)
LEMMA PhaseStep ==
  ASSUME Inv, TypeOK', NEW k \in Node, Step(k),
         UNCHANGED <<dir, workers, pos, told>>,
         ~Reporting(k), ~Reporting(k)'
  PROVE  /\ Phase(k) = "joining" /\ Phase(k)' = "in" => Abstract!Enter(k)
         /\ Phase(k) = "joining" /\ Phase(k)' = "out" => Abstract!Abort(k)
<1>1. /\ phaseBar[k] = Phase(k) /\ k \notin dueBar /\ dueBar' = dueBar
      /\ toldBar' = toldBar /\ phaseBar' = [phaseBar EXCEPT ![k] = Phase(k)']
  BY Mapped, Same
<1> QED  BY <1>1 DEF Abstract!Enter, Abstract!Abort

(***************************************************************************)
(* A step that writes or removes an entry and is not seen otherwise.         *)
(***************************************************************************)
LEMMA DirStep ==
  ASSUME Inv, TypeOK', NEW k \in Node, Step(k),
         UNCHANGED <<workers, pos, told>>, Phase(k)' = Phase(k),
         Reporting(k)' <=> Reporting(k)
  PROVE  /\ /\ dir' = [dir EXCEPT ![k] = workers[k]]
            /\ Phase(k) = "joining" \/ (Phase(k) = "in" /\ Listed(k))
            => Abstract!Publish(k)
         /\ dir' = [dir EXCEPT ![k] = Absent] => Abstract!Drop({k})
<1>1. /\ phaseBar[k] = Phase(k) /\ dueBar' = dueBar /\ toldBar' = toldBar
      /\ phaseBar' = phaseBar
  BY Same
<1>2. Listed(k) <=> k \in Abstract!Members
  BY DEF Listed, Absent, Abstract!Members, Abstract!Absent
<1>3. ASSUME dir' = [dir EXCEPT ![k] = Absent]
      PROVE  dir' = [n \in Node |-> IF n \in {k} THEN Abstract!Absent ELSE dir[n]]
  BY <1>3 DEF Inv, TypeOK, Absent, Abstract!Absent
<1> QED
  BY <1>1, <1>2, <1>3 DEF Abstract!Publish, Abstract!MayPublish, Abstract!Drop

(***************************************************************************)
(* Every step of a member is a step of the abstract protocol, or none.       *)
(***************************************************************************)
LEMMA AppSimulated ==
  ASSUME Inv, TypeOK', NEW k \in Node, Step(k), AppCalls(k) \/ AppSteps(k)
  PROVE  Abstract!Step(k) \/ UNCHANGED Abstract!vars
<1> USE DEF Inv, TypeOK, MemberInv, LifeCycle, object, threads, seen
<1>1. CASE \E p \in JoinModes(k) : JoinConnect(k, p) \/ JoinConnectFail(k, p)
  <2>1. /\ app[k] = "out" /\ app'[k] \in {"out", "ping"} /\ told'[k] = {}
        /\ pos' = [pos EXCEPT ![k].index = -1]
        /\ UNCHANGED <<dir, workers, bal>>
    BY <1>1 DEF JoinConnect, JoinConnectFail, BeginJoin
  <2>2. /\ Phase(k) = "out" /\ Phase(k)' \in {"out", "joining"}
        /\ ~Reporting(k) /\ ~Reporting(k)'
    BY <2>1 DEF Phase, Reporting
  <2>3. /\ phaseBar[k] = "out" /\ dueBar' = dueBar
        /\ toldBar' = [toldBar EXCEPT ![k] = {}]
    BY <2>1, <2>2, Same
  <2>4. phaseBar' = phaseBar \/ phaseBar' = [phaseBar EXCEPT ![k] = "joining"]
    BY <2>2, Same, Mapped
  <2>5. Abstract!Starts(k)
    BY <2>1, <2>3 DEF Abstract!Starts
  <2> QED
    BY <2>4, <2>5 DEF Abstract!Step, Abstract!Begin, Abstract!Refused
<1>2. CASE \E w \in MinWorkers..MaxWorkers : SetWorkers(k, w)
  <2> PICK w \in MinWorkers..MaxWorkers : SetWorkers(k, w)
    BY <1>2
  <2>1. UNCHANGED <<dir, pos, app, bal, told>>
    BY DEF SetWorkers
  <2>2. UNCHANGED <<phaseBar, dueBar, toldBar>>
    BY <2>1, Same DEF Phase, Reporting
  <2>3. Abstract!SetWorkers(k, w)
    BY <2>1, <2>2 DEF Abstract!SetWorkers, SetWorkers
  <2> QED  BY <2>3 DEF Abstract!Step
<1>3. CASE Leave(k)
  <2>1. /\ app[k] = "in" /\ app'[k] = "joinping"
        /\ UNCHANGED <<dir, workers, pos, bal, told>>
    BY <1>3 DEF Leave
  <2>2. /\ Phase(k) = "in" /\ Phase(k)' = "leaving"
        /\ Reporting(k)' <=> Reporting(k)
    BY <2>1 DEF Phase, Reporting
  <2>3. Abstract!Retire(k)
    BY <2>1, <2>2, Same, Mapped DEF Abstract!Retire
  <2> QED  BY <2>3 DEF Abstract!Step
<1>4. CASE JoinPing(k)
  <2>1. /\ app[k] = "ping" /\ app'[k] = "balance"
        /\ UNCHANGED <<workers, pos, told>>
        /\ dir' = [dir EXCEPT ![k] = workers[k]]
        /\ bal[k] = "none" /\ bal'[k] = "none"
    BY <1>4 DEF JoinPing, Put, Wake
  <2>2. /\ Phase(k) = "joining" /\ Phase(k)' = "joining"
        /\ ~Reporting(k) /\ ~Reporting(k)'
    BY <2>1 DEF Phase, Reporting
  <2> QED  BY <2>1, <2>2, DirStep DEF Abstract!Step
<1>5. CASE JoinBalance(k)
  <2>1. app[k] = "balance" /\ bal[k] = "none" /\ UNCHANGED <<dir, workers, told>>
    BY <1>5 DEF JoinBalance
  <2>2. Phase(k) = "joining" /\ ~Reporting(k)
    BY <2>1 DEF Phase, Reporting
  <2>3. CASE /\ Position(k) # pos[k] /\ pos' = [pos EXCEPT ![k] = Position(k)]
             /\ app' = [app EXCEPT ![k] = "notify"]
    <3>1. Phase(k)' = "joining" /\ Reporting(k)'
      BY <2>3 DEF Phase, Reporting
    <3> QED  BY <2>1, <2>2, <2>3, <3>1, ObserveStep DEF Abstract!Step
  <2>4. CASE StartThreads(k) /\ UNCHANGED pos
    <3>1. app'[k] = "in" /\ bal'[k] \in {"check"} \cup Missing
      BY <2>4, Started
    <3>2. Phase(k)' = "in" /\ ~Reporting(k)'
      BY <3>1 DEF Phase, Reporting, Missing
    <3> QED  BY <2>1, <2>2, <2>4, <3>2, PhaseStep DEF Abstract!Step
  <2> QED  BY <1>5, <2>3, <2>4 DEF JoinBalance
<1>6. CASE JoinSnapshot(k)
  <2>1. /\ app[k] = "notify" /\ app'[k] = "call"
        /\ UNCHANGED <<dir, workers, pos, told, bal>>
    BY <1>6 DEF JoinSnapshot, Snapshot
  <2> QED  BY <2>1, Unseen DEF Phase, Reporting
<1>7. CASE JoinCallback(k)
  <2>1. /\ app[k] = "call" /\ app'[k] = "finish" /\ bal'[k] = "none"
        /\ UNCHANGED <<dir, workers, pos>> /\ Callback(k)
    BY <1>7 DEF JoinCallback
  <2>2. Phase(k)' = Phase(k) /\ Reporting(k) /\ ~Reporting(k)'
    BY <2>1 DEF Phase, Reporting
  <2>3. Current(k, snap[k])
    BY <2>1 DEF Reported
  <2> QED  BY <2>1, <2>2, <2>3, ReportStep DEF Abstract!Step
<1>8. CASE JoinFinish(k)
  <2>1. /\ app[k] = "finish" /\ app'[k] = "in" /\ bal[k] = "none"
        /\ bal'[k] \in {"check"} \cup Missing
        /\ UNCHANGED <<dir, workers, pos, told>>
    BY <1>8, Started DEF JoinFinish
  <2>2. /\ Phase(k) = "joining" /\ Phase(k)' = "in"
        /\ ~Reporting(k) /\ ~Reporting(k)'
    BY <2>1 DEF Phase, Reporting, Missing
  <2> QED  BY <2>1, <2>2, PhaseStep DEF Abstract!Step
<1>9. CASE LeaveJoinPing(k)
  <2>1. /\ app[k] = "joinping" /\ app'[k] = "joinbal"
        /\ UNCHANGED <<dir, workers, pos, told, bal>>
    BY <1>9 DEF LeaveJoinPing
  <2> QED  BY <2>1, Unseen DEF Phase, Reporting
<1>10. CASE LeaveFinish(k)
  <2>1. /\ app[k] = "joinbal" /\ app'[k] = "out" /\ told'[k] = {}
        /\ bal[k] \in {"ended", "none"} /\ bal'[k] = "none"
        /\ UNCHANGED <<dir, workers, pos>>
    BY <1>10 DEF LeaveFinish, Unwind
  <2>2. /\ Phase(k) = "leaving" /\ Phase(k)' = "out"
        /\ ~Reporting(k) /\ ~Reporting(k)'
    BY <2>1 DEF Phase, Reporting
  <2>3. Abstract!Exit(k)
    BY <2>1, <2>2, Same, Mapped DEF Abstract!Exit
  <2> QED  BY <2>3 DEF Abstract!Step
<1> QED
  BY <1>1, <1>2, <1>3, <1>4, <1>5, <1>6, <1>7, <1>8, <1>9, <1>10
  DEF AppCalls, AppSteps

LEMMA ThreadsSimulated ==
  ASSUME Inv, TypeOK', NEW k \in Node, Step(k), PingSteps(k) \/ BalSteps(k)
  PROVE  Abstract!Step(k) \/ Abstract!Drop({k}) \/ UNCHANGED Abstract!vars
<1> USE DEF Inv, TypeOK, MemberInv, LifeCycle, BalRuns, AppLocations, object,
            threads, seen
<1>1. CASE PingLeave(k)
  <2>1. UNCHANGED <<dir, workers, pos, told, app, bal>>
    BY <1>1 DEF PingLeave
  <2> QED  BY <2>1, Unseen DEF Phase, Reporting
<1>2. CASE PingSend(k)
  <2>1. /\ Listed(k) /\ dir' = [dir EXCEPT ![k] = workers[k]]
        /\ app'[k] = app[k] /\ app[k] = "in"
        /\ UNCHANGED <<workers, pos, told>>
        /\ bal'[k] = bal[k] \/ (bal[k] = "wait" /\ bal'[k] = "woken")
    BY <1>2 DEF PingSend, Put, Wake
  <2>2. /\ Phase(k) = "in" /\ Phase(k)' = "in"
        /\ Reporting(k)' <=> Reporting(k)
    BY <2>1 DEF Phase, Reporting
  <2> QED  BY <2>1, <2>2, DirStep DEF Abstract!Step
<1>3. CASE Unping(k)
  <2>1. /\ dir' = [dir EXCEPT ![k] = Absent] /\ app'[k] = app[k]
        /\ UNCHANGED <<workers, pos, told>>
        /\ bal'[k] = bal[k] \/ (bal[k] = "wait" /\ bal'[k] = "woken")
    BY <1>3 DEF Unping, Remove, Wake
  <2>2. Phase(k)' = Phase(k) /\ (Reporting(k)' <=> Reporting(k))
    BY <2>1 DEF Phase, Reporting
  <2> QED  BY <2>1, <2>2, DirStep
<1>4. CASE BalCheck(k) \/ BalArm(k)
  <2>1. /\ UNCHANGED <<dir, workers, pos, told, app>>
        /\ bal[k] \in {"check", "arm"} /\ bal'[k] \in {"ended", "arm", "wait"}
    BY <1>4 DEF BalCheck, BalArm, BalStep
  <2> QED  BY <2>1, Unseen DEF Phase, Reporting
<1>5. CASE BalBalance(k)
  <2>1. UNCHANGED <<dir, workers, told, app>> /\ bal[k] = "woken"
    BY <1>5 DEF BalBalance, BalStep
  <2>2. /\ Phase(k)' = Phase(k) /\ Phase(k) # "out" /\ ~Reporting(k)
    BY <2>1 DEF Phase, Reporting
  <2>3. CASE /\ Position(k) # pos[k] /\ pos' = [pos EXCEPT ![k] = Position(k)]
             /\ BalStep(k, "woken", "notify")
    <3>1. Reporting(k)'
      BY <2>3 DEF Reporting, BalStep
    <3> QED  BY <2>1, <2>2, <2>3, <3>1, ObserveStep DEF Abstract!Step
  <2>4. CASE BalStep(k, "woken", "check") /\ UNCHANGED pos
    <3>1. ~Reporting(k)'
      BY <2>1, <2>2, <2>4 DEF Reporting, BalStep
    <3> QED  BY <2>1, <2>2, <2>4, <3>1, Unseen
  <2> QED  BY <1>5, <2>3, <2>4 DEF BalBalance
<1>6. CASE BalSnapshot(k)
  <2>1. /\ UNCHANGED <<dir, workers, pos, told, app>>
        /\ bal[k] = "notify" /\ bal'[k] = "call"
    BY <1>6 DEF BalSnapshot, BalStep, Snapshot
  <2> QED  BY <2>1, Unseen DEF Phase, Reporting
<1>7. CASE BalCallback(k)
  <2>1. /\ UNCHANGED <<dir, workers, pos, app>> /\ Callback(k)
        /\ bal[k] = "call" /\ bal'[k] = "check"
        /\ app[k] \notin {"notify", "call"}
    BY <1>7 DEF BalCallback, BalStep
  <2>2. Phase(k)' = Phase(k) /\ Reporting(k) /\ ~Reporting(k)'
    BY <2>1 DEF Phase, Reporting
  <2>3. Current(k, snap[k])
    BY <2>1 DEF Reported
  <2> QED  BY <2>1, <2>2, <2>3, ReportStep DEF Abstract!Step
<1> QED
  BY <1>1, <1>2, <1>3, <1>4, <1>5, <1>6, <1>7 DEF PingSteps, BalSteps

LEMMA FaultsSimulated ==
  ASSUME Inv, TypeOK', NEW k \in Node, Step(k), Failures(k) \/ Expire(k)
  PROVE  Abstract!Step(k) \/ Abstract!Drop({k}) \/ UNCHANGED Abstract!vars
<1> USE DEF Inv, TypeOK, MemberInv, LifeCycle, object, threads, seen, Fault
<1>1. CASE JoinPingFail(k)
  <2>1. /\ app[k] = "ping" /\ app'[k] = "out"
        /\ bal[k] = "none" /\ bal'[k] = "none"
        /\ UNCHANGED <<workers, pos, told>>
        /\ dir' = dir \/ dir' = [dir EXCEPT ![k] = workers[k]]
    BY <1>1 DEF JoinPingFail, Put, Wake, Unwind
  <2>2. /\ Phase(k) = "joining" /\ Phase(k)' = "out"
        /\ ~Reporting(k) /\ ~Reporting(k)'
    BY <2>1 DEF Phase, Reporting
  <2>3. Abstract!Abort(k)
    BY <2>1, <2>2, Same, Mapped DEF Abstract!Abort
  <2> QED  BY <2>3 DEF Abstract!Step
<1>2. CASE JoinBalanceFail(k)
  <2>1. /\ app[k] = "balance" /\ app'[k] = "out" /\ bal[k] = "none"
        /\ UNCHANGED <<dir, workers, pos, told, bal>>
    BY <1>2 DEF JoinBalanceFail, Unwind
  <2>2. /\ Phase(k) = "joining" /\ Phase(k)' = "out"
        /\ ~Reporting(k) /\ ~Reporting(k)'
    BY <2>1 DEF Phase, Reporting
  <2> QED  BY <2>1, <2>2, PhaseStep DEF Abstract!Step
<1>3. CASE UnpingFail(k)
  <2>1. UNCHANGED <<dir, workers, pos, told, app, bal>>
    BY <1>3 DEF UnpingFail
  <2> QED  BY <2>1, Unseen DEF Phase, Reporting
<1>4. CASE BalWaitFail(k) \/ BalBalanceFail(k)
  <2>1. /\ UNCHANGED <<dir, workers, pos, told, app>>
        /\ bal[k] \in {"arm", "wait", "woken"} /\ bal'[k] = "check"
    BY <1>4 DEF BalWaitFail, BalBalanceFail, BalStep
  <2> QED  BY <2>1, Unseen DEF Phase, Reporting
<1>5. CASE Crash(k)
  <2>1. /\ app'[k] = "out" /\ bal'[k] = "none" /\ told'[k] = {}
        /\ workers' = [workers EXCEPT ![k] = 1]
        /\ pos' = [pos EXCEPT ![k] = [index |-> 0, total |-> 0]]
        /\ UNCHANGED dir
    BY <1>5 DEF Crash, Fresh
  <2>2. Phase(k)' = "out" /\ ~Reporting(k)'
    BY <2>1 DEF Phase, Reporting
  <2>3. Abstract!Die(k)
    BY <2>1, <2>2, Same, Mapped DEF Abstract!Die
  <2> QED  BY <2>3 DEF Abstract!Step
<1>6. CASE Expire(k)
  <2>1. /\ dir' = [dir EXCEPT ![k] = Absent] /\ app'[k] = app[k]
        /\ UNCHANGED <<workers, pos, told>>
        /\ bal'[k] = bal[k] \/ (bal[k] = "wait" /\ bal'[k] = "woken")
    BY <1>6 DEF Expire, Remove, Wake
  <2>2. Phase(k)' = Phase(k) /\ (Reporting(k)' <=> Reporting(k))
    BY <2>1 DEF Phase, Reporting
  <2> QED  BY <2>1, <2>2, DirStep
<1> QED
  BY <1>1, <1>2, <1>3, <1>4, <1>5, <1>6 DEF Failures

(***************************************************************************)
(* For every number of members, and with any faults: the etcd engine          *)
(* implements the abstract membership protocol.                             *)
(***************************************************************************)
THEOREM Implements == Spec => ImplementsMembership
<1>1. Init => Abstract!Init
  <2> SUFFICES ASSUME Init PROVE Abstract!Init
    OBVIOUS
  <2>1. phaseBar = [n \in Node |-> "out"]
    BY DEF Init, phaseBar, Phase
  <2>2. dueBar = {}
    BY DEF Init, dueBar, Reporting
  <2>3. toldBar = [n \in Node |-> {}]
    BY DEF Init, toldBar
  <2> QED
    BY <2>1, <2>2, <2>3
    DEF Init, Fresh, Absent, Abstract!Init, Abstract!Absent
<1>2. Inv /\ [Next]_vars => [Abstract!Next]_(Abstract!vars)
  <2> SUFFICES ASSUME Inv, [Next]_vars PROVE [Abstract!Next]_(Abstract!vars)
    OBVIOUS
  <2>1. TypeOK'
    BY TypeStep DEF Inv
  <2>2. ASSUME NEW k \in Node, Step(k)
        PROVE  [Abstract!Next]_(Abstract!vars)
    <3>1. Abstract!Step(k) \/ Abstract!Drop({k}) \/ UNCHANGED Abstract!vars
      BY <2>1, <2>2, AppSimulated, ThreadsSimulated, FaultsSimulated DEF Step
    <3>2. {k} \in SUBSET Node
      OBVIOUS
    <3> QED  BY <3>1, <3>2 DEF Abstract!Next
  <2>3. CASE UNCHANGED vars
    <3>1. UNCHANGED <<dir, workers, pos, told, app, bal>>
      BY <2>3 DEF vars, object, threads, seen
    <3>2. UNCHANGED <<phaseBar, dueBar, toldBar>>
      BY <3>1 DEF phaseBar, dueBar, toldBar, Phase, Reporting
    <3> QED  BY <3>1, <3>2 DEF Abstract!vars
  <2> QED  BY <2>2, <2>3 DEF Next
<1> QED
  BY <1>1, <1>2, Invariance, PTL DEF Spec, ImplementsMembership, Abstract!Spec
=============================================================================
