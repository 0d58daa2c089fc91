-------------------------- MODULE SqlClusterProofs --------------------------
(***************************************************************************)
(* The safety of SqlCluster, for every set of members, active and passive,    *)
(* every number of workers, every version of the schema, and any number of    *)
(* faults; and the proof that it implements Membership.                      *)
(*                                                                         *)
(* The argument is that of EtcdClusterProofs.  What is new is the table: it   *)
(* is not used before the schema is current, so that a migration, the one     *)
(* step that touches the rows of every member, finds none.                   *)
(***************************************************************************)
EXTENDS SqlCluster, NumberingProofs

(***************************************************************************)
(* The position that cluster_sql_balance_() computes has its type.          *)
(***************************************************************************)
LEMMA PositionType ==
  ASSUME TypeOK, NEW n \in Node
  PROVE  Position(n) \in [index : Int, total : Int]
<1>1. IsFiniteSet(Members)
  BY NodeAssumption, FS_Subset DEF Members
<1>2. \A m \in Members : dir[m] \in (-MaxOwed)..MaxWorkers
  BY DEF TypeOK, Members, Listed, MinWorkers
<1>3. SumOf(dir, Members) \in Int /\ SumBefore(dir, Members, n) \in Int
  BY <1>1, <1>2, SumType, WorkersAssumption
<1> QED  BY <1>3 DEF Position

(***************************************************************************)
(* What a join that starts its threads is left with, whether or not they     *)
(* could be created.                                                        *)
(***************************************************************************)
LEMMA Started ==
  ASSUME TypeOK, NEW k \in Node, StartThreads(k)
  PROVE  /\ flags' = [flags EXCEPT ![k] = flags[k] \cup {"JOINED"}]
         /\ \E p \in {"loop"} \cup Missing :
              /\ ping' = [ping EXCEPT ![k] = p]
              /\ "PASSIVE" \in flags[k] => p = "none"
              /\ faults' = 0 /\ "PASSIVE" \notin flags[k] => p = "loop"
         /\ \E b \in {"check"} \cup Missing : bal' = [bal EXCEPT ![k] = b]
         /\ changes' \in 0..MaxEvents /\ faults' \in 0..MaxEvents
         /\ faults' = 0 => faults = 0
<1>1. flags' = [flags EXCEPT ![k] = flags[k] \cup {"JOINED"}]
  BY DEF StartThreads
<1>2. PICK p \in {"loop"} \cup Missing, b \in {"check"} \cup Missing :
        /\ Created(k, p, b)
        /\ \/ p = Wanted(k) /\ UNCHANGED bounds
           \/ p = Wanted(k) /\ Fault
           \/ "PASSIVE" \notin flags[k] /\ Fault
  BY DEF StartThreads, Missing, Wanted
<1>3. ping' = [ping EXCEPT ![k] = p] /\ bal' = [bal EXCEPT ![k] = b]
  BY <1>2 DEF Created
<1>4. /\ changes' \in 0..MaxEvents /\ faults' \in 0..MaxEvents
      /\ faults' = 0 => faults = 0 /\ UNCHANGED bounds
  BY <1>2, BoundAssumption DEF TypeOK, Fault, bounds
<1>5. "PASSIVE" \in flags[k] => p = "none"
  BY <1>2 DEF Wanted
<1>6. faults' = 0 /\ "PASSIVE" \notin flags[k] => p = "loop"
  BY <1>2 DEF Wanted, Fault, TypeOK
<1> QED  BY <1>1, <1>3, <1>4, <1>5, <1>6

LEMMA StartedType ==
  ASSUME TypeOK, NEW k \in Node, StartThreads(k)
  PROVE  /\ flags' \in [Node -> SUBSET {"JOINED", "LEAVING", "PASSIVE"}]
         /\ ping' \in [Node -> PingLocations]
         /\ bal' \in [Node -> BalLocations]
<1>1. flags' \in [Node -> SUBSET {"JOINED", "LEAVING", "PASSIVE"}]
  BY Started DEF TypeOK
<1>2. ping' \in [Node -> PingLocations]
  BY Started DEF TypeOK, PingLocations, Missing
<1>3. bal' \in [Node -> BalLocations]
  BY Started DEF TypeOK, BalLocations, Missing
<1> QED  BY <1>1, <1>2, <1>3

(***************************************************************************)
(* The table, the CLUSTER objects and the threads keep their types.         *)
(***************************************************************************)
LEMMA TypeStep == TypeOK /\ [Next]_vars => TypeOK'
<1> SUFFICES ASSUME TypeOK, [Next]_vars PROVE TypeOK'
  OBVIOUS
<1> USE BoundAssumption DEF TypeOK, table, object, threads, bounds, AppStep
<1>1. ASSUME NEW k \in Node, AppCalls(k) PROVE TypeOK'
  <2>1. ASSUME NEW p \in BOOLEAN, JoinConnect(k, p) PROVE TypeOK'
    <3>1. UNCHANGED <<schema, dir, workers, ping, bal, changes, faults>>
      BY <2>1 DEF JoinConnect
    <3>2. flags' \in [Node -> SUBSET {"JOINED", "LEAVING", "PASSIVE"}]
      <4>1. \/ flags' = [flags EXCEPT ![k] = flags[k] \cup {"PASSIVE"}]
            \/ flags' = [flags EXCEPT ![k] = flags[k]]
        BY <2>1, Zenon DEF JoinConnect
      <4>2. flags[k] \in SUBSET {"JOINED", "LEAVING", "PASSIVE"}
        OBVIOUS
      <4>3. PICK g \in SUBSET {"JOINED", "LEAVING", "PASSIVE"} :
              flags' = [flags EXCEPT ![k] = g]
        BY <4>1, <4>2, Zenon
      <4> QED  BY <4>3
    <3>3. pos' \in [Node -> [index : Int, total : Int]]
      <4>1. [pos[k] EXCEPT !.index = -1] \in [index : Int, total : Int]
        OBVIOUS
      <4>2. pos' = [pos EXCEPT ![k] = [pos[k] EXCEPT !.index = -1]]
        BY <2>1 DEF JoinConnect
      <4> QED  BY <4>1, <4>2
    <3>4. /\ dbs' \in [Node -> BOOLEAN] /\ app' \in [Node -> AppLocations]
          /\ told' \in [Node -> SUBSET [index : Int, total : Int]]
      BY <2>1 DEF JoinConnect, AppLocations
    <3> QED  BY <3>1, <3>2, <3>3, <3>4
  <2>2. ASSUME NEW w \in MinWorkers..MaxWorkers, SetWorkers(k, w) PROVE TypeOK'
    BY <2>2 DEF SetWorkers, Change
  <2>3. ASSUME Leave(k) PROVE TypeOK'
    BY <2>3 DEF Leave, AppLocations
  <2> QED  BY <1>1, <2>1, <2>2, <2>3 DEF AppCalls
<1>2. ASSUME NEW k \in Node, AppSteps(k) PROVE TypeOK'
  <2>1. CASE Migrate(k)
    BY <2>1, VersionAssumption DEF Migrate
  <2>2. CASE JoinReady(k)
    BY <2>2 DEF JoinReady, AppLocations
  <2>3. CASE JoinPing(k)
    BY <2>3 DEF JoinPing, Put, AppLocations
  <2>4. CASE JoinBalance(k)
    <3>1. Position(k) \in [index : Int, total : Int]
      BY PositionType
    <3>2. pos' \in [Node -> [index : Int, total : Int]]
      BY <2>4, <3>1 DEF JoinBalance
    <3>3. UNCHANGED <<schema, dir, workers, dbs, told>>
      BY <2>4 DEF JoinBalance
    <3>4. app' \in [Node -> AppLocations]
      BY <2>4 DEF JoinBalance, AppLocations
    <3>5. /\ flags' \in [Node -> SUBSET {"JOINED", "LEAVING", "PASSIVE"}]
          /\ ping' \in [Node -> PingLocations]
          /\ bal' \in [Node -> BalLocations]
          /\ changes' \in 0..MaxEvents /\ faults' \in 0..MaxEvents
      <4>1. CASE UNCHANGED <<flags, ping, bal, bounds>>
        BY <4>1
      <4>2. CASE StartThreads(k)
        BY <4>2, Started, StartedType
      <4> QED  BY <2>4, <4>1, <4>2 DEF JoinBalance
    <3> QED  BY <3>2, <3>3, <3>4, <3>5
  <2>5. CASE JoinNotify(k)
    BY <2>5 DEF JoinNotify, Callback, AppLocations
  <2>6. CASE JoinFinish(k)
    <3>1. /\ UNCHANGED <<schema, dir, workers, pos, dbs, told>>
          /\ app' \in [Node -> AppLocations]
      BY <2>6 DEF JoinFinish, AppLocations
    <3> QED  BY <2>6, <3>1, Started, StartedType DEF JoinFinish
  <2>7. CASE LeaveJoinPing(k)
    BY <2>7 DEF LeaveJoinPing, AppLocations, PingLocations, Missing
  <2>8. CASE LeaveFinish(k)
    BY <2>8 DEF LeaveFinish, Unwind, AppLocations, BalLocations,
                   Missing
  <2> QED
    BY <1>2, <2>1, <2>2, <2>3, <2>4, <2>5, <2>6, <2>7, <2>8 DEF AppSteps
<1>3. ASSUME NEW k \in Node, PingSteps(k) PROVE TypeOK'
  BY <1>3 DEF PingSteps, PingSend, Put, PingLeave, Unping, PingLocations
<1>4. ASSUME NEW k \in Node, BalSteps(k) PROVE TypeOK'
  <2> USE DEF BalStep, BalLocations
  <2>1. CASE BalCheck(k) \/ BalPoll(k)
    BY <2>1 DEF BalCheck, BalPoll
  <2>2. CASE BalBalance(k)
    <3>1. Position(k) \in [index : Int, total : Int]
      BY PositionType
    <3>2. pos' \in [Node -> [index : Int, total : Int]]
      BY <2>2, <3>1 DEF BalBalance
    <3>3. /\ UNCHANGED <<schema, dir, workers, flags, dbs, app, ping, told,
                         changes, faults>>
          /\ bal' \in [Node -> BalLocations]
      BY <2>2 DEF BalBalance
    <3> QED  BY <3>2, <3>3
  <2>3. CASE BalNotify(k)
    BY <2>3 DEF BalNotify, Callback
  <2> QED  BY <1>4, <2>1, <2>2, <2>3 DEF BalSteps
<1>5. ASSUME NEW k \in Node, Failures(k) PROVE TypeOK'
  <2> USE DEF Fault, Unwind, AppLocations
  <2>1. CASE JoinFail(k)
    BY <2>1 DEF JoinFail
  <2>2. CASE JoinPingFail(k)
    <3>1. /\ dir' \in [Node -> (MinWorkers..MaxWorkers) \cup {Absent}]
          /\ UNCHANGED <<schema, workers, pos, ping, bal, told>>
      BY <2>2 DEF JoinPingFail, Put
    <3>2. /\ flags' \in [Node -> SUBSET {"JOINED", "LEAVING", "PASSIVE"}]
          /\ dbs' \in [Node -> BOOLEAN]
          /\ app' \in [Node -> AppLocations]
          /\ changes' \in 0..MaxEvents /\ faults' \in 0..MaxEvents
      BY <2>2 DEF JoinPingFail
    <3> QED  BY <3>1, <3>2
  <2>3. CASE UnpingFail(k)
    BY <2>3 DEF UnpingFail, PingLocations
  <2>4. CASE Crash(k)
    BY <2>4, WorkersAssumption
    DEF Crash, Fresh, MinWorkers, Missing, PingLocations, BalLocations
  <2>5. CASE Expire(k)
    BY <2>5 DEF Expire
  <2> QED  BY <1>5, <2>1, <2>2, <2>3, <2>4, <2>5 DEF Failures
<1>6. CASE UNCHANGED vars
  BY <1>6 DEF vars
<1> QED  BY <1>1, <1>2, <1>3, <1>4, <1>5, <1>6 DEF Next, Step

(***************************************************************************)
(* The state of the cluster always has its type, whatever the members do and  *)
(* whatever fails; in particular no row holds anything but a worker count      *)
(* that its application has set, and the schema is never beyond its version.   *)
(***************************************************************************)
THEOREM TypeCorrect == Spec => []TypeOK
<1>1. Init => TypeOK
  BY WorkersAssumption, BoundAssumption, VersionAssumption
  DEF Init, TypeOK, Fresh, MinWorkers, Missing, AppLocations, PingLocations, BalLocations
<1> QED  BY <1>1, TypeStep, PTL DEF Spec

-----------------------------------------------------------------------------
(***************************************************************************)
(* The life cycle of a member: where the three threads can be together, and  *)
(* what the flags and the connections say then.                             *)
(***************************************************************************)
LifeCycle(n) ==
  /\ app[n] \in {"out", "migrate", "ping", "balance", "notify", "finish"} =>
       ping[n] = "none" /\ bal[n] = "none"
         /\ "JOINED" \notin flags[n] /\ "LEAVING" \notin flags[n]
  /\ app[n] = "in" =>
       ping[n] \in {"loop"} \cup Missing /\ bal[n] # "ended"
         /\ "JOINED" \in flags[n] /\ "LEAVING" \notin flags[n]
  /\ app[n] \in {"joinping", "joinbal"} =>
       "JOINED" \in flags[n] /\ "LEAVING" \in flags[n]
  /\ app[n] = "joinbal" => ping[n] = "none"
  /\ app[n] # "out" => dbs[n]
  /\ "PASSIVE" \in flags[n] => ping[n] = "none" /\ app[n] # "ping"

(***************************************************************************)
(* What the application has been told, along the life of a member.          *)
(***************************************************************************)
Untold(n) == told[n] = {} /\ pos[n].index = -1

Reported(n) ==
  /\ app[n] \in {"migrate", "ping", "balance"} => Untold(n)
  /\ app[n] \in {"finish", "in", "joinping", "joinbal"} /\ bal[n] # "notify" =>
       Untold(n) \/ told[n] = {pos[n]}

(***************************************************************************)
(* Where, without a fault, a member cannot have a row: unless it is passive   *)
(* it has a ping thread, which has deleted the row when it ends.             *)
(***************************************************************************)
Gone(n) ==
  faults = 0 =>
    /\ app[n] \in {"in", "joinping"} /\ "PASSIVE" \notin flags[n] =>
         ping[n] \notin Missing
    /\ \/ app[n] \in {"out", "migrate", "ping", "joinbal"}
       \/ ping[n] = "ended" \/ "PASSIVE" \in flags[n]
       => ~Listed(n)

MemberInv(n) == LifeCycle(n) /\ Reported(n) /\ Gone(n)

(***************************************************************************)
(* The frame: a step of member k leaves another member n alone.              *)
(***************************************************************************)
Framed(n) ==
  /\ app'[n] = app[n] /\ ping'[n] = ping[n] /\ bal'[n] = bal[n]
  /\ flags'[n] = flags[n] /\ dbs'[n] = dbs[n]
  /\ pos'[n] = pos[n] /\ told'[n] = told[n]
  /\ dir'[n] = dir[n] /\ workers'[n] = workers[n]
  /\ faults' = 0 => faults = 0

\* A migration finds no rows.
LEMMA MigrateKeeps ==
  ASSUME TypeOK, SchemaCurrent, NEW k \in Node, Migrate(k)
  PROVE  UNCHANGED dir
<1>1. schema < Version
  BY DEF Migrate
<1>2. \A n \in Node : dir[n] = Absent
  BY <1>1 DEF SchemaCurrent, Listed
<1>3. dir = [n \in Node |-> Absent]
  BY <1>2 DEF TypeOK
<1> QED  BY <1>3 DEF Migrate

LEMMA Frame ==
  ASSUME TypeOK, SchemaCurrent, NEW k \in Node, Step(k),
         NEW n \in Node, n # k
  PROVE  Framed(n)
<1> USE DEF TypeOK, Framed, table, object, threads, bounds, AppStep, Fault
<1>1. CASE AppCalls(k)
  BY <1>1 DEF AppCalls, JoinConnect, SetWorkers, Leave, Change
<1>2. CASE AppSteps(k)
  <2>1. CASE Migrate(k)
    BY <2>1, MigrateKeeps DEF Migrate
  <2>2. CASE JoinReady(k) \/ JoinPing(k)
    BY <2>2 DEF JoinReady, JoinPing, Put
  <2>3. CASE JoinBalance(k)
    <3>1. CASE StartThreads(k)
      BY <2>3, <3>1, Started DEF JoinBalance
    <3> QED  BY <2>3, <3>1 DEF JoinBalance
  <2>4. CASE JoinNotify(k)
    BY <2>4 DEF JoinNotify, Callback
  <2>5. CASE JoinFinish(k)
    BY <2>5, Started DEF JoinFinish
  <2>6. CASE LeaveJoinPing(k) \/ LeaveFinish(k)
    BY <2>6 DEF LeaveJoinPing, LeaveFinish, Unwind
  <2> QED  BY <1>2, <2>1, <2>2, <2>3, <2>4, <2>5, <2>6 DEF AppSteps
<1>3. CASE PingSteps(k)
  BY <1>3 DEF PingSteps, PingSend, Put, PingLeave, Unping
<1>4. CASE BalSteps(k)
  BY <1>4
  DEF BalSteps, BalCheck, BalPoll, BalBalance, BalNotify, BalStep, Callback
<1>5. CASE Failures(k)
  <2>1. CASE JoinFail(k) \/ JoinPingFail(k)
    BY <2>1 DEF JoinFail, JoinPingFail, Put, Unwind
  <2>2. CASE UnpingFail(k) \/ Crash(k) \/ Expire(k)
    BY <2>2 DEF UnpingFail, Crash, Expire
  <2> QED  BY <1>5, <2>1, <2>2 DEF Failures
<1> QED  BY <1>1, <1>2, <1>3, <1>4, <1>5 DEF Step

LEMMA OthersKeep ==
  ASSUME NEW n \in Node, MemberInv(n), Framed(n)
  PROVE  MemberInv(n)'
<1>1. LifeCycle(n)' /\ Reported(n)'
  BY DEF MemberInv, LifeCycle, Reported, Untold, Framed
<1>2. Gone(n)'
  BY DEF MemberInv, Gone, Listed, Framed
<1> QED  BY <1>1, <1>2 DEF MemberInv

(***************************************************************************)
(* The threads of a member follow its life cycle.                            *)
(***************************************************************************)
LEMMA LifeCycleStep ==
  ASSUME TypeOK, NEW k \in Node, MemberInv(k), Step(k)
  PROVE  LifeCycle(k)'
<1> USE DEF TypeOK, MemberInv, LifeCycle, AppLocations, PingLocations,
            BalLocations, Missing, table, object, threads, AppStep
<1>1. CASE AppCalls(k)
  <2>1. ASSUME NEW p \in BOOLEAN, JoinConnect(k, p) PROVE LifeCycle(k)'
    <3>1. /\ app[k] = "out" /\ app'[k] = "migrate" /\ dbs'[k]
          /\ UNCHANGED <<ping, bal>>
      BY <2>1 DEF JoinConnect
    <3>2. flags'[k] = flags[k] \cup {"PASSIVE"} \/ flags'[k] = flags[k]
      BY <2>1, Zenon DEF JoinConnect
    <3> QED  BY <3>1, <3>2
  <2>2. CASE \E w \in MinWorkers..MaxWorkers : SetWorkers(k, w)
    BY <2>2 DEF SetWorkers
  <2>3. CASE Leave(k)
    BY <2>3 DEF Leave
  <2> QED  BY <1>1, <2>1, <2>2, <2>3 DEF AppCalls
<1>2. CASE AppSteps(k)
  <2>1. CASE Migrate(k) \/ JoinReady(k) \/ JoinPing(k)
    BY <2>1 DEF Migrate, JoinReady, JoinPing, Put
  <2>2. CASE JoinBalance(k)
    <3>1. CASE app' = [app EXCEPT ![k] = "notify"]
                 /\ UNCHANGED <<flags, ping, bal>>
      BY <2>2, <3>1 DEF JoinBalance
    <3>2. CASE StartThreads(k) /\ app' = [app EXCEPT ![k] = "in"]
      <4>1. app[k] = "balance" /\ app'[k] = "in" /\ dbs'[k]
        BY <2>2, <3>2 DEF JoinBalance
      <4>2. /\ ping'[k] \in {"loop"} \cup Missing /\ bal'[k] \in {"check"} \cup Missing
            /\ "PASSIVE" \in flags[k] => ping'[k] = "none"
            /\ flags'[k] = flags[k] \cup {"JOINED"}
        BY <3>2, Started
      <4> QED  BY <4>1, <4>2
    <3> QED  BY <2>2, <3>1, <3>2 DEF JoinBalance
  <2>3. CASE JoinNotify(k)
    BY <2>3 DEF JoinNotify
  <2>4. CASE JoinFinish(k)
    <3>1. app[k] = "finish" /\ app'[k] = "in" /\ dbs'[k]
      BY <2>4 DEF JoinFinish
    <3>2. /\ ping'[k] \in {"loop"} \cup Missing /\ bal'[k] \in {"check"} \cup Missing
          /\ "PASSIVE" \in flags[k] => ping'[k] = "none"
          /\ flags'[k] = flags[k] \cup {"JOINED"}
      BY <2>4, Started DEF JoinFinish
    <3> QED  BY <3>1, <3>2
  <2>5. CASE LeaveJoinPing(k)
    BY <2>5 DEF LeaveJoinPing
  <2>6. CASE LeaveFinish(k)
    BY <2>6 DEF LeaveFinish, Unwind
  <2> QED  BY <1>2, <2>1, <2>2, <2>3, <2>4, <2>5, <2>6 DEF AppSteps
<1>3. CASE PingSteps(k)
  BY <1>3 DEF PingSteps, PingSend, Put, PingLeave, Unping
<1>4. CASE BalSteps(k)
  <2>1. CASE BalCheck(k)
    BY <2>1 DEF BalCheck, BalStep
  <2>2. CASE BalPoll(k) \/ BalBalance(k) \/ BalNotify(k)
    BY <2>2 DEF BalPoll, BalBalance, BalNotify, BalStep
  <2> QED  BY <1>4, <2>1, <2>2 DEF BalSteps
<1>5. CASE Failures(k)
  <2>1. CASE JoinFail(k) \/ JoinPingFail(k)
    BY <2>1 DEF JoinFail, JoinPingFail, Unwind
  <2>2. CASE UnpingFail(k)
    BY <2>2 DEF UnpingFail
  <2>3. CASE Crash(k)
    BY <2>3 DEF Crash
  <2>4. CASE Expire(k)
    BY <2>4 DEF Expire
  <2> QED  BY <1>5, <2>1, <2>2, <2>3, <2>4 DEF Failures
<1> QED  BY <1>1, <1>2, <1>3, <1>4, <1>5 DEF Step

(***************************************************************************)
(* A member's application is told what the library knows.                   *)
(***************************************************************************)
LEMMA ReportedStep ==
  ASSUME TypeOK, NEW k \in Node, MemberInv(k), Step(k)
  PROVE  Reported(k)'
<1> USE DEF TypeOK, MemberInv, LifeCycle, Reported, Untold, table, object,
            threads, AppStep
<1>1. CASE AppCalls(k)
  <2>1. ASSUME NEW p \in BOOLEAN, JoinConnect(k, p) PROVE Reported(k)'
    <3>1. app'[k] = "migrate" /\ told'[k] = {} /\ pos'[k].index = -1
      BY <2>1 DEF JoinConnect
    <3> QED  BY <3>1
  <2>2. CASE \E w \in MinWorkers..MaxWorkers : SetWorkers(k, w)
    BY <2>2 DEF SetWorkers
  <2>3. CASE Leave(k)
    BY <2>3 DEF Leave
  <2> QED  BY <1>1, <2>1, <2>2, <2>3 DEF AppCalls
<1>2. CASE AppSteps(k)
  <2>1. CASE Migrate(k) \/ JoinReady(k) \/ JoinPing(k)
    BY <2>1 DEF Migrate, JoinReady, JoinPing
  <2>2. CASE JoinBalance(k)
    <3>1. CASE app' = [app EXCEPT ![k] = "notify"]
      BY <3>1
    <3>2. CASE app' = [app EXCEPT ![k] = "in"] /\ UNCHANGED pos
      BY <2>2, <3>2 DEF JoinBalance
    <3> QED  BY <2>2, <3>1, <3>2 DEF JoinBalance
  <2>3. CASE JoinNotify(k)
    BY <2>3 DEF JoinNotify, Callback
  <2>4. CASE JoinFinish(k)
    BY <2>4 DEF JoinFinish
  <2>5. CASE LeaveJoinPing(k) \/ LeaveFinish(k)
    BY <2>5 DEF LeaveJoinPing, LeaveFinish
  <2> QED  BY <1>2, <2>1, <2>2, <2>3, <2>4, <2>5 DEF AppSteps
<1>3. CASE PingSteps(k)
  BY <1>3 DEF PingSteps, PingSend, PingLeave, Unping
<1>4. CASE BalSteps(k)
  <2>1. CASE BalCheck(k) \/ BalPoll(k)
    BY <2>1 DEF BalCheck, BalPoll, BalStep
  <2>2. CASE BalBalance(k)
    BY <2>2 DEF BalBalance, BalStep
  <2>3. CASE BalNotify(k)
    BY <2>3 DEF BalNotify, Callback, BalStep
  <2> QED  BY <1>4, <2>1, <2>2, <2>3 DEF BalSteps
<1>5. CASE Failures(k)
  <2>1. CASE JoinFail(k) \/ JoinPingFail(k)
    BY <2>1 DEF JoinFail, JoinPingFail
  <2>2. CASE UnpingFail(k) \/ Crash(k) \/ Expire(k)
    BY <2>2 DEF UnpingFail, Crash, Expire
  <2> QED  BY <1>5, <2>1, <2>2 DEF Failures
<1> QED  BY <1>1, <1>2, <1>3, <1>4, <1>5 DEF Step

(***************************************************************************)
(* Without a fault, a member that has left, or is passive, has no row.       *)
(***************************************************************************)
LEMMA GoneStep ==
  ASSUME TypeOK, SchemaCurrent, NEW k \in Node, MemberInv(k), Step(k)
  PROVE  Gone(k)'
<1> USE DEF TypeOK, MemberInv, LifeCycle, Gone, Listed, Absent, Missing,
            PingLocations,
            table, object, threads, bounds, AppStep
<1>1. CASE AppCalls(k)
  <2>1. ASSUME NEW p \in BOOLEAN, JoinConnect(k, p) PROVE Gone(k)'
    BY <2>1 DEF JoinConnect
  <2>2. CASE \E w \in MinWorkers..MaxWorkers : SetWorkers(k, w)
    BY <2>2 DEF SetWorkers, Change
  <2>3. CASE Leave(k)
    BY <2>3 DEF Leave
  <2> QED  BY <1>1, <2>1, <2>2, <2>3 DEF AppCalls
<1>2. CASE AppSteps(k)
  <2>1. CASE Migrate(k)
    BY <2>1, MigrateKeeps DEF Migrate
  <2>2. CASE JoinReady(k)
    BY <2>2 DEF JoinReady
  <2>3. CASE JoinPing(k)
    BY <2>3 DEF JoinPing, Put
  <2>4. CASE JoinBalance(k)
    <3>1. CASE StartThreads(k)
      BY <2>4, <3>1, Started DEF JoinBalance
    <3> QED  BY <2>4, <3>1 DEF JoinBalance
  <2>5. CASE JoinNotify(k)
    BY <2>5 DEF JoinNotify
  <2>6. CASE JoinFinish(k)
    BY <2>6, Started DEF JoinFinish
  <2>7. CASE LeaveJoinPing(k)
    BY <2>7 DEF LeaveJoinPing
  <2>8. CASE LeaveFinish(k)
    BY <2>8 DEF LeaveFinish, Unwind
  <2> QED
    BY <1>2, <2>1, <2>2, <2>3, <2>4, <2>5, <2>6, <2>7, <2>8 DEF AppSteps
<1>3. CASE PingSteps(k)
  <2>1. CASE PingSend(k)
    BY <2>1, WorkersAssumption DEF PingSend, Put, AppLocations
  <2>2. CASE PingLeave(k) \/ Unping(k)
    BY <2>2 DEF PingLeave, Unping
  <2> QED  BY <1>3, <2>1, <2>2 DEF PingSteps
<1>4. CASE BalSteps(k)
  BY <1>4 DEF BalSteps, BalCheck, BalPoll, BalBalance, BalNotify
<1>5. CASE Failures(k)
  <2>1. CASE JoinFail(k) \/ JoinPingFail(k) \/ UnpingFail(k) \/ Crash(k)
    BY <2>1 DEF JoinFail, JoinPingFail, UnpingFail, Crash, Fault
  <2>2. CASE Expire(k)
    BY <2>2 DEF Expire
  <2> QED  BY <1>5, <2>1, <2>2 DEF Failures
<1> QED  BY <1>1, <1>2, <1>3, <1>4, <1>5 DEF Step

(***************************************************************************)
(* As long as the schema is not current, no step but a migration or the       *)
(* beginning or the end of a join that waits for it is possible.             *)
(***************************************************************************)
LEMMA SchemaStep ==
  ASSUME TypeOK, SchemaCurrent, NEW k \in Node, MemberInv(k), Step(k)
  PROVE  SchemaCurrent'
<1> SUFFICES ASSUME schema' < Version
             PROVE  \A n \in Node :
                      ~Listed(n)' /\ app'[n] \in {"out", "migrate"}
  BY DEF SchemaCurrent
<1> USE DEF TypeOK, MemberInv, LifeCycle, table, object, threads, AppStep
<1>1. schema < Version
  BY VersionAssumption
  DEF Step, AppCalls, AppSteps, PingSteps, BalSteps, Failures, JoinConnect,
      SetWorkers, Leave, Migrate, JoinReady, JoinPing, JoinBalance, JoinNotify,
      JoinFinish, LeaveJoinPing, LeaveFinish, PingSend, Put, PingLeave, Unping,
      BalCheck, BalPoll, BalBalance, BalNotify, JoinFail, JoinPingFail,
      UnpingFail, Crash, Expire
<1>2. \A n \in Node : ~Listed(n) /\ app[n] \in {"out", "migrate"}
  BY <1>1 DEF SchemaCurrent
<1>3. \A n \in Node : n # k => ~Listed(n)' /\ app'[n] \in {"out", "migrate"}
  BY <1>2, Frame DEF Framed, Listed
<1>4. ~Listed(k) /\ ping[k] = "none" /\ bal[k] = "none"
  BY <1>2
<1>5. ~Listed(k)' /\ app'[k] \in {"out", "migrate"}
  <2>1. CASE AppCalls(k)
    BY <1>2, <2>1 DEF AppCalls, JoinConnect, SetWorkers, Leave, Listed
  <2>2. CASE AppSteps(k)
    <3>1. CASE Migrate(k)
      BY <1>2, <3>1, MigrateKeeps DEF Migrate, Listed
    <3> QED
      BY <1>1, <1>2, <2>2, <3>1
      DEF AppSteps, JoinReady, JoinPing, JoinBalance, JoinNotify, JoinFinish,
          LeaveJoinPing, LeaveFinish
  <2>3. CASE PingSteps(k)
    BY <1>4, <2>3 DEF PingSteps, PingSend, PingLeave, Unping
  <2>4. CASE BalSteps(k)
    BY <1>4, <2>4
    DEF BalSteps, BalCheck, BalPoll, BalBalance, BalNotify, BalStep
  <2>5. CASE Failures(k)
    BY <1>2, <1>4, <2>5
    DEF Failures, JoinFail, JoinPingFail, UnpingFail, Crash, Expire,
        Listed
  <2> QED  BY <2>1, <2>2, <2>3, <2>4, <2>5 DEF Step
<1> QED  BY <1>3, <1>5

-----------------------------------------------------------------------------
Inv == TypeOK /\ SchemaCurrent /\ \A n \in Node : MemberInv(n)

(***************************************************************************)
(* The inductive invariant of the cluster.                                  *)
(***************************************************************************)
LEMMA Invariance == Spec => []Inv
<1>1. Init => Inv
  <2> SUFFICES ASSUME Init PROVE Inv
    OBVIOUS
  <2>1. TypeOK
    BY WorkersAssumption, BoundAssumption, VersionAssumption
    DEF Init, TypeOK, Fresh, MinWorkers, Missing, AppLocations, PingLocations, BalLocations
  <2>2. SchemaCurrent
    BY DEF Init, SchemaCurrent, Listed
  <2>3. \A n \in Node : MemberInv(n)
    BY DEF Init, MemberInv, LifeCycle, Reported, Gone, Listed
  <2> QED  BY <2>1, <2>2, <2>3 DEF Inv
<1>2. Inv /\ [Next]_vars => Inv'
  <2> SUFFICES ASSUME Inv, [Next]_vars PROVE Inv'
    OBVIOUS
  <2>1. TypeOK'
    BY TypeStep DEF Inv
  <2>2. ASSUME NEW k \in Node, Step(k)
        PROVE  SchemaCurrent' /\ \A n \in Node : MemberInv(n)'
    <3>1. SchemaCurrent'
      BY <2>2, SchemaStep DEF Inv
    <3>2. MemberInv(k)'
      BY <2>2, LifeCycleStep, ReportedStep, GoneStep DEF Inv, MemberInv
    <3>3. \A n \in Node : n # k => MemberInv(n)'
      BY <2>2, Frame, OthersKeep DEF Inv
    <3> QED  BY <3>1, <3>2, <3>3
  <2>3. CASE UNCHANGED vars
    BY <2>3
    DEF Inv, vars, table, object, threads, bounds, TypeOK, SchemaCurrent,
        MemberInv, LifeCycle, Reported, Gone, Listed, Untold
  <2> QED  BY <2>1, <2>2, <2>3 DEF Next, Inv
<1> QED  BY <1>1, <1>2, PTL DEF Spec

(***************************************************************************)
(* For every number of members, and with any faults: cluster_sql_leave_()     *)
(* never closes a connection that a thread still uses, and no thread outlives *)
(* its membership.                                                          *)
(***************************************************************************)
THEOREM HandlesSafe == Spec => []HandleSafety
<1>1. Inv => HandleSafety
  BY DEF Inv, MemberInv, LifeCycle, HandleSafety, PingRuns, BalRuns, Missing,
         TypeOK, AppLocations
<1> QED  BY <1>1, Invariance, PTL

(***************************************************************************)
(* For every number of members, and with any faults: between two reports, the *)
(* application has been told the index and the total that the library holds.  *)
(***************************************************************************)
THEOREM Told == Spec => []ToldTheTruth
<1>1. Inv => ToldTheTruth
  BY DEF Inv, MemberInv, LifeCycle, Reported, ToldTheTruth, Untold, TypeOK,
         AppLocations
<1> QED  BY <1>1, Invariance, PTL

(***************************************************************************)
(* For every number of members and of workers, and with any faults: members   *)
(* that have caught up with the table divide the work among them without      *)
(* overlap or gap.  The library's part is that each application was told the  *)
(* current position (Reported); the rest is arithmetic (NumberingDivides).   *)
(***************************************************************************)
THEOREM Divided == Spec => []WorkDivided
<1>1. Inv => WorkDivided
  <2> SUFFICES ASSUME Inv, \A n \in Members : CaughtUp(n) /\ dir[n] >= 0
               PROVE  LET total == WorkerTotal(dir, Members) IN
                      /\ \A n \in Members : told[n] # {} /\ \A s \in told[n] :
                           s.total = total /\ s.index + workers[n] <= total
                      /\ \A i \in 0..(total - 1) :
                           \E n \in Members :
                             \A m \in Members : ActsOn(m, i) <=> m = n
    BY DEF WorkDivided
  <2> DEFINE total == WorkerTotal(dir, Members)
             first(n) == FirstIndex(dir, Members, n)
  <2>1. /\ Members \subseteq Int /\ IsFiniteSet(Members)
        /\ \A m \in Members : dir[m] \in 0..MaxWorkers
    <3>1. Members \in SUBSET Node
      BY DEF Members
    <3>2. IsFiniteSet(Members)
      BY <3>1, NodeAssumption, FS_Subset
    <3>3. \A m \in Members : dir[m] \in MinWorkers..MaxWorkers
      BY DEF Inv, TypeOK, Members, Listed
    <3>4. \A m \in Members : dir[m] \in 0..MaxWorkers
      BY <3>3, WorkersAssumption DEF MinWorkers
    <3> QED  BY <3>1, <3>2, <3>4, NodeAssumption
  <2>2. MaxWorkers \in Nat
    BY WorkersAssumption
  <2>3. \A n \in Members : first(n) \in Nat /\ first(n) + dir[n] <= total
    BY <2>1, <2>2, RangesInOrder
  <2>4. /\ \A i \in 0..(total - 1) : \E n \in Members : InRange(dir, Members, n, i)
        /\ \A i \in Int : \A n, m \in Members :
             InRange(dir, Members, n, i) /\ InRange(dir, Members, m, i) => n = m
    BY <2>1, <2>2, NumberingDivides
  <2>5. ASSUME NEW n \in Members
        PROVE  /\ told[n] # {} /\ dir[n] = workers[n]
               /\ \A s \in told[n] : s.index = first(n) /\ s.total = total
    <3>1. n \in Node /\ n \in Members /\ Listed(n) /\ CaughtUp(n)
      BY DEF Members
    <3>2. /\ pos[n].index = first(n) /\ pos[n].total = total
          /\ dir[n] = workers[n]
      <4>1. /\ SumOf(dir, Members) = total
            /\ SumBefore(dir, Members, n) = first(n)
        BY <2>1, <2>2, SumOfNaturals
      <4> QED  BY <3>1, <4>1 DEF CaughtUp, Position
    <3>3. /\ app[n] \in {"in", "joinping", "joinbal"}
          /\ bal[n] # "notify"
      BY <3>1 DEF CaughtUp, Reporting, Inv, MemberInv, LifeCycle, TypeOK,
         AppLocations
    <3>4. Untold(n) \/ told[n] = {pos[n]}
      BY <3>1, <3>3 DEF Inv, MemberInv, Reported
    <3>5. pos[n].index # -1
      BY <2>3, <3>2
    <3> QED  BY <3>2, <3>4, <3>5 DEF Untold
  <2>6. ASSUME NEW n \in Members
        PROVE  /\ told[n] # {}
               /\ \A s \in told[n] : s.total = total /\ s.index + workers[n] <= total
    BY <2>3, <2>5
  <2>7. ASSUME NEW n \in Members, NEW i
        PROVE  ActsOn(n, i) <=> InRange(dir, Members, n, i)
    BY <2>5 DEF ActsOn, InRange
  <2>8. ASSUME NEW i \in 0..(total - 1)
        PROVE  \E n \in Members : \A m \in Members : ActsOn(m, i) <=> m = n
    <3>1. i \in Int
      BY <2>8
    <3>2. PICK n \in Members : InRange(dir, Members, n, i)
      BY <2>4
    <3>3. \A m \in Members : ActsOn(m, i) <=> m = n
      BY <2>4, <2>7, <3>1, <3>2
    <3> QED  BY <3>3
  <2> QED  BY <2>6, <2>8
<1> QED  BY <1>1, Invariance, PTL

(***************************************************************************)
(* For every number of members, as long as nothing fails: a member that has   *)
(* left, or is passive, has no row.                                         *)
(***************************************************************************)
THEOREM GhostFree == Spec => []NoGhost
<1>1. Inv => NoGhost
  BY DEF Inv, MemberInv, Gone, NoGhost
<1> QED  BY <1>1, Invariance, PTL

(***************************************************************************)
(* For every number of members and of versions: no row is written, and none   *)
(* is read, before the schema is current, so that a migration never takes a   *)
(* member's row with it.                                                    *)
(***************************************************************************)
THEOREM SchemaFirst == Spec => []SchemaCurrent
<1>1. Inv => SchemaCurrent
  BY DEF Inv
<1> QED  BY <1>1, Invariance, PTL

-----------------------------------------------------------------------------
(***************************************************************************)
(* SqlCluster implements Membership.  A step of member k changes the          *)
(* abstract state of k only.                                                *)
(***************************************************************************)
LEMMA Mapped ==
  ASSUME Inv, TypeOK', NEW k \in Node, Step(k)
  PROVE  /\ phaseBar' = [phaseBar EXCEPT ![k] = Phase(k)']
         /\ Reporting(k)' => dueBar' = dueBar \cup {k}
         /\ ~Reporting(k)' => dueBar' = dueBar \ {k}
         /\ "PASSIVE" \in flags'[k] => observersBar' = observersBar \cup {k}
         /\ "PASSIVE" \notin flags'[k] => observersBar' = observersBar \ {k}
<1>1. \A n \in Node : n # k => Framed(n)
  BY Frame DEF Inv
<1>2. phaseBar' = [phaseBar EXCEPT ![k] = Phase(k)']
  <2>1. \A n \in Node : n # k => Phase(n)' = Phase(n)
    BY <1>1 DEF Framed, Phase
  <2> QED  BY <2>1 DEF phaseBar
<1>3. \A n \in Node : n # k => (Reporting(n)' <=> Reporting(n))
  BY <1>1 DEF Framed, Reporting
<1>4. /\ Reporting(k)' => dueBar' = dueBar \cup {k}
      /\ ~Reporting(k)' => dueBar' = dueBar \ {k}
  BY <1>3 DEF dueBar
<1>5. \A n \in Node : n # k =>
        ("PASSIVE" \in flags'[n] <=> "PASSIVE" \in flags[n])
  BY <1>1 DEF Framed
<1>6. /\ "PASSIVE" \in flags'[k] => observersBar' = observersBar \cup {k}
      /\ "PASSIVE" \notin flags'[k] => observersBar' = observersBar \ {k}
  BY <1>5 DEF observersBar
<1> QED  BY <1>2, <1>4, <1>6

(***************************************************************************)
(* The abstract state of k, when a part of it does not change.               *)
(***************************************************************************)
LEMMA Same ==
  ASSUME Inv, TypeOK', NEW k \in Node, Step(k)
  PROVE  /\ phaseBar[k] = Phase(k)
         /\ k \in dueBar <=> Reporting(k)
         /\ k \in observersBar <=> "PASSIVE" \in flags[k]
         /\ Phase(k)' = Phase(k) => phaseBar' = phaseBar
         /\ (Reporting(k)' <=> Reporting(k)) => dueBar' = dueBar
         /\ ("PASSIVE" \in flags'[k] <=> "PASSIVE" \in flags[k])
              => observersBar' = observersBar
<1>1. /\ phaseBar[k] = Phase(k) /\ (k \in dueBar <=> Reporting(k))
      /\ k \in observersBar <=> "PASSIVE" \in flags[k]
  BY DEF phaseBar, dueBar, observersBar
<1>2. Phase(k)' = Phase(k) => phaseBar' = phaseBar
  BY <1>1, Mapped DEF phaseBar
<1>3. (Reporting(k)' <=> Reporting(k)) => dueBar' = dueBar
  BY <1>1, Mapped
<1>4. ("PASSIVE" \in flags'[k] <=> "PASSIVE" \in flags[k])
        => observersBar' = observersBar
  BY <1>1, Mapped
<1> QED  BY <1>1, <1>2, <1>3, <1>4

(***************************************************************************)
(* A step that starts the threads or unwinds leaves the passive flag alone.   *)
(***************************************************************************)
Kept == UNCHANGED observersBar

LEMMA PassiveKept ==
  ASSUME Inv, TypeOK', NEW k \in Node, Step(k),
         UNCHANGED flags \/ Unwind(k) \/ StartThreads(k)
  PROVE  Kept
<1> USE DEF Inv, TypeOK
<1>1. CASE Unwind(k)
  <2>1. "PASSIVE" \in flags'[k] <=> "PASSIVE" \in flags[k]
    BY <1>1 DEF Unwind
  <2> QED  BY <2>1, Same DEF Kept
<1>2. CASE StartThreads(k)
  <2>1. "PASSIVE" \in flags'[k] <=> "PASSIVE" \in flags[k]
    BY <1>2 DEF StartThreads
  <2> QED  BY <2>1, Same DEF Kept
<1>3. CASE UNCHANGED flags
  BY <1>3, Same DEF Kept
<1> QED  BY <1>1, <1>2, <1>3

(***************************************************************************)
(* A report of the library is a report of the abstract protocol.            *)
(***************************************************************************)
LEMMA ReportStep ==
  ASSUME Inv, TypeOK', NEW k \in Node, Step(k), Callback(k), Kept,
         UNCHANGED <<dir, workers, pos>>, Phase(k)' = Phase(k),
         Reporting(k), ~Reporting(k)'
  PROVE  Abstract!Report(k)
<1>1. k \in dueBar /\ dueBar' = dueBar \ {k} /\ phaseBar' = phaseBar
  BY Mapped, Same
<1> QED  BY <1>1 DEF Abstract!Report, Callback, Kept

(***************************************************************************)
(* A new position is an observation of the table.                           *)
(***************************************************************************)
LEMMA ObserveStep ==
  ASSUME Inv, TypeOK', NEW k \in Node, Step(k), Kept,
         Position(k) # pos[k], pos' = [pos EXCEPT ![k] = Position(k)],
         UNCHANGED <<dir, workers, told>>, Phase(k)' = Phase(k),
         Phase(k) # "out", ~Reporting(k), Reporting(k)'
  PROVE  Abstract!Observe(k)
<1>1. Abstract!Numbered(k) = Position(k)
  <2>1. Abstract!Members = Members /\ (k \in Members <=> Listed(k))
    BY DEF Abstract!Members, Abstract!Absent, Members, Listed, Absent
  <2>2. \A S : Abstract!SumOf(dir, S) = SumOf(dir, S)
    BY DEF Abstract!SumOf, Abstract!Slots, Abstract!Owed, Abstract!Cardinality,
           SumOf, Slots, Owed, Cardinality
  <2>3. Abstract!SumBefore(dir, Members, k) = SumBefore(dir, Members, k)
    BY <2>2 DEF Abstract!SumBefore, SumBefore
  <2>4. k \in observersBar <=> "PASSIVE" \in flags[k]
    BY DEF observersBar
  <2> QED  BY <2>1, <2>2, <2>3, <2>4 DEF Abstract!Numbered, Position
<1>2. k \notin dueBar /\ dueBar' = dueBar \cup {k} /\ phaseBar' = phaseBar
  BY Mapped, Same
<1>3. phaseBar[k] # "out"
  BY Same
<1> QED  BY <1>1, <1>2, <1>3 DEF Abstract!Observe, Kept

(***************************************************************************)
(* A step of which the abstract protocol sees nothing.                      *)
(***************************************************************************)
LEMMA Unseen ==
  ASSUME Inv, TypeOK', NEW k \in Node, Step(k), Kept,
         UNCHANGED <<dir, workers, pos, told>>, Phase(k)' = Phase(k),
         Reporting(k)' <=> Reporting(k)
  PROVE  UNCHANGED Abstract!vars
BY Same DEF Abstract!vars, Kept

(***************************************************************************)
(* A step that changes the phase of a member, and perhaps its row.           *)
(***************************************************************************)
LEMMA PhaseStep ==
  ASSUME Inv, TypeOK', NEW k \in Node, Step(k), Kept,
         UNCHANGED <<workers, pos, told>>, ~Reporting(k), ~Reporting(k)'
  PROVE  /\ UNCHANGED dir /\ Phase(k) = "joining" /\ Phase(k)' = "in"
           => Abstract!Enter(k)
         /\ /\ Phase(k) = "joining" /\ Phase(k)' = "out"
            /\ \/ UNCHANGED dir
               \/ /\ dir' = [dir EXCEPT ![k] = workers[k]]
                  /\ "PASSIVE" \notin flags[k]
            => Abstract!Abort(k)
<1>1. /\ phaseBar[k] = Phase(k) /\ k \notin dueBar /\ dueBar' = dueBar
      /\ phaseBar' = [phaseBar EXCEPT ![k] = Phase(k)']
      /\ "PASSIVE" \notin flags[k] => k \notin observersBar
  BY Mapped, Same
<1> QED  BY <1>1 DEF Abstract!Enter, Abstract!Abort, Kept

(***************************************************************************)
(* A step that writes or removes a row and is not seen otherwise.            *)
(***************************************************************************)
LEMMA DirStep ==
  ASSUME Inv, TypeOK', NEW k \in Node, Step(k), Kept,
         UNCHANGED <<workers, pos, told>>, Phase(k)' = Phase(k),
         Reporting(k)' <=> Reporting(k)
  PROVE  /\ /\ dir' = [dir EXCEPT ![k] = workers[k]]
            /\ Phase(k) \in {"joining", "in"} /\ "PASSIVE" \notin flags[k]
            => Abstract!Publish(k)
         /\ dir' = [dir EXCEPT ![k] = Absent] => Abstract!Drop({k})
<1>1. /\ phaseBar[k] = Phase(k) /\ dueBar' = dueBar /\ phaseBar' = phaseBar
      /\ "PASSIVE" \notin flags[k] => k \notin observersBar
  BY Same
<1>2. ASSUME dir' = [dir EXCEPT ![k] = Absent]
      PROVE  dir' = [n \in Node |-> IF n \in {k} THEN Abstract!Absent ELSE dir[n]]
  BY <1>2 DEF Inv, TypeOK, Absent, Abstract!Absent
<1> QED
  BY <1>1, <1>2
  DEF Abstract!Publish, Abstract!MayPublish, Abstract!Drop, Kept

(***************************************************************************)
(* Every step of a member is a step of the abstract protocol, or none.       *)
(***************************************************************************)
LEMMA AppSimulated ==
  ASSUME Inv, TypeOK', NEW k \in Node, Step(k), AppCalls(k) \/ AppSteps(k)
  PROVE  Abstract!Step(k) \/ UNCHANGED Abstract!vars
<1> USE DEF Inv, TypeOK, MemberInv, LifeCycle, table, object, threads, AppStep
<1>1. ASSUME NEW p \in BOOLEAN, JoinConnect(k, p) PROVE Abstract!Step(k)
  <2>1. /\ app[k] = "out" /\ app'[k] = "migrate"
        /\ told' = [told EXCEPT ![k] = {}]
        /\ pos' = [pos EXCEPT ![k].index = -1]
        /\ UNCHANGED <<dir, workers, bal>>
    BY <1>1 DEF JoinConnect
  <2>2. /\ Phase(k) = "out" /\ Phase(k)' = "joining"
        /\ ~Reporting(k) /\ ~Reporting(k)'
    BY <2>1 DEF Phase, Reporting
  <2>3. flags'[k] = flags[k] \cup {"PASSIVE"} \/ flags'[k] = flags[k]
    BY <1>1, Zenon DEF JoinConnect
  <2>4. observersBar' \in {observersBar, observersBar \cup {k}}
    BY <2>3, Mapped, Same
  <2>5. /\ phaseBar[k] = "out" /\ dueBar' = dueBar
        /\ phaseBar' = [phaseBar EXCEPT ![k] = "joining"]
    BY <2>2, Same, Mapped
  <2>6. Abstract!Begin(k)
    BY <2>1, <2>4, <2>5 DEF Abstract!Begin, Abstract!Starts
  <2> QED  BY <2>6 DEF Abstract!Step
<1>2. CASE \E w \in MinWorkers..MaxWorkers : SetWorkers(k, w)
  <2> PICK w \in MinWorkers..MaxWorkers : SetWorkers(k, w)
    BY <1>2
  <2>1. UNCHANGED <<dir, pos, flags, app, bal, told>>
    BY DEF SetWorkers
  <2>2. UNCHANGED <<phaseBar, dueBar, observersBar>>
    BY <2>1, Same DEF Phase, Reporting
  <2>3. Abstract!SetWorkers(k, w)
    BY <2>1, <2>2 DEF Abstract!SetWorkers, SetWorkers
  <2> QED  BY <2>3 DEF Abstract!Step
<1>3. CASE Leave(k)
  <2>1. /\ app[k] = "in" /\ app'[k] = "joinping"
        /\ UNCHANGED <<dir, workers, pos, bal, told>>
        /\ flags'[k] = flags[k] \cup {"LEAVING"}
    BY <1>3 DEF Leave
  <2>2. /\ Phase(k) = "in" /\ Phase(k)' = "leaving"
        /\ Reporting(k)' <=> Reporting(k)
    BY <2>1 DEF Phase, Reporting
  <2>3. UNCHANGED <<dueBar, observersBar>> /\ phaseBar[k] = "in"
    BY <2>1, <2>2, Same
  <2>4. phaseBar' = [phaseBar EXCEPT ![k] = "leaving"]
    BY <2>2, Mapped
  <2>5. Abstract!Retire(k)
    BY <2>1, <2>3, <2>4 DEF Abstract!Retire
  <2> QED  BY <2>5 DEF Abstract!Step
<1>4. ASSUME AppSteps(k) PROVE Kept
  <2>1. UNCHANGED flags \/ Unwind(k) \/ StartThreads(k)
    BY <1>4
    DEF AppSteps, Migrate, JoinReady, JoinPing, JoinBalance, JoinNotify,
        JoinFinish, LeaveJoinPing, LeaveFinish
  <2> QED  BY <2>1, PassiveKept
<1>5. CASE Migrate(k) \/ JoinReady(k)
  <2>1. /\ app[k] = "migrate" /\ app'[k] \in {"migrate", "balance", "ping"}
        /\ UNCHANGED <<workers, pos, told, bal>>
    BY <1>5 DEF Migrate, JoinReady
  <2>2. UNCHANGED dir
    BY <1>5, MigrateKeeps DEF JoinReady
  <2> QED  BY <1>4, <1>5, <2>1, <2>2, Unseen DEF AppSteps, Phase, Reporting
<1>6. CASE JoinPing(k)
  <2>1. /\ app[k] = "ping" /\ app'[k] = "balance"
        /\ UNCHANGED <<workers, pos, told, bal>>
        /\ dir' = [dir EXCEPT ![k] = workers[k]]
    BY <1>6 DEF JoinPing, Put
  <2>2. /\ Phase(k) = "joining" /\ Phase(k)' = "joining"
        /\ Reporting(k)' <=> Reporting(k)
    BY <2>1 DEF Phase, Reporting
  <2>3. "PASSIVE" \notin flags[k]
    BY <2>1
  <2> QED  BY <1>4, <1>6, <2>1, <2>2, <2>3, DirStep DEF Abstract!Step, AppSteps
<1>7. CASE JoinBalance(k)
  <2>1. /\ app[k] = "balance" /\ bal[k] = "none"
        /\ UNCHANGED <<dir, workers, told>>
    BY <1>7 DEF JoinBalance
  <2>2. Phase(k) = "joining" /\ ~Reporting(k) /\ Kept
    BY <1>4, <1>7, <2>1 DEF Phase, Reporting, AppSteps
  <2>3. CASE /\ Position(k) # pos[k] /\ pos' = [pos EXCEPT ![k] = Position(k)]
             /\ app' = [app EXCEPT ![k] = "notify"]
    <3>1. Phase(k)' = "joining" /\ Reporting(k)'
      BY <2>3 DEF Phase, Reporting
    <3> QED  BY <2>1, <2>2, <2>3, <3>1, ObserveStep DEF Abstract!Step
  <2>4. CASE /\ StartThreads(k) /\ UNCHANGED pos
             /\ app' = [app EXCEPT ![k] = "in"]
    <3>1. app'[k] = "in" /\ bal'[k] \in {"check"} \cup Missing
      BY <2>4, Started
    <3>2. Phase(k)' = "in" /\ ~Reporting(k)'
      BY <3>1 DEF Phase, Reporting, Missing
    <3> QED  BY <2>1, <2>2, <2>4, <3>2, PhaseStep DEF Abstract!Step
  <2> QED  BY <1>7, <2>3, <2>4 DEF JoinBalance
<1>8. CASE JoinNotify(k)
  <2>1. /\ app[k] = "notify" /\ app'[k] = "finish" /\ bal'[k] = "none"
        /\ UNCHANGED <<dir, workers, pos>> /\ Callback(k)
    BY <1>8 DEF JoinNotify
  <2>2. Phase(k)' = Phase(k) /\ Reporting(k) /\ ~Reporting(k)'
    BY <2>1 DEF Phase, Reporting
  <2> QED  BY <1>4, <1>8, <2>1, <2>2, ReportStep DEF Abstract!Step, AppSteps
<1>9. CASE JoinFinish(k)
  <2>1. /\ app[k] = "finish" /\ app'[k] = "in" /\ bal[k] = "none"
        /\ bal'[k] \in {"check"} \cup Missing
        /\ UNCHANGED <<dir, workers, pos, told>>
    BY <1>9, Started DEF JoinFinish
  <2>2. /\ Phase(k) = "joining" /\ Phase(k)' = "in"
        /\ ~Reporting(k) /\ ~Reporting(k)'
    BY <2>1 DEF Phase, Reporting, Missing
  <2> QED  BY <1>4, <1>9, <2>1, <2>2, PhaseStep DEF Abstract!Step, AppSteps
<1>10. CASE LeaveJoinPing(k)
  <2>1. /\ app[k] = "joinping" /\ app'[k] = "joinbal"
        /\ UNCHANGED <<dir, workers, pos, told, bal>>
    BY <1>10 DEF LeaveJoinPing
  <2> QED  BY <1>4, <1>10, <2>1, Unseen DEF AppSteps, Phase, Reporting
<1>11. CASE LeaveFinish(k)
  <2>1. /\ app[k] = "joinbal" /\ app'[k] = "out"
        /\ told' = [told EXCEPT ![k] = {}]
        /\ bal[k] \in {"ended", "none"} /\ bal'[k] = "none"
        /\ UNCHANGED <<dir, workers, pos>>
    BY <1>11 DEF LeaveFinish
  <2>2. /\ Phase(k) = "leaving" /\ Phase(k)' = "out"
        /\ ~Reporting(k) /\ ~Reporting(k)'
    BY <2>1 DEF Phase, Reporting
  <2>3. /\ phaseBar[k] = "leaving" /\ k \notin dueBar /\ dueBar' = dueBar
        /\ phaseBar' = [phaseBar EXCEPT ![k] = "out"]
    BY <2>2, Same, Mapped
  <2>4. Abstract!Exit(k)
    BY <1>4, <1>11, <2>1, <2>3 DEF Abstract!Exit, AppSteps, Kept
  <2> QED  BY <2>4 DEF Abstract!Step
<1> QED
  BY <1>1, <1>2, <1>3, <1>5, <1>6, <1>7, <1>8, <1>9, <1>10, <1>11
  DEF AppCalls, AppSteps

LEMMA ThreadsSimulated ==
  ASSUME Inv, TypeOK', NEW k \in Node, Step(k), PingSteps(k) \/ BalSteps(k)
  PROVE  Abstract!Step(k) \/ Abstract!Drop({k}) \/ UNCHANGED Abstract!vars
<1> USE DEF Inv, TypeOK, MemberInv, LifeCycle, AppLocations, table, object,
            threads
<1>1. Kept
  <2>1. UNCHANGED flags
    BY DEF PingSteps, BalSteps, PingSend, PingLeave, Unping, BalCheck, BalPoll,
           BalBalance, BalNotify
  <2> QED  BY <2>1, PassiveKept
<1>2. CASE PingSend(k)
  <2>1. /\ dir' = [dir EXCEPT ![k] = workers[k]]
        /\ app[k] = "in" /\ "PASSIVE" \notin flags[k]
        /\ UNCHANGED <<workers, pos, told, app, bal>>
    BY <1>2 DEF PingSend, Put
  <2>2. /\ Phase(k) = "in" /\ Phase(k)' = "in"
        /\ Reporting(k)' <=> Reporting(k)
    BY <2>1 DEF Phase, Reporting
  <2> QED  BY <1>1, <2>1, <2>2, DirStep DEF Abstract!Step
<1>3. CASE Unping(k)
  <2>1. /\ dir' = [dir EXCEPT ![k] = Absent]
        /\ UNCHANGED <<workers, pos, told, app, bal>>
    BY <1>3 DEF Unping
  <2>2. Phase(k)' = Phase(k) /\ (Reporting(k)' <=> Reporting(k))
    BY <2>1 DEF Phase, Reporting
  <2> QED  BY <1>1, <2>1, <2>2, DirStep
<1>4. CASE PingLeave(k)
  <2>1. UNCHANGED <<dir, workers, pos, told, app, bal>>
    BY <1>4 DEF PingLeave
  <2> QED  BY <1>1, <2>1, Unseen DEF Phase, Reporting
<1>5. CASE BalCheck(k) \/ BalPoll(k)
  <2>1. /\ UNCHANGED <<dir, workers, pos, told, app>>
        /\ bal[k] \in {"check", "sleep"}
        /\ bal'[k] \in {"ended", "sleep", "check", "balance"}
    BY <1>5 DEF BalCheck, BalPoll, BalStep
  <2> QED  BY <1>1, <2>1, Unseen DEF Phase, Reporting
<1>6. CASE BalBalance(k)
  <2>1. UNCHANGED <<dir, workers, told, app>> /\ bal[k] = "balance"
    BY <1>6 DEF BalBalance, BalStep
  <2>2. Phase(k)' = Phase(k) /\ Phase(k) # "out" /\ ~Reporting(k)
    BY <2>1 DEF Phase, Reporting
  <2>3. CASE /\ Position(k) # pos[k] /\ pos' = [pos EXCEPT ![k] = Position(k)]
             /\ BalStep(k, "balance", "notify")
    <3>1. Reporting(k)'
      BY <2>3 DEF Reporting, BalStep
    <3> QED  BY <1>1, <2>1, <2>2, <2>3, <3>1, ObserveStep DEF Abstract!Step
  <2>4. CASE BalStep(k, "balance", "check") /\ UNCHANGED pos
    <3>1. ~Reporting(k)'
      BY <2>1, <2>2, <2>4 DEF Reporting, BalStep
    <3> QED  BY <1>1, <2>1, <2>2, <2>4, <3>1, Unseen
  <2> QED  BY <1>6, <2>3, <2>4 DEF BalBalance
<1>7. CASE BalNotify(k)
  <2>1. /\ UNCHANGED <<dir, workers, pos, app>> /\ Callback(k)
        /\ bal[k] = "notify" /\ bal'[k] = "check" /\ app[k] # "notify"
    BY <1>7 DEF BalNotify, BalStep
  <2>2. Phase(k)' = Phase(k) /\ Reporting(k) /\ ~Reporting(k)'
    BY <2>1 DEF Phase, Reporting
  <2> QED  BY <1>1, <2>1, <2>2, ReportStep DEF Abstract!Step
<1> QED
  BY <1>2, <1>3, <1>4, <1>5, <1>6, <1>7 DEF PingSteps, BalSteps

LEMMA FaultsSimulated ==
  ASSUME Inv, TypeOK', NEW k \in Node, Step(k), Failures(k)
  PROVE  Abstract!Step(k) \/ Abstract!Drop({k}) \/ UNCHANGED Abstract!vars
<1> USE DEF Inv, TypeOK, MemberInv, LifeCycle, table, object, threads, AppStep
<1>1. ASSUME ~Crash(k) PROVE Kept
  <2>1. UNCHANGED flags \/ Unwind(k)
    BY <1>1 DEF Failures, JoinFail, JoinPingFail, UnpingFail, Expire
  <2> QED  BY <2>1, PassiveKept
<1>2. CASE (JoinFail(k) \/ JoinPingFail(k)) /\ ~Crash(k)
  <2>1. /\ app[k] \in {"migrate", "ping"} /\ app'[k] = "out"
        /\ UNCHANGED <<workers, pos, told, bal>>
        /\ \/ UNCHANGED dir
           \/ app[k] = "ping" /\ dir' = [dir EXCEPT ![k] = workers[k]]
    BY <1>2 DEF JoinFail, JoinPingFail, Put
  <2>2. /\ Phase(k) = "joining" /\ Phase(k)' = "out"
        /\ ~Reporting(k) /\ ~Reporting(k)'
    BY <2>1 DEF Phase, Reporting
  <2> QED  BY <1>1, <1>2, <2>1, <2>2, PhaseStep DEF Abstract!Step
<1>3. CASE UnpingFail(k) /\ ~Crash(k)
  <2>1. UNCHANGED <<dir, workers, pos, told, app, bal>>
    BY <1>3 DEF UnpingFail
  <2> QED  BY <1>1, <1>3, <2>1, Unseen DEF Phase, Reporting
<1>4. CASE Crash(k)
  <2>1. /\ app'[k] = "out" /\ bal'[k] = "none" /\ flags'[k] = {}
        /\ told' = [told EXCEPT ![k] = {}]
        /\ workers' = [workers EXCEPT ![k] = 1]
        /\ pos' = [pos EXCEPT ![k] = [index |-> 0, total |-> 0]]
        /\ UNCHANGED dir
    BY <1>4 DEF Crash, Fresh
  <2>2. Phase(k)' = "out" /\ ~Reporting(k)'
    BY <2>1 DEF Phase, Reporting
  <2>3. /\ phaseBar' = [phaseBar EXCEPT ![k] = "out"]
        /\ dueBar' = dueBar \ {k} /\ observersBar' = observersBar \ {k}
    BY <2>1, <2>2, Mapped
  <2>4. Abstract!Die(k)
    BY <2>1, <2>3 DEF Abstract!Die
  <2> QED  BY <2>4 DEF Abstract!Step
<1>5. CASE Expire(k) /\ ~Crash(k)
  <2>1. /\ dir' = [dir EXCEPT ![k] = Absent]
        /\ UNCHANGED <<workers, pos, told, app, bal>>
    BY <1>5 DEF Expire
  <2>2. Phase(k)' = Phase(k) /\ (Reporting(k)' <=> Reporting(k))
    BY <2>1 DEF Phase, Reporting
  <2> QED  BY <1>1, <1>5, <2>1, <2>2, DirStep
<1> QED  BY <1>2, <1>3, <1>4, <1>5 DEF Failures

(***************************************************************************)
(* For every number of members, active and passive, and with any faults: the  *)
(* SQL engine implements the abstract membership protocol.                   *)
(***************************************************************************)
THEOREM Implements == Spec => ImplementsMembership
<1>1. Init => Abstract!Init
  <2> SUFFICES ASSUME Init PROVE Abstract!Init
    OBVIOUS
  <2>1. phaseBar = [n \in Node |-> "out"]
    BY DEF Init, phaseBar, Phase
  <2>2. dueBar = {} /\ observersBar = {}
    BY DEF Init, dueBar, Reporting, observersBar
  <2> QED
    BY <2>1, <2>2
    DEF Init, Fresh, Absent, Abstract!Init, Abstract!Absent
<1>2. Inv /\ [Next]_vars => [Abstract!Next]_(Abstract!vars)
  <2> SUFFICES ASSUME Inv, [Next]_vars PROVE [Abstract!Next]_(Abstract!vars)
    OBVIOUS
  <2>1. TypeOK'
    BY TypeStep DEF Inv
  <2>2. ASSUME NEW k \in Node, Step(k)
        PROVE  [Abstract!Next]_(Abstract!vars)
    <3>1. Abstract!Step(k) \/ Abstract!Drop({k}) \/ UNCHANGED Abstract!vars
      BY <2>1, <2>2, AppSimulated, ThreadsSimulated, FaultsSimulated DEF Step
    <3>2. {k} \in SUBSET Node
      OBVIOUS
    <3> QED  BY <3>1, <3>2 DEF Abstract!Next
  <2>3. CASE UNCHANGED vars
    <3>1. UNCHANGED <<dir, workers, pos, flags, told, app, bal>>
      BY <2>3 DEF vars, table, object, threads
    <3>2. UNCHANGED <<phaseBar, dueBar, observersBar>>
      BY <3>1 DEF phaseBar, dueBar, observersBar, Phase, Reporting
    <3> QED  BY <3>1, <3>2 DEF Abstract!vars
  <2> QED  BY <2>2, <2>3 DEF Next
<1> QED
  BY <1>1, <1>2, Invariance, PTL DEF Spec, ImplementsMembership, Abstract!Spec
=============================================================================
