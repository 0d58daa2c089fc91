-------------------------- MODULE ClusterApiProofs --------------------------
(***************************************************************************)
(* What the calls on one CLUSTER object, and those on one CLUSTERJOB object,   *)
(* preserve, for numbers of any size.                                       *)
(***************************************************************************)
EXTENDS ClusterApi, Job, TLAPS

(***************************************************************************)
(* The fields of the object keep their types, and the object always has an    *)
(* instance identifier and an environment, after any sequence of calls and    *)
(* for any bound.  The signs of the index and of the total are left open:     *)
(* cluster_set_workers() takes negative counts, of which a registry engine    *)
(* makes negative totals.                                                   *)
(***************************************************************************)
THEOREM TypeCorrect == Spec => []TypeOK
<1> USE LimitAssumption DEF TypeOK
<1>1. Init => TypeOK
  <2>1. Init => /\ index \in -Limit..Limit /\ workers \in -1..Limit
                /\ total \in -Limit..Limit
    BY DEF Init
  <2> QED  BY <2>1 DEF Init
<1>2. TypeOK /\ [Next]_vars => TypeOK'
  <2> SUFFICES ASSUME TypeOK, [Next]_vars
               PROVE  TypeOK'
    OBVIOUS
  <2> USE DEF member, names, place
  <2>1. ASSUME FreeRegistry PROVE doubleFree' \in BOOLEAN
    BY <2>1, Zenon DEF FreeRegistry
  <2>2. CASE SetStatic \/ SetRegistry
    BY <2>1, <2>2 DEF SetStatic, SetRegistry
  <2>3. ASSUME NEW s \in Name, SetInstance(s)
        PROVE  TypeOK'
    BY <2>3 DEF SetInstance
  <2>4. ASSUME NEW s \in Name \cup {"production"}, SetEnv(s)
        PROVE  TypeOK'
    BY <2>4 DEF SetEnv
  <2>5. ASSUME NEW s \in Name \cup {"none"}, SetPartition(s)
        PROVE  TypeOK'
    BY <2>5 DEF SetPartition
  <2>6. CASE ResetInstance
    BY <2>6 DEF ResetInstance
  <2>7. ASSUME NEW i \in -1..Limit, SetWorkers(i) \/ SetIndex(i) \/ SetTotal(i)
        PROVE  TypeOK'
    <3>1. CASE SetWorkers(i)
      <4>1. resized' \in BOOLEAN
        BY <3>1, Zenon DEF SetWorkers
      <4> QED  BY <3>1, <4>1 DEF SetWorkers
    <3>2. CASE SetIndex(i)  BY <3>2 DEF SetIndex
    <3>3. CASE SetTotal(i)  BY <3>3 DEF SetTotal
    <3> QED  BY <2>7, <3>1, <3>2, <3>3
  <2>8. ASSUME NEW p \in BOOLEAN, passive' = (passive \/ p)
        PROVE  passive' \in BOOLEAN
    BY <2>8, Zenon
  <2>9. ASSUME index' \in -Limit..Limit, workers' \in -1..Limit,
               total' \in -Limit..Limit
        PROVE  Told \in SUBSET ClusterState
    BY <2>9 DEF Told, ClusterState
  <2>10. ASSUME NEW p \in BOOLEAN, StaticJoin(p) \/ StaticJoinRefused(p)
         PROVE  TypeOK'
    <3>1. /\ index' \in -Limit..Limit /\ workers' \in -1..Limit
          /\ total' \in -Limit..Limit
      BY <2>10 DEF StaticJoin, StaticJoinRefused
    <3> QED  BY <2>8, <2>9, <2>10, <3>1 DEF StaticJoin, StaticJoinRefused
  <2>11. ASSUME NEW p \in BOOLEAN, RegistryJoin(p) \/ RegistryJoinFail(p)
         PROVE  TypeOK'
    <3>1. /\ index' \in -Limit..Limit /\ workers' \in -1..Limit
          /\ total' \in -Limit..Limit
      BY <2>11 DEF RegistryJoin, RegistryJoinFail, Placed
    <3> QED  BY <2>8, <2>9, <2>11, <3>1 DEF RegistryJoin, RegistryJoinFail
  <2>12. CASE StaticReport \/ Rebalance \/ Leave
    <3>1. /\ index' \in -Limit..Limit /\ workers' \in -1..Limit
          /\ total' \in -Limit..Limit
      BY <2>12 DEF StaticReport, Rebalance, Leave, Placed
    <3> QED  BY <2>9, <2>12, <3>1 DEF StaticReport, Rebalance, Leave
  <2>13. CASE Destroy
    <3>1. /\ index' \in -Limit..Limit /\ workers' \in -1..Limit
          /\ total' \in -Limit..Limit
      BY <2>13 DEF Destroy
    <3> QED  BY <2>1, <2>13, <3>1 DEF Destroy
  <2>14. CASE UNCHANGED vars
    BY <2>14 DEF vars
  <2> QED
    BY <2>2, <2>3, <2>4, <2>5, <2>6, <2>7, <2>10, <2>11, <2>12, <2>13, <2>14
    DEF Next
<1> QED  BY <1>1, <1>2, PTL DEF Spec

(***************************************************************************)
(* cluster_leave() always goes to the engine that joined: every call that     *)
(* changes cluster->type is refused while joined.                           *)
(***************************************************************************)
THEOREM EngineKept == Spec => []LeavesWhereJoined
<1>1. Init => LeavesWhereJoined
  BY DEF Init, LeavesWhereJoined
<1>2. LeavesWhereJoined /\ [Next]_vars => LeavesWhereJoined'
  <2> SUFFICES ASSUME LeavesWhereJoined, [Next]_vars
               PROVE  LeavesWhereJoined'
    OBVIOUS
  <2> USE DEF LeavesWhereJoined, member
  <2>1. CASE SetStatic \/ SetRegistry
    BY <2>1 DEF SetStatic, SetRegistry
  <2>2. ASSUME NEW s, SetInstance(s) \/ SetEnv(s) \/ SetPartition(s)
        PROVE  LeavesWhereJoined'
    BY <2>2 DEF SetInstance, SetEnv, SetPartition
  <2>3. CASE ResetInstance
    BY <2>3 DEF ResetInstance
  <2>4. ASSUME NEW i, SetWorkers(i) \/ SetIndex(i) \/ SetTotal(i)
        PROVE  LeavesWhereJoined'
    BY <2>4 DEF SetWorkers, SetIndex, SetTotal
  <2>5. ASSUME NEW p, StaticJoin(p) \/ StaticJoinRefused(p)
        PROVE  LeavesWhereJoined'
    BY <2>5 DEF StaticJoin, StaticJoinRefused
  <2>6. ASSUME NEW p, RegistryJoin(p) \/ RegistryJoinFail(p)
        PROVE  LeavesWhereJoined'
    BY <2>6 DEF RegistryJoin, RegistryJoinFail
  <2>7. CASE StaticReport \/ Rebalance \/ Leave \/ Destroy
    BY <2>7 DEF StaticReport, Rebalance, Leave, Destroy
  <2>8. CASE UNCHANGED vars
    BY <2>8 DEF vars
  <2> QED
    BY <2>1, <2>2, <2>3, <2>4, <2>5, <2>6, <2>7, <2>8 DEF Next
<1> QED  BY <1>1, <1>2, PTL DEF Spec

(***************************************************************************)
(* What cluster_static_join_() has checked holds on after its unlock and for  *)
(* the whole membership: CF_JOINED keeps out every call that changes the      *)
(* index or the total, and the engine of a static member is not exchanged for *)
(* one that rebalances.  Nothing told in an earlier membership is left when    *)
(* the next one begins.                                                     *)
(***************************************************************************)
NothingToldYet == ~joined => told = {} /\ ~resized /\ ~reporting

THEOREM StaticMembersFit == Spec => []StaticFits
<1> DEFINE Inv == NothingToldYet /\ StaticFits
<1>1. Init => Inv
  BY DEF Init, NothingToldYet, StaticFits
<1>2. TypeOK /\ LeavesWhereJoined /\ Inv /\ [Next]_vars => Inv'
  <2> SUFFICES ASSUME TypeOK, LeavesWhereJoined, Inv, [Next]_vars
               PROVE  Inv'
    OBVIOUS
  <2> USE DEF NothingToldYet, StaticFits, LeavesWhereJoined, member
  <2>1. CASE SetStatic \/ SetRegistry
    BY <2>1 DEF SetStatic, SetRegistry, place
  <2>2. ASSUME NEW s, SetInstance(s) \/ SetEnv(s) \/ SetPartition(s)
        PROVE  Inv'
    BY <2>2 DEF SetInstance, SetEnv, SetPartition, place
  <2>3. CASE ResetInstance
    BY <2>3 DEF ResetInstance, place
  <2>4. ASSUME NEW i, SetWorkers(i) PROVE Inv'
    BY <2>4 DEF SetWorkers
  <2>5. ASSUME NEW i, SetIndex(i) \/ SetTotal(i) PROVE Inv'
    BY <2>5 DEF SetIndex, SetTotal
  <2>6. ASSUME NEW p, StaticJoin(p) \/ StaticJoinRefused(p)
        PROVE  Inv'
    BY <2>6 DEF StaticJoin, StaticJoinRefused
  <2>7. ASSUME NEW p, RegistryJoin(p) \/ RegistryJoinFail(p)
        PROVE  Inv'
    BY <2>7 DEF RegistryJoin, RegistryJoinFail
  <2>8. CASE StaticReport
    <3>1. \A s \in told' : s.index = index /\ s.total = total /\ s.workers = workers
      BY <2>8 DEF StaticReport, Told, place
    <3>2. UNCHANGED <<joined, engine, resized, index, workers, total>>
      BY <2>8 DEF StaticReport, place
    <3> QED  BY <3>1, <3>2, <2>8 DEF StaticReport
  <2>9. CASE Rebalance
    BY <2>9 DEF Rebalance
  <2>10. CASE Leave \/ Destroy
    BY <2>10 DEF Leave, Destroy
  <2>11. CASE UNCHANGED vars
    BY <2>11 DEF vars, place
  <2> QED
    BY <2>1, <2>2, <2>3, <2>4, <2>5, <2>6, <2>7, <2>8, <2>9, <2>10, <2>11
    DEF Next
<1> QED  BY <1>1, <1>2, TypeCorrect, EngineKept, PTL DEF Spec

(***************************************************************************)
(* The one call that FreedOnce fails for, and the only one: an application    *)
(* that never makes a registry-based cluster static again, with               *)
(* cluster_set_registry(NULL), may make all other calls in any order, and     *)
(* destroy its objects, without freeing a registry URI twice.                *)
(***************************************************************************)
MadeStatic == SetStatic /\ registry = "live"

THEOREM FreedOnceOtherwise == Spec /\ [][~MadeStatic]_vars => []FreedOnce
<1> DEFINE Inv == registry # "dangling" /\ ~doubleFree
<1>1. Init => Inv
  BY DEF Init
<1>2. Inv /\ [Next]_vars /\ [~MadeStatic]_vars => Inv'
  <2> SUFFICES ASSUME Inv, [Next]_vars, [~MadeStatic]_vars PROVE Inv'
    OBVIOUS
  <2>1. ASSUME FreeRegistry PROVE ~doubleFree'
    BY <2>1, Zenon DEF FreeRegistry
  <2>2. CASE SetStatic
    <3>1. CASE registry = "live"
      <4>1. UNCHANGED vars
        BY <2>2, <3>1 DEF MadeStatic
      <4> QED  BY <4>1 DEF vars
    <3>2. CASE registry # "live"
      BY <2>1, <2>2, <3>2 DEF SetStatic
    <3> QED  BY <3>1, <3>2
  <2>3. CASE SetRegistry \/ Destroy
    BY <2>1, <2>3 DEF SetRegistry, Destroy
  <2>4. CASE UNCHANGED <<registry, doubleFree>>
    BY <2>4
  <2> QED
    BY <2>2, <2>3, <2>4
    DEF Next, vars, SetInstance, SetEnv, SetPartition, ResetInstance,
        SetWorkers, SetIndex, SetTotal, StaticJoin, StaticJoinRefused, StaticReport,
        RegistryJoin, RegistryJoinFail, Rebalance, Leave
<1>3. Inv => FreedOnce
  BY DEF FreedOnce
<1> QED  BY <1>1, <1>2, <1>3, PTL DEF Spec

-----------------------------------------------------------------------------
(***************************************************************************)
(* The calls on a job object (module Job), which shares no state with the     *)
(* cluster object.                                                          *)
(***************************************************************************)

(***************************************************************************)
(* The variables of a job keep their types under every call of job.c.       *)
(***************************************************************************)
THEOREM JobTypeCorrect == JobSpec => []JobTypeOK
<1>1. JobInit => JobTypeOK
  <2>1. 0 \in 0..JobLimit /\ 1 \in 0..JobLimit
    BY JobLimitAssumption
  <2> QED
    BY <2>1 DEF JobInit, JobTypeOK
<1>2. JobTypeOK /\ [JobNext]_jobVars => JobTypeOK'
  <2> SUFFICES ASSUME JobTypeOK, [JobNext]_jobVars PROVE JobTypeOK'
    OBVIOUS
  <2>1. CASE \E s \in Ids : SetParent(s) \/ SetId(s)
    BY <2>1 DEF JobTypeOK, SetParent, SetId, Ids, Copied,
                cluster_job_id_valid
  <2>2. CASE ClearParent \/ SetName("name")
    BY <2>2 DEF JobTypeOK, ClearParent, SetName
  <2>3. CASE \E i \in 0..JobLimit : SetJobTotal(i) \/ SetProgress(i)
    <3>1. UNCHANGED <<id, parent, name>>
      BY <2>3 DEF SetJobTotal, SetProgress
    <3>2. jobTotal' \in 0..JobLimit /\ progress' \in 0..JobLimit
      BY <2>3, JobLimitAssumption DEF JobTypeOK, SetJobTotal, SetProgress
    <3> QED
      BY <3>1, <3>2 DEF JobTypeOK
  <2>4. CASE Recreate
    <3>1. 0 \in 0..JobLimit /\ 1 \in 0..JobLimit
      BY JobLimitAssumption
    <3> QED
      BY <3>1, <2>4 DEF Recreate, JobTypeOK
  <2>5. CASE UNCHANGED jobVars
    BY <2>5 DEF JobTypeOK, jobVars
  <2> QED
    BY <2>1, <2>2, <2>3, <2>4, <2>5 DEF JobNext
<1> QED
  BY <1>1, <1>2, PTL DEF JobSpec

(***************************************************************************)
(* cluster_job_set_total() and cluster_job_set_progress(), called in any      *)
(* order with any natural numbers, never leave a job further than its total. *)
(***************************************************************************)
THEOREM ProgressBounded == JobSpec => []ProgressWithinTotal
<1>1. JobInit => ProgressWithinTotal
  BY DEF JobInit, ProgressWithinTotal
<1>2. JobTypeOK /\ ProgressWithinTotal /\ [JobNext]_jobVars
        => ProgressWithinTotal'
  <2> SUFFICES ASSUME JobTypeOK, ProgressWithinTotal, [JobNext]_jobVars
               PROVE  ProgressWithinTotal'
    OBVIOUS
  <2>1. CASE \E i \in 0..JobLimit : SetJobTotal(i)
    BY <2>1, JobLimitAssumption DEF SetJobTotal, JobTypeOK, ProgressWithinTotal
  <2>2. CASE \E i \in 0..JobLimit : SetProgress(i)
    BY <2>2, JobLimitAssumption DEF SetProgress, JobTypeOK, ProgressWithinTotal
  <2>3. CASE Recreate
    BY <2>3 DEF Recreate, ProgressWithinTotal
  <2>4. CASE UNCHANGED <<jobTotal, progress>>
    BY <2>4 DEF ProgressWithinTotal
  <2> QED
    BY <2>1, <2>2, <2>3, <2>4
       DEF JobNext, jobVars, SetParent, ClearParent, SetId,
           SetName
<1> QED
  BY <1>1, <1>2, JobTypeCorrect, PTL DEF JobSpec
=============================================================================
