----------------------------- MODULE ClusterApi -----------------------------
(***************************************************************************)
(* The life of one CLUSTER object as its application sees it: the calls of    *)
(* src/cluster.c that configure it, and joining and leaving through the       *)
(* static engine (src/engines/static.c) or through a registry engine, of      *)
(* which only the effect on the object matters here (EtcdCluster has the      *)
(* engine itself).  One thread of the application makes the calls, one after *)
(* the other; cluster_set_workers() may also come from another thread while a *)
(* call is under way.  A call that the code refuses changes nothing and is    *)
(* not a step.                                                              *)
(***************************************************************************)
EXTENDS Integers

CONSTANTS
  Limit,    \* bound: the largest index, worker count or total, of either sign
  Name      \* the names that an application chooses

ASSUME LimitAssumption == Limit \in Nat \ {0}

VARIABLES
  type,        \* cluster->type: CT_STATIC or a registry type
  registry,    \* what cluster->registry points to
  doubleFree,  \* memory has been freed twice
  instid,      \* cluster->instid
  env,         \* cluster->env
  partition,   \* cluster->partition
  joined,      \* CF_JOINED
  passive,     \* CF_PASSIVE
  index,       \* cluster->inst_index
  workers,     \* cluster->inst_threads
  total,       \* cluster->total_threads
  reporting,   \* cluster_static_join_() has unlocked and not yet reported
  engine,      \* the engine whose join set CF_JOINED
  resized,     \* history: cluster_set_workers() was called while joined
  told         \* history: the state last passed to the callback while joined

names  == <<instid, env, partition>>
place  == <<index, workers, total>>
member == <<joined, passive, reporting, engine, resized, told>>
vars   == <<type, registry, doubleFree, names, place, member>>

-----------------------------------------------------------------------------
(***************************************************************************)
(* cluster_create(): the memory is zeroed, but for a few defaults.          *)
(***************************************************************************)
Init ==
  /\ type = "static" /\ registry = "null" /\ doubleFree = FALSE
  /\ instid = "uuid" /\ env = "production" /\ partition = "none"
  /\ index = 0 /\ workers = 1 /\ total = 0
  /\ joined = FALSE /\ passive = FALSE /\ reporting = FALSE
  /\ engine = "none" /\ resized = FALSE /\ told = {}

(***************************************************************************)
(* free(cluster->registry).                                                 *)
(***************************************************************************)
FreeRegistry == doubleFree' = (doubleFree \/ registry = "dangling")

(***************************************************************************)
(* cluster_set_registry(NULL): the pointer is freed and kept.               *)
(***************************************************************************)
SetStatic_Unguarded ==  \* mutant: CF_JOINED is not tested
  /\ FreeRegistry
  /\ registry' = IF registry = "live" THEN "dangling" ELSE registry
  /\ type' = "static"
  /\ UNCHANGED <<names, place, member>>

SetStatic ==
  /\ ~joined
  /\ FreeRegistry
  /\ registry' = IF registry = "live" THEN "dangling" ELSE registry
  /\ type' = "static"
  /\ UNCHANGED <<names, place, member>>

\* cluster_set_registry() with a URI of a known scheme.
SetRegistry ==
  /\ ~joined
  /\ FreeRegistry
  /\ registry' = "live"
  /\ type' = "registry"
  /\ UNCHANGED <<names, place, member>>

(***************************************************************************)
(* cluster_set_instance(), cluster_set_env() and cluster_set_partition() are *)
(* refused while joined; cluster_reset_instance() is not.                   *)
(***************************************************************************)
SetInstance(s) ==
  /\ ~joined
  /\ instid' = s
  /\ UNCHANGED <<type, registry, doubleFree, env, partition, place, member>>

SetEnv(s) ==
  /\ ~joined
  /\ env' = s
  /\ UNCHANGED <<type, registry, doubleFree, instid, partition, place, member>>

SetPartition(s) ==
  /\ ~joined
  /\ partition' = s
  /\ UNCHANGED <<type, registry, doubleFree, instid, env, place, member>>

ResetInstance_Clears ==  \* mutant: no new identifier is generated
  /\ instid' = ""
  /\ UNCHANGED <<type, registry, doubleFree, env, partition, place, member>>

ResetInstance ==
  /\ instid' = "uuid"
  /\ UNCHANGED <<type, registry, doubleFree, env, partition, place, member>>

\* cluster_set_workers() takes any number, at any time.
SetWorkers(w) ==
  /\ workers' = w
  /\ resized' = joined
  /\ UNCHANGED <<type, registry, doubleFree, names, index, total,
                 joined, passive, reporting, engine, told>>

\* cluster_static_set_index() and cluster_static_set_total().
SetIndex_WhileJoined(i) ==  \* mutant: CF_JOINED is not tested
  /\ i >= 0
  /\ index' = i
  /\ UNCHANGED <<type, registry, doubleFree, names, workers, total, member>>

SetIndex(i) ==
  /\ ~joined
  /\ i >= 0
  /\ index' = i
  /\ UNCHANGED <<type, registry, doubleFree, names, workers, total, member>>

SetTotal(t) ==
  /\ ~joined
  /\ t >= 1
  /\ total' = t
  /\ UNCHANGED <<type, registry, doubleFree, names, index, workers, member>>

-----------------------------------------------------------------------------
(***************************************************************************)
(* cluster_static_join_(): the total defaults to 1; the workers of this      *)
(* member must fit into it; CF_JOINED is set and the lock released.           *)
(***************************************************************************)
StaticJoin(p) ==
  /\ ~joined /\ type = "static"
  /\ passive' = (passive \/ p)
  /\ total' = IF total = 0 THEN 1 ELSE total
  /\ index < total' /\ index + workers <= total'
  /\ joined' = TRUE
  /\ reporting' = TRUE
  /\ engine' = "static"
  /\ UNCHANGED <<type, registry, doubleFree, names, index, workers,
                 resized, told>>

\* The static join that is refused has set the default total all the same.
StaticJoinRefused(p) ==
  /\ ~joined /\ type = "static"
  /\ passive' = (passive \/ p)
  /\ total' = IF total = 0 THEN 1 ELSE total
  /\ ~(index < total' /\ index + workers <= total')
  /\ UNCHANGED <<type, registry, doubleFree, names, index, workers,
                 joined, reporting, engine, resized, told>>

(***************************************************************************)
(* cluster_rebalanced_() at the end of the join reads the object anew and    *)
(* calls the callback.                                                      *)
(***************************************************************************)
Told == {[index |-> index', workers |-> workers', total |-> total']}

StaticReport ==
  /\ reporting
  /\ reporting' = FALSE
  /\ UNCHANGED <<type, registry, doubleFree, names, place,
                 joined, passive, engine, resized>>
  /\ told' = Told

(***************************************************************************)
(* A registry engine joins with the position that the registry gives it, or  *)
(* fails and leaves the index at -1; the position may change later on.  Only  *)
(* a position that differs from the one before is reported.  The counts of   *)
(* the members are added up whatever their sign, so that the index and the   *)
(* total may be any number.                                                 *)
(***************************************************************************)
Placed == index' \in -Limit..Limit /\ total' \in -Limit..Limit

RegistryJoin(p) ==
  /\ ~joined /\ type = "registry"
  /\ passive' = (passive \/ p)
  /\ Placed
  /\ joined' = TRUE
  /\ engine' = "registry"
  /\ UNCHANGED <<type, registry, doubleFree, names, workers,
                 reporting, resized>>
  /\ told' = IF index' = -1 /\ total' = total THEN told ELSE Told

RegistryJoinFail(p) ==
  /\ ~joined /\ type = "registry"
  /\ passive' = (passive \/ p)
  /\ index' = -1
  /\ UNCHANGED <<type, registry, doubleFree, names, workers, total,
                 joined, reporting, engine, resized, told>>

Rebalance ==
  /\ joined /\ engine = "registry"
  /\ Placed
  /\ UNCHANGED <<type, registry, doubleFree, names, workers,
                 joined, passive, reporting, engine, resized>>
  /\ told' = IF index' = index /\ total' = total THEN told ELSE Told

\* cluster_leave() goes to the engine of the current type.
Leave ==
  /\ joined /\ ~reporting
  /\ joined' = FALSE
  /\ engine' = IF type = engine THEN "none" ELSE engine
  /\ resized' = FALSE /\ told' = {}
  /\ UNCHANGED <<type, registry, doubleFree, names, place, passive, reporting>>

\* cluster_destroy() leaves and frees; the application creates a new object.
Destroy ==
  /\ ~reporting
  /\ FreeRegistry
  /\ type' = "static" /\ registry' = "null"
  /\ instid' = "uuid" /\ env' = "production" /\ partition' = "none"
  /\ index' = 0 /\ workers' = 1 /\ total' = 0
  /\ joined' = FALSE /\ passive' = FALSE /\ reporting' = FALSE
  /\ engine' = "none" /\ resized' = FALSE /\ told' = {}

Next ==
  \/ SetStatic \/ SetRegistry
  \/ \E s \in Name : SetInstance(s)
  \/ \E s \in Name \cup {"production"} : SetEnv(s)
  \/ \E s \in Name \cup {"none"} : SetPartition(s)
  \/ ResetInstance
  \/ \E i \in -1..Limit : SetWorkers(i) \/ SetIndex(i) \/ SetTotal(i)
  \/ \E p \in BOOLEAN :
       StaticJoin(p) \/ StaticJoinRefused(p)
         \/ RegistryJoin(p) \/ RegistryJoinFail(p)
  \/ StaticReport \/ Rebalance \/ Leave \/ Destroy

Spec == Init /\ [][Next]_vars

-----------------------------------------------------------------------------
ClusterState ==
  [index : -Limit..Limit, workers : -1..Limit, total : -Limit..Limit]

TypeOK ==
  /\ type \in {"static", "registry"}
  /\ registry \in {"null", "live", "dangling"}
  /\ doubleFree \in BOOLEAN
  /\ instid \in Name \cup {"uuid"}
  /\ env \in Name \cup {"production"}
  /\ partition \in Name \cup {"none"}
  /\ joined \in BOOLEAN /\ passive \in BOOLEAN
  /\ reporting \in BOOLEAN /\ resized \in BOOLEAN
  /\ index \in -Limit..Limit /\ workers \in -1..Limit /\ total \in -Limit..Limit
  /\ engine \in {"none", "static", "registry"}
  /\ told \in SUBSET ClusterState

(***************************************************************************)
(* cluster_leave() dispatches on cluster->type at the time of the call: it    *)
(* is the engine that joined, whatever was configured in between, so that     *)
(* the threads of a registry engine are never left behind.                  *)
(***************************************************************************)
LeavesWhereJoined == IF joined THEN engine = type ELSE engine = "none"

(***************************************************************************)
(* What cluster_static_join_() has checked before it unlocks still holds when *)
(* cluster_rebalanced_() reads the object again and as long as the member is  *)
(* joined: its first index is below the total, and so are those of all its   *)
(* workers unless cluster_set_workers() has been called in the meantime; the *)
(* application was told the index and the total of the object.  This is so   *)
(* whatever was configured before, in this membership or in an earlier one.   *)
(***************************************************************************)
StaticFits ==
  joined /\ engine = "static" =>
    /\ index < total
    /\ resized \/ index + workers <= total
    /\ \A s \in told :
         /\ s.index = index /\ s.total = total
         /\ resized \/ s.workers = workers

(***************************************************************************)
(* libcluster.h: "Set the registry endpoint URI; NULL indicates this is a     *)
(* static cluster": it may be called any number of times, and the object be   *)
(* destroyed, without freeing memory twice.                                 *)
(***************************************************************************)
FreedOnce == ~doubleFree
=============================================================================
