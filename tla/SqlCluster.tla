----------------------------- MODULE SqlCluster -----------------------------
(***************************************************************************)
(* Members of one SQL-based cluster (src/engines/sql.c): the protocol of       *)
(* EtcdCluster on a database table.  It differs from it in what the registry  *)
(* can do and in what a passive member does: the schema is migrated by the    *)
(* first that comes, a ping replaces the row in a transaction and brings an   *)
(* expired row back, a passive member has no row and no ping thread, and the  *)
(* balancer thread polls.                                                   *)
(*                                                                         *)
(* Time is left out: a row that is not renewed may expire at any moment, and  *)
(* a poll may or may not find something.  Module SqlPoll has the timing.      *)
(*                                                                         *)
(* A step is a critical section of the lock with the one transaction that it  *)
(* makes.  While a thread is in a transaction it holds the lock.             *)
(***************************************************************************)
EXTENDS Numbering

CONSTANTS
  Node,         \* the instance identifiers, ordered as the database does
  MaxWorkers,   \* bound: the largest worker count a member sets
  MaxOwed,      \* bound: the smallest is -MaxOwed
  Resizing,     \* bound: the members that change their worker counts
  Active,       \* the nodes whose application calls cluster_join()
  Passive,      \* those whose application calls cluster_join_passive()
  Version,      \* CLUSTER_SQL_SCHEMA_VERSION
  MaxEvents     \* bound: calls of cluster_set_workers() and faults together

ASSUME NodeAssumption == Node \subseteq Int /\ IsFiniteSet(Node)
ASSUME WorkersAssumption == MaxWorkers \in Nat \ {0} /\ MaxOwed \in Nat
ASSUME ModesAssumption == Active \subseteq Node /\ Passive \subseteq Node
ASSUME VersionAssumption == Version \in Nat \ {0}
ASSUME BoundAssumption == MaxEvents \in Nat

MinWorkers == -MaxOwed

Absent == MinWorkers - 1  \* no worker count

VARIABLES
  schema,    \* the version of the database schema
  dir,       \* the unexpired rows of cluster_node: "threads" of a node
  workers,   \* cluster->inst_threads
  pos,       \* cluster->inst_index and cluster->total_threads
  flags,     \* cluster->flags: a subset of JOINED, LEAVING, PASSIVE
  dbs,       \* cluster->pingdb, balancedb and jobdb are open
  app,       \* where the application's thread is, in or out of the library
  ping,      \* where the ping thread is
  bal,       \* where the balancer thread is
  told,      \* the last numbering passed to the callback, while joined
  changes,   \* how many calls of cluster_set_workers() there have been
  faults     \* how many faults there have been

table   == <<schema, dir>>
object  == <<workers, pos, flags, dbs>>
threads == <<app, ping, bal>>
bounds  == <<changes, faults>>
vars    == <<table, object, threads, told, bounds>>

-----------------------------------------------------------------------------
Listed(n) == dir[n] # Absent

Members == {n \in Node : Listed(n)}

\* The transaction of cluster_sql_perform_ping_(): delete the row, insert it.
Put_RangeEnd(n) ==  \* mutant: the end of the range of indices is inserted
  /\ dir' = [dir EXCEPT ![n] = pos[n].index + workers[n]]
  /\ UNCHANGED schema

Put(n) ==
  /\ dir' = [dir EXCEPT ![n] = workers[n]]
  /\ UNCHANGED schema

(***************************************************************************)
(* The loop of cluster_sql_balance_() over the rows, in the order of "id".    *)
(* A passive member does not recognise a row of its own.                     *)
(***************************************************************************)
Position_CountsSelf(n) ==  \* mutant: "total += val" before "base = total"
  [index |-> IF Listed(n) /\ "PASSIVE" \notin flags[n]
             THEN SumBefore(dir, Members, n) + dir[n] ELSE -1,
   total |-> SumOf(dir, Members)]

Position(n) ==
  [index |-> IF Listed(n) /\ "PASSIVE" \notin flags[n]
             THEN SumBefore(dir, Members, n) ELSE -1,
   total |-> SumOf(dir, Members)]

-----------------------------------------------------------------------------
Fresh == [index |-> 0, total |-> 0]

Init ==
  /\ schema  = 0
  /\ dir     = [n \in Node |-> Absent]
  /\ workers = [n \in Node |-> 1]
  /\ pos     = [n \in Node |-> Fresh]
  /\ flags   = [n \in Node |-> {}]
  /\ dbs     = [n \in Node |-> FALSE]
  /\ app     = [n \in Node |-> "out"]
  /\ ping    = [n \in Node |-> "none"]
  /\ bal     = [n \in Node |-> "none"]
  /\ told    = [n \in Node |-> {}]
  /\ changes = 0
  /\ faults  = 0

Change ==
  /\ changes + faults < MaxEvents
  /\ changes' = changes + 1
  /\ UNCHANGED faults

Fault ==
  /\ changes + faults < MaxEvents
  /\ faults' = faults + 1
  /\ UNCHANGED changes

AppStep(n, from, to) ==
  /\ app[n] = from
  /\ app' = [app EXCEPT ![n] = to]

-----------------------------------------------------------------------------
(***************************************************************************)
(* The application: cluster_join() and cluster_join_passive().  The lock is   *)
(* held from JoinConnect until JoinBalance has returned or notifies.         *)
(***************************************************************************)
JoinConnect(n, passive) ==
  /\ AppStep(n, "out", "migrate")
  /\ flags' = [flags EXCEPT ![n] = IF passive THEN @ \cup {"PASSIVE"} ELSE @]
  /\ pos' = [pos EXCEPT ![n].index = -1]
  /\ told' = [told EXCEPT ![n] = {}]
  /\ dbs' = [dbs EXCEPT ![n] = TRUE]
  /\ UNCHANGED <<table, workers, ping, bal, bounds>>

(***************************************************************************)
(* sql_migrate() with cluster_sql_migrate_(): one version after the other,    *)
(* each in a transaction of its own that goes on from the version it finds;   *)
(* version 1 drops and creates the table.                                   *)
(***************************************************************************)
Migrate(n) ==
  /\ app[n] = "migrate"
  /\ schema < Version
  /\ schema' = schema + 1
  /\ dir' = IF schema = 0 THEN [m \in Node |-> Absent] ELSE dir
  /\ UNCHANGED <<object, threads, told, bounds>>

\* The schema is current, and the other two connections are made.
JoinReady_AtOnce(n) ==  \* mutant: the schema is migrated after the join
  /\ AppStep(n, "migrate",
             IF "PASSIVE" \in flags[n] THEN "balance" ELSE "ping")
  /\ UNCHANGED <<table, object, ping, bal, told, bounds>>

JoinReady(n) ==
  /\ schema = Version
  /\ AppStep(n, "migrate",
             IF "PASSIVE" \in flags[n] THEN "balance" ELSE "ping")
  /\ UNCHANGED <<table, object, ping, bal, told, bounds>>

\* What cluster_sql_leave_() does at its end.
Unwind(n) ==
  /\ flags' = [flags EXCEPT ![n] = @ \ {"JOINED", "LEAVING"}]
  /\ dbs' = [dbs EXCEPT ![n] = FALSE]

\* A connection or a migration fails; the versions reached so far stay.
JoinFail(n) ==
  /\ AppStep(n, "migrate", "out")
  /\ Unwind(n)
  /\ Fault
  /\ UNCHANGED <<table, workers, pos, ping, bal, told>>

\* cluster_sql_ping_()
JoinPing(n) ==
  /\ AppStep(n, "ping", "balance")
  /\ Put(n)
  /\ UNCHANGED <<object, ping, bal, told, bounds>>

\* The transaction fails; it may have been committed all the same.
JoinPingFail(n) ==
  /\ AppStep(n, "ping", "out")
  /\ Put(n) \/ UNCHANGED table
  /\ Unwind(n)
  /\ Fault
  /\ UNCHANGED <<workers, pos, ping, bal, told>>

(***************************************************************************)
(* A passive member has no ping thread.  The results of pthread_create() are  *)
(* ignored: a thread that could not be created is missing, and a later        *)
(* pthread_join() does nothing or returns ("none"), or, when the pthread_t is  *)
(* undefined, may never return ("lost").                                     *)
(***************************************************************************)
Missing == {"none", "lost"}

Created(n, p, b) ==
  /\ ping' = [ping EXCEPT ![n] = p]
  /\ bal' = [bal EXCEPT ![n] = b]

Wanted(n) == IF "PASSIVE" \in flags[n] THEN "none" ELSE "loop"

StartThreads(n) ==
  /\ flags' = [flags EXCEPT ![n] = @ \cup {"JOINED"}]
  /\ \/ Created(n, Wanted(n), "check") /\ UNCHANGED bounds
     \/ \E b \in Missing : Created(n, Wanted(n), b) /\ Fault
     \/ \E p \in Missing, b \in {"check"} \cup Missing :
          "PASSIVE" \notin flags[n] /\ Created(n, p, b) /\ Fault

\* cluster_sql_balance_(): only a position that changed is reported.
JoinBalance(n) ==
  /\ \/ /\ Position(n) # pos[n]
        /\ pos' = [pos EXCEPT ![n] = Position(n)]
        /\ AppStep(n, "balance", "notify")
        /\ UNCHANGED <<flags, ping, bal, bounds>>
     \/ /\ Position(n) = pos[n]
        /\ AppStep(n, "balance", "in")
        /\ StartThreads(n)
        /\ UNCHANGED pos
  /\ UNCHANGED <<table, workers, dbs, told>>

(***************************************************************************)
(* cluster_rebalanced_(): nobody changes the position while it is at it;      *)
(* EtcdCluster has its two steps.                                           *)
(***************************************************************************)
Callback(n) == told' = [told EXCEPT ![n] = {pos[n]}]

JoinNotify(n) ==
  /\ AppStep(n, "notify", "finish")
  /\ Callback(n)
  /\ UNCHANGED <<table, object, ping, bal, bounds>>

JoinFinish(n) ==
  /\ AppStep(n, "finish", "in")
  /\ StartThreads(n)
  /\ UNCHANGED <<table, workers, pos, dbs, told>>

(***************************************************************************)
(* The application: cluster_set_workers() and cluster_leave().  The lock is   *)
(* held during the steps of a join that precede its first report.  (A call of *)
(* cluster_set_workers() with the present count changes nothing.)            *)
(***************************************************************************)
SetWorkers(n, w) ==
  /\ app[n] \notin {"migrate", "ping", "balance"}
  /\ w # workers[n]
  /\ workers' = [workers EXCEPT ![n] = w]
  /\ Change
  /\ UNCHANGED <<table, pos, flags, dbs, threads, told>>

Leave(n) ==
  /\ AppStep(n, "in", "joinping")
  /\ flags' = [flags EXCEPT ![n] = @ \cup {"LEAVING"}]
  /\ UNCHANGED <<table, workers, pos, dbs, ping, bal, told, bounds>>

LeaveJoinPing(n) ==
  /\ AppStep(n, "joinping", "joinbal")
  /\ ping[n] \in {"ended", "none"}
  /\ ping' = [ping EXCEPT ![n] = "none"]
  /\ UNCHANGED <<table, object, bal, told, bounds>>

LeaveFinish_NoJoin(n) ==  \* mutant: the balancer thread is not joined
  /\ AppStep(n, "joinbal", "out")
  /\ Unwind(n)
  /\ told' = [told EXCEPT ![n] = {}]
  /\ UNCHANGED <<table, workers, pos, ping, bal, bounds>>

LeaveFinish(n) ==
  /\ AppStep(n, "joinbal", "out")
  /\ bal[n] \in {"ended", "none"}
  /\ bal' = [bal EXCEPT ![n] = "none"]
  /\ Unwind(n)
  /\ told' = [told EXCEPT ![n] = {}]
  /\ UNCHANGED <<table, workers, pos, ping, bounds>>

-----------------------------------------------------------------------------
(***************************************************************************)
(* The ping thread: cluster_sql_ping_thread_().  A ping that fails changes    *)
(* nothing here: the thread sleeps and tries again.                          *)
(***************************************************************************)
PingSend_AfterAll(n) ==  \* mutant: CF_LEAVING is checked after the ping
  /\ ping[n] = "loop"
  /\ Put(n)
  /\ UNCHANGED <<object, threads, told, bounds>>

PingSend(n) ==
  /\ ping[n] = "loop"
  /\ "LEAVING" \notin flags[n]
  /\ Put(n)
  /\ UNCHANGED <<object, threads, told, bounds>>

PingLeave_Returns(n) ==  \* mutant: "return" for "break", the row stays
  /\ ping[n] = "loop"
  /\ "LEAVING" \in flags[n]
  /\ ping' = [ping EXCEPT ![n] = "ended"]
  /\ UNCHANGED <<table, object, app, bal, told, bounds>>

PingLeave(n) ==
  /\ ping[n] = "loop"
  /\ "LEAVING" \in flags[n]
  /\ ping' = [ping EXCEPT ![n] = "unping"]
  /\ UNCHANGED <<table, object, app, bal, told, bounds>>

\* cluster_sql_unping_(): its result is ignored.
Unping(n) ==
  /\ ping[n] = "unping"
  /\ ping' = [ping EXCEPT ![n] = "ended"]
  /\ dir' = [dir EXCEPT ![n] = Absent]
  /\ UNCHANGED <<schema, object, app, bal, told, bounds>>

UnpingFail(n) ==
  /\ ping[n] = "unping"
  /\ ping' = [ping EXCEPT ![n] = "ended"]
  /\ Fault
  /\ UNCHANGED <<table, object, app, bal, told>>

-----------------------------------------------------------------------------
(***************************************************************************)
(* The balancer thread: cluster_sql_balancer_thread_().                     *)
(***************************************************************************)
BalStep(n, from, to) ==
  /\ bal[n] = from
  /\ bal' = [bal EXCEPT ![n] = to]

BalCheck(n) ==
  /\ BalStep(n, "check", IF "LEAVING" \in flags[n] THEN "ended" ELSE "sleep")
  /\ UNCHANGED <<table, object, app, ping, told, bounds>>

\* The poll is made without the lock.
BalPoll(n) ==
  /\ BalStep(n, "sleep", "check") \/ BalStep(n, "sleep", "balance")
  /\ UNCHANGED <<table, object, app, ping, told, bounds>>

BalBalance_QuietTotal(n) ==  \* mutant: only a new base index is reported
  /\ pos' = [pos EXCEPT ![n] = Position(n)]
  /\ BalStep(n, "balance",
             IF Position(n).index # pos[n].index THEN "notify" ELSE "check")
  /\ UNCHANGED <<table, workers, flags, dbs, app, ping, told, bounds>>

BalBalance(n) ==
  /\ \/ /\ Position(n) # pos[n]
        /\ pos' = [pos EXCEPT ![n] = Position(n)]
        /\ BalStep(n, "balance", "notify")
     \/ /\ Position(n) = pos[n]
        /\ BalStep(n, "balance", "check")
        /\ UNCHANGED pos
  /\ UNCHANGED <<table, workers, flags, dbs, app, ping, told, bounds>>

BalNotify(n) ==
  /\ BalStep(n, "notify", "check")
  /\ Callback(n)
  /\ UNCHANGED <<table, object, app, ping, bounds>>

-----------------------------------------------------------------------------
(***************************************************************************)
(* The environment.  The process may die at any moment, also of a query that  *)
(* fails: its result is used without a check.                               *)
(***************************************************************************)
Crash(n) ==
  /\ app[n] # "out"
  /\ workers' = [workers EXCEPT ![n] = 1]
  /\ pos'     = [pos EXCEPT ![n] = Fresh]
  /\ flags'   = [flags EXCEPT ![n] = {}]
  /\ dbs'     = [dbs EXCEPT ![n] = FALSE]
  /\ app'     = [app EXCEPT ![n] = "out"]
  /\ ping'    = [ping EXCEPT ![n] = "none"]
  /\ bal'     = [bal EXCEPT ![n] = "none"]
  /\ told'    = [told EXCEPT ![n] = {}]
  /\ Fault
  /\ UNCHANGED table

Expire(n) ==
  /\ Listed(n)
  /\ dir' = [dir EXCEPT ![n] = Absent]
  /\ UNCHANGED <<schema, object, threads, told, bounds>>

-----------------------------------------------------------------------------
AppCalls(n) ==
  \/ n \in Active /\ JoinConnect(n, FALSE)
  \/ n \in Passive /\ JoinConnect(n, TRUE)
  \/ n \in Resizing /\ \E w \in MinWorkers..MaxWorkers : SetWorkers(n, w)
  \/ Leave(n)

AppSteps(n) ==
  \/ Migrate(n) \/ JoinReady(n) \/ JoinPing(n)
  \/ JoinBalance(n) \/ JoinNotify(n) \/ JoinFinish(n)
  \/ LeaveJoinPing(n) \/ LeaveFinish(n)

PingSteps(n) == PingSend(n) \/ PingLeave(n) \/ Unping(n)

BalSteps(n) == BalCheck(n) \/ BalPoll(n) \/ BalBalance(n) \/ BalNotify(n)

Failures(n) ==
  JoinFail(n) \/ JoinPingFail(n) \/ UnpingFail(n) \/ Crash(n) \/ Expire(n)

Step(n) ==
  AppCalls(n) \/ AppSteps(n) \/ PingSteps(n) \/ BalSteps(n) \/ Failures(n)

Next == \E n \in Node : Step(n)

Spec == Init /\ [][Next]_vars

-----------------------------------------------------------------------------
(***************************************************************************)
(* The engine implements the abstract membership protocol: periodic pings     *)
(* bring a row back, and passive members are observers.                      *)
(***************************************************************************)
Phase(n) ==
  CASE app[n] = "out"                    -> "out"
    [] app[n] = "in"                     -> "in"
    [] app[n] \in {"joinping", "joinbal"} -> "leaving"
    [] OTHER                             -> "joining"

Reporting(n) == app[n] = "notify" \/ bal[n] = "notify"

phaseBar     == [n \in Node |-> Phase(n)]
dueBar       == {n \in Node : Reporting(n)}
observersBar == {n \in Node : "PASSIVE" \in flags[n]}

Abstract ==
  INSTANCE Membership WITH
    Revives <- TRUE, phase <- phaseBar, observers <- observersBar, view <- pos,
    due <- dueBar

(***************************************************************************)
(* Every step of the members, of their threads and of the database is a step  *)
(* of the abstract protocol or none at all: a numbering that is observed is    *)
(* reported once, before another one is observed and before the member has     *)
(* left; passive members publish nothing and have no index; nothing is         *)
(* published by a member that is leaving or out.                             *)
(***************************************************************************)
ImplementsMembership == Abstract!Spec

-----------------------------------------------------------------------------
AppLocations ==
  {"out", "migrate", "ping", "balance", "notify", "finish", "in",
   "joinping", "joinbal"}
PingLocations == Missing \cup {"loop", "unping", "ended"}
BalLocations == Missing \cup {"check", "sleep", "balance", "notify", "ended"}

TypeOK ==
  /\ schema  \in 0..Version
  /\ dir     \in [Node -> (MinWorkers..MaxWorkers) \cup {Absent}]
  /\ workers \in [Node -> MinWorkers..MaxWorkers]
  /\ pos     \in [Node -> [index : Int, total : Int]]
  /\ flags   \in [Node -> SUBSET {"JOINED", "LEAVING", "PASSIVE"}]
  /\ dbs     \in [Node -> BOOLEAN]
  /\ app     \in [Node -> AppLocations]
  /\ ping    \in [Node -> PingLocations]
  /\ bal     \in [Node -> BalLocations]
  /\ told    \in [Node -> SUBSET [index : Int, total : Int]]
  /\ changes \in 0..MaxEvents
  /\ faults  \in 0..MaxEvents

(***************************************************************************)
(* cluster_sql_leave_() disconnects only when neither thread can use the      *)
(* connections any more, although the balancer thread polls without the lock; *)
(* and no thread outlives the membership.                                    *)
(***************************************************************************)
PingRuns(n) == ping[n] \in {"loop", "unping"}
BalRuns(n)  == bal[n] \notin {"ended"} \cup Missing

HandleSafety ==
  \A n \in Node :
    /\ PingRuns(n) \/ BalRuns(n) => dbs[n] /\ "JOINED" \in flags[n]
    /\ "JOINED" \notin flags[n] => ping[n] = "none" /\ bal[n] = "none"

(***************************************************************************)
(* Between two reports the application has been told the index and the total  *)
(* that cluster_index() and cluster_total() return.  (A join whose index is   *)
(* -1, as it is when the table is empty, need not have reported anything.)    *)
(***************************************************************************)
ToldTheTruth ==
  \A n \in Node :
    "JOINED" \in flags[n] /\ bal[n] # "notify" =>
      told[n] = {pos[n]} \/ (told[n] = {} /\ pos[n].index = -1)

(***************************************************************************)
(* README.md, the table of nodes, workers and indices: when every member that *)
(* has a row has caught up with the table, and the table with its worker      *)
(* count, the ranges that the applications act on divide 0..total-1 among     *)
(* them.  (A member that has become passive does not recognise a row that an  *)
(* earlier join of its own has left: those indices are nobody's until it      *)
(* expires.)  A negative count takes away indices of others, so that the      *)
(* table must have none.                                                    *)
(***************************************************************************)
CaughtUp(n) ==
  /\ "JOINED" \in flags[n] /\ "PASSIVE" \notin flags[n] /\ ~Reporting(n)
  /\ pos[n] = Position(n) /\ dir[n] = workers[n]

ActsOn(n, i) == \E s \in told[n] : s.index <= i /\ i < s.index + workers[n]

WorkDivided ==
  LET total == WorkerTotal(dir, Members) IN
  (\A n \in Members : CaughtUp(n) /\ dir[n] >= 0) =>
    /\ \A n \in Members : told[n] # {} /\ \A s \in told[n] :
         s.total = total /\ s.index + workers[n] <= total
    /\ \A i \in 0..(total - 1) :
         \E n \in Members : \A m \in Members : ActsOn(m, i) <=> m = n

(***************************************************************************)
(* Without a fault, a member that has left the cluster has no row: when       *)
(* cluster_leave() returns, the ping thread has deleted it, and no ping that   *)
(* is still under way inserts it again.  A passive member never has one.     *)
(***************************************************************************)
NoGhost ==
  faults = 0 =>
    \A n \in Node : app[n] = "out" \/ "PASSIVE" \in flags[n] => ~Listed(n)

(***************************************************************************)
(* The table is used only under the current schema: whoever has a row, or     *)
(* reads them, has waited for all the migrations, so that the one that drops  *)
(* the table never takes a member's row with it.                             *)
(***************************************************************************)
SchemaCurrent ==
  schema < Version =>
    \A n \in Node : ~Listed(n) /\ app[n] \in {"out", "migrate"}
=============================================================================
