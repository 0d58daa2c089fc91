---------------------------- MODULE EtcdCluster ----------------------------
(***************************************************************************)
(* Members of one etcd-based cluster (src/engines/etcd.c, with the API of     *)
(* src/cluster.c and the client of src/libetcd).                            *)
(*                                                                         *)
(* Every member is a process with three threads that matter here: the one    *)
(* of the application that joins and leaves, the ping thread, which keeps    *)
(* the member's entry in the registry directory, and the balancer thread,    *)
(* which waits for changes of the directory, works out the member's position *)
(* and tells the application.  They share the CLUSTER object, protected by a  *)
(* read-write lock, and the members share the directory.                     *)
(*                                                                         *)
(* A step is a critical section of the lock with the one registry request    *)
(* that it makes.  A join makes several requests while it holds the lock:    *)
(* other members run in between, other threads of the same process do not.   *)
(***************************************************************************)
EXTENDS Numbering

CONSTANTS
  Node,         \* the instance identifiers, ordered as strcmp() orders them
  MaxWorkers,   \* bound: the largest worker count a member sets
  MaxOwed,      \* bound: the smallest is -MaxOwed
  Resizing,     \* bound: the members that change their worker counts
  Active,       \* the nodes whose application calls cluster_join()
  Passive,      \* those whose application calls cluster_join_passive()
  MaxChanges,   \* bound: calls of cluster_set_workers()
  MaxFaults,    \* bound: crashes, failed requests and lost entries
  MaxEvents     \* bound: such calls and faults together

ASSUME NodeAssumption == Node \subseteq Int /\ IsFiniteSet(Node)
ASSUME WorkersAssumption == MaxWorkers \in Nat \ {0} /\ MaxOwed \in Nat
ASSUME ModesAssumption == Active \subseteq Node /\ Passive \subseteq Node
ASSUME BoundsAssumption ==
  MaxChanges \in Nat /\ MaxFaults \in Nat /\ MaxEvents \in Nat

MinWorkers == -MaxOwed

Absent == MinWorkers - 1  \* no worker count

VARIABLES
  dir,       \* the registry directory: the worker count published by a node
  workers,   \* cluster->inst_threads
  pos,       \* cluster->inst_index and cluster->total_threads
  flags,     \* cluster->flags: a subset of JOINED, LEAVING, PASSIVE
  envdir,    \* cluster->etcd_envdir (and the other handles) are open
  app,       \* where the application's thread is, in or out of the library
  ping,      \* where the ping thread is
  bal,       \* where the balancer thread is
  snap,      \* the CLUSTERSTATE on the stack of cluster_rebalanced_()
  told,      \* the last CLUSTERSTATE passed to the callback, while joined
  changes,   \* how many calls of cluster_set_workers() there have been
  faults     \* how many faults there have been

object  == <<workers, pos, flags, envdir>>
threads == <<app, ping, bal>>
seen    == <<snap, told>>
bounds  == <<changes, faults>>
vars    == <<dir, object, threads, seen, bounds>>

-----------------------------------------------------------------------------
(***************************************************************************)
(* The registry (etcd), as the code uses it.                                *)
(***************************************************************************)
Listed(n) == dir[n] # Absent

Members == {n \in Node : Listed(n)}

(***************************************************************************)
(* A watch is served by the next change after it was registered: the request *)
(* carries no index, so a change between two watches is not seen.  A write   *)
(* is a change even when it writes the same value.                           *)
(***************************************************************************)
Wake(b) == [m \in Node |-> IF b[m] = "wait" THEN "woken" ELSE b[m]]

(***************************************************************************)
(* etcd_key_set_ttl() and etcd_key_delete() of node n's key.                *)
(***************************************************************************)
Put_RangeEnd(n) ==  \* mutant: the end of the range of indices is published
  /\ dir' = [dir EXCEPT ![n] = pos[n].index + workers[n]]
  /\ bal' = Wake(bal)

Put(n) ==
  /\ dir' = [dir EXCEPT ![n] = workers[n]]
  /\ bal' = Wake(bal)

Remove(n) ==
  /\ dir' = [dir EXCEPT ![n] = Absent]
  /\ bal' = IF Listed(n) THEN Wake(bal) ELSE bal

(***************************************************************************)
(* What the loop of cluster_etcd_balance_() computes from the directory;     *)
(* module BalanceScan has the loop itself.                                   *)
(***************************************************************************)
Position_CountsSelf(n) ==  \* mutant: "total += val" before "base = total"
  [index |-> IF Listed(n) THEN SumBefore(dir, Members, n) + dir[n] ELSE -1,
   total |-> SumOf(dir, Members)]

Position(n) ==
  [index |-> IF Listed(n) THEN SumBefore(dir, Members, n) ELSE -1,
   total |-> SumOf(dir, Members)]

(***************************************************************************)
(* The CLUSTERSTATE that cluster_rebalanced_() fills in: after the memset(), *)
(* passive stays 0.                                                         *)
(***************************************************************************)
State(n) ==
  [index   |-> pos[n].index,
   workers |-> workers[n],
   total   |-> pos[n].total,
   passive |-> FALSE]

-----------------------------------------------------------------------------
(***************************************************************************)
(* A process that has called cluster_create() and nothing else.             *)
(***************************************************************************)
Fresh == [index |-> 0, total |-> 0]

Init ==
  /\ dir     = [n \in Node |-> Absent]
  /\ workers = [n \in Node |-> 1]
  /\ pos     = [n \in Node |-> Fresh]
  /\ flags   = [n \in Node |-> {}]
  /\ envdir  = [n \in Node |-> FALSE]
  /\ app     = [n \in Node |-> "out"]
  /\ ping    = [n \in Node |-> "none"]
  /\ bal     = [n \in Node |-> "none"]
  /\ snap    = [n \in Node |-> {}]
  /\ told    = [n \in Node |-> {}]
  /\ changes = 0
  /\ faults  = 0

Fault ==
  /\ faults < MaxFaults /\ changes + faults < MaxEvents
  /\ faults' = faults + 1
  /\ UNCHANGED changes

-----------------------------------------------------------------------------
(***************************************************************************)
(* The application: cluster_join() and cluster_join_passive().  The lock is   *)
(* held from JoinConnect until JoinBalance has returned or notifies.         *)
(***************************************************************************)
BeginJoin(n, passive) ==
  /\ app[n] = "out"
  /\ flags' = [flags EXCEPT ![n] = IF passive THEN @ \cup {"PASSIVE"} ELSE @]
  /\ pos' = [pos EXCEPT ![n].index = -1]
  /\ told' = [told EXCEPT ![n] = {}]
  /\ UNCHANGED <<dir, workers, ping, bal, snap>>

JoinConnect(n, passive) ==
  /\ BeginJoin(n, passive)
  /\ envdir' = [envdir EXCEPT ![n] = TRUE]
  /\ app' = [app EXCEPT ![n] = "ping"]
  /\ UNCHANGED bounds

\* A directory can be neither created nor opened: what was opened is closed.
JoinConnectFail(n, passive) ==
  /\ BeginJoin(n, passive)
  /\ Fault
  /\ UNCHANGED <<envdir, app>>

(***************************************************************************)
(* What cluster_etcd_leave_() does at its end: clear the flags, close the    *)
(* handles.                                                                 *)
(***************************************************************************)
Unwind(n) ==
  /\ flags' = [flags EXCEPT ![n] = @ \ {"JOINED", "LEAVING"}]
  /\ envdir' = [envdir EXCEPT ![n] = FALSE]
  /\ app' = [app EXCEPT ![n] = "out"]

\* cluster_etcd_ping_(cluster, ETCD_NONE): create or overwrite the entry.
JoinPing(n) ==
  /\ app[n] = "ping"
  /\ Put(n)
  /\ app' = [app EXCEPT ![n] = "balance"]
  /\ UNCHANGED <<object, ping, seen, bounds>>

\* The request fails; it may have been carried out all the same.
JoinPingFail(n) ==
  /\ app[n] = "ping"
  /\ Put(n) \/ UNCHANGED <<dir, bal>>
  /\ Unwind(n)
  /\ Fault
  /\ UNCHANGED <<workers, pos, ping, seen>>

(***************************************************************************)
(* The results of pthread_create() are ignored.  The pthread_t of a thread    *)
(* that could not be created is 0 still, or undefined.  In the latter case it *)
(* is not defined either what pthread_join() does with it: it returns, which   *)
(* is as if there were no thread to join ("none"), or it never does ("lost").  *)
(***************************************************************************)
Missing == {"none", "lost"}

Created(n, p, b) ==
  /\ ping' = [ping EXCEPT ![n] = p]
  /\ bal' = [bal EXCEPT ![n] = b]

StartThreads(n) ==
  /\ app' = [app EXCEPT ![n] = "in"]
  /\ flags' = [flags EXCEPT ![n] = @ \cup {"JOINED"}]
  /\ \/ Created(n, "loop", "check") /\ UNCHANGED bounds
     \/ \E p \in Missing : Created(n, p, "check") /\ Fault
     \/ \E b \in Missing : Created(n, "loop", b) /\ Fault
     \/ \E p, b \in Missing : Created(n, p, b) /\ Fault

\* cluster_etcd_balance_(): only a position that changed is reported.
JoinBalance(n) ==
  /\ app[n] = "balance"
  /\ \/ /\ Position(n) # pos[n]
        /\ pos' = [pos EXCEPT ![n] = Position(n)]
        /\ app' = [app EXCEPT ![n] = "notify"]
        /\ UNCHANGED <<flags, ping, bal, bounds>>
     \/ /\ Position(n) = pos[n]
        /\ StartThreads(n)
        /\ UNCHANGED pos
  /\ UNCHANGED <<dir, workers, envdir, seen>>

\* The initial ping is not undone.
JoinBalanceFail(n) ==
  /\ app[n] = "balance"
  /\ Unwind(n)
  /\ Fault
  /\ UNCHANGED <<dir, workers, pos, ping, bal, seen>>

(***************************************************************************)
(* cluster_rebalanced_(): copy the state under a read lock, and call the     *)
(* callback without it.                                                     *)
(***************************************************************************)
Snapshot(n) ==
  /\ snap' = [snap EXCEPT ![n] = {State(n)}]
  /\ UNCHANGED told

Callback(n) ==
  /\ told' = [told EXCEPT ![n] = snap[n]]
  /\ snap' = [snap EXCEPT ![n] = {}]

JoinSnapshot(n) ==
  /\ app[n] = "notify"
  /\ Snapshot(n)
  /\ app' = [app EXCEPT ![n] = "call"]
  /\ UNCHANGED <<dir, object, ping, bal, bounds>>

JoinCallback(n) ==
  /\ app[n] = "call"
  /\ Callback(n)
  /\ app' = [app EXCEPT ![n] = "finish"]
  /\ UNCHANGED <<dir, object, ping, bal, bounds>>

JoinFinish(n) ==
  /\ app[n] = "finish"
  /\ StartThreads(n)
  /\ UNCHANGED <<dir, workers, pos, envdir, seen>>

(***************************************************************************)
(* The application: cluster_set_workers(), from any thread that can take the *)
(* lock.  The ping thread is not notified.  (A call with the present count    *)
(* changes nothing.)                                                        *)
(***************************************************************************)
SetWorkers(n, w) ==
  /\ app[n] \notin {"ping", "balance"}
  /\ changes < MaxChanges /\ changes + faults < MaxEvents
  /\ changes' = changes + 1
  /\ w # workers[n]
  /\ workers' = [workers EXCEPT ![n] = w]
  /\ UNCHANGED <<dir, pos, flags, envdir, threads, seen, faults>>

(***************************************************************************)
(* The application: cluster_leave().  It raises CF_LEAVING, waits for the     *)
(* ping thread, then for the balancer thread, those of them whose pthread_t   *)
(* is not 0, and closes everything.                                         *)
(***************************************************************************)
Leave(n) ==
  /\ app[n] = "in"
  /\ flags' = [flags EXCEPT ![n] = @ \cup {"LEAVING"}]
  /\ app' = [app EXCEPT ![n] = "joinping"]
  /\ UNCHANGED <<dir, workers, pos, envdir, ping, bal, seen, bounds>>

LeaveJoinPing(n) ==
  /\ app[n] = "joinping"
  /\ ping[n] \in {"ended", "none"}
  /\ ping' = [ping EXCEPT ![n] = "none"]
  /\ app' = [app EXCEPT ![n] = "joinbal"]
  /\ UNCHANGED <<dir, object, bal, seen, bounds>>

LeaveFinish_NoJoin(n) ==  \* mutant: the balancer thread is not joined
  /\ app[n] = "joinbal"
  /\ Unwind(n)
  /\ told' = [told EXCEPT ![n] = {}]
  /\ UNCHANGED <<dir, workers, pos, ping, bal, snap, bounds>>

LeaveFinish(n) ==
  /\ app[n] = "joinbal"
  /\ bal[n] \in {"ended", "none"}
  /\ bal' = [bal EXCEPT ![n] = "none"]
  /\ Unwind(n)
  /\ told' = [told EXCEPT ![n] = {}]
  /\ UNCHANGED <<dir, workers, pos, ping, snap, bounds>>

-----------------------------------------------------------------------------
(***************************************************************************)
(* The ping thread: cluster_etcd_ping_thread_().  Module PingTimer has its   *)
(* timing.                                                                  *)
(***************************************************************************)
PingLeave_Returns(n) ==  \* mutant: "return" for "break", the entry stays
  /\ ping[n] = "loop"
  /\ "LEAVING" \in flags[n]
  /\ ping' = [ping EXCEPT ![n] = "ended"]
  /\ UNCHANGED <<dir, object, app, bal, seen, bounds>>

PingLeave(n) ==
  /\ ping[n] = "loop"
  /\ "LEAVING" \in flags[n]
  /\ ping' = [ping EXCEPT ![n] = "unping"]
  /\ UNCHANGED <<dir, object, app, bal, seen, bounds>>

(***************************************************************************)
(* cluster_etcd_ping_(cluster, ETCD_EXISTS): the registry refuses to create. *)
(* A ping that fails or is refused changes nothing here: the thread sleeps   *)
(* and tries again.                                                         *)
(***************************************************************************)
PingSend_Creates(n) ==  \* mutant: the thread pings with ETCD_NONE
  /\ ping[n] = "loop"
  /\ "LEAVING" \notin flags[n]
  /\ Put(n)
  /\ UNCHANGED <<object, app, ping, seen, bounds>>

PingSend(n) ==
  /\ ping[n] = "loop"
  /\ "LEAVING" \notin flags[n]
  /\ Listed(n)
  /\ Put(n)
  /\ UNCHANGED <<object, app, ping, seen, bounds>>

\* cluster_etcd_unping_(): its result is ignored.
Unping(n) ==
  /\ ping[n] = "unping"
  /\ Remove(n)
  /\ ping' = [ping EXCEPT ![n] = "ended"]
  /\ UNCHANGED <<object, app, seen, bounds>>

UnpingFail(n) ==
  /\ ping[n] = "unping"
  /\ ping' = [ping EXCEPT ![n] = "ended"]
  /\ Fault
  /\ UNCHANGED <<dir, object, app, bal, seen>>

-----------------------------------------------------------------------------
(***************************************************************************)
(* The balancer thread: cluster_etcd_balancer_thread_().                    *)
(***************************************************************************)
BalStep(n, from, to) ==
  /\ bal[n] = from
  /\ bal' = [bal EXCEPT ![n] = to]

\* The flags are checked under a read lock, which is then released.
BalCheck_Forgets(n) ==  \* mutant: the flag is not checked
  /\ BalStep(n, "check", "arm")
  /\ UNCHANGED <<dir, object, app, ping, seen, bounds>>

BalCheck(n) ==
  /\ BalStep(n, "check", IF "LEAVING" \in flags[n] THEN "ended" ELSE "arm")
  /\ UNCHANGED <<dir, object, app, ping, seen, bounds>>

\* etcd_dir_wait() reaches the registry.
BalArm(n) ==
  /\ BalStep(n, "arm", "wait")
  /\ UNCHANGED <<dir, object, app, ping, seen, bounds>>

\* etcd_dir_wait() fails: sleep(30) and start again.
BalWaitFail(n) ==
  /\ BalStep(n, "arm", "check") \/ BalStep(n, "wait", "check")
  /\ Fault
  /\ UNCHANGED <<dir, object, app, ping, seen>>

BalBalance_QuietTotal(n) ==  \* mutant: only a new base index is reported
  /\ pos' = [pos EXCEPT ![n] = Position(n)]
  /\ BalStep(n, "woken",
             IF Position(n).index # pos[n].index THEN "notify" ELSE "check")
  /\ UNCHANGED <<dir, workers, flags, envdir, app, ping, seen, bounds>>

BalBalance_IgnoresTotal(n) ==  \* mutant: a new total alone is no change
  /\ \/ /\ Position(n).index # pos[n].index
        /\ pos' = [pos EXCEPT ![n] = Position(n)]
        /\ BalStep(n, "woken", "notify")
     \/ /\ Position(n).index = pos[n].index
        /\ BalStep(n, "woken", "check")
        /\ UNCHANGED pos
  /\ UNCHANGED <<dir, workers, flags, envdir, app, ping, seen, bounds>>

BalBalance(n) ==
  /\ \/ /\ Position(n) # pos[n]
        /\ pos' = [pos EXCEPT ![n] = Position(n)]
        /\ BalStep(n, "woken", "notify")
     \/ /\ Position(n) = pos[n]
        /\ BalStep(n, "woken", "check")
        /\ UNCHANGED pos
  /\ UNCHANGED <<dir, workers, flags, envdir, app, ping, seen, bounds>>

\* The directory cannot be read: the change that woke the thread is forgotten.
BalBalanceFail(n) ==
  /\ BalStep(n, "woken", "check")
  /\ Fault
  /\ UNCHANGED <<dir, object, app, ping, seen>>

BalSnapshot(n) ==
  /\ BalStep(n, "notify", "call")
  /\ Snapshot(n)
  /\ UNCHANGED <<dir, object, app, ping, bounds>>

BalCallback(n) ==
  /\ BalStep(n, "call", "check")
  /\ Callback(n)
  /\ UNCHANGED <<dir, object, app, ping, bounds>>

-----------------------------------------------------------------------------
(***************************************************************************)
(* The environment.  The process may die at any moment; the next one under   *)
(* the same identifier starts from nothing.                                  *)
(***************************************************************************)
Crash(n) ==
  /\ app[n] # "out"
  /\ workers' = [workers EXCEPT ![n] = 1]
  /\ pos'     = [pos EXCEPT ![n] = Fresh]
  /\ flags'   = [flags EXCEPT ![n] = {}]
  /\ envdir'  = [envdir EXCEPT ![n] = FALSE]
  /\ app'     = [app EXCEPT ![n] = "out"]
  /\ ping'    = [ping EXCEPT ![n] = "none"]
  /\ bal'     = [bal EXCEPT ![n] = "none"]
  /\ snap'    = [snap EXCEPT ![n] = {}]
  /\ told'    = [told EXCEPT ![n] = {}]
  /\ Fault
  /\ UNCHANGED dir

(***************************************************************************)
(* The time to live of an entry runs out: soon after the last write when     *)
(* nobody renews it, and otherwise only when the renewals are held up, which  *)
(* counts as a fault (PingTimer has the condition).                         *)
(***************************************************************************)
Kept(n) ==
  \/ app[n] \in {"balance", "notify", "call", "finish"}
  \/ ping[n] \in {"loop", "unping"}

Expire(n) ==
  /\ Listed(n)
  /\ \/ ~Kept(n) /\ UNCHANGED bounds
     \/ Kept(n) /\ Fault
  /\ Remove(n)
  /\ UNCHANGED <<object, app, ping, seen>>

-----------------------------------------------------------------------------
JoinModes(n) ==
  {passive \in BOOLEAN : n \in (IF passive THEN Passive ELSE Active)}

AppCalls(n) ==
  \/ \E p \in JoinModes(n) : JoinConnect(n, p) \/ JoinConnectFail(n, p)
  \/ n \in Resizing /\ \E w \in MinWorkers..MaxWorkers : SetWorkers(n, w)
  \/ Leave(n)

AppSteps(n) ==
  \/ JoinPing(n) \/ JoinBalance(n)
  \/ JoinSnapshot(n) \/ JoinCallback(n) \/ JoinFinish(n)
  \/ LeaveJoinPing(n) \/ LeaveFinish(n)

PingSteps(n) == PingLeave(n) \/ PingSend(n) \/ Unping(n)

BalSteps(n) ==
  \/ BalCheck(n) \/ BalArm(n) \/ BalBalance(n)
  \/ BalSnapshot(n) \/ BalCallback(n)

Failures(n) ==
  \/ JoinPingFail(n) \/ JoinBalanceFail(n) \/ UnpingFail(n)
  \/ BalWaitFail(n) \/ BalBalanceFail(n) \/ Crash(n)

Step(n) ==
  \/ AppCalls(n) \/ AppSteps(n) \/ PingSteps(n) \/ BalSteps(n)
  \/ Failures(n) \/ Expire(n)

Next == \E n \in Node : Step(n)

Spec == Init /\ [][Next]_vars

(***************************************************************************)
(* A thread that can run does, and an entry that nobody renews expires.       *)
(* Nothing obliges an application to make a call, or a fault to happen.      *)
(***************************************************************************)
Fairness ==
  \A n \in Node :
    /\ WF_vars(AppSteps(n))
    /\ WF_vars(PingSteps(n))
    /\ WF_vars(BalSteps(n))
    /\ WF_vars(Expire(n) /\ ~Kept(n))

FairSpec == Spec /\ Fairness

-----------------------------------------------------------------------------
(***************************************************************************)
(* The engine implements the abstract membership protocol.  The members'      *)
(* phases are read off where their application threads are; a passive member  *)
(* is no observer, it is a member like the others.                          *)
(***************************************************************************)
Phase(n) ==
  CASE app[n] = "out"                    -> "out"
    [] app[n] = "in"                     -> "in"
    [] app[n] \in {"joinping", "joinbal"} -> "leaving"
    [] OTHER                             -> "joining"

Reporting(n) == app[n] \in {"notify", "call"} \/ bal[n] \in {"notify", "call"}

Shown(s) == [index |-> s.index, total |-> s.total]

phaseBar == [n \in Node |-> Phase(n)]
dueBar   == {n \in Node : Reporting(n)}
toldBar  == [n \in Node |-> {Shown(s) : s \in told[n]}]

Abstract ==
  INSTANCE Membership WITH
    Revives <- FALSE, phase <- phaseBar, observers <- {}, view <- pos,
    due <- dueBar, told <- toldBar

(***************************************************************************)
(* Every step of the members, of their threads and of the registry is a step  *)
(* of the abstract protocol or none at all: a numbering that is observed is    *)
(* reported once, before another one is observed and before the member has     *)
(* left; and entries are published by members that are joining or in.        *)
(***************************************************************************)
ImplementsMembership == Abstract!Spec

-----------------------------------------------------------------------------
AppLocations ==
  {"out", "ping", "balance", "notify", "call", "finish", "in",
   "joinping", "joinbal"}
PingLocations == Missing \cup {"loop", "unping", "ended"}
BalLocations ==
  Missing \cup {"check", "arm", "wait", "woken", "notify", "call", "ended"}

ClusterState ==
  [index : Int, workers : MinWorkers..MaxWorkers, total : Int,
   passive : BOOLEAN]

TypeOK ==
  /\ dir     \in [Node -> (MinWorkers..MaxWorkers) \cup {Absent}]
  /\ workers \in [Node -> MinWorkers..MaxWorkers]
  /\ pos     \in [Node -> [index : Int, total : Int]]
  /\ flags   \in [Node -> SUBSET {"JOINED", "LEAVING", "PASSIVE"}]
  /\ envdir  \in [Node -> BOOLEAN]
  /\ app     \in [Node -> AppLocations]
  /\ ping    \in [Node -> PingLocations]
  /\ bal     \in [Node -> BalLocations]
  /\ snap    \in [Node -> SUBSET ClusterState]
  /\ told    \in [Node -> SUBSET ClusterState]
  /\ changes \in 0..MaxChanges
  /\ faults  \in 0..MaxFaults

(***************************************************************************)
(* cluster_etcd_leave_() closes the registry handles only when neither        *)
(* thread can use them any more, although the balancer thread uses them       *)
(* without the lock (etcd_dir_wait()); and no thread outlives the membership, *)
(* so that a later join never runs beside the threads of an earlier one.     *)
(***************************************************************************)
PingRuns(n) == ping[n] \in {"loop", "unping"}
BalRuns(n)  == bal[n] \notin {"ended"} \cup Missing

HandleSafety ==
  \A n \in Node :
    /\ PingRuns(n) \/ BalRuns(n) => envdir[n] /\ "JOINED" \in flags[n]
    /\ "JOINED" \notin flags[n] => ping[n] = "none" /\ bal[n] = "none"

(***************************************************************************)
(* The application is never left with an outdated picture of what the        *)
(* library knows: whenever the balancer thread is not busy reporting, the     *)
(* last CLUSTERSTATE passed to the callback has the index and the total that  *)
(* cluster_index() and cluster_total() return.  (A join whose index is -1, as *)
(* it is when the join does not find its own entry any more, need not have    *)
(* reported anything.)                                                      *)
(***************************************************************************)
ToldTheTruth ==
  \A n \in Node :
    "JOINED" \in flags[n] /\ bal[n] \notin {"notify", "call"} =>
      \/ told[n] = {} /\ pos[n].index = -1
      \/ \E s \in told[n] : s.index = pos[n].index /\ s.total = pos[n].total

(***************************************************************************)
(* README.md, the table of nodes, workers and indices: when every member that *)
(* is listed has caught up with the directory, and the directory with its     *)
(* worker count, the ranges that the applications act on (the index they were *)
(* told, and as many workers as they have) divide 0..total-1 among them: each *)
(* index is one worker's, none is used beyond the total, and all were told    *)
(* the same total.  A negative count takes away indices of others, so that    *)
(* the directory must have none.                                            *)
(***************************************************************************)
CaughtUp(n) ==
  /\ "JOINED" \in flags[n] /\ ~Reporting(n)
  /\ pos[n] = Position(n) /\ dir[n] = workers[n]

ActsOn(n, i) == \E s \in told[n] : s.index <= i /\ i < s.index + workers[n]

WorkDivided ==
  LET total == WorkerTotal(dir, Members) IN
  (\A n \in Members : CaughtUp(n) /\ dir[n] >= 0) =>
    /\ \A n \in Members : told[n] # {} /\ \A s \in told[n] :
         s.total = total /\ s.index + workers[n] <= total
    /\ \A i \in 0..(total - 1) :
         \E n \in Members : \A m \in Members : ActsOn(m, i) <=> m = n

(***************************************************************************)
(* Without a fault, a member that has left the cluster is not in the          *)
(* directory: when cluster_leave() returns, the ping thread has removed the   *)
(* entry, and no request that is still under way puts it back.              *)
(***************************************************************************)
NoGhost ==
  faults = 0 => \A n \in Node : app[n] = "out" => ~Listed(n)

(***************************************************************************)
(* Only the initial ping of a join creates an entry: the periodic pings of a  *)
(* member whose entry is gone, deleted or expired, never bring it back.      *)
(***************************************************************************)
OnlyJoinCreates ==
  [][\A n \in Node : ~Listed(n) /\ Listed(n)' => app[n] = "ping"]_vars

(***************************************************************************)
(* README.md: the balancer thread monitors the directory and invokes the      *)
(* callback when the base index or the total have changed.  Watches are       *)
(* re-registered without an index, so that changes are missed; as long as     *)
(* some member pings, every other one still ends up with the numbering of     *)
(* the directory, has told its application, and has published its own worker *)
(* count, once the directory and the worker counts stop changing.            *)
(***************************************************************************)
Pinging(m) == ping[m] = "loop" /\ Listed(m)

InSync(n) ==
  /\ pos[n] = Position(n)
  /\ \A s \in told[n] : s.index = pos[n].index /\ s.total = pos[n].total
  /\ Pinging(n) => dir[n] = workers[n]

Converges ==
  \A n, m \in Node :
    /\ <>[](Pinging(m) /\ app[n] = "in" /\ BalRuns(n))
    /\ <>[][UNCHANGED <<dir, workers>>]_<<dir, workers>>
    => <>[]InSync(n)

(***************************************************************************)
(* cluster_leave() returns: both threads notice CF_LEAVING and end.  The      *)
(* balancer thread may be blocked in etcd_dir_wait(); here another member     *)
(* keeps pinging, which unblocks it.  (Only a thread that could not be        *)
(* created, and whose pthread_t is undefined, may be waited for without end.) *)
(***************************************************************************)
LeaveReturns(n) == "LEAVING" \in flags[n] ~> "LEAVING" \notin flags[n]

LeaveReturnsInCompany ==
  \A n \in Node : \A m \in Node \ {n} :
    <>[]Pinging(m) /\ [](ping[n] # "lost" /\ bal[n] # "lost")
      => LeaveReturns(n)

(***************************************************************************)
(* etcd.c, cluster_etcd_leave_(): "we first set a flag to indicate that we    *)
(* want to leave the cluster (which the re-balancing thread will check), then *)
(* pthread_join() that thread to wait for it to shut down".  Whoever else is  *)
(* in the cluster, cluster_leave() returns.                                  *)
(***************************************************************************)
LeaveAlwaysReturns == \A n \in Node : LeaveReturns(n)
=============================================================================
