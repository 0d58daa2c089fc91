# A verification model of libcluster

libcluster lets the processes of a distributed application number their workers:
every process ("member") publishes how many workers it has, and every member
learns the index of its first worker and the number of all workers. This
directory has TLA+ models of it, TLC configurations that check them, and TLAPS
proofs. Source paths below are relative to the repository.

## 1. Inventory

| Component | Source | State | Operations |
|---|---|---|---|
| Cluster object and API | `cluster.c` | `CLUSTER`: type, registry, key, env, partition, instid, flags, inst_index, inst_threads, total_threads, callback | create, destroy, setters, join, join_passive, leave, state, re-balanced callback |
| Static engine | `engines/static.c` | index and total in the object | set_index, set_total, join, leave |
| etcd engine | `engines/etcd.c` | registry handles, ping thread, balancer thread | join, leave, ping, un-ping, balance, the two thread loops |
| etcd client | `libetcd/*.c` | a URI per handle | put, delete, create and open a directory, get, wait |
| SQL engine | `engines/sql.c` | three connections, two threads, the table `cluster_node` | as the etcd engine, by polling |
| Fork handlers, cluster list | `cluster.c`, both engines | list of objects, its lock, forkmode | prepare, parent, child, rejoin |
| Jobs | `job.c` | id, parent, name, total, progress, tag | create, destroy, setters, log-only states |
| Logging, `cluster-test` | `cluster.c`, `util/` | - | output, command line |

**How they interact.** The API calls an engine according to `cluster->type`. The
etcd engine starts two threads per membership. They share the `CLUSTER` object
with the application's threads under one read-write lock, and members share a
directory in the registry: the *ping thread* renews this member's entry before
its time to live runs out, and the *balancer thread* blocks in a watch of the
directory, reads it, computes index and total and calls the application back,
without the lock. Leaving raises `CF_LEAVING`, joins both threads and closes the
handles. The SQL engine does the same with a table: the ping thread replaces a row
in a transaction, and the balancer thread polls for rows with new time stamps. When
a process forks, handlers registered with `pthread_atfork()` end the threads, and
the child starts them again.

**What is hard.** Watches carry no index, so that changes between two of them
are lost. The flag is checked before a wait that has no timeout. The lock is
dropped for the callback and the state read again. Handles are closed beside
running threads. A worker count changes in the object at once and in the
registry with the next ping. Requests fail with or without effect; processes die
and come back under the same identifier; entries expire. An object may be
configured, joined and left in any order through different engines. The poll of the
SQL engine sees neither deletions nor rows committed after it with an earlier
stamp. The first members of an SQL cluster migrate the schema beside each other.
Around `fork()`, two processes have one identifier and one entry, the locks are
copied as they are, the object stays joined in both, and either process may leave and
join again. The results of `pthread_create()` are ignored. A worker count is any `int`,
negative ones included.

**What makes it correct.** Numbering: no index shared, none missing, in the order
of identifiers. Registry entry: alive as long as the member is, gone when it has
left, created by joins only. Application: told what the library knows, and in the
end what the directory says. Life cycle: handles and threads end together, and
leaving ends. API: the engine that joined is the one that leaves; a static member
fits into its cluster. SQL: the table is used under the current schema only, and
nobody is behind a quiet table for longer than the forced balance takes. Fork: what
the handlers hand over is kept by one process at most. Jobs: progress within the total.

`PROJECT.json` lists the hazards line by line, with the properties aimed at each.

## 2. Modules

| Module | Models | State and steps |
|---|---|---|
| `Numbering` | the numbering that the repository's README promises (table of nodes and indices) | no state; a worker's index is the number of workers before it. It is the reference definition. `SumOf` and `SumBefore` are its sums for counts of any sign |
| `BalanceScan` | the loop of `cluster_etcd_balance_()` and the key sort | `todo`, `base`, `total`; a step is a pass of the loop (`Skip`, `Visit`) |
| `PingTimer` | the timing of `cluster_etcd_ping_thread_()` | `count`, the current `sleep`, the entry's time to live, the age of a count that is not published yet; a step is a pass of the loop or a second |
| `EtcdCluster` | members of an etcd cluster: API calls, join, leave, both threads, the directory, failures | per member the `CLUSTER` fields, the location of each thread, the state on the stack of `cluster_rebalanced_()` and the state last told; the directory is shared |
| `Membership` | the abstract protocol that both registry engines implement: publish, observe, report once, leave | per member a phase, a view, what is due and what was told; the directory. Not one line of the code is in it |
| `SqlCluster` | members of an SQL cluster: migration, join, passive join, leave, both threads, the table, failures | as `EtcdCluster`, with the schema version and the rows of `cluster_node` |
| `SqlPoll` | the timing of the polls in `cluster_sql_balancer_thread_()` | ages of rows, stamps and polls in seconds; a step is a part of a ping transaction, a part of the thread's loop or a second |
| `ForkHandlers` | the handlers of `pthread_atfork()` in `cluster.c` and in both engines | per process flags, index, threads, the lock, the list lock, the place of the thread that forks, joins and leaves, and as history the `role`: how the process came to what it is; one entry for all |
| `ClusterApi` | the sequences of calls on one object, with the static engine in full and a registry engine by its effect on the object | `type`, `registry` pointer, names, flags, place; one action per API call |
| `Job` | `job.c` | validity of the id, parent, name, total, progress; one action per call |
| `*Proofs` | theorems about the module of that name; `NumberingProofs` has the facts on counting that three others cite, and the theorems about `Job` are in `ClusterApiProofs`, which extends it beside `ClusterApi` | |

`EtcdCluster` uses `Numbering` for what the loop computes (`Position`), which is
what `BalanceScan` shows of the loop itself; and it counts an expiry of an entry
that is being renewed as a fault, which is what `PingTimer` is about. `EtcdCluster`
and `SqlCluster` instantiate `Membership` with a refinement mapping (`Abstract`);
`SqlCluster` lets a poll find something or not, which is what `SqlPoll` is about.

**Granularity in `EtcdCluster`.** A step is a critical section of the lock with
the one registry request in it. A join makes several requests under the write
lock: these are separate steps, between which other *members* run, while the
threads of the same process do not exist yet and `cluster_set_workers()` must
wait (`SetWorkers` is disabled in `ping` and `balance`). The lock is dropped
around the callback, which gives `JoinSnapshot`/`BalSnapshot` (the read lock of
`cluster_rebalanced_()`) and `JoinCallback`/`BalCallback`. In the balancer thread
the check of the flag (`BalCheck`), the arrival of the watch at the registry
(`BalArm`) and the wake-up are separate, because everything else can happen in
between. The failing branch of each of these is an action of its own. The two
results of `pthread_create()`, which the code ignores, are choices of
`StartThreads` (`Created`), in `SqlCluster` too: either thread or both may be
missing. The `pthread_t` of a missing thread is 0 still or undefined. If leaving
joins it all the same, `pthread_join()` returns, which is as if there were nothing
to join (`"none"`), or never does (`"lost"`).

**The refinement.** A member of `EtcdCluster` is *joining*, *in*, *leaving* or *out*
according to where its application thread is; its view is the position in the
object; a report is due between the assignment of a new position and the callback.
What `Membership` then says is an end-to-end contract: each new numbering is
reported exactly once, with the value that was observed, before another one is
observed and before the member is out; only a join creates an entry, and only a
member that is in renews it. With `Revives <- TRUE` (SQL) a ping may also bring an
entry back, and passive members are observers: they publish nothing and have no
index. The etcd engine has no observers, a passive member of it is like any other.

**Granularity in `SqlCluster`.** As above; a transaction is one step, a step of the
migration is one transaction. The ping thread that leaves does so in two steps, the
check of the flag (`PingLeave`) and the delete (`Unping`, `UnpingFail`), between which
it has no lock. `cluster_rebalanced_()` is one step: `EtcdCluster` shows the two of it,
so that only the latter covers a report overtaken by another change. A query that
fails ends the process, because the code uses its result without a test.

**Granularity in `ForkHandlers`.** A step ends where the handler waits for a thread
or for a lock, or changes a lock. In the prepare handlers `cluster_rebalanced_()`
asks for a read lock under the write lock of the same thread. POSIX leaves that to
the implementation: it blocks for ever (`RebalancedBlocks`), or it fails with
`EDEADLK`, and then the unlock at the end of `cluster_rebalanced_()` releases the
write lock (`Rebalanced`) and the unlock in the parent handler is one too many
(`Parent`, with either outcome). The threads of a membership are reduced to what
they do to the entry and to the index. Every process may leave (`Leave`,
`LeaveFinish`) and join (`Join`), whether it has forked or not; from the first ping on
`cluster_join()` and a child that joins again run the same code (`JoinPing`,
`JoinBalance`, `JoinNotify`, `JoinStart`, `JoinFail`). `JoinStart` starts any subset of
the two threads, and the last delete of a ping thread may fail (`PingEndFail`). Another
thread may have the list lock, for which the handlers wait; this is not a step. What
matters is whether a child inherits it held (`"lost"`). A missing thread is not waited
for here.

**Granularity in `ClusterApi`.** A call is a step, except that a static join has two:
it checks the place, sets `CF_JOINED` and unlocks (`StaticJoin`), and
`cluster_rebalanced_()` reads the object again (`StaticReport`). In between another
thread may make any call but `cluster_leave()` and `cluster_destroy()`, which are left to
the thread that joins.

**External behaviour**, modelled from how the code uses it: a put with
`prevExist=true` needs an existing key; any write or removal serves the watches
that are registered at that moment, and no later one; a key disappears when its
time to live has run out; a failed put may have been carried out. The steps of
`sql_migrate()` are transactions of their own that find the version the last one
left; a transaction of `sql_perform()` is atomic, and one that fails may have been
committed. `fork()` copies memory and the calling thread only.

**Abstractions.** Instance identifiers are integers, ordered as `strcmp()` orders
the strings. `told` and `snap` are sets with at most one state. The application
has set a callback. Identifiers, environment and partition of the members in
`EtcdCluster` are fixed and the same directory is meant. Of a job identifier only
its validity is kept. A call that the code refuses without a change of state is
no step. `cluster_job_set_parent_job(job, NULL)`, which dereferences the null pointer,
is not called. The build has pthreads, libuuid, etcd and SQL. Memory is never exhausted.
In `SqlPoll` the clocks of the members agree. `SqlCluster` keeps index and total of
a report; `EtcdCluster` keeps the whole state. In `ForkHandlers` an object is not
passive, and no call of another thread changes its flags during a `fork()`. The entries
of `BalanceScan` have natural counts.

Mutated copies of definitions (`Visit_CountsFirst` and so on) stand before the
definition they vary, each marked `mutant`: every property of a passing run is
violated when its mutant takes the definition's place.

## 3. Runs

### Runs that pass

| Run | Instance | What it shows |
|---|---|---|
| `numbering_loop` | every reply over three keys, counts 0..2, entries without a value, every own identifier | `ComputesNumbering`: at the end of the loop base and total are the promised ones, -1 for an unlisted instance. `NoSharedIndexNoGap`: at every pass the indices below the running total belong to exactly one visited member |
| `ping_keeps_entry` | ttl 120, refresh 30 (the defaults), up to 19 failures in a row, 3 lost seconds | `NeverExpires`: the entry is there while refresh + 1 + 5 * failures + lost seconds < ttl. `CountPublished`: as long as there is an entry, a count given to `cluster_set_workers()` is in it after refresh + 1 + 5 * failures + lost seconds at most (1.0 million states) |
| `etcd_members` | 2 members, one of which joins passively, -1..1 workers, one change of the first one's count, one fault, any number of joins and leaves | `HandleSafety`, `ToldTheTruth`, `NoGhost`, `OnlyJoinCreates`, `ImplementsMembership`; `WorkDivided`: when all listed members have caught up with the directory, what their applications were told gives every index below the total to exactly one of them, unless a listed count is negative (1.0 million states) |
| `etcd_live` | 2 members, 0..1 workers, one change or one fault, with fairness | `Converges`: once directory and counts are stable, every member that stays has the numbering of the directory, has told it and has published its count, although watch events are lost. `LeaveReturnsInCompany`: a leave returns while another member pings, unless `pthread_join()` of an undefined `pthread_t` never does |
| `api_sequences` | every sequence of calls with numbers -1..3, registry positions -3..3 | `LeavesWhereJoined`. `StaticFits`: the index of a static member that has passed the check of its join stays below the total, and its application is told that index and total; its workers fit too, and are told as they are, unless `cluster_set_workers()` comes in between or later |
| `job_progress` | every sequence of calls with numbers 0..5 | `ProgressWithinTotal` |
| `sql_members` | 2 members, the second of which may be passive, -1..1 workers, one fault or change of the first one's count, schema versions 0..8 | `HandleSafety`, `ToldTheTruth`, `WorkDivided`; `NoGhost`: without a fault, nobody that has left or is passive has a row; `SchemaCurrent`: nobody has a row or reads the table before the last migration, so that the one that drops the table takes no member with it; `ImplementsMembership` (1.2 million states) |
| `sql_poll` | the rows of 2 members, polls every 2 seconds, longest wait 3, time to live 4 | `KeepsUp`: while the table does not change, the thread sleeps for less than longest wait + poll on an outdated picture of it, although it misses deletions, expiries and late commits (2.5 million states) |
| `fork_handlers` | a process, a member or not, and two descendants, any number of leaves, and one call of `cluster_join()` or one failure (a request, a `pthread_create()`, a `fork()`), with fairness | `Withdrawn`: there is no thread when `fork()` is called, and who has given the membership away has no index, and its application knows, until it leaves or joins itself. `Succession`: an ancestor keeps or deletes an entry that a descendant keeps only if it has called `cluster_join()` itself. `HandedOver`: the child of a member becomes the member or finds that it cannot, unless the list lock was lost or its ping thread was not created (0.5 million states) |

Each module also has a type invariant. Those of `EtcdCluster`, `SqlCluster` and
`ClusterApi` leave the sign of an index and of a total open: a member with a negative
worker count makes both negative. Those of the first two say that the registry holds
nothing but counts which applications have set.

### Runs that find a disagreement

Each of these checks one property that a comment, a header or a message of the
repository states, and TLC finds a behaviour of the code that violates it.

| Run | Property | What happens |
|---|---|---|
| `leave_alone` | `LeaveAlwaysReturns` | A member on its own: the balancer thread has checked the flag; the application leaves; the ping thread deletes the entry; then the watch is registered, and nothing ever changes again |
| `freed_once` | `FreedOnce` | `cluster_set_registry(NULL)` keeps the freed pointer |
| `fork_twice` | `Transferred` | The parent stays `CF_JOINED`; when it forks again, the second child rejoins beside the first one, under the same identifier. No process has called `cluster_join()` since |

### Bounds

Two members are enough for every interaction in the code: a member sees others
only through the directory and through wake-ups, and the proofs cover any number.
Zero and one worker distinguish "no worker" from "a worker", and a change between
them moves another's index; -1 (`MaxOwed = 1`) is the smallest count that makes an
index or a total negative. In the two largest runs only the first member changes its
count (`Resizing`), which moves the index of the other and the total; `etcd_live` lets
either. One fault reaches every failing branch and, with the
unbounded number of joins, what follows it; one change of a worker count reaches
the window between change and ping. `MaxEvents` bounds changes and faults
together, so that the liveness run can allow either. `Limit = 3` in `ClusterApi`
leaves room for index, workers and total to fit and not to fit.

The schema version of `SqlCluster` is the real one. `SqlPoll` has the periods 2, 3
and 4 for 5, 30 and 120: a poll falls before and after the longest wait, a row
expires between two polls and between two balancings; the theorem covers the real
values. Three processes are a grandparent, parent and child, or a parent with two
children. One event (`MaxEvents`) is a `cluster_join()` of a process that has left, of a
parent that has forked or of a child, or a failure; the theorems cover any number of
both together. `fork_twice` needs no event.

Deadlock is not checked where the system may come to rest: at the end of the
loop, after the ping thread has returned, when everybody waits in a watch, and when
the prepare handler has blocked on its own lock. `sql_poll` checks it.

### Fairness

`FairSpec` assumes weak fairness of each thread of each process: a thread that can
take a step does, a request is answered, the lock is granted, a callback returns.
It also assumes that the registry lets an entry expire that nobody renews.
Nothing is assumed of calls of the application, of faults, and of watches: a
thread in a watch waits until a change comes. `Converges` and
`LeaveReturnsInCompany` state their own premises (`<>[]` a member pings, the
directory stops changing, no thread is waited for that never existed) instead of
assuming them.

`FairSpec` of `ForkHandlers` assumes weak fairness of the handlers of each process
and of nothing else: not of the application, of the threads, nor of whoever holds
the list lock. `HandedOver` starts in the child, where no such holder exists unless
the lock was lost in `fork()`, which the property excepts.

## 4. Proofs

All theorems hold for every value of the constants under the `ASSUME`s of the
modules (sets of integers, finite where counted; natural bounds). Every invariant
of every passing run has a theorem.

* `EtcdClusterProofs`: `TypeCorrect`, `HandlesSafe`, `Told`, `GhostFree`,
  `CreatedByJoin`, `Divided`, for any finite set of members. The invariant `Inv` is
  `TypeOK` and, for every member, `LifeCycle` (at which combinations of locations
  the three threads can be, and which flags and handles go with them), `Reported`
  (along a report, snapshot, then told, agree with the position) and `Gone` (where
  a member cannot be listed without a fault). None of the properties is inductive
  alone: `HandleSafety` needs to know that the ping thread has ended when the
  application waits for the balancer, `ToldTheTruth` what is in the snapshot
  before the callback runs, `NoGhost` that the entry is gone before the ping
  thread ends. The lemma `Frame` says that a step of one member does at most one
  thing to another: wake its balancer thread. So every action is examined for the
  member that takes it only.
* `NumberingProofs`, `NumberingDivides`: for any finite set of nodes and any worker
  counts, the promised numbering gives every index below the total to a worker of
  exactly one node. (`SumType`: the sums over counts of any sign are integers;
  `SumOfNaturals`: without negative counts they are the promised numbering.) The ranges of
  the nodes follow each other (`RangesInOrder`), so that no two workers have the same index; there are as many workers as indices, so
  that an injection from the one to the other leaves none out. `Divided`, for both
  engines, puts this together with `Reported`: a listed member that has caught up
  has an index, so its application was told, and told what the directory says. What
  "caught up" asks for is what `Converges` shows to come about, with the published
  count equal to the member's own; between `cluster_set_workers()` and the next ping
  it is not, and ranges may overlap. `Divided` also asks that no listed count is
  negative; with one, ranges do overlap.
* `EtcdClusterProofs`, `Implements`: the refinement. Initial states map to initial
  states; for a step, `Inv` gives what the guards of the abstract action need (that
  nothing is due when a position is assigned, that a member that pings is in) and
  each concrete action is shown to be one abstract action or a stutter
  (`AppSimulated`, `ThreadsSimulated`, `FaultsSimulated`). A crash maps to `Die`, a
  delete or an expiry to `Drop`.
* `SqlClusterProofs`: `TypeCorrect`, `HandlesSafe`, `Told`, `Divided`, `GhostFree`,
  `SchemaFirst`, `Implements`, for any finite set of members, any of which may be
  passive. `Inv` is `TypeOK`, `SchemaCurrent` and, for every member, `LifeCycle`,
  `Reported` and `Gone` as above; `Gone` has the passive members too, who have no
  thread that could delete a row. `SchemaCurrent` needs `LifeCycle` (who has not joined has no threads that
  could write a row), and it is what makes a migration harmless to the others
  (`MigrateKeeps`), so that `Frame` holds here too: a step of one member changes
  nothing of another.
* `SqlPollProofs`: `TypeCorrect`, `Fresh`, for any periods. The invariant `Bounded`
  relates the seconds slept on an outdated picture to the age of the last balancing
  and to the current sleep.
* `BalanceScanProofs`: `TypeCorrect`, `NumberingComputed`, `IndicesUnique`. The
  loop invariant: what is left sorts after what was visited, base and total are
  the numbering of the visited keys, and their index ranges are consecutive. The
  last two assume `JsonValueType = "integer"`.
* `PingTimerProofs`: `TypeCorrect`, `EntryKept`, `CountReachesEntry`. The invariant
  `Budget` accounts for every second since the last renewal: it is in `count`, in
  a retry, lost, or still ahead in the current sleep. `SinceWritten` adds that a count
  which is not published has waited since the last renewal at most.
* `ForkHandlersProofs`: `TypeCorrect`, `StaysWithdrawn`, `ParentsRetired`, `Succeeds`,
  for any number of processes, joins and failures. `Inv` is `TypeOK` and, for every
  process, `FlagInv` (`CF_LEAVING` does not survive the call that raises it, without
  which what prepare saves is not typed), `ThreadInv` (no threads from the end of the
  wait in prepare until the end of a join), `RoleInv` (who is in a handler has been
  withdrawn, and who has been withdrawn has no threads) and `PlaceInv` (the object loses
  its index first, then the application is told, and nobody undoes it); and, between
  processes, `Lineage`: whoever has a descendant has no threads and is past the code
  that starts them, or has called `cluster_join()` after its last `fork()`.
  `Succession` alone is not inductive, because a rejoin that is under way in an
  ancestor would break it. `TransferredInLine` says how far the promise that
  `fork_twice` refutes does hold: while of any two processes one descends from the
  other, at most one keeps the entry without a `cluster_join()` of its own.
* `ClusterApiProofs`: `TypeCorrect`, `EngineKept`, `StaticMembersFit`, which needs that
  nothing told and no report under way is left from an earlier membership;
  `FreedOnceOtherwise`, that the call which `freed_once` finds is the only cause of a
  second free; and for jobs `JobTypeCorrect`, `ProgressBounded`.

Only model-checked: the liveness properties `Converges`, `LeaveReturnsInCompany`
and `HandedOver` (TLAPS does not reason about fairness here), and all violations.

## 5. Other disagreements met

Too simple to need a run, or resting on something outside the repository:

* `cluster_rebalanced_()` (`cluster.c:810-813`) never fills in `passive`, which
  `libcluster.h:55` describes and `cluster_state()` fills in.
* `cluster_job_set_id()` (`job.c:167`) refuses valid identifiers and takes invalid
  ones; `Job` has it so.
* `cluster_job_set_total()` with a negative total (`job.c:186`) leaves the progress 0
  beyond it; `ProgressWithinTotal` is about natural numbers.
* `cluster_job_set_parent_id(job, NULL)` keeps the name, which `job.c:227` calls
  meaningful only with a parent.
* The worker count is written as text (`libetcd/key.c:69`) and read with
  `json_integer_value()` (`engines/etcd.c:257`), which is 0 for a JSON string. A
  registry that returns stored text as JSON strings makes every count 0. The
  constant `JsonValueType` of `BalanceScan` makes the assumption explicit; with
  `"string"`, `ComputesNumbering` fails.
* `cluster_set_fork()` is declared (`libcluster.h:142`) and not defined, and
  `CLUSTER_FORK_BOTH` (`libcluster.h:40`) is neither of the bits, nor both, that the
  handlers test.
* `cluster_etcd_join_()` pings whatever `CF_PASSIVE` says, although
  `libcluster.h:68` says "without participating in it": a passive etcd member has
  an entry and is numbered.
* `cluster_rebalanced_()` passes the current worker count of the member with an
  index and a total computed before it changed: index + workers may exceed the total.
* `cluster_reset_instance()` (`cluster.c:435`) changes the identifier of a joined
  member, which `cluster_set_instance()` refuses (`cluster.c:366`).
* A registry join that fails leaves the index -1, with which a static join then
  succeeds (`static.c:93`), against `static.c:38`.
* "The balancing call-back will always be invoked at least once" (`cluster.c:160`):
  not for a passive SQL member that joins an empty table, whose position does not
  change (`told = {}` in `ToldTheTruth`).
* "Wait for changes to the cluster_node table and invoke cluster_sql_balance_() when
  they occur" (`sql.c:533`): a deletion or an expiry is noticed only by the forced
  balance, up to 35 seconds later. `KeepsUp` has the bound that does hold.
* "The cluster object will always be locked" when libsql logs (`sql.c:813`): not
  during a poll (`sql.c:599`).
* "The calling thread should not hold the lock" (`cluster.c:795`): the prepare
  handlers do (`etcd.c:341`, `sql.c:379`). After the `EDEADLK` outcome, "Already locked
  prior to the fork" (`etcd.c:390`) and "The cluster is locked on entry" (`sql.c:393`)
  do not hold.
* `cluster_set_workers()` (`cluster.c:622-629`) takes negative counts, and the balance
  loops add them up: indices and totals become negative, and ranges overlap. No
  document allows or forbids it. `WorkDivided` excludes such counts; the other
  properties hold with them.
* The results of `pthread_create()` are ignored (`etcd.c:115`, `etcd.c:420`,
  `sql.c:460`). A member or a rejoined child without a ping thread is `CF_JOINED` while
  its entry runs out, which is an exception that `HandedOver` makes (role `mute`); and
  leaving may wait for a thread that never existed.
* A parent that has forked and leaves may join again under the identifier that its
  child has, and so may parent and child after a `fork()` of an object that was not
  joined: both keep one entry, and the one that leaves first deletes it. Only the
  application can prevent it, with `cluster_reset_instance()`. `Succession` and
  `Transferred` are about processes that have not done so.
* `cluster_job_set_parent_job(job, NULL)` clears the parent and then dereferences the
  null pointer (`job.c:131-135`); the same test compares a job's cluster with itself.
* `cluster_sql_parent_()` (`sql.c:401`) drops the result of the rejoin that it tests
  afterwards.

## 6. Not modelled, and the plan

In this order:

1. `EtcdProcess`: one process with an explicit lock and several application
   threads, and calls from the callback: two joins at once, two leaves at once, a
   leave from the callback.
2. Clocks that disagree in `SqlPoll`, by an offset per member.
3. `Payload`: growth of the buffer in `libetcd/connect.c`.

Left out for good: logging and formatting, URI handling and encoding, the text of
the schema (the versions and the dropped table are modelled), the command line of
`cluster-test`, build and packaging. The branches of the fork handlers for
`CLUSTER_FORK_PARENT` cannot be reached, because nothing sets `forkmode` to anything
but `CLUSTER_FORK_CHILD`. The links of the list of objects change under its lock
only, and matter to the fork handlers alone.
