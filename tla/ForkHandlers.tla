---------------------------- MODULE ForkHandlers ----------------------------
(***************************************************************************)
(* What becomes of a membership when its process calls fork(): the handlers   *)
(* that src/cluster.c registers with pthread_atfork(), and those of the two   *)
(* registry engines that they call (src/engines/etcd.c and sql.c), which are   *)
(* alike.                                                                   *)
(*                                                                         *)
(* One process has one CLUSTER object.  It forks, and so do its children, all *)
(* with a copy of the object and of its instance identifier, under which      *)
(* there is at most one entry in the registry; each of them may leave and      *)
(* join by itself.  The mode is the default,      *)
(* CLUSTER_FORK_CHILD: nothing can change it, cluster_set_fork() is declared   *)
(* and not defined.                                                         *)
(*                                                                         *)
(* The threads of a process that make the membership are here by what they do *)
(* to the entry and to the object (EtcdCluster and SqlCluster have the rest);  *)
(* the read-write lock of the object is a variable.  Another thread of a      *)
(* process may create or destroy objects and so have the lock of their list:  *)
(* the handlers wait for it, which is not a step, but fork() does not.       *)
(***************************************************************************)
EXTENDS Integers

CONSTANTS
  Procs,      \* bound: how many processes there can be
  MaxEvents   \* bound: calls of cluster_join(), and failed requests,
              \*   pthread_create()s and fork()s, taken together

ASSUME ProcsAssumption == Procs \in Nat \ {0} /\ MaxEvents \in Nat

Proc == 1..Procs

Engine == {"ping", "balancer"}

VARIABLES
  born,     \* how many processes there are: 1..born
  line,     \* history: the processes that a process descends from
  listed,   \* the registry has an entry of the identifier
  flags,    \* cluster->flags
  saved,    \* the flags on the stack of the prepare handler
  placed,   \* inst_index is not -1, of the object and as last told
  threads,  \* the threads of the membership that exist
  lock,     \* cluster->lock
  list,     \* cluster_list_lock_, as far as it can be had
  app,      \* where the thread that forks, joins and leaves is
  role,     \* history: how the process came to what it is, see Roles
  events    \* how many of the bounded events there have been

object == <<flags, saved, placed, threads>>
locks  == <<lock, list>>
vars   == <<born, line, listed, object, locks, app, role, events>>

-----------------------------------------------------------------------------
Live == 1..born

(***************************************************************************)
(* "call": a cluster_join() of its own made it a member, or is about to;     *)
(* "withdrawn": a fork() has taken its membership, and it has not joined or   *)
(* left since; "heir": its child handler has joined again; "mute": so it has, *)
(* but the ping thread could not be created; "none": it is out.              *)
(***************************************************************************)
Roles == {"none", "call", "withdrawn", "heir", "mute"}

(***************************************************************************)
(* A process that has joined, or has not, and the place of its forking thread *)
(* in its own code.                                                         *)
(***************************************************************************)
Init ==
  /\ born = 1
  /\ line = [p \in Proc |-> {}]
  /\ \E joined \in BOOLEAN :
       /\ listed  = joined
       /\ flags   = [p \in Proc |-> IF joined THEN {"JOINED"} ELSE {}]
       /\ placed  = [p \in Proc |-> [object |-> joined, told |-> joined]]
       /\ threads = [p \in Proc |-> IF joined /\ p = 1 THEN Engine ELSE {}]
       /\ role    = [p \in Proc |-> IF joined THEN "call" ELSE "none"]
  /\ saved  = [p \in Proc |-> {}]
  /\ lock   = [p \in Proc |-> "free"]
  /\ list   = [p \in Proc |-> "free"]
  /\ app    = [p \in Proc |-> "run"]
  /\ events = 0

Event == events < MaxEvents /\ events' = events + 1

Goto(p, from, to) ==
  /\ app[p] = from
  /\ app' = [app EXCEPT ![p] = to]

SetLock(p, value) == lock' = [lock EXCEPT ![p] = value]

SetRole(p, value) == role' = [role EXCEPT ![p] = value]

\* A thread of the membership, or another one, can have the object's lock.
Unlocked(p) == lock[p] = "free"

\* The three handlers go through the list of objects with its lock held.
ListReadable(p) == list[p] = "free"

-----------------------------------------------------------------------------
(***************************************************************************)
(* cluster_fork_prepare_(), which holds the list lock for reading all the     *)
(* time, with the prepare handler of an engine.  First it raises CF_LEAVING   *)
(* and waits for the threads.                                               *)
(***************************************************************************)
Prepare_SavesLate(p) ==  \* mutant: the flags are saved after the change
  /\ Goto(p, "run", "join")
  /\ ListReadable(p)
  /\ Unlocked(p)
  /\ saved' = [saved EXCEPT ![p] = flags[p] \cup {"LEAVING"}]
  /\ flags' = [flags EXCEPT ![p] = @ \cup {"LEAVING"}]
  /\ UNCHANGED <<born, line, listed, placed, threads, locks, role, events>>

Prepare(p) ==
  /\ Goto(p, "run", "join")
  /\ ListReadable(p)
  /\ Unlocked(p)
  /\ saved' = [saved EXCEPT ![p] = flags[p]]
  /\ flags' = [flags EXCEPT ![p] = @ \cup {"LEAVING"}]
  /\ UNCHANGED <<born, line, listed, placed, threads, locks, role, events>>

Withdraw_PingOnly(p) ==  \* mutant: the balancer thread is not joined
  /\ Goto(p, "join", "rebalanced")
  /\ "ping" \notin threads[p]
  /\ Unlocked(p)
  /\ SetLock(p, "write")
  /\ SetRole(p, "withdrawn")
  /\ placed' = [placed EXCEPT ![p].object = FALSE]
  /\ UNCHANGED <<born, line, listed, flags, saved, threads, list, events>>

Withdraw_NoJoin(p) ==  \* mutant: no thread is joined
  /\ Goto(p, "join", "rebalanced")
  /\ Unlocked(p)
  /\ SetLock(p, "write")
  /\ SetRole(p, "withdrawn")
  /\ placed' = [placed EXCEPT ![p].object = FALSE]
  /\ UNCHANGED <<born, line, listed, flags, saved, threads, list, events>>

\* The threads have ended: the index becomes -1.
Withdraw(p) ==
  /\ Goto(p, "join", "rebalanced")
  /\ threads[p] = {}
  /\ Unlocked(p)
  /\ SetLock(p, "write")
  /\ SetRole(p, "withdrawn")
  /\ placed' = [placed EXCEPT ![p].object = FALSE]
  /\ UNCHANGED <<born, line, listed, flags, saved, threads, list, events>>

(***************************************************************************)
(* cluster_rebalanced_() takes the lock for reading while this thread has it  *)
(* for writing.  That blocks for ever, or fails with EDEADLK; in this case    *)
(* the result is ignored, and the unlock that follows releases the write      *)
(* lock.                                                                    *)
(***************************************************************************)
RebalancedBlocks(p) ==
  /\ Goto(p, "rebalanced", "blocked")
  /\ UNCHANGED <<born, line, listed, object, locks, role, events>>

Rebalanced(p) ==
  /\ Goto(p, "rebalanced", "restore")
  /\ SetLock(p, "free")
  /\ placed' = [placed EXCEPT ![p].told = placed[p].object]
  /\ UNCHANGED <<born, line, listed, flags, saved, threads, list, role, events>>

Restore(p) ==
  /\ Goto(p, "restore", "fork")
  /\ flags' = [flags EXCEPT ![p] = saved[p]]
  /\ saved' = [saved EXCEPT ![p] = {}]
  /\ UNCHANGED <<born, line, listed, placed, threads, locks, role, events>>

(***************************************************************************)
(* fork(): the child has a copy of the memory, and of the threads only the    *)
(* one that called.  A list lock that another thread has is never released.   *)
(***************************************************************************)
Fork(p) ==
  LET c == born + 1 IN
  /\ app[p] = "fork"
  /\ c \in Proc
  /\ born' = c
  /\ line' = [line EXCEPT ![c] = line[p] \cup {p}]
  /\ app' = [app EXCEPT ![p] = "parent", ![c] = "child"]
  /\ flags' = [flags EXCEPT ![c] = flags[p]]
  /\ saved' = [saved EXCEPT ![c] = saved[p]]
  /\ placed' = [placed EXCEPT ![c] = placed[p]]
  /\ threads' = [threads EXCEPT ![c] = {}]
  /\ role' = [role EXCEPT ![c] = role[p]]
  /\ lock' = [lock EXCEPT ![c] = lock[p]]
  /\ \E l \in {"free", "lost"} : list' = [list EXCEPT ![c] = l]
  /\ UNCHANGED <<listed, events>>

\* There is no child, and the handlers of the parent run all the same.
ForkFail(p) ==
  /\ Goto(p, "fork", "parent")
  /\ Event
  /\ UNCHANGED <<born, line, listed, object, locks, role>>

(***************************************************************************)
(* The parent handler: the mode says not to rejoin, and the lock is released. *)
(* It is not locked any more: nothing happens, or it is damaged for good.     *)
(***************************************************************************)
Parent(p) ==
  /\ Goto(p, "parent", "run")
  /\ ListReadable(p)
  /\ SetLock(p, "free") \/ SetLock(p, "damaged")
  /\ UNCHANGED <<born, line, listed, object, list, role, events>>

(***************************************************************************)
(* The child handler: a new lock; a member joins again, under the write lock. *)
(***************************************************************************)
Child(p) ==
  /\ ListReadable(p)
  /\ \/ /\ "JOINED" \in flags[p]
        /\ Goto(p, "child", "ping")
        /\ SetLock(p, "write")
     \/ /\ "JOINED" \notin flags[p]
        /\ Goto(p, "child", "run")
        /\ SetLock(p, "free")
  /\ UNCHANGED <<born, line, listed, object, list, role, events>>

(***************************************************************************)
(* cluster_join() of a process that is not a member, whether it has forked or *)
(* not: it connects, and goes on as a child that joins again does.            *)
(***************************************************************************)
Join(p) ==
  /\ Goto(p, "run", "ping")
  /\ "JOINED" \notin flags[p]
  /\ Unlocked(p)
  /\ Event
  /\ SetLock(p, "write")
  /\ SetRole(p, "call")
  /\ placed' = [placed EXCEPT ![p].object = FALSE]
  /\ UNCHANGED <<born, line, listed, flags, saved, threads, list>>

JoinPing(p) ==
  /\ Goto(p, "ping", "balance")
  /\ listed' = TRUE
  /\ UNCHANGED <<born, line, object, locks, role, events>>

\* Neither the connection nor a ping succeeds, though it may have been carried
\* out, or the balancing fails.  Then the engine's leave is called, which finds
\* no threads.
JoinFail(p) ==
  /\ \/ Goto(p, "ping", "run") /\ listed' \in {listed, TRUE}
     \/ Goto(p, "balance", "run") /\ UNCHANGED listed
  /\ Event
  /\ SetLock(p, "free")
  /\ SetRole(p, "none")
  /\ flags' = [flags EXCEPT ![p] = @ \ {"JOINED", "LEAVING"}]
  /\ UNCHANGED <<born, line, saved, placed, threads, list>>

\* The lock is released around the callback, if there is something to report:
\* an index, or a total of the others that has changed.
JoinBalance(p) ==
  /\ \E report \in BOOLEAN :
       /\ listed => report
       /\ Goto(p, "balance", IF report THEN "notify" ELSE "start")
       /\ SetLock(p, IF report THEN "free" ELSE "write")
  /\ placed' = [placed EXCEPT ![p].object = listed]
  /\ UNCHANGED <<born, line, listed, flags, saved, threads, list, role, events>>

JoinNotify(p) ==
  /\ Goto(p, "notify", "start")
  /\ SetLock(p, "write")
  /\ placed' = [placed EXCEPT ![p].told = placed[p].object]
  /\ UNCHANGED <<born, line, listed, flags, saved, threads, list, role, events>>

(***************************************************************************)
(* The threads are created, and nobody looks whether they are.               *)
(***************************************************************************)
Start(p, started) ==
  /\ Goto(p, "start", "run")
  /\ SetLock(p, "free")
  /\ threads' = [threads EXCEPT ![p] = started]
  /\ SetRole(p, IF role[p] = "call" THEN "call"
                ELSE IF "ping" \in started THEN "heir" ELSE "mute")
  /\ flags' = [flags EXCEPT ![p] = @ \cup {"JOINED"}]
  /\ UNCHANGED <<born, line, listed, saved, placed, list>>

JoinStart_Passive(p) ==  \* mutant: the test of CF_PASSIVE is inverted
  /\ Goto(p, "start", "run")
  /\ SetLock(p, "free")
  /\ threads' = [threads EXCEPT ![p] = {"balancer"}]
  /\ flags' = [flags EXCEPT ![p] = @ \cup {"JOINED"}]
  /\ UNCHANGED <<born, line, listed, saved, placed, list, role, events>>

JoinStart(p) ==
  \E started \in SUBSET Engine :
    /\ Start(p, started)
    /\ IF started = Engine THEN UNCHANGED events ELSE Event

-----------------------------------------------------------------------------
(***************************************************************************)
(* cluster_leave(), by the thread that forks.                               *)
(***************************************************************************)
Leave(p) ==
  /\ Goto(p, "run", "leave")
  /\ "JOINED" \in flags[p]
  /\ Unlocked(p)
  /\ flags' = [flags EXCEPT ![p] = @ \cup {"LEAVING"}]
  /\ UNCHANGED <<born, line, listed, saved, placed, threads, locks, role,
                 events>>

LeaveFinish(p) ==
  /\ Goto(p, "leave", "run")
  /\ threads[p] = {}
  /\ flags' = [flags EXCEPT ![p] = @ \ {"JOINED", "LEAVING"}]
  /\ SetRole(p, "none")
  /\ UNCHANGED <<born, line, listed, saved, placed, threads, locks, events>>

(***************************************************************************)
(* The threads of a membership.  The balancer thread may report after it has  *)
(* checked CF_LEAVING for the last time but one.                             *)
(***************************************************************************)
Runs(p, t) == t \in threads[p] /\ Unlocked(p)

Ends(p, t) ==
  /\ Runs(p, t)
  /\ "LEAVING" \in flags[p]
  /\ threads' = [threads EXCEPT ![p] = @ \ {t}]
  /\ UNCHANGED <<born, line, flags, saved, placed, locks, app, role>>

\* The SQL engine brings an entry back, the etcd engine renews it only.
PingSend(p) ==
  /\ Runs(p, "ping")
  /\ "LEAVING" \notin flags[p]
  /\ listed' \in {listed, TRUE}
  /\ UNCHANGED <<born, line, object, locks, app, role, events>>

\* The last request of the thread, which nobody repeats, deletes the entry.
PingEnd(p) == Ends(p, "ping") /\ listed' = FALSE /\ UNCHANGED events

PingEndFail(p) == Ends(p, "ping") /\ UNCHANGED listed /\ Event

BalEnd(p) == Ends(p, "balancer") /\ UNCHANGED <<listed, events>>

BalReport(p) ==
  /\ Runs(p, "balancer")
  /\ placed' = [placed EXCEPT ![p] = [object |-> listed, told |-> listed]]
  /\ UNCHANGED <<born, line, listed, flags, saved, threads, locks, app, role,
                 events>>

\* Nobody renews the entry.
Expire ==
  /\ listed
  /\ \A p \in Live : "ping" \notin threads[p]
  /\ listed' = FALSE
  /\ UNCHANGED <<born, line, object, locks, app, role, events>>

-----------------------------------------------------------------------------
Handler(p) ==
  \/ Withdraw(p) \/ Rebalanced(p) \/ RebalancedBlocks(p) \/ Restore(p)
  \/ Fork(p) \/ Parent(p) \/ Child(p)
  \/ JoinPing(p) \/ JoinBalance(p) \/ JoinNotify(p) \/ JoinStart(p)

Threads(p) == PingSend(p) \/ PingEnd(p) \/ BalEnd(p) \/ BalReport(p)

Failures(p) == ForkFail(p) \/ JoinFail(p) \/ PingEndFail(p)

Calls(p) == Prepare(p) \/ Join(p) \/ Leave(p) \/ LeaveFinish(p)

Step(p) == Calls(p) \/ Handler(p) \/ Threads(p) \/ Failures(p)

Next == (\E p \in Live : Step(p)) \/ Expire

Spec == Init /\ [][Next]_vars

(***************************************************************************)
(* A handler, or the rest of a call, goes on when it can.                     *)
(***************************************************************************)
FairSpec == Spec /\ \A p \in Proc : WF_vars(Handler(p))

-----------------------------------------------------------------------------
AppLocations ==
  {"run", "join", "rebalanced", "blocked", "restore", "fork", "parent",
   "child", "ping", "balance", "notify", "start", "leave"}

\* Between a change of the object's index and the report to the application.
Reporting == {"rebalanced", "blocked", "ping", "balance", "notify", "start"}

TypeOK ==
  /\ born \in Proc /\ line \in [Proc -> SUBSET Proc]
  /\ listed \in BOOLEAN /\ events \in 0..MaxEvents
  /\ flags \in [Proc -> SUBSET {"JOINED", "LEAVING"}]
  /\ saved \in [Proc -> SUBSET {"JOINED"}]
  /\ placed \in [Proc -> [object : BOOLEAN, told : BOOLEAN]]
  /\ threads \in [Proc -> SUBSET Engine]
  /\ lock \in [Proc -> {"free", "write", "damaged"}]
  /\ list \in [Proc -> {"free", "lost"}]
  /\ app \in [Proc -> AppLocations] /\ role \in [Proc -> Roles]

(***************************************************************************)
(* A process that has given its membership away to a child has no threads,    *)
(* from before the fork(), although it is still CF_JOINED.  Its application   *)
(* has been told that it has no index, and cluster_index() agrees, until it   *)
(* leaves or joins itself: nothing that was under way when the fork began     *)
(* undoes it.                                                               *)
(***************************************************************************)
Withdrawn ==
  \A p \in Live :
    /\ app[p] \in {"restore", "fork", "parent", "child"} => threads[p] = {}
    /\ /\ role[p] = "withdrawn"
       /\ app[p] \notin Reporting
       => ~placed[p].object /\ ~placed[p].told

(***************************************************************************)
(* A membership goes from a process to its child and is gone from the         *)
(* process: nobody keeps the entry of the identifier, or deletes it, beside a *)
(* descendant that keeps it, however many times either of them forks or       *)
(* leaves; unless its own application has called cluster_join() again.        *)
(***************************************************************************)
Succession ==
  \A p, q \in Live :
    p \in line[q] /\ "ping" \in threads[p] /\ "ping" \in threads[q]
      => role[p] = "call"

(***************************************************************************)
(* The child of a member becomes the member, or finds that it cannot: the     *)
(* handler finishes, and the entry has a thread that keeps it.  There are two *)
(* exceptions: another thread of the parent was creating or destroying an     *)
(* object during fork(), or the ping thread could not be created.            *)
(***************************************************************************)
HandedOver ==
  \A p \in 2..Procs :
    app[p] = "child" /\ "JOINED" \in flags[p] /\ list[p] # "lost" ~>
      "ping" \in threads[p] \/ "JOINED" \notin flags[p] \/ role[p] = "mute"

(***************************************************************************)
(* libcluster.h, CLUSTER_FORK_CHILD: "The cluster membership shall be         *)
(* transferred to the child process": of the processes that keep the entry of *)
(* the identifier, at most one does so without a cluster_join() of its own.   *)
(***************************************************************************)
Transferred ==
  \A p, q \in Live :
    "ping" \in threads[p] /\ "ping" \in threads[q]
      => p = q \/ role[p] = "call" \/ role[q] = "call"
=============================================================================
