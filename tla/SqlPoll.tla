------------------------------ MODULE SqlPoll ------------------------------
(***************************************************************************)
(* How the balancer thread of the SQL engine notices changes of the table     *)
(* cluster_node, which nobody can watch (src/engines/sql.c).  A row carries    *)
(* the time at which it was written and the time at which it expires; the     *)
(* thread polls for rows written since its last poll, and balances anyway     *)
(* when it has not done so for a long time.                                  *)
(*                                                                         *)
(* One balancer thread, and the rows of all the members, which write and      *)
(* delete them as they like.  Time is counted in seconds, the resolution of   *)
(* time() and of the columns, and kept as ages: how many seconds ago          *)
(* something happened.  An age stops counting where the code does not tell    *)
(* the difference any more, so that time is unbounded and the state is not.   *)
(* The members' clocks agree.  Time may pass at any point.                    *)
(***************************************************************************)
EXTENDS Integers

CONSTANTS
  Node,         \* the instance identifiers
  MaxWorkers,   \* bound: the largest worker count a member sets
  TTL,          \* cluster->ttl
  Poll,         \* CLUSTER_SQL_BALANCE_SLEEP
  MaxWait       \* CLUSTER_SQL_MAX_BALANCEWAIT

ASSUME WorkersAssumption == MaxWorkers \in Nat
ASSUME TimesAssumption ==
  TTL \in Nat /\ Poll \in Nat \ {0} /\ MaxWait \in Nat \ {0}

Absent == -1

VARIABLES
  dir,       \* "threads" of each member's row
  age,       \* how long ago the row was "updated"; it "expires" after TTL
  stamp,     \* how long ago a ping transaction read the time, or Absent
  bal,       \* where the balancer thread is
  slept,     \* how long it has slept
  polled,    \* lastbuf: how long ago its last poll was
  balanced,  \* last: how long ago the last poll was that led to a balancing
  known,     \* the rows that its last balancing found
  stale      \* history: see Measure

rows   == <<dir, age, stamp>>
thread == <<bal, slept, polled, balanced, known>>
vars   == <<rows, thread, stale>>

-----------------------------------------------------------------------------
(***************************************************************************)
(* The table.  Expired rows stay in it: the queries leave them out           *)
(* (expires >= now).                                                        *)
(***************************************************************************)
Visible(n) == dir[n] # Absent /\ age[n] <= TTL

Live == [n \in Node |-> IF Visible(n) THEN dir[n] ELSE Absent]

(***************************************************************************)
(* A member pings: the transaction of cluster_sql_perform_ping_() reads the   *)
(* time first, and is committed later or not at all.                         *)
(***************************************************************************)
PingStamp(n) ==
  /\ stamp[n] = Absent
  /\ stamp' = [stamp EXCEPT ![n] = 0]
  /\ UNCHANGED <<dir, age, thread>>

PingCommit_Ahead(n, w) ==  \* mutant: the row is stamped a second ahead
  /\ stamp[n] # Absent
  /\ dir' = [dir EXCEPT ![n] = w]
  /\ age' = [age EXCEPT ![n] = stamp[n] - 1]
  /\ stamp' = [stamp EXCEPT ![n] = Absent]
  /\ UNCHANGED thread

PingCommit(n, w) ==
  /\ stamp[n] # Absent
  /\ dir' = [dir EXCEPT ![n] = w]
  /\ age' = [age EXCEPT ![n] = stamp[n]]
  /\ stamp' = [stamp EXCEPT ![n] = Absent]
  /\ UNCHANGED thread

PingFail(n) ==
  /\ stamp[n] # Absent
  /\ stamp' = [stamp EXCEPT ![n] = Absent]
  /\ UNCHANGED <<dir, age, thread>>

\* cluster_sql_unping_()
Unping(n) ==
  /\ stamp[n] = Absent
  /\ dir' = [dir EXCEPT ![n] = Absent]
  /\ age' = [age EXCEPT ![n] = 0]
  /\ UNCHANGED <<stamp, thread>>

-----------------------------------------------------------------------------
(***************************************************************************)
(* The balancer thread: cluster_sql_balancer_thread_().                     *)
(***************************************************************************)
Goto(from, to) == bal = from /\ bal' = to

BalSleep ==
  /\ Goto("check", "sleep")
  /\ slept' = 0
  /\ UNCHANGED <<rows, polled, balanced, known>>

\* The query for the rows that were written since the last poll.
FoundNone == \A n \in Node : Visible(n) => age[n] > polled

Idle == FoundNone /\ balanced < MaxWait

BalPoll_Restarts ==  \* mutant: every poll restarts the longest wait
  /\ slept >= Poll
  /\ Goto("sleep", IF Idle THEN "check" ELSE "balance")
  /\ polled' = 0
  /\ balanced' = 0
  /\ UNCHANGED <<rows, slept, known>>

BalPoll ==
  /\ slept >= Poll
  /\ Goto("sleep", IF Idle THEN "check" ELSE "balance")
  /\ polled' = 0
  /\ balanced' = IF Idle THEN balanced ELSE 0
  /\ UNCHANGED <<rows, slept, known>>

\* cluster_sql_balance_(), once the lock has been acquired.
BalBalance ==
  /\ Goto("balance", "check")
  /\ known' = Live
  /\ UNCHANGED <<rows, slept, polled, balanced>>

-----------------------------------------------------------------------------
Older(a, cap) == IF a < cap THEN a + 1 ELSE a

Tick ==
  /\ age' = [n \in Node |-> IF dir[n] = Absent THEN 0 ELSE Older(age[n], TTL + 1)]
  /\ stamp' = [n \in Node |-> IF stamp[n] = Absent THEN Absent
                              ELSE Older(stamp[n], TTL + 1)]
  /\ slept' = IF bal = "sleep" THEN Older(slept, Poll) ELSE slept
  /\ polled' = Older(polled, TTL)
  /\ balanced' = Older(balanced, MaxWait)
  /\ UNCHANGED <<dir, bal, known>>

(***************************************************************************)
(* History: for how many of the seconds that the thread has to sleep it has   *)
(* had an outdated picture of the table, while the table did not change.     *)
(***************************************************************************)
Longest == MaxWait + Poll

Measure(seconds) ==
  stale' = IF known' = Live' \/ Live' # Live THEN 0
           ELSE IF bal = "sleep" /\ slept < Poll /\ stale < Longest
                THEN stale + seconds ELSE stale

(***************************************************************************)
(* The join has balanced; the thread starts with no poll and no balancing     *)
(* behind it (lastbuf is empty and last is 0), as if they were long ago.     *)
(***************************************************************************)
Init ==
  /\ dir \in [Node -> (0..MaxWorkers) \cup {Absent}]
  /\ age = [n \in Node |-> 0]
  /\ stamp = [n \in Node |-> Absent]
  /\ bal = "check"
  /\ slept = 0
  /\ polled = TTL
  /\ balanced = MaxWait
  /\ known = Live
  /\ stale = 0

Members ==
  \E n \in Node :
    \/ PingStamp(n) \/ PingFail(n) \/ Unping(n)
    \/ \E w \in 0..MaxWorkers : PingCommit(n, w)

Thread == BalSleep \/ BalPoll \/ BalBalance

Next ==
  \/ (Members \/ Thread) /\ Measure(0)
  \/ Tick /\ Measure(1)

Spec == Init /\ [][Next]_vars

-----------------------------------------------------------------------------
TypeOK ==
  /\ dir \in [Node -> (0..MaxWorkers) \cup {Absent}]
  /\ age \in [Node -> 0..(TTL + 1)]
  /\ stamp \in [Node -> (0..(TTL + 1)) \cup {Absent}]
  /\ bal \in {"check", "sleep", "balance"}
  /\ slept \in 0..Poll
  /\ polled \in 0..TTL
  /\ balanced \in 0..MaxWait
  /\ known \in [Node -> (0..MaxWorkers) \cup {Absent}]
  /\ stale \in 0..Longest

(***************************************************************************)
(* A poll misses what leaves no fresh row behind: a deletion, an expiry, a     *)
(* row that was committed after the poll that followed its stamp.  The        *)
(* longest wait makes up for it: the thread never sleeps for MaxWait and Poll *)
(* seconds on an outdated picture of a table that does not change.           *)
(***************************************************************************)
KeepsUp == stale < Longest
=============================================================================
