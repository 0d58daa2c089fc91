----------------------------- MODULE PingTimer -----------------------------
(***************************************************************************)
(* The timing of cluster_etcd_ping_thread_() (src/engines/etcd.c): the thread *)
(* renews this member's registry entry, whose time to live the registry      *)
(* counts down.  Time is in seconds, the unit of sleep() and of the ttl       *)
(* parameter.  A second passes while the thread sleeps (sleep > 0) or while   *)
(* it does something else: a request under way, waiting for the lock, the     *)
(* callback of the join.  The latter kind is bounded between two renewals.   *)
(***************************************************************************)
EXTENDS Integers

CONSTANTS
  TTL,        \* cluster->ttl: how long an entry lives after it was written
  Refresh,    \* cluster->refresh: the period of the renewals
  MaxFails,   \* bound: failed renewals in a row
  Slack       \* bound: seconds not slept, between two successful renewals

RetrySleep == 5   \* "Short retry in case of transient problems"

ASSUME TimingAssumption ==
  TTL \in Nat \ {0} /\ Refresh \in Nat /\ MaxFails \in Nat /\ Slack \in Nat

VARIABLES
  count,     \* int count: seconds since the last renewal, as the thread sees it
  sleep,     \* the seconds of sleep() still to go; 0: the thread runs
  fails,     \* failed renewals since the last successful one
  slack,     \* seconds not slept since then
  left,      \* time to live of the entry in the registry; 0: there is none
  pending,   \* seconds since cluster_set_workers() gave a count that the entry
             \*   does not have yet (at most TTL are counted); -1: it has it
  leaving,   \* CF_LEAVING
  done       \* the thread has returned

vars == <<count, sleep, fails, slack, left, pending, leaving, done>>

Running == sleep = 0 /\ ~done

-----------------------------------------------------------------------------
(***************************************************************************)
(* The thread is created right after the initial ping, with count = refresh. *)
(***************************************************************************)
Init ==
  /\ count = Refresh
  /\ sleep = 0
  /\ fails = 0
  /\ slack = 0
  /\ left = TTL
  /\ pending = -1
  /\ leaving = FALSE
  /\ done = FALSE

(***************************************************************************)
(* "We haven't yet hit the refresh time": sleep(1); count++; continue.       *)
(***************************************************************************)
Nap_Unguarded ==  \* mutant: the refresh time is never noticed
  /\ Running /\ ~leaving
  /\ sleep' = 1
  /\ count' = count + 1
  /\ UNCHANGED <<fails, slack, left, pending, leaving, done>>

Nap ==
  /\ Running /\ ~leaving
  /\ count <= Refresh
  /\ sleep' = 1
  /\ count' = count + 1
  /\ UNCHANGED <<fails, slack, left, pending, leaving, done>>

(***************************************************************************)
(* cluster_set_workers(): the object has the count at once; the entry gets it *)
(* with the next ping, which writes the whole entry anew.                    *)
(***************************************************************************)
SetWorkers ==
  /\ ~done
  /\ pending = -1
  /\ pending' = 0
  /\ UNCHANGED <<count, sleep, fails, slack, left, leaving, done>>

(***************************************************************************)
(* cluster_etcd_ping_(cluster, ETCD_EXISTS) succeeds: only if the entry is   *)
(* still there (prevExist=true).                                            *)
(***************************************************************************)
PingOk_TtlOnly ==  \* mutant: the ping renews the time to live, not the value
  /\ Running /\ ~leaving
  /\ count > Refresh
  /\ left > 0
  /\ left' = TTL
  /\ count' = 0
  /\ fails' = 0
  /\ slack' = 0
  /\ UNCHANGED <<sleep, pending, leaving, done>>

PingOk ==
  /\ Running /\ ~leaving
  /\ count > Refresh
  /\ left > 0
  /\ left' = TTL
  /\ pending' = -1
  /\ count' = 0
  /\ fails' = 0
  /\ slack' = 0
  /\ UNCHANGED <<sleep, leaving, done>>

(***************************************************************************)
(* The request fails: it never reached the registry, or its answer was lost. *)
(* The thread sleeps and tries again; count is left alone.                   *)
(***************************************************************************)
WrittenOrNot ==
  \/ UNCHANGED <<left, pending>>
  \/ left > 0 /\ left' = TTL /\ pending' = -1

PingFail_RestartsPeriod ==  \* mutant: a failure starts a new refresh period
  /\ Running /\ ~leaving
  /\ count > Refresh
  /\ fails < MaxFails
  /\ sleep' = RetrySleep
  /\ fails' = fails + 1
  /\ WrittenOrNot
  /\ count' = 0
  /\ UNCHANGED <<slack, leaving, done>>

PingFail ==
  /\ Running /\ ~leaving
  /\ count > Refresh
  /\ fails < MaxFails
  /\ sleep' = RetrySleep
  /\ fails' = fails + 1
  /\ WrittenOrNot
  /\ UNCHANGED <<count, slack, leaving, done>>

(***************************************************************************)
(* The registry refuses to renew an entry that is gone.                     *)
(***************************************************************************)
PingRefused ==
  /\ Running /\ ~leaving
  /\ count > Refresh
  /\ left = 0
  /\ sleep' = RetrySleep
  /\ UNCHANGED <<count, fails, slack, left, pending, leaving, done>>

(***************************************************************************)
(* cluster_etcd_leave_() sets CF_LEAVING; the thread sees it when it next    *)
(* reaches the top of its loop, deletes the entry (a failure to do so is     *)
(* ignored) and returns.                                                    *)
(***************************************************************************)
Leave ==
  /\ ~leaving
  /\ leaving' = TRUE
  /\ UNCHANGED <<count, sleep, fails, slack, left, pending, done>>

Stop ==
  /\ Running /\ leaving
  /\ left' \in {0, left}
  /\ done' = TRUE
  /\ UNCHANGED <<count, sleep, fails, slack, pending, leaving>>

(***************************************************************************)
(* A second passes.                                                         *)
(***************************************************************************)
Elapse ==
  /\ left' = IF left > 0 THEN left - 1 ELSE 0
  /\ pending' = IF pending \in 0..(TTL - 1) THEN pending + 1 ELSE pending

TickAsleep ==
  /\ sleep > 0
  /\ sleep' = sleep - 1
  /\ Elapse
  /\ UNCHANGED <<count, fails, slack, leaving, done>>

TickBusy ==
  /\ Running
  /\ slack < Slack
  /\ slack' = slack + 1
  /\ Elapse
  /\ UNCHANGED <<count, sleep, fails, leaving, done>>

Next ==
  \/ Nap \/ PingOk \/ PingFail \/ PingRefused
  \/ SetWorkers \/ Leave \/ Stop
  \/ TickAsleep \/ TickBusy

Spec == Init /\ [][Next]_vars

-----------------------------------------------------------------------------
TypeOK ==
  /\ count \in 0..(Refresh + 1)
  /\ sleep \in 0..RetrySleep
  /\ fails \in 0..MaxFails
  /\ slack \in 0..Slack
  /\ left \in 0..TTL
  /\ pending \in -1..TTL
  /\ leaving \in BOOLEAN
  /\ done \in BOOLEAN

(***************************************************************************)
(* A member that does not leave is not dropped from the registry before the  *)
(* time to live is really used up: cluster_etcd_ping_thread_() renews the     *)
(* entry in time as long as a whole period, which is one second longer than  *)
(* refresh because the loop tests count <= refresh, the retries since the     *)
(* last renewal and the seconds lost since then are less than the ttl.       *)
(***************************************************************************)
InTime == Refresh + 1 + RetrySleep * fails + slack < TTL

NeverExpires == InTime => done \/ left > 0

(***************************************************************************)
(* How long "it [takes] until cluster->etcd_refresh to inform other nodes"     *)
(* (the TODO of cluster_set_workers()): as long as the member has an entry, a *)
(* new count is in it after at most one period, a retry for each failure and *)
(* the seconds lost, even if the call comes right after a ping, during a      *)
(* sleep or while the member leaves.                                        *)
(***************************************************************************)
CountPublished ==
  ~done /\ left > 0 => pending <= Refresh + 1 + RetrySleep * fails + slack
=============================================================================
