---------------------------- MODULE SqlPollProofs ----------------------------
(***************************************************************************)
(* The balancer thread of the SQL engine keeps up with the table, for every    *)
(* time to live, every poll interval, every longest wait and any number of    *)
(* members.                                                                 *)
(***************************************************************************)
EXTENDS SqlPoll, TLAPS

(***************************************************************************)
(* What the history variable counts: a second at a time, and only while the   *)
(* thread has to sleep.                                                     *)
(***************************************************************************)
LEMMA Counted ==
  ASSUME TypeOK, NEW seconds \in {0, 1}, Measure(seconds)
  PROVE  /\ stale' \in 0..Longest
         /\ \/ stale' = 0
            \/ stale' = stale
            \/ stale' = stale + seconds /\ bal = "sleep" /\ slept < Poll
BY TimesAssumption DEF TypeOK, Measure, Longest

(***************************************************************************)
(* The table, the clocks and the thread keep their types.                    *)
(***************************************************************************)
LEMMA TypeStep == TypeOK /\ [Next]_vars => TypeOK'
<1> SUFFICES ASSUME TypeOK, [Next]_vars PROVE TypeOK'
  OBVIOUS
<1> USE TimesAssumption, WorkersAssumption DEF TypeOK, rows, thread, Absent
<1>1. ASSUME (Members \/ Thread) /\ Measure(0) PROVE TypeOK'
  <2>1. stale' \in 0..Longest
    BY <1>1, Counted
  <2>2. ASSUME NEW n \in Node, PingStamp(n) \/ PingFail(n) \/ Unping(n)
        PROVE  TypeOK'
    BY <2>1, <2>2 DEF PingStamp, PingFail, Unping
  <2>3. ASSUME NEW n \in Node, NEW w \in 0..MaxWorkers, PingCommit(n, w)
        PROVE  TypeOK'
    BY <2>1, <2>3 DEF PingCommit
  <2>4. CASE BalSleep \/ BalPoll
    BY <2>1, <2>4 DEF BalSleep, BalPoll, Goto
  <2>5. CASE BalBalance
    <3>1. Live \in [Node -> (0..MaxWorkers) \cup {Absent}]
      BY DEF Live, Visible
    <3> QED  BY <2>1, <2>5, <3>1 DEF BalBalance, Goto
  <2> QED  BY <1>1, <2>2, <2>3, <2>4, <2>5 DEF Members, Thread
<1>2. ASSUME Tick, Measure(1) PROVE TypeOK'
  <2>1. stale' \in 0..Longest
    BY <1>2, Counted
  <2>2. /\ slept' \in 0..Poll /\ polled' \in 0..TTL /\ balanced' \in 0..MaxWait
        /\ UNCHANGED <<dir, bal, known>>
    BY <1>2 DEF Tick, Older
  <2>3. /\ age' \in [Node -> 0..(TTL + 1)]
        /\ stamp' \in [Node -> (0..(TTL + 1)) \cup {Absent}]
    BY <1>2 DEF Tick, Older
  <2> QED  BY <2>1, <2>2, <2>3
<1>3. CASE UNCHANGED vars
  BY <1>3 DEF vars
<1> QED  BY <1>1, <1>2, <1>3 DEF Next

(***************************************************************************)
(* The initial state has its type.                                          *)
(***************************************************************************)
LEMMA TypeInit == Init => TypeOK
<1> SUFFICES ASSUME Init PROVE TypeOK
  OBVIOUS
<1> USE TimesAssumption, WorkersAssumption DEF Init, TypeOK, Absent
<1>1. Live \in [Node -> (0..MaxWorkers) \cup {Absent}]
  BY DEF Live, Visible
<1> QED  BY <1>1 DEF Longest

(***************************************************************************)
(* The state of the thread and the table always have their types; the ages     *)
(* stay within what the code tells apart.                                    *)
(***************************************************************************)
THEOREM TypeCorrect == Spec => []TypeOK
BY TypeInit, TypeStep, PTL DEF Spec

-----------------------------------------------------------------------------
(***************************************************************************)
(* The inductive strengthening of KeepsUp.  Unless the thread is about to      *)
(* balance, it has been out of date no longer than since its last balancing;  *)
(* and it falls asleep only if that was less than the longest wait ago.      *)
(***************************************************************************)
Bounded ==
  /\ bal = "check" => stale < MaxWait
  /\ bal = "sleep" => stale < MaxWait + slept
  /\ bal = "balance" => stale < MaxWait + Poll
  /\ bal # "balance" => stale <= balanced \/ balanced = MaxWait

LEMMA BoundedStep == TypeOK /\ Bounded /\ [Next]_vars => Bounded'
<1> SUFFICES ASSUME TypeOK, Bounded, [Next]_vars PROVE Bounded'
  OBVIOUS
<1> USE TimesAssumption DEF TypeOK, Bounded, rows, thread
<1>1. ASSUME Members, Measure(0) PROVE Bounded'
  <2>1. UNCHANGED thread
    BY <1>1 DEF Members, PingStamp, PingCommit, PingFail, Unping
  <2> QED  BY <1>1, <2>1, Counted
<1>2. ASSUME BalSleep, Measure(0) PROVE Bounded'
  BY <1>2, Counted DEF BalSleep, Goto
<1>3. ASSUME BalPoll, Measure(0) PROVE Bounded'
  <2>1. stale' = 0 \/ stale' = stale
    BY <1>3, Counted
  <2>2. CASE Idle
    BY <1>3, <2>1, <2>2 DEF BalPoll, Goto, Idle
  <2>3. CASE ~Idle
    BY <1>3, <2>1, <2>3 DEF BalPoll, Goto
  <2> QED  BY <2>2, <2>3
<1>4. ASSUME BalBalance, Measure(0) PROVE Bounded'
  <2>1. known' = Live /\ Live' = Live
    BY <1>4 DEF BalBalance, Live, Visible
  <2>2. stale' = 0
    BY <1>4, <2>1 DEF Measure
  <2> QED  BY <1>4, <2>2 DEF BalBalance, Goto
<1>5. ASSUME Tick, Measure(1) PROVE Bounded'
  <2>1. /\ bal' = bal
        /\ balanced' = IF balanced < MaxWait THEN balanced + 1 ELSE balanced
        /\ slept' = IF bal = "sleep" /\ slept < Poll THEN slept + 1 ELSE slept
    BY <1>5 DEF Tick, Older
  <2> QED  BY <1>5, <2>1, Counted
<1>6. CASE UNCHANGED vars
  BY <1>6 DEF vars
<1> QED  BY <1>1, <1>2, <1>3, <1>4, <1>5, <1>6 DEF Next, Thread

(***************************************************************************)
(* For every time to live, poll interval and longest wait, and however the     *)
(* members write and delete their rows: the thread never sleeps for MaxWait    *)
(* and Poll seconds on an outdated picture of a table that does not change.   *)
(***************************************************************************)
THEOREM Fresh == Spec => []KeepsUp
<1>1. Init => Bounded
  BY TimesAssumption DEF Init, Bounded
<1>2. TypeOK /\ Bounded => KeepsUp
  BY TimesAssumption DEF TypeOK, Bounded, KeepsUp, Longest
<1> QED  BY <1>1, <1>2, BoundedStep, TypeCorrect, PTL DEF Spec
=============================================================================
