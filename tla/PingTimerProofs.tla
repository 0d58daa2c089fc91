-------------------------- MODULE PingTimerProofs --------------------------
(***************************************************************************)
(* The renewals of cluster_etcd_ping_thread_() keep the entry alive, for      *)
(* every ttl and refresh.                                                   *)
(***************************************************************************)
EXTENDS PingTimer, TLAPS

(***************************************************************************)
(* Where the time since the last renewal went: every second of it is in      *)
(* count, in a retry or in slack, or is still ahead in the current sleep.    *)
(* Once the entry is gone the sum has been exceeded, and stays so.           *)
(***************************************************************************)
Budget ==
  \/ done
  \/ left >= TTL + sleep - count - RetrySleep * fails - slack
  \/ left = 0 /\ ~InTime

(***************************************************************************)
(* The variables of the thread keep their types, and count never runs past   *)
(* refresh + 1.                                                             *)
(***************************************************************************)
LEMMA TypeStep == TypeOK /\ [Next]_vars => TypeOK'
<1> SUFFICES ASSUME TypeOK, [Next]_vars PROVE TypeOK'
  OBVIOUS
<1> USE TimingAssumption DEF TypeOK, Running, RetrySleep, Elapse, WrittenOrNot
<1>1. CASE Nap          BY <1>1 DEF Nap
<1>2. CASE PingOk       BY <1>2 DEF PingOk
<1>3. CASE PingFail     BY <1>3 DEF PingFail
<1>4. CASE PingRefused  BY <1>4 DEF PingRefused
<1>5. CASE Leave        BY <1>5 DEF Leave
<1>6. CASE SetWorkers   BY <1>6 DEF SetWorkers
<1>7. CASE Stop         BY <1>7 DEF Stop
<1>8. CASE TickAsleep   BY <1>8 DEF TickAsleep
<1>9. CASE TickBusy     BY <1>9 DEF TickBusy
<1>10. CASE UNCHANGED vars  BY <1>10 DEF vars
<1> QED
  BY <1>1, <1>2, <1>3, <1>4, <1>5, <1>6, <1>7, <1>8, <1>9, <1>10 DEF Next

(***************************************************************************)
(* The counter, the sleeps and the time to live stay within their ranges,    *)
(* for every ttl, refresh and bound.                                        *)
(***************************************************************************)
THEOREM TypeCorrect == Spec => []TypeOK
<1>1. Init => TypeOK
  <2> SUFFICES ASSUME Init PROVE TypeOK
    OBVIOUS
  <2>1. leaving \in BOOLEAN /\ done \in BOOLEAN
    BY DEF Init
  <2>2. /\ count \in 0..(Refresh + 1) /\ sleep \in 0..RetrySleep
        /\ fails \in 0..MaxFails /\ slack \in 0..Slack /\ left \in 0..TTL
        /\ pending \in -1..TTL
    BY TimingAssumption DEF Init, RetrySleep
  <2> QED  BY <2>1, <2>2 DEF TypeOK
<1> QED  BY <1>1, TypeStep, PTL DEF Spec

(***************************************************************************)
(* Within the budget the entry is alive, unless the time was used up.        *)
(***************************************************************************)
LEMMA BudgetSuffices == TypeOK /\ Budget => NeverExpires
BY TimingAssumption
DEF TypeOK, Budget, NeverExpires, InTime, RetrySleep

(***************************************************************************)
(* Every step accounts for the time it takes.  A refused ping would not, but *)
(* the registry refuses only when the entry is gone.                         *)
(***************************************************************************)
LEMMA BudgetStep == TypeOK /\ Budget /\ [Next]_vars => Budget'
<1> SUFFICES ASSUME TypeOK, Budget, [Next]_vars PROVE Budget'
  OBVIOUS
<1> USE TimingAssumption DEF TypeOK, Budget, InTime, Running, RetrySleep, Elapse,
                             WrittenOrNot
<1>1. CASE Nap          BY <1>1 DEF Nap
<1>2. CASE PingOk       BY <1>2 DEF PingOk
<1>3. CASE PingFail     BY <1>3 DEF PingFail
<1>4. CASE PingRefused  BY <1>4 DEF PingRefused
<1>5. CASE Leave        BY <1>5 DEF Leave
<1>6. CASE SetWorkers   BY <1>6 DEF SetWorkers
<1>7. CASE Stop         BY <1>7 DEF Stop
<1>8. CASE TickAsleep   BY <1>8 DEF TickAsleep
<1>9. CASE TickBusy     BY <1>9 DEF TickBusy
<1>10. CASE UNCHANGED vars  BY <1>10 DEF vars
<1> QED
  BY <1>1, <1>2, <1>3, <1>4, <1>5, <1>6, <1>7, <1>8, <1>9, <1>10 DEF Next

(***************************************************************************)
(* cluster_etcd_ping_thread_() keeps the entry alive until the member leaves, *)
(* for every ttl and refresh, as long as one refresh period, the retries and  *)
(* the lost seconds since the last renewal are less than the ttl.            *)
(***************************************************************************)
THEOREM EntryKept == Spec => []NeverExpires
<1>1. Init => Budget
  BY TimingAssumption DEF Init, Budget, RetrySleep
<1> QED  BY <1>1, BudgetStep, TypeCorrect, BudgetSuffices, PTL DEF Spec

(***************************************************************************)
(* A count that waits has waited since the last write of the entry at most.  *)
(***************************************************************************)
SinceWritten == left > 0 => pending <= TTL - left

LEMMA SinceWrittenStep == TypeOK /\ SinceWritten /\ [Next]_vars => SinceWritten'
<1> SUFFICES ASSUME TypeOK, SinceWritten, [Next]_vars PROVE SinceWritten'
  OBVIOUS
<1> USE TimingAssumption DEF TypeOK, SinceWritten, Running, Elapse, WrittenOrNot
<1>1. CASE Nap          BY <1>1 DEF Nap
<1>2. CASE PingOk       BY <1>2 DEF PingOk
<1>3. CASE PingFail     BY <1>3 DEF PingFail
<1>4. CASE PingRefused  BY <1>4 DEF PingRefused
<1>5. CASE Stop
  <2>1. pending' = pending /\ (left' = 0 \/ left' = left)  BY <1>5 DEF Stop
  <2> QED  BY <2>1
<1>6. CASE TickAsleep   BY <1>6 DEF TickAsleep
<1>7. CASE TickBusy     BY <1>7 DEF TickBusy
<1>8. CASE UNCHANGED vars  BY <1>8 DEF vars
<1>9. CASE Leave        BY <1>9 DEF Leave
<1>10. CASE SetWorkers  BY <1>10 DEF SetWorkers
<1> QED
  BY <1>1, <1>2, <1>3, <1>4, <1>5, <1>6, <1>7, <1>8, <1>9, <1>10 DEF Next

(***************************************************************************)
(* A count given to cluster_set_workers() is in the entry one period, the    *)
(* retries and the lost seconds later at most, for every ttl and refresh: the *)
(* count waits since the last write at most, and Budget says how long ago     *)
(* that was.                                                                *)
(***************************************************************************)
THEOREM CountReachesEntry == Spec => []CountPublished
<1>1. Init => Budget /\ SinceWritten
  BY TimingAssumption DEF Init, Budget, SinceWritten, RetrySleep
<1>2. TypeOK /\ Budget /\ SinceWritten => CountPublished
  <2> SUFFICES ASSUME TypeOK, Budget, SinceWritten, ~done, left > 0
               PROVE  pending <= Refresh + 1 + RetrySleep * fails + slack
    BY DEF CountPublished
  <2>1. left >= TTL + sleep - count - RetrySleep * fails - slack
    BY TimingAssumption DEF TypeOK, Budget
  <2> QED  BY <2>1, TimingAssumption DEF TypeOK, SinceWritten, RetrySleep
<1> QED
  BY <1>1, <1>2, BudgetStep, SinceWrittenStep, TypeCorrect, PTL DEF Spec
=============================================================================
