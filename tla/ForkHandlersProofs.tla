------------------------- MODULE ForkHandlersProofs -------------------------
(***************************************************************************)
(* The safety of the fork handlers, for any number of processes and faults.   *)
(*                                                                         *)
(* The argument: threads are started by the child handler of a new process,   *)
(* which has no children yet, or by a cluster_join(), and fork() is called    *)
(* only when there are none left.  So who has children has no threads, unless *)
(* it has called cluster_join() since the last fork().                       *)
(***************************************************************************)
EXTENDS ForkHandlers, TLAPS

(***************************************************************************)
(* Where the forking thread is in a child handler, and where it has joined    *)
(* the threads, in prepare or in an ancestor's.                              *)
(***************************************************************************)
Rejoining == {"child", "ping", "balance", "notify", "start"}

Joined == {"rebalanced", "blocked", "restore", "fork", "parent"} \cup Rejoining

Leaving == {"join", "rebalanced", "blocked", "restore", "leave"}

\* CF_LEAVING does not survive the handler or the call that raises it.
FlagInv(p) ==
  "LEAVING" \in flags[p] => app[p] \in Leaving

ThreadInv(p) ==
  /\ app[p] \in Joined => threads[p] = {}
  /\ app[p] = "run" /\ "JOINED" \notin flags[p] => threads[p] = {}

RoleInv(p) ==
  /\ role[p] = "withdrawn" => threads[p] = {}
  /\ app[p] \in {"rebalanced", "blocked", "restore", "fork", "parent", "child"}
       => role[p] = "withdrawn"

(***************************************************************************)
(* The object loses its index first, then the application is told.           *)
(***************************************************************************)
Unplaced(p) == ~placed[p].object /\ ~placed[p].told

PlaceInv(p) ==
  /\ app[p] \in {"rebalanced", "blocked"} => ~placed[p].object
  /\ role[p] = "withdrawn" /\ app[p] \notin Reporting => Unplaced(p)

ProcInv(p) == FlagInv(p) /\ ThreadInv(p) /\ RoleInv(p) /\ PlaceInv(p)

\* Who has descendants has no threads, and is past the point of starting any;
\* or it has joined by itself since.
Retired(p) == role[p] = "call" \/ (app[p] \notin Rejoining /\ threads[p] = {})

Lineage == \A q \in Proc : \A p \in line[q] : p \in Live /\ Retired(p)

Inv == TypeOK /\ (\A p \in Live : ProcInv(p)) /\ Lineage

-----------------------------------------------------------------------------
Placement == [object : BOOLEAN, told : BOOLEAN]

LEMMA PlacementType ==
  ASSUME NEW r \in Placement, NEW b \in BOOLEAN
  PROVE  /\ r.object \in BOOLEAN /\ r.told \in BOOLEAN
         /\ [r EXCEPT !.object = b] \in Placement
         /\ [r EXCEPT !.object = b].object = b
         /\ [object |-> b, told |-> b] \in Placement
BY Zenon DEF Placement

LEMMA PlacementTold ==
  ASSUME NEW r \in Placement, NEW b \in BOOLEAN
  PROVE  /\ [r EXCEPT !.told = b] \in Placement
         /\ [r EXCEPT !.told = b].told = b
         /\ [r EXCEPT !.told = b].object = r.object
BY Zenon DEF Placement

(***************************************************************************)
(* The types of all variables but placed, and of placed.                     *)
(***************************************************************************)
Types ==
  /\ born \in Proc /\ line \in [Proc -> SUBSET Proc]
  /\ listed \in BOOLEAN /\ events \in 0..MaxEvents
  /\ flags \in [Proc -> SUBSET {"JOINED", "LEAVING"}]
  /\ saved \in [Proc -> SUBSET {"JOINED"}]
  /\ threads \in [Proc -> SUBSET Engine]
  /\ lock \in [Proc -> {"free", "write", "damaged"}]
  /\ list \in [Proc -> {"free", "lost"}]
  /\ app \in [Proc -> AppLocations] /\ role \in [Proc -> Roles]

LEMMA TypeParts == TypeOK <=> Types /\ placed \in [Proc -> Placement]
BY DEF TypeOK, Types, Placement

LEMMA LiveProc == Types => Live \subseteq Proc
BY ProcsAssumption DEF Types, Live, Proc

(***************************************************************************)
(* What the actions of a process do to placed.  Only a few actions, and       *)
(* fork(), change it.                                                       *)
(***************************************************************************)
LEMMA PlacedSteps ==
  ASSUME Types, placed \in [Proc -> Placement], NEW k \in Proc, Step(k)
  PROVE  /\ placed' \in [Proc -> Placement]
         /\ ~Fork(k) => \A p \in Proc \ {k} : placed'[p] = placed[p]
         /\ Withdraw(k) => ~placed'[k].object
         /\ Rebalanced(k) \/ JoinNotify(k)
              => /\ placed'[k].object = placed[k].object
                 /\ placed'[k].told = placed[k].object
<1>1. placed[k] \in Placement
  OBVIOUS
<1>2. listed \in BOOLEAN /\ placed[k].object \in BOOLEAN
  BY <1>1, PlacementType, Zenon DEF Types
<1>3. CASE Withdraw(k)
  <2>1. placed' = [placed EXCEPT ![k] = [placed[k] EXCEPT !.object = FALSE]]
    BY <1>3 DEF Withdraw
  <2>2. /\ [placed[k] EXCEPT !.object = FALSE] \in Placement
        /\ [placed[k] EXCEPT !.object = FALSE].object = FALSE
    BY <1>1, PlacementType, Zenon
  <2>3. ~Rebalanced(k) /\ ~JoinNotify(k)
    BY <1>3 DEF Withdraw, Rebalanced, JoinNotify, Goto
  <2> QED  BY <2>1, <2>2, <2>3
<1>4. CASE Rebalanced(k) \/ JoinNotify(k)
  <2> DEFINE r == [placed[k] EXCEPT !.told = placed[k].object]
  <2>1. placed' = [placed EXCEPT ![k] = r]
    BY <1>4 DEF Rebalanced, JoinNotify
  <2>2. r \in Placement /\ r.object = placed[k].object /\ r.told = placed[k].object
    <3>1. PICK b \in BOOLEAN : b = placed[k].object
      BY <1>2
    <3>2. /\ [placed[k] EXCEPT !.told = b] \in Placement
          /\ [placed[k] EXCEPT !.told = b].object = placed[k].object
          /\ [placed[k] EXCEPT !.told = b].told = b
      BY <1>1, PlacementTold, Zenon
    <3> QED  BY <3>1, <3>2, Zenon
  <2>3. ~Withdraw(k)
    BY <1>4 DEF Withdraw, Rebalanced, JoinNotify, Goto
  <2> HIDE DEF r
  <2>4. placed'[k] = r /\ placed' \in [Proc -> Placement]
    BY <2>1, <2>2
  <2>5. \A p \in Proc \ {k} : placed'[p] = placed[p]
    BY <2>1
  <2> QED  BY <2>2, <2>3, <2>4, <2>5
<1>5. CASE JoinBalance(k) \/ BalReport(k)
  <2>1. \E r \in Placement : placed' = [placed EXCEPT ![k] = r]
    <3>1. CASE JoinBalance(k)
      BY <3>1, <1>1, <1>2, PlacementType DEF JoinBalance
    <3>2. CASE BalReport(k)
      BY <3>2, <1>2, PlacementType DEF BalReport
    <3> QED  BY <1>5, <3>1, <3>2
  <2>2. ~Withdraw(k) /\ ~Rebalanced(k) /\ ~JoinNotify(k)
    <3>1. CASE JoinBalance(k)
      BY <3>1 DEF JoinBalance, Withdraw, Rebalanced, JoinNotify, Goto
    <3>2. CASE BalReport(k)
      <4>1. app' = app
        BY <3>2 DEF BalReport
      <4>2. app[k] \in AppLocations
        BY DEF Types
      <4> QED  BY <4>1 DEF Withdraw, Rebalanced, JoinNotify, Goto, Types
    <3> QED  BY <1>5, <3>1, <3>2
  <2> QED  BY <2>1, <2>2
<1>9. CASE Join(k)
  <2>1. placed' = [placed EXCEPT ![k] = [placed[k] EXCEPT !.object = FALSE]]
    BY <1>9 DEF Join
  <2>2. [placed[k] EXCEPT !.object = FALSE] \in Placement
    BY <1>1, PlacementType, Zenon
  <2>3. ~Withdraw(k) /\ ~Rebalanced(k) /\ ~JoinNotify(k)
    BY <1>9 DEF Join, Withdraw, Rebalanced, JoinNotify, Goto
  <2> QED  BY <2>1, <2>2, <2>3
<1>6. CASE Fork(k)
  <2>1. placed' \in [Proc -> Placement]
    BY <1>6, <1>1 DEF Fork
  <2>2. ~Withdraw(k) /\ ~Rebalanced(k) /\ ~JoinNotify(k)
    BY <1>6 DEF Fork, Withdraw, Rebalanced, JoinNotify, Goto
  <2> QED  BY <1>6, <2>1, <2>2
<1>7. CASE UNCHANGED placed /\ ~Withdraw(k) /\ ~Rebalanced(k) /\ ~JoinNotify(k)
  BY <1>7
<1>8. ASSUME ~Withdraw(k), ~Rebalanced(k), ~JoinNotify(k),
             ~JoinBalance(k), ~BalReport(k), ~Join(k), ~Fork(k)
      PROVE  UNCHANGED placed
  BY <1>8 DEF Step, Calls, Handler, Threads, Failures, Prepare, RebalancedBlocks,
     Restore, ForkFail, Parent, Child, JoinPing, JoinFail, JoinStart, Start,
     Leave, LeaveFinish, PingSend, PingEnd, PingEndFail, BalEnd, Ends, object
<1> QED  BY <1>3, <1>4, <1>5, <1>6, <1>7, <1>8, <1>9

(***************************************************************************)
(* The types of the other variables.  What prepare saves lacks CF_LEAVING,    *)
(* because it is not left over from an earlier call (FlagInv).               *)
(***************************************************************************)
LEMMA TypesStep ==
  ASSUME Types, NEW k \in Live, FlagInv(k), Step(k)
  PROVE  Types'
<1> USE ProcsAssumption
<1>1. k \in Proc
  BY LiveProc
<1>0. /\ "run" \in AppLocations /\ "ping" \in AppLocations
      /\ "none" \in Roles /\ "call" \in Roles /\ "withdrawn" \in Roles
      /\ "heir" \in Roles /\ "mute" \in Roles
  BY DEF AppLocations, Roles
<1>e. ASSUME Event PROVE events' \in 0..MaxEvents
  BY <1>e DEF Event, Types
<1>2. CASE Calls(k)
  <2>1. CASE Prepare(k)
    <3>1. flags[k] \in SUBSET {"JOINED", "LEAVING"} /\ "LEAVING" \notin flags[k]
      BY <1>1, <2>1 DEF Types, Prepare, Goto, FlagInv, Leaving
    <3>2. flags[k] \in SUBSET {"JOINED"}
      BY <3>1
    <3> QED
      BY <1>1, <2>1, <3>2 DEF Types, Prepare, Goto, locks, AppLocations
  <2>2. CASE Leave(k)
    BY <1>1, <2>2 DEF Types, Leave, Goto, locks, AppLocations
  <2>3. CASE LeaveFinish(k)
    BY <1>0, <1>1, <2>3 DEF Types, LeaveFinish, Goto, SetRole, locks
  <2>4. CASE Join(k)
    BY <1>0, <1>1, <1>e, <2>4 DEF Types, Join, Goto, SetLock, SetRole
  <2> QED  BY <1>2, <2>1, <2>2, <2>3, <2>4 DEF Calls
<1>3. CASE Withdraw(k) \/ Rebalanced(k) \/ RebalancedBlocks(k) \/ Restore(k)
  <2>1. CASE Restore(k)
    <3>1. saved[k] \in SUBSET {"JOINED", "LEAVING"}
      BY <1>1 DEF Types
    <3> QED
      BY <1>1, <2>1, <3>1 DEF Types, Restore, Goto, locks, AppLocations
  <2>2. CASE Withdraw(k)
    BY <1>0, <1>1, <2>2 DEF Types, Withdraw, Goto, SetLock, SetRole, AppLocations
  <2>3. CASE Rebalanced(k) \/ RebalancedBlocks(k)
    BY <1>1, <2>3 DEF Types, Rebalanced, RebalancedBlocks, Goto,
       SetLock, locks, object, AppLocations
  <2> QED  BY <1>3, <2>1, <2>2, <2>3
<1>4. CASE Fork(k)
  <2>1. born + 1 \in Proc
    BY <1>4 DEF Fork
  <2>2. line[k] \cup {k} \in SUBSET Proc
    BY <1>1 DEF Types
  <2>3. born' \in Proc /\ line' \in [Proc -> SUBSET Proc]
    BY <1>4, <2>1, <2>2 DEF Fork, Types
  <2>4. /\ flags' \in [Proc -> SUBSET {"JOINED", "LEAVING"}]
        /\ saved' \in [Proc -> SUBSET {"JOINED"}]
        /\ threads' \in [Proc -> SUBSET Engine]
        /\ role' \in [Proc -> Roles]
    BY <1>1, <1>4, <2>1 DEF Fork, Types
  <2>5. /\ lock' \in [Proc -> {"free", "write", "damaged"}]
        /\ list' \in [Proc -> {"free", "lost"}]
        /\ app' \in [Proc -> AppLocations]
    BY <1>1, <1>4, <2>1 DEF Fork, Types, AppLocations
  <2>6. listed' \in BOOLEAN /\ events' \in 0..MaxEvents
    BY <1>4 DEF Fork, Types
  <2> QED  BY <2>3, <2>4, <2>5, <2>6 DEF Types
<1>5. CASE Parent(k) \/ Child(k)
  BY <1>1, <1>5 DEF Types, Parent, Child, Goto, SetLock, object, AppLocations
<1>6. CASE JoinPing(k) \/ JoinBalance(k) \/ JoinNotify(k) \/ JoinStart(k)
  <2>1. CASE JoinPing(k)
    BY <1>1, <2>1 DEF Types, JoinPing, Goto, object, locks, AppLocations
  <2>2. CASE JoinBalance(k) \/ JoinNotify(k)
    BY <1>1, <2>2 DEF Types, JoinBalance, JoinNotify, Goto, SetLock,
       AppLocations
  <2>3. CASE JoinStart(k)
    <3>1. PICK started \in SUBSET Engine :
            Start(k, started) /\ (UNCHANGED events \/ Event)
      BY <2>3 DEF JoinStart
    <3>2. events' \in 0..MaxEvents
      BY <1>e, <3>1 DEF Types
    <3>3. role' \in [Proc -> Roles]
      BY <1>0, <1>1, <3>1 DEF Start, SetRole, Types
    <3>4. flags' \in [Proc -> SUBSET {"JOINED", "LEAVING"}]
      BY <1>1, <3>1 DEF Start, Types
    <3> QED
      BY <1>0, <1>1, <3>1, <3>2, <3>3, <3>4 DEF Types, Start, Goto, SetLock
  <2> QED  BY <1>6, <2>1, <2>2, <2>3
<1>7. CASE Threads(k) \/ PingEndFail(k)
  <2>1. listed' \in BOOLEAN
    BY <1>7, Zenon DEF Threads, PingSend, PingEnd, PingEndFail, BalEnd, BalReport,
       Types
  <2>2. threads' \in [Proc -> SUBSET Engine]
    <3>1. CASE PingSend(k) \/ BalReport(k)
      BY <3>1 DEF PingSend, BalReport, Types, object
    <3>2. CASE \E t \in Engine : Ends(k, t)
      BY <1>1, <3>2 DEF Ends, Types
    <3> QED
      BY <1>7, <3>1, <3>2 DEF Threads, PingEnd, PingEndFail, BalEnd, Engine
  <2>3. UNCHANGED <<born, line, flags, saved, lock, list, app, role>>
    BY <1>7 DEF Threads, PingSend, PingEnd, PingEndFail, BalEnd, BalReport, Ends,
       object, locks
  <2>4. events' \in 0..MaxEvents
    BY <1>7, <1>e DEF Threads, PingSend, PingEnd, PingEndFail, BalEnd, BalReport,
       Types
  <2> QED  BY <2>1, <2>2, <2>3, <2>4 DEF Types
<1>8. CASE ForkFail(k)
  BY <1>1, <1>8, <1>e DEF ForkFail, Goto, Types, object, locks, AppLocations
<1>9. CASE JoinFail(k)
  <2>1. listed' \in BOOLEAN
    BY <1>9, Zenon DEF JoinFail, Types
  <2>2. app' \in [Proc -> AppLocations]
    BY <1>0, <1>1, <1>9 DEF JoinFail, Goto, Types
  <2>3. events' \in 0..MaxEvents
    BY <1>9, <1>e DEF JoinFail
  <2> QED
    BY <1>0, <1>1, <1>9, <2>1, <2>2, <2>3 DEF JoinFail, SetLock, SetRole, Types
<1> QED
  BY <1>2, <1>3, <1>4, <1>5, <1>6, <1>7, <1>8, <1>9 DEF Step, Handler, Failures

-----------------------------------------------------------------------------
(***************************************************************************)
(* A step of one process leaves the state of the others alone; only fork()    *)
(* makes a process.                                                         *)
(***************************************************************************)
Same(p) ==
  /\ flags'[p] = flags[p] /\ threads'[p] = threads[p]
  /\ app'[p] = app[p] /\ placed'[p] = placed[p] /\ role'[p] = role[p]

LEMMA SameInv ==
  ASSUME NEW p, ProcInv(p), Same(p)
  PROVE  ProcInv(p)'
BY DEF ProcInv, Same, FlagInv, ThreadInv, RoleInv, PlaceInv, Unplaced

LEMMA Frame ==
  ASSUME TypeOK, NEW k \in Live, Step(k), ~Fork(k)
  PROVE  /\ UNCHANGED <<born, line>>
         /\ \A p \in Proc \ {k} : Same(p)
<1>1. k \in Proc
  BY LiveProc, TypeParts
<1>2. Types /\ placed \in [Proc -> Placement]
  BY TypeParts
<1>3. \A p \in Proc \ {k} : placed'[p] = placed[p]
  BY <1>1, <1>2, PlacedSteps
<1>4. /\ UNCHANGED <<born, line>>
      /\ \A p \in Proc \ {k} : /\ flags'[p] = flags[p]
                               /\ threads'[p] = threads[p]
                               /\ app'[p] = app[p]
                               /\ role'[p] = role[p]
  <2> USE <1>1, <1>2 DEF Types, object, Goto, SetRole
  <2>1. CASE Calls(k)
    BY <2>1 DEF Calls, Prepare, Join, Leave, LeaveFinish
  <2>2. CASE Withdraw(k) \/ Rebalanced(k) \/ RebalancedBlocks(k) \/ Restore(k)
    BY <2>2 DEF Withdraw, Rebalanced, RebalancedBlocks, Restore
  <2>3. CASE Parent(k) \/ Child(k)
    BY <2>3 DEF Parent, Child
  <2>4. CASE JoinPing(k) \/ JoinBalance(k) \/ JoinNotify(k) \/ JoinStart(k)
    BY <2>4 DEF JoinPing, JoinBalance, JoinNotify, JoinStart, Start
  <2>5. CASE Threads(k)
    BY <2>5 DEF Threads, PingSend, PingEnd, BalEnd, BalReport, Ends
  <2>6. CASE Failures(k)
    BY <2>6 DEF Failures, ForkFail, JoinFail, PingEndFail, Ends
  <2> QED
    BY <2>1, <2>2, <2>3, <2>4, <2>5, <2>6 DEF Step, Handler
<1> QED  BY <1>3, <1>4 DEF Same

-----------------------------------------------------------------------------
(***************************************************************************)
(* What a step other than fork() does to its own process.                    *)
(***************************************************************************)
LEMMA OwnStep ==
  ASSUME TypeOK, NEW k \in Live, ProcInv(k), Step(k), ~Fork(k)
  PROVE  ProcInv(k)'
<1>1. k \in Proc /\ Types /\ placed \in [Proc -> Placement]
  BY LiveProc, TypeParts
<1>2. /\ Withdraw(k) => ~placed'[k].object
      /\ Rebalanced(k) \/ JoinNotify(k)
           => /\ placed'[k].object = placed[k].object
              /\ placed'[k].told = placed[k].object
  BY <1>1, PlacedSteps
<1> USE <1>1 DEF ProcInv, FlagInv, ThreadInv, RoleInv, PlaceInv, Unplaced,
    Leaving, Joined, Rejoining, Reporting, Goto, Types
<1>3. CASE Prepare(k)
  BY <1>3 DEF Prepare
<1>4. CASE Leave(k)
  BY <1>4 DEF Leave
<1>5. CASE LeaveFinish(k)
  BY <1>5 DEF LeaveFinish, SetRole
<1>6. CASE Withdraw(k)
  BY <1>2, <1>6 DEF Withdraw, SetRole
<1>7. CASE RebalancedBlocks(k)
  BY <1>7 DEF RebalancedBlocks, object
<1>8. CASE Rebalanced(k)
  BY <1>2, <1>8 DEF Rebalanced
<1>9. CASE Restore(k)
  BY <1>9 DEF Restore
<1>10. CASE Parent(k)
  BY <1>10 DEF Parent, object
<1>11. CASE Child(k)
  BY <1>11 DEF Child, object
<1>12. CASE Join(k)
  BY <1>12 DEF Join, SetRole
<1>13. CASE JoinPing(k)
  BY <1>13 DEF JoinPing, object
<1>14. CASE JoinBalance(k)
  BY <1>14 DEF JoinBalance
<1>15. CASE JoinNotify(k)
  BY <1>15 DEF JoinNotify
<1>16. CASE JoinStart(k)
  <2>1. PICK started \in SUBSET Engine : Start(k, started)
    BY <1>16 DEF JoinStart
  <2>2. /\ app[k] = "start" /\ app'[k] = "run"
        /\ "JOINED" \in flags'[k] /\ ("LEAVING" \in flags'[k] => "LEAVING" \in flags[k])
        /\ role'[k] # "withdrawn"
    BY <2>1 DEF Start, SetRole
  <2> QED  BY <2>2
<1>17. CASE PingSend(k)
  BY <1>17 DEF PingSend, object
<1>18. CASE PingEnd(k) \/ PingEndFail(k) \/ BalEnd(k)
  <2>1. PICK t \in Engine : Ends(k, t)
    BY <1>18 DEF PingEnd, PingEndFail, BalEnd, Engine
  <2>2. app[k] \in {"join", "leave"} /\ role[k] # "withdrawn"
    BY <2>1 DEF Ends, Runs
  <2> QED  BY <2>1, <2>2 DEF Ends
<1>19. CASE BalReport(k)
  <2>1. "balancer" \in threads[k] /\ UNCHANGED <<flags, threads, app, role>>
    BY <1>19 DEF BalReport, Runs
  <2>2. app[k] \notin Joined /\ threads[k] # {} /\ role[k] # "withdrawn"
    BY <2>1
  <2> QED  BY <2>1, <2>2
<1>20. CASE ForkFail(k)
  BY <1>20 DEF ForkFail, object
<1>21. CASE JoinFail(k)
  BY <1>21 DEF JoinFail, SetRole
<1> QED
  BY <1>3, <1>4, <1>5, <1>6, <1>7, <1>8, <1>9, <1>10, <1>11, <1>12, <1>13,
     <1>14, <1>15, <1>16, <1>17, <1>18, <1>19, <1>20, <1>21
     DEF Step, Calls, Handler, Threads, Failures

(***************************************************************************)
(* Threads are started by JoinStart only, and only a new process comes there, *)
(* or one that has called cluster_join().  That ends with the call's failure, *)
(* with a leave or with a fork, when the threads have ended.                 *)
(***************************************************************************)
LEMMA StaysRetired ==
  ASSUME TypeOK, NEW k \in Live, ProcInv(k), Step(k), ~Fork(k), Retired(k)
  PROVE  Retired(k)'
<1>1. k \in Proc /\ Types
  BY LiveProc, TypeParts
<1> USE <1>1 DEF Retired, Rejoining, Goto, Types, SetRole
<1>2. CASE Join(k)
  BY <1>2 DEF Join
<1>3. CASE Prepare(k) \/ Leave(k) \/ LeaveFinish(k)
  BY <1>3 DEF Prepare, Leave, LeaveFinish
<1>4. CASE Withdraw(k) \/ Rebalanced(k) \/ RebalancedBlocks(k) \/ Restore(k)
  BY <1>4 DEF Withdraw, Rebalanced, RebalancedBlocks, Restore, object
<1>5. CASE Parent(k) \/ Child(k)
  BY <1>5 DEF Parent, Child, object
<1>6. CASE JoinPing(k) \/ JoinBalance(k) \/ JoinNotify(k)
  BY <1>6 DEF JoinPing, JoinBalance, JoinNotify, object
<1>7. CASE JoinStart(k)
  <2>1. role[k] = "call"
    BY <1>7 DEF JoinStart, Start
  <2>2. PICK started \in SUBSET Engine : Start(k, started)
    BY <1>7 DEF JoinStart
  <2>3. role' = [role EXCEPT ![k] = "call"]
    BY <2>1, <2>2 DEF Start
  <2> QED  BY <2>3
<1>8. CASE Threads(k) \/ PingEndFail(k)
  BY <1>8 DEF Threads, PingSend, PingEnd, PingEndFail, BalEnd, BalReport, Ends,
     Runs, object
<1>9. CASE ForkFail(k)
  BY <1>9 DEF ForkFail, object
<1>10. CASE JoinFail(k)
  BY <1>10 DEF JoinFail, ProcInv, ThreadInv, Joined
<1> QED
  BY <1>2, <1>3, <1>4, <1>5, <1>6, <1>7, <1>8, <1>9, <1>10
  DEF Step, Calls, Handler, Failures

(***************************************************************************)
(* fork(): the child begins where the parent has come to, and whoever it      *)
(* descends from is retired, the parent included.                           *)
(***************************************************************************)
LEMMA ForkStep ==
  ASSUME Inv, NEW k \in Live, Fork(k)
  PROVE  (\A p \in Live : ProcInv(p))' /\ Lineage'
<1>1. /\ k \in Proc /\ Types /\ placed \in [Proc -> Placement]
      /\ Live \subseteq Proc
  BY LiveProc, TypeParts DEF Inv
<1>c. PICK c : c = born + 1
  OBVIOUS
<1>2. c \in Proc /\ c \notin Live /\ k # c /\ Live' = Live \cup {c}
  BY <1>1, <1>c, ProcsAssumption DEF Fork, Live, Types, Proc
<1>3. /\ app' = [app EXCEPT ![k] = "parent", ![c] = "child"]
      /\ line' = [line EXCEPT ![c] = line[k] \cup {k}]
      /\ flags' = [flags EXCEPT ![c] = flags[k]]
      /\ placed' = [placed EXCEPT ![c] = placed[k]]
      /\ threads' = [threads EXCEPT ![c] = {}]
      /\ role' = [role EXCEPT ![c] = role[k]]
      /\ app[k] = "fork"
  BY <1>c DEF Fork
<1>4. ASSUME NEW p \in Proc \ {k, c} PROVE Same(p)
  BY <1>1, <1>2, <1>3 DEF Same, Types
<1>5. /\ app'[k] = "parent" /\ flags'[k] = flags[k] /\ placed'[k] = placed[k]
      /\ threads'[k] = threads[k] /\ role'[k] = role[k]
  BY <1>1, <1>2, <1>3 DEF Types
<1>6. /\ app'[c] = "child" /\ flags'[c] = flags[k] /\ placed'[c] = placed[k]
      /\ threads'[c] = {} /\ role'[c] = role[k]
  BY <1>1, <1>2, <1>3 DEF Types
<1>7. ProcInv(k)
  BY DEF Inv
<1>8. /\ threads[k] = {} /\ "LEAVING" \notin flags[k] /\ Unplaced(k)
      /\ role[k] = "withdrawn"
  BY <1>3, <1>7 DEF ProcInv, FlagInv, ThreadInv, RoleInv, PlaceInv, Joined,
     Leaving, Reporting
<1>9. ProcInv(k)' /\ ProcInv(c)'
  BY <1>5, <1>6, <1>8 DEF ProcInv, FlagInv, ThreadInv, RoleInv, PlaceInv, Unplaced
<1>10. ASSUME NEW p \in Live' PROVE ProcInv(p)'
  <2>1. CASE p \in {k, c}
    BY <1>9, <2>1
  <2>2. CASE p \notin {k, c}
    <3>1. p \in Live /\ p \in Proc \ {k, c}
      BY <1>1, <1>2, <2>2
    <3>2. ProcInv(p) /\ Same(p)
      BY <1>4, <3>1 DEF Inv
    <3> QED  BY <3>2, SameInv
  <2> QED  BY <2>1, <2>2
<1>11. Retired(k)'
  BY <1>5, <1>8 DEF Retired, Rejoining
<1>12. ASSUME NEW p \in Live, Retired(p) PROVE p \in Live' /\ Retired(p)'
  <2>1. p \in Live' /\ p # c
    BY <1>2
  <2>2. CASE p = k
    BY <1>11, <2>1, <2>2
  <2>3. CASE p # k
    <3>1. Same(p)
      BY <1>1, <1>4, <2>1, <2>3
    <3> QED  BY <1>12, <2>1, <3>1 DEF Same, Retired
  <2> QED  BY <2>2, <2>3
<1>13. ASSUME NEW q \in Proc, NEW p \in line'[q]
       PROVE  p \in Live' /\ Retired(p)'
  <2>1. p \in line[q] \/ p \in line[k] \/ p = k
    BY <1>1, <1>2, <1>3 DEF Types
  <2>2. CASE p = k
    BY <1>2, <1>11, <2>2
  <2>3. CASE p # k
    <3>1. p \in Live /\ Retired(p)
      BY <1>1, <2>1, <2>3 DEF Inv, Lineage
    <3> QED  BY <1>12, <3>1
  <2> QED  BY <2>2, <2>3
<1> QED  BY <1>10, <1>13 DEF Lineage

-----------------------------------------------------------------------------
LEMMA InitInv == Init => Inv
<1> SUFFICES ASSUME Init PROVE Inv
  OBVIOUS
<1>1. PICK joined \in BOOLEAN :
        /\ listed = joined
        /\ flags = [p \in Proc |-> IF joined THEN {"JOINED"} ELSE {}]
        /\ placed = [p \in Proc |-> [object |-> joined, told |-> joined]]
        /\ threads = [p \in Proc |-> IF joined /\ p = 1 THEN Engine ELSE {}]
        /\ role = [p \in Proc |-> IF joined THEN "call" ELSE "none"]
  BY DEF Init
<1>2. 1 \in Proc /\ 0 \in 0..MaxEvents /\ Live = {1}
  BY ProcsAssumption DEF Init, Proc, Live
<1>3. placed \in [Proc -> Placement]
  BY <1>1, <1>2 DEF Placement
<1>4. listed \in BOOLEAN
  BY <1>1
<1>5. Types
  BY <1>1, <1>2, <1>4 DEF Init, Types, AppLocations, Roles
<1>6. ProcInv(1)
  <2>1. app[1] = "run" /\ "LEAVING" \notin flags[1] /\ role[1] # "withdrawn"
    BY <1>1, <1>2 DEF Init
  <2>2. "JOINED" \notin flags[1] => threads[1] = {}
    BY <1>1, <1>2
  <2> QED
    BY <2>1, <2>2 DEF ProcInv, FlagInv, ThreadInv, RoleInv, PlaceInv, Joined,
       Rejoining
<1>7. Lineage
  BY DEF Init, Lineage
<1> QED  BY <1>2, <1>3, <1>5, <1>6, <1>7, TypeParts DEF Inv

LEMMA NextInv == Inv /\ [Next]_vars => Inv'
<1> SUFFICES ASSUME Inv, [Next]_vars PROVE Inv'
  OBVIOUS
<1>1. /\ TypeOK /\ Types /\ placed \in [Proc -> Placement] /\ Lineage
      /\ Live \subseteq Proc
  BY LiveProc, TypeParts DEF Inv
<1>2. ASSUME NEW k \in Live, Step(k) PROVE Inv'
  <2>1. ProcInv(k) /\ FlagInv(k)
    BY DEF Inv, ProcInv
  <2>2. Types' /\ placed' \in [Proc -> Placement]
    BY <1>1, <1>2, <2>1, TypesStep, PlacedSteps
  <2>3. TypeOK'
    BY <2>2, TypeParts DEF TypeOK, Types, Placement
  <2>4. CASE Fork(k)
    BY <2>3, <2>4, ForkStep DEF Inv
  <2>5. CASE ~Fork(k)
    <3>1. Live' = Live /\ line' = line /\ \A p \in Proc \ {k} : Same(p)
      BY <1>1, <1>2, <2>5, Frame DEF Live
    <3>2. ASSUME NEW p \in Live' PROVE ProcInv(p)'
      <4>1. CASE p = k
        BY <1>1, <1>2, <2>1, <2>5, <4>1, OwnStep
      <4>2. CASE p # k
        BY <1>1, <3>1, <4>2, SameInv DEF Inv
      <4> QED  BY <4>1, <4>2
    <3>3. ASSUME NEW q \in Proc, NEW p \in line'[q]
          PROVE  p \in Live' /\ Retired(p)'
      <4>1. Retired(p) /\ p \in Live /\ p \in Live'
        BY <1>1, <3>1 DEF Lineage
      <4>2. CASE p = k
        BY <1>1, <1>2, <2>1, <2>5, <4>1, <4>2, StaysRetired
      <4>3. CASE p # k
        <5>1. Same(p)
          BY <1>1, <3>1, <4>1, <4>3
        <5> QED  BY <3>1, <4>1, <5>1 DEF Same, Retired
      <4> QED  BY <4>2, <4>3
    <3> QED  BY <2>3, <3>2, <3>3 DEF Inv, Lineage
  <2> QED  BY <2>4, <2>5
<1>3. CASE Expire \/ UNCHANGED vars
  <2>1. UNCHANGED <<born, line, flags, saved, placed, threads, lock, list, app,
                    role, events>>
    BY <1>3 DEF Expire, vars, object, locks
  <2>2. listed' \in BOOLEAN
    BY <1>1, <1>3 DEF Expire, vars, Types
  <2>3. TypeOK'
    BY <1>1, <2>1, <2>2 DEF TypeOK
  <2>4. (\A p \in Live : ProcInv(p))' /\ Lineage'
    BY <2>1 DEF Inv, Lineage, Retired, Live, ProcInv, FlagInv, ThreadInv,
       RoleInv, PlaceInv, Unplaced
  <2> QED  BY <2>3, <2>4 DEF Inv
<1> QED  BY <1>2, <1>3 DEF Next

LEMMA Invariance == Spec => []Inv
BY InitInv, NextInv, PTL DEF Spec

-----------------------------------------------------------------------------
(***************************************************************************)
(* The variables keep their types, for any number of processes; in            *)
(* particular what the prepare handlers save and restore never has            *)
(* CF_LEAVING in it.                                                        *)
(***************************************************************************)
THEOREM TypeCorrect == Spec => []TypeOK
<1>1. Inv => TypeOK
  BY DEF Inv
<1> QED  BY <1>1, Invariance, PTL

(***************************************************************************)
(* cluster_fork_prepare_() has joined the threads before fork() is called, and *)
(* a process that has forked stays without an index, in the object and in     *)
(* what its application was told last, until it leaves or joins itself.       *)
(***************************************************************************)
THEOREM StaysWithdrawn == Spec => []Withdrawn
<1>1. Inv => Withdrawn
  BY DEF Inv, Withdrawn, ProcInv, ThreadInv, PlaceInv, Unplaced, Joined,
     Rejoining
<1> QED  BY <1>1, Invariance, PTL

(***************************************************************************)
(* Who has forked has no threads of a membership any more, whatever it, its   *)
(* descendants and the other threads do afterwards, and no handler gives it   *)
(* any: only a cluster_join() of its own does.                              *)
(***************************************************************************)
THEOREM ParentsRetired == Spec => []Lineage
<1>1. Inv => Lineage
  BY DEF Inv
<1> QED  BY <1>1, Invariance, PTL

(***************************************************************************)
(* The ping threads of a process and of a descendant keep the same entry at   *)
(* the same time only if the process has called cluster_join() itself after   *)
(* its last fork().                                                         *)
(***************************************************************************)
THEOREM Succeeds == Spec => []Succession
<1>1. Inv => Succession
  <2> SUFFICES ASSUME Inv, NEW p \in Live, NEW q \in Live, p \in line[q],
                      "ping" \in threads[p]
               PROVE  role[p] = "call"
    BY DEF Succession
  <2>1. q \in Proc
    BY LiveProc, TypeParts DEF Inv
  <2> QED  BY <2>1 DEF Inv, Lineage, Retired
<1> QED  BY <1>1, Invariance, PTL

(***************************************************************************)
(* Of any two processes one descends from the other: nobody has forked twice. *)
(***************************************************************************)
OneLine == \A p, q \in Live : p = q \/ p \in line[q] \/ q \in line[p]

(***************************************************************************)
(* The promise of libcluster.h for CLUSTER_FORK_CHILD, that the membership is *)
(* transferred, is kept by the handlers up to the second fork() of a process: *)
(* this is all that it takes to break it, whatever fails and whoever leaves   *)
(* and joins by itself.                                                     *)
(***************************************************************************)
THEOREM TransferredInLine == Spec => [](OneLine => Transferred)
<1>1. Succession => (OneLine => Transferred)
  BY DEF Succession, OneLine, Transferred
<1> QED  BY <1>1, Succeeds, PTL
=============================================================================
