----------------------------- MODULE Membership -----------------------------
(***************************************************************************)
(* What a registry-based engine promises to the applications of a cluster,    *)
(* whatever the registry is and however its threads work.                    *)
(*                                                                         *)
(* A member goes out -> joining -> in -> leaving -> out, or dies.  While it   *)
(* is not out it publishes its worker count in the directory, observes the    *)
(* directory, and reports each new numbering that it observes to its          *)
(* application, once, before it observes another one or leaves.  Entries      *)
(* disappear from the directory for reasons of their own.                    *)
(*                                                                         *)
(* EtcdCluster and SqlCluster are shown to implement this specification.      *)
(***************************************************************************)
EXTENDS Numbering

CONSTANTS
  Node,         \* the instance identifiers
  MinWorkers,   \* the smallest worker count a member sets, which may be negative
  MaxWorkers,   \* the largest
  Revives       \* a member that is in may publish again after it was dropped

Absent == MinWorkers - 1  \* no worker count

VARIABLES
  dir,         \* the worker count published by each node, or Absent
  workers,     \* the worker count set by each application
  phase,       \* out, joining, in or leaving
  observers,   \* the nodes that take part without a number of their own
  view,        \* the numbering that each member knows
  due,         \* the members with a view that they have not reported yet
  told         \* the last view reported to the application, if any

vars == <<dir, workers, phase, observers, view, due, told>>

-----------------------------------------------------------------------------
Members == {n \in Node : dir[n] # Absent}

\* The numbering of the directory, as node n reads it at this moment.
Numbered(n) ==
  [index |-> IF n \in Members \ observers
             THEN SumBefore(dir, Members, n) ELSE -1,
   total |-> SumOf(dir, Members)]

Init ==
  /\ dir       = [n \in Node |-> Absent]
  /\ workers   = [n \in Node |-> 1]
  /\ phase     = [n \in Node |-> "out"]
  /\ observers = {}
  /\ view      = [n \in Node |-> [index |-> 0, total |-> 0]]
  /\ due       = {}
  /\ told      = [n \in Node |-> {}]

-----------------------------------------------------------------------------
\* A join begins: until the first observation the member has no number.
Starts(n) ==
  /\ phase[n] = "out"
  /\ observers' \in {observers, observers \cup {n}}
  /\ view' = [view EXCEPT ![n].index = -1]
  /\ told' = [told EXCEPT ![n] = {}]
  /\ UNCHANGED <<dir, workers, due>>

Begin(n) == Starts(n) /\ phase' = [phase EXCEPT ![n] = "joining"]

\* The registry cannot be reached.
Refused(n) == Starts(n) /\ UNCHANGED phase

SetWorkers(n, w) ==
  /\ workers' = [workers EXCEPT ![n] = w]
  /\ UNCHANGED <<dir, phase, observers, view, due, told>>

\* An entry is created by a join, and renewed until the member leaves.
MayPublish(n) ==
  /\ n \notin observers
  /\ \/ phase[n] = "joining"
     \/ phase[n] = "in" /\ (Revives \/ n \in Members)

Publish(n) ==
  /\ MayPublish(n)
  /\ dir' = [dir EXCEPT ![n] = workers[n]]
  /\ UNCHANGED <<workers, phase, observers, view, due, told>>

\* Entries disappear: deleted, or expired.
Drop(S) ==
  /\ dir' = [n \in Node |-> IF n \in S THEN Absent ELSE dir[n]]
  /\ UNCHANGED <<workers, phase, observers, view, due, told>>

\* A member reads the directory and finds that the numbering has changed.
Observe(n) ==
  /\ phase[n] # "out"
  /\ n \notin due
  /\ due' = due \cup {n}
  /\ view[n] # Numbered(n)
  /\ view' = [view EXCEPT ![n] = Numbered(n)]
  /\ UNCHANGED <<dir, workers, phase, observers, told>>

\* The application's callback is called.
Report(n) ==
  /\ n \in due
  /\ told' = [told EXCEPT ![n] = {view[n]}]
  /\ due' = due \ {n}
  /\ UNCHANGED <<dir, workers, phase, observers, view>>

Enter(n) ==
  /\ phase[n] = "joining"
  /\ n \notin due
  /\ phase' = [phase EXCEPT ![n] = "in"]
  /\ UNCHANGED <<dir, workers, observers, view, due, told>>

Retire(n) ==
  /\ phase[n] = "in"
  /\ phase' = [phase EXCEPT ![n] = "leaving"]
  /\ UNCHANGED <<dir, workers, observers, view, due, told>>

\* A join fails; its entry may have been published by the request that failed.
Abort(n) ==
  /\ phase[n] = "joining"
  /\ n \notin due
  /\ dir' \in {dir, [dir EXCEPT ![n] = workers[n]]}
  /\ dir' # dir => n \notin observers
  /\ phase' = [phase EXCEPT ![n] = "out"]
  /\ UNCHANGED <<workers, observers, view, due, told>>

\* A member has left: nothing that it observed is unreported.
Exit(n) ==
  /\ phase[n] = "leaving"
  /\ n \notin due
  /\ phase' = [phase EXCEPT ![n] = "out"]
  /\ told' = [told EXCEPT ![n] = {}]
  /\ UNCHANGED <<dir, workers, observers, view, due>>

\* The process dies; the next one under this identifier starts from nothing.
Die(n) ==
  /\ workers' = [workers EXCEPT ![n] = 1]
  /\ view' = [view EXCEPT ![n] = [index |-> 0, total |-> 0]]
  /\ phase' = [phase EXCEPT ![n] = "out"]
  /\ observers' = observers \ {n}
  /\ due' = due \ {n}
  /\ told' = [told EXCEPT ![n] = {}]
  /\ UNCHANGED dir

-----------------------------------------------------------------------------
Step(n) ==
  \/ Begin(n) \/ Refused(n)
  \/ \E w \in MinWorkers..MaxWorkers : SetWorkers(n, w)
  \/ Publish(n) \/ Observe(n) \/ Report(n)
  \/ Enter(n) \/ Retire(n) \/ Abort(n) \/ Exit(n) \/ Die(n)

Next == (\E S \in SUBSET Node : Drop(S)) \/ (\E n \in Node : Step(n))

Spec == Init /\ [][Next]_vars
=============================================================================
