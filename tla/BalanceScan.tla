---------------------------- MODULE BalanceScan ----------------------------
(***************************************************************************)
(* The loop of cluster_etcd_balance_() (src/engines/etcd.c) over one reply   *)
(* of the registry: it visits the entries of the directory in the order of  *)
(* their keys and adds up the worker counts; the sum reached when it meets   *)
(* this instance's own key is this instance's base index, and the sum at     *)
(* the end is the size of the cluster.  One step of the specification is one *)
(* pass of the loop.                                                        *)
(*                                                                         *)
(* The reply is chosen in the initial state and never changes: the loop      *)
(* works on a private copy (json_t *dict).                                  *)
(***************************************************************************)
EXTENDS Numbering

CONSTANTS
  Id,             \* keys that may appear in the directory, in strcmp() order
  MaxWorkers,     \* the largest worker count a member may publish
  JsonValueType   \* the JSON type in which the registry renders a value

ASSUME IdAssumption == Id \subseteq Int
ASSUME MaxWorkersAssumption == MaxWorkers \in Nat
ASSUME JsonTypeAssumption == JsonValueType \in {"integer", "string"}

VARIABLES
  instid,   \* cluster->instid
  keys,     \* the keys of dict
  leaves,   \* those whose entry has a "value" (a sub-directory has none)
  count,    \* the worker count each key was published with
  todo,     \* the keys the loop has not visited yet
  base,     \* int base
  total,    \* int total
  first     \* the "[%d]" the loop logs for a key: where its workers start

reply == <<instid, keys, leaves, count>>
vars  == <<reply, todo, base, total, first>>

-----------------------------------------------------------------------------
(***************************************************************************)
(* json_integer_value() of the entry's "value": the number when the value    *)
(* is a JSON integer, and 0 for a value of any other type.                  *)
(***************************************************************************)
json_integer_value(k) == IF JsonValueType = "integer" THEN count[k] ELSE 0

(***************************************************************************)
(* cluster_etcd_json_keys_() sorts the keys with strcmp(), and the loop      *)
(* takes them in that order: the next one is the least that is left.        *)
(***************************************************************************)
IsNext(k) == k \in todo /\ \A j \in todo : k <= j

Init_TotalUnset ==  \* mutant: total starts at -1, as base does
  /\ instid \in Id
  /\ keys \in SUBSET Id
  /\ leaves \in SUBSET keys
  /\ count \in [Id -> 0..MaxWorkers]
  /\ todo = keys
  /\ base = -1
  /\ total = -1
  /\ first = [k \in Id |-> -1]

Init ==
  /\ instid \in Id
  /\ keys \in SUBSET Id
  /\ leaves \in SUBSET keys
  /\ count \in [Id -> 0..MaxWorkers]
  /\ todo = keys
  /\ base = -1
  /\ total = 0
  /\ first = [k \in Id |-> -1]

(***************************************************************************)
(* An entry without a "value" is skipped: "if(!value) continue".            *)
(***************************************************************************)
Skip(k) ==
  /\ IsNext(k)
  /\ k \notin leaves
  /\ todo' = todo \ {k}
  /\ UNCHANGED <<reply, base, total, first>>

(***************************************************************************)
(* An entry with a "value" is numbered from the current total, and then      *)
(* counted.                                                                 *)
(***************************************************************************)
Visit_CountsFirst(k) ==  \* mutant: "total += val" moved before "base = total"
  /\ IsNext(k)
  /\ k \in leaves
  /\ todo' = todo \ {k}
  /\ total' = total + json_integer_value(k)
  /\ base' = IF k = instid THEN total' ELSE base
  /\ first' = [first EXCEPT ![k] = total']
  /\ UNCHANGED reply

Visit_SkipsSelf(k) ==  \* mutant: "total += val" moved into the else branch
  /\ IsNext(k)
  /\ k \in leaves
  /\ todo' = todo \ {k}
  /\ total' = IF k = instid THEN total ELSE total + json_integer_value(k)
  /\ base' = IF k = instid THEN total ELSE base
  /\ first' = [first EXCEPT ![k] = total]
  /\ UNCHANGED reply

Visit(k) ==
  /\ IsNext(k)
  /\ k \in leaves
  /\ todo' = todo \ {k}
  /\ total' = total + json_integer_value(k)
  /\ base' = IF k = instid THEN total ELSE base
  /\ first' = [first EXCEPT ![k] = total]
  /\ UNCHANGED reply

Next == \E k \in Id : Skip(k) \/ Visit(k)

Spec == Init /\ [][Next]_vars

-----------------------------------------------------------------------------
Visited == leaves \ todo

TypeOK ==
  /\ instid \in Id
  /\ keys \in SUBSET Id
  /\ leaves \in SUBSET keys
  /\ count \in [Id -> 0..MaxWorkers]
  /\ todo \in SUBSET keys
  /\ base \in Int
  /\ total \in Nat
  /\ first \in [Id -> Int]

(***************************************************************************)
(* When the loop of cluster_etcd_balance_() ends, it has computed what       *)
(* README.md promises: this instance's index is the number of workers of     *)
(* the nodes that sort before it (-1 if it is not listed), and the total is  *)
(* the number of workers of all nodes.                                      *)
(***************************************************************************)
ComputesNumbering ==
  todo = {} =>
    /\ total = WorkerTotal(count, leaves)
    /\ base = IF instid \in leaves
              THEN FirstIndex(count, leaves, instid) ELSE -1

(***************************************************************************)
(* The "[%d]" values that cluster_etcd_balance_() gives the members it has   *)
(* numbered so far never make two members share an index, and leave no gap:  *)
(* every index below the running total belongs to exactly one of them.      *)
(***************************************************************************)
Owns(k, i) == first[k] <= i /\ i < first[k] + count[k]

NoSharedIndexNoGap ==
  /\ \A i \in 0..(total - 1) : \E k \in Visited : Owns(k, i)
  /\ \A j, k \in Visited : \A i \in 0..(total - 1) :
        Owns(j, i) /\ Owns(k, i) => j = k
=============================================================================
