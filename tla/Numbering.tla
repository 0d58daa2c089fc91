----------------------------- MODULE Numbering -----------------------------
(***************************************************************************)
(* The numbering that libcluster promises (README.md, the table of nodes,  *)
(* workers and indices): the workers of a cluster are numbered from 0, node *)
(* by node in the order of the instance identifiers, and worker by worker   *)
(* within a node.  A worker is a pair <<node, k>>, and its index is simply  *)
(* the number of workers that come before it.                               *)
(*                                                                         *)
(* Instance identifiers are integers: strcmp() of two identifiers, the only *)
(* thing the code does with them, is the order of the integers.             *)
(***************************************************************************)
EXTENDS Integers, FiniteSets

(***************************************************************************)
(* The workers of the nodes in S, when node m has count[m] of them.         *)
(***************************************************************************)
Slots(count, S) == UNION { {m} \X (1..count[m]) : m \in S }

(***************************************************************************)
(* The index of the first worker of node n among the nodes in S.            *)
(***************************************************************************)
FirstIndex(count, S, n) == Cardinality(Slots(count, {m \in S : m < n}))

(***************************************************************************)
(* The number of workers of all the nodes in S.                             *)
(***************************************************************************)
WorkerTotal(count, S) == Cardinality(Slots(count, S))

(***************************************************************************)
(* cluster_set_workers() takes any int.  A node with a negative count has no  *)
(* worker and owes some: the loops of the engines subtract them.  The sum of  *)
(* the counts of the nodes in S is WorkerTotal when no count is negative.     *)
(***************************************************************************)
Owed(count, S) == UNION { {m} \X (1..(-count[m])) : m \in S }

SumOf(count, S) == Cardinality(Slots(count, S)) - Cardinality(Owed(count, S))

SumBefore(count, S, n) == SumOf(count, {m \in S : m < n})
=============================================================================
