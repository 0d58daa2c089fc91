------------------------- MODULE BalanceScanProofs -------------------------
(***************************************************************************)
(* The loop of cluster_etcd_balance_() computes the promised numbering, for  *)
(* every reply of the registry: any identifiers, any number of them, any     *)
(* worker counts.  The argument is a loop invariant: after some of the keys  *)
(* have been visited, the loop has numbered exactly those.                  *)
(***************************************************************************)
EXTENDS BalanceScan, NumberingProofs

(***************************************************************************)
(* The keys that are left sort after the ones that were numbered.           *)
(***************************************************************************)
InOrder == \A j \in Visited, k \in todo : j < k

(***************************************************************************)
(* total and base are the numbering restricted to the visited keys.         *)
(***************************************************************************)
Partial ==
  /\ IsFiniteSet(Slots(count, Visited))
  /\ total = WorkerTotal(count, Visited)
  /\ base = IF instid \in Visited
            THEN FirstIndex(count, Visited, instid) ELSE -1

(***************************************************************************)
(* The index ranges follow each other in key order, and fill 0..total-1.    *)
(***************************************************************************)
Consecutive ==
  /\ \A k \in Visited : 0 <= first[k] /\ first[k] + count[k] <= total
  /\ \A j, k \in Visited : j < k => first[j] + count[j] <= first[k]
  /\ \A i \in 0..(total - 1) : \E k \in Visited : Owns(k, i)

LoopInv == TypeOK /\ InOrder /\ Partial /\ Consecutive

(***************************************************************************)
(* The variables keep their types.  A worker count is a natural number      *)
(* whatever JSON type the registry renders it in.                           *)
(***************************************************************************)
LEMMA TypeStep == TypeOK /\ [Next]_vars => TypeOK'
<1> SUFFICES ASSUME TypeOK, [Next]_vars PROVE TypeOK'
  OBVIOUS
<1> USE DEF TypeOK, reply
<1>1. ASSUME NEW k \in Id, Skip(k) PROVE TypeOK'
  BY <1>1 DEF Skip
<1>2. ASSUME NEW k \in Id, Visit(k) PROVE TypeOK'
  <2>1. json_integer_value(k) \in Nat
    BY MaxWorkersAssumption DEF json_integer_value
  <2>2. total' \in Nat /\ base' \in Int /\ first' \in [Id -> Int]
    BY <1>2, <2>1 DEF Visit
  <2> QED  BY <1>2, <2>2 DEF Visit
<1>3. CASE UNCHANGED vars
  BY <1>3 DEF vars
<1> QED  BY <1>1, <1>2, <1>3 DEF Next

(***************************************************************************)
(* The variables of the loop of cluster_etcd_balance_() always have their    *)
(* types; in particular the running total is never negative.                *)
(***************************************************************************)
THEOREM TypeCorrect == Spec => []TypeOK
<1>1. Init => TypeOK
  BY DEF Init, TypeOK
<1> QED  BY <1>1, TypeStep, PTL DEF Spec

(***************************************************************************)
(* Before the first pass nothing has been numbered.                         *)
(***************************************************************************)
LEMMA LoopStarts == Init => LoopInv
<1> SUFFICES ASSUME Init PROVE LoopInv
  OBVIOUS
<1>1. Visited = {}
  BY DEF Init, Visited
<1>2. TypeOK
  BY DEF Init, TypeOK
<1>3. Partial
  <2>1. IsFiniteSet(Slots(count, {})) /\ Cardinality(Slots(count, {})) = 0
    BY SlotsEmpty
  <2> QED  BY <1>1, <2>1 DEF Init, Partial, WorkerTotal
<1>4. InOrder
  BY <1>1 DEF InOrder
<1>5. Consecutive
  BY <1>1 DEF Consecutive, Init
<1> QED  BY <1>2, <1>3, <1>4, <1>5 DEF LoopInv

(***************************************************************************)
(* A key that is skipped was never a member: nothing changes.               *)
(***************************************************************************)
LEMMA SkipKeeps ==
  ASSUME NEW k \in Id, LoopInv, Skip(k)
  PROVE  LoopInv'
<1>1. TypeOK'
  BY TypeStep DEF LoopInv, Next
<1>2. Visited' = Visited
  BY DEF Skip, Visited, reply
<1>3. UNCHANGED <<count, instid, total, base, first>>
  BY DEF Skip, reply
<1>4. InOrder'
  BY <1>2 DEF LoopInv, InOrder, Skip
<1>5. Partial'
  BY <1>2, <1>3 DEF LoopInv, Partial, WorkerTotal, FirstIndex
<1>6. Consecutive'
  BY <1>2, <1>3 DEF LoopInv, Consecutive, Owns
<1> QED  BY <1>1, <1>4, <1>5, <1>6 DEF LoopInv

(***************************************************************************)
(* A key that is visited is the largest so far, so that its index is the     *)
(* total before it, and the indices of the others stay what they were.      *)
(***************************************************************************)
LEMMA VisitKeeps ==
  ASSUME JsonValueType = "integer", NEW k \in Id, LoopInv, Visit(k)
  PROVE  LoopInv'
<1>1. TypeOK /\ TypeOK'
  BY TypeStep DEF LoopInv, Next
<1>2. /\ Visited' = Visited \cup {k}
      /\ k \notin Visited
      /\ \A j \in Visited : j < k
  BY <1>1 DEF LoopInv, TypeOK, InOrder, Visit, IsNext, Visited, reply
<1>3. /\ UNCHANGED <<count, instid>>
      /\ count[k] \in Nat
      /\ k \in Int
      /\ total' = total + count[k]
      /\ base' = IF k = instid THEN total ELSE base
      /\ first' = [first EXCEPT ![k] = total]
  BY <1>1, IdAssumption, MaxWorkersAssumption
  DEF TypeOK, Visit, reply, json_integer_value
<1>4. InOrder'
  <2> SUFFICES ASSUME NEW j \in Visited', NEW m \in todo'
               PROVE  j < m
    BY DEF InOrder
  <2>1. m \in todo /\ m # k /\ k <= m
    BY DEF Visit, IsNext
  <2>2. k \in Int /\ m \in Int
    BY <1>1, <2>1, IdAssumption DEF TypeOK
  <2>3. CASE j = k
    BY <2>1, <2>2, <2>3
  <2>4. CASE j \in Visited
    BY <2>1, <2>4 DEF LoopInv, InOrder
  <2> QED  BY <1>2, <2>3, <2>4
<1>5. Partial'
  <2>1. /\ IsFiniteSet(Slots(count, Visited \cup {k}))
        /\ Cardinality(Slots(count, Visited \cup {k}))
             = Cardinality(Slots(count, Visited)) + count[k]
    BY <1>2, <1>3, SlotsAdd DEF LoopInv, Partial
  <2>2. total' = WorkerTotal(count, Visited \cup {k})
    BY <1>3, <2>1 DEF LoopInv, Partial, WorkerTotal
  <2>3. CASE k = instid
    <3>1. {m \in Visited \cup {k} : m < instid} = Visited
      BY <1>2, <1>3, <2>3
    <3>2. base' = FirstIndex(count, Visited \cup {k}, instid)
      BY <1>3, <2>3, <3>1 DEF LoopInv, Partial, FirstIndex, WorkerTotal
    <3> QED  BY <1>2, <1>3, <2>1, <2>2, <2>3, <3>2
             DEF Partial, WorkerTotal, FirstIndex
  <2>4. CASE k # instid
    <3>1. instid \in Visited
            => {m \in Visited \cup {k} : m < instid}
                 = {m \in Visited : m < instid}
      <4> SUFFICES ASSUME instid \in Visited PROVE ~(k < instid)
        OBVIOUS
      <4>1. instid < k /\ instid \in Int
        BY <1>1, <1>2, IdAssumption DEF TypeOK
      <4> QED  BY <1>3, <4>1
    <3>2. base' = IF instid \in Visited \cup {k}
                  THEN FirstIndex(count, Visited \cup {k}, instid) ELSE -1
      BY <1>3, <2>4, <3>1 DEF LoopInv, Partial, FirstIndex
    <3> QED  BY <1>2, <1>3, <2>1, <2>2, <3>2
             DEF Partial, WorkerTotal, FirstIndex
  <2> QED  BY <2>3, <2>4
<1>6. Consecutive'
  <2>1. /\ first'[k] = total
        /\ \A j \in Visited : first'[j] = first[j]
        /\ total \in Nat
        /\ \A j \in Visited : first[j] \in Int /\ count[j] \in Nat
    BY <1>1, <1>2, <1>3, MaxWorkersAssumption DEF TypeOK, Visited
  <2>2. \A j \in Visited' : 0 <= first'[j] /\ first'[j] + count'[j] <= total'
    BY <1>2, <1>3, <2>1 DEF LoopInv, Consecutive
  <2>3. ASSUME NEW i \in Visited', NEW j \in Visited', i < j
        PROVE  first'[i] + count'[i] <= first'[j]
    <3>1. i # k \/ j # k
      BY <1>3, <2>3
    <3>2. CASE i = k
      <4>1. j \in Visited /\ j < k /\ k < j
        BY <1>2, <2>3, <3>1, <3>2
      <4>2. j \in Int
        BY <1>1, <4>1, IdAssumption DEF TypeOK, Visited
      <4> QED  BY <1>3, <4>1, <4>2
    <3>3. CASE i \in Visited /\ j = k
      BY <1>3, <2>1, <3>3 DEF LoopInv, Consecutive
    <3>4. CASE i \in Visited /\ j \in Visited
      BY <1>3, <2>1, <2>3, <3>4 DEF LoopInv, Consecutive
    <3> QED  BY <1>2, <3>2, <3>3, <3>4
  <2>4. ASSUME NEW i \in 0..(total' - 1)
        PROVE  \E j \in Visited' : Owns(j, i)'
    <3>1. CASE i < total
      <4>1. PICK j \in Visited : Owns(j, i)
        BY <2>1, <3>1 DEF LoopInv, Consecutive
      <4>2. Owns(j, i)'
        BY <1>3, <2>1, <4>1 DEF Owns
      <4> QED  BY <1>2, <4>2
    <3>2. CASE i >= total
      <4>1. Owns(k, i)'
        BY <1>3, <2>1, <2>4, <3>2 DEF Owns
      <4> QED  BY <1>2, <4>1
    <3> QED  BY <2>1, <3>1, <3>2
  <2> QED  BY <2>2, <2>3, <2>4 DEF Consecutive
<1> QED  BY <1>1, <1>4, <1>5, <1>6 DEF LoopInv

(***************************************************************************)
(* The loop invariant holds after every pass.                               *)
(***************************************************************************)
LEMMA LoopInvariant ==
  ASSUME JsonValueType = "integer"
  PROVE  Spec => []LoopInv
<1>1. LoopInv /\ [Next]_vars => LoopInv'
  <2> SUFFICES ASSUME LoopInv, [Next]_vars PROVE LoopInv'
    OBVIOUS
  <2>1. ASSUME NEW k \in Id, Skip(k) PROVE LoopInv'
    BY <2>1, SkipKeeps
  <2>2. ASSUME NEW k \in Id, Visit(k) PROVE LoopInv'
    BY <2>2, VisitKeeps
  <2>3. CASE UNCHANGED vars
    BY <2>3 DEF vars, reply, LoopInv, TypeOK, InOrder, Partial, Consecutive,
                Visited, Owns, WorkerTotal, FirstIndex
  <2> QED  BY <2>1, <2>2, <2>3 DEF Next
<1> QED  BY <1>1, LoopStarts, PTL DEF Spec

(***************************************************************************)
(* When the loop of cluster_etcd_balance_() ends, base and total are the     *)
(* promised index and size, provided that the registry renders a worker      *)
(* count as a JSON integer.                                                 *)
(***************************************************************************)
THEOREM NumberingComputed ==
  ASSUME JsonValueType = "integer"
  PROVE  Spec => []ComputesNumbering
<1>1. LoopInv => ComputesNumbering
  <2> SUFFICES ASSUME LoopInv, todo = {} PROVE Visited = leaves
    BY DEF LoopInv, Partial, ComputesNumbering
  <2> QED  BY DEF Visited
<1> QED  BY <1>1, LoopInvariant, PTL

(***************************************************************************)
(* At every pass of the loop of cluster_etcd_balance_(), every index below   *)
(* the running total belongs to exactly one of the members visited.         *)
(***************************************************************************)
THEOREM IndicesUnique ==
  ASSUME JsonValueType = "integer"
  PROVE  Spec => []NoSharedIndexNoGap
<1>1. LoopInv => NoSharedIndexNoGap
  <2> SUFFICES ASSUME LoopInv,
                      NEW j \in Visited, NEW k \in Visited,
                      NEW i \in 0..(total - 1), Owns(j, i), Owns(k, i)
               PROVE  j = k
    BY DEF LoopInv, Consecutive, NoSharedIndexNoGap
  <2>1. /\ j \in Int /\ k \in Int
        /\ first[j] \in Int /\ first[k] \in Int
        /\ count[j] \in Int /\ count[k] \in Int
        /\ i \in Int
    BY IdAssumption, MaxWorkersAssumption DEF LoopInv, TypeOK, Visited
  <2>2. ~(j < k) /\ ~(k < j)
    BY <2>1 DEF LoopInv, Consecutive, Owns
  <2> QED  BY <2>1, <2>2
<1> QED  BY <1>1, LoopInvariant, PTL
=============================================================================
