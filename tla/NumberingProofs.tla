-------------------------- MODULE NumberingProofs --------------------------
(***************************************************************************)
(* Facts about the numbering of module Numbering, for any set of nodes and   *)
(* any worker counts.  They reduce "the number of workers of the nodes in S" *)
(* to what a loop that adds one node at a time can maintain.                *)
(***************************************************************************)
EXTENDS Numbering, FunctionTheorems, FiniteSetTheorems, TLAPS

(***************************************************************************)
(* A worker of the nodes in S is a pair of a node and a position in it.     *)
(***************************************************************************)
LEMMA SlotsMembers ==
  ASSUME NEW count, NEW S, NEW x
  PROVE  x \in Slots(count, S)
           <=> \E m \in S : \E i \in 1..count[m] : x = <<m, i>>
BY DEF Slots

(***************************************************************************)
(* No node, no worker.                                                      *)
(***************************************************************************)
LEMMA SlotsEmpty ==
  ASSUME NEW count
  PROVE  /\ IsFiniteSet(Slots(count, {}))
         /\ Cardinality(Slots(count, {})) = 0
<1>1. Slots(count, {}) = {}
  BY DEF Slots
<1> QED  BY <1>1, FS_EmptySet

(***************************************************************************)
(* A node with w workers adds w to the number of workers: the step of the    *)
(* loop of cluster_etcd_balance_().                                         *)
(***************************************************************************)
LEMMA SlotsAdd ==
  ASSUME NEW count, NEW S, NEW m, m \notin S, count[m] \in Nat,
         IsFiniteSet(Slots(count, S))
  PROVE  /\ IsFiniteSet(Slots(count, S \cup {m}))
         /\ Cardinality(Slots(count, S \cup {m}))
              = Cardinality(Slots(count, S)) + count[m]
<1> DEFINE W == {m} \X (1..count[m])
<1>1. IsFiniteSet(W) /\ Cardinality(W) = count[m]
  <2>1. IsFiniteSet(1..count[m]) /\ Cardinality(1..count[m]) = count[m]
    BY FS_Interval
  <2>2. IsFiniteSet({m}) /\ Cardinality({m}) = 1
    BY FS_Singleton
  <2>3. IsFiniteSet(W) /\ Cardinality(W) = 1 * Cardinality(1..count[m])
    BY <2>1, <2>2, FS_Product
  <2> QED  BY <2>1, <2>3
<1>2. Slots(count, S \cup {m}) = Slots(count, S) \cup W
  BY DEF Slots
<1>3. Slots(count, S) \cap W = {}
  <2>1. ASSUME NEW x \in Slots(count, S), x \in W
        PROVE  FALSE
    <3>1. PICK k \in S : x \in {k} \X (1..count[k])
      BY <2>1 DEF Slots
    <3>2. x[1] = k /\ x[1] = m
      BY <2>1, <3>1
    <3> QED  BY <3>2
  <2> QED  BY <2>1
<1> HIDE DEF W
<1>4. /\ IsFiniteSet(Slots(count, S) \cup W)
      /\ Cardinality(Slots(count, S) \cup W)
           = Cardinality(Slots(count, S)) + Cardinality(W) - Cardinality({})
  BY <1>1, <1>3, FS_Union
<1>5. Cardinality(Slots(count, S)) \in Nat
  BY FS_CardinalityType
<1>6. Cardinality({}) = 0
  BY FS_EmptySet
<1>7. Cardinality(Slots(count, S) \cup W)
        = Cardinality(Slots(count, S)) + count[m]
  BY <1>1, <1>4, <1>5, <1>6
<1> QED  BY <1>2, <1>4, <1>7

(***************************************************************************)
(* A finite cluster with bounded worker counts has a natural number of       *)
(* workers.                                                                 *)
(***************************************************************************)
LEMMA SlotsBounded ==
  ASSUME NEW count, NEW S, IsFiniteSet(S), NEW bound \in Nat,
         \A m \in S : count[m] \in Int /\ count[m] <= bound
  PROVE  /\ IsFiniteSet(Slots(count, S))
         /\ Cardinality(Slots(count, S)) \in Nat
<1>1. IsFiniteSet(S \X (1..bound))
  <2>1. IsFiniteSet(1..bound)
    BY FS_Interval
  <2> QED  BY <2>1, FS_Product
<1>2. Slots(count, S) \subseteq S \X (1..bound)
  <2> SUFFICES ASSUME NEW x \in Slots(count, S) PROVE x \in S \X (1..bound)
    OBVIOUS
  <2>1. PICK m \in S : \E i \in 1..count[m] : x = <<m, i>>
    BY SlotsMembers
  <2>2. PICK i \in 1..count[m] : x = <<m, i>>
    BY <2>1
  <2>3. i \in 1..bound
    <3>1. count[m] \in Int /\ count[m] <= bound
      OBVIOUS
    <3> QED  BY <3>1, <2>2
  <2> QED  BY <2>2, <2>3
<1>3. IsFiniteSet(Slots(count, S))
  BY <1>1, <1>2, FS_Subset
<1> QED  BY <1>3, FS_CardinalityType

LEMMA SlotsFinite ==
  ASSUME NEW count, NEW S, IsFiniteSet(S), NEW bound \in Nat,
         \A m \in S : count[m] \in 0..bound
  PROVE  /\ IsFiniteSet(Slots(count, S))
         /\ Cardinality(Slots(count, S)) \in Nat
<1>1. \A m \in S : count[m] \in Int /\ count[m] <= bound
  OBVIOUS
<1> QED  BY <1>1, SlotsBounded

(***************************************************************************)
(* The sum of the counts of a finite cluster is an integer, negative counts   *)
(* included.                                                                *)
(***************************************************************************)
LEMMA SumType ==
  ASSUME NEW count, NEW S, IsFiniteSet(S), NEW owed \in Nat, NEW bound \in Nat,
         \A m \in S : count[m] \in (-owed)..bound
  PROVE  SumOf(count, S) \in Int /\ \A n : SumBefore(count, S, n) \in Int
<1>1. ASSUME NEW R \in SUBSET S PROVE SumOf(count, R) \in Int
  <2> DEFINE debt == [m \in S |-> -count[m]]
  <2>1. IsFiniteSet(R)
    BY FS_Subset
  <2>2. \A m \in R : count[m] \in Int /\ count[m] <= bound
    OBVIOUS
  <2>3. Cardinality(Slots(count, R)) \in Nat
    BY <2>1, <2>2, SlotsBounded
  <2>4. \A m \in R : debt[m] \in Int /\ debt[m] <= owed
    OBVIOUS
  <2>5. Owed(count, R) = Slots(debt, R)
    BY DEF Owed, Slots
  <2> HIDE DEF debt
  <2>6. Cardinality(Slots(debt, R)) \in Nat
    BY <2>1, <2>4, SlotsBounded
  <2> QED  BY <2>3, <2>5, <2>6 DEF SumOf
<1>2. \A n : {m \in S : m < n} \in SUBSET S
  OBVIOUS
<1> QED  BY <1>1, <1>2 DEF SumBefore

(***************************************************************************)
(* Where no count is negative, the sums of the counts are the numbers of      *)
(* workers.                                                                 *)
(***************************************************************************)
LEMMA SumOfNaturals ==
  ASSUME NEW count, NEW S, IsFiniteSet(S), NEW bound \in Nat,
         \A m \in S : count[m] \in 0..bound
  PROVE  /\ SumOf(count, S) = WorkerTotal(count, S)
         /\ \A n : SumBefore(count, S, n) = FirstIndex(count, S, n)
<1>1. ASSUME NEW R \in SUBSET S
      PROVE  SumOf(count, R) = Cardinality(Slots(count, R))
  <2>1. \A m \in R : 1..(-count[m]) = {}
    <3>1. \A m \in R : count[m] \in 0..bound
      OBVIOUS
    <3> QED  BY <3>1
  <2>2. Owed(count, R) = {}
    BY <2>1 DEF Owed
  <2>3. Cardinality(Owed(count, R)) = 0
    BY <2>2, FS_EmptySet
  <2>4. IsFiniteSet(R)
    BY FS_Subset
  <2>5. \A m \in R : count[m] \in 0..bound
    OBVIOUS
  <2>6. Cardinality(Slots(count, R)) \in Nat
    BY <2>4, <2>5, SlotsFinite
  <2> QED  BY <2>3, <2>6 DEF SumOf
<1>2. \A n : {m \in S : m < n} \in SUBSET S
  OBVIOUS
<1> QED  BY <1>1, <1>2 DEF SumBefore, WorkerTotal, FirstIndex

(***************************************************************************)
(* More nodes, no fewer workers.                                            *)
(***************************************************************************)
LEMMA SlotsMonotone ==
  ASSUME NEW count, NEW S, NEW R \in SUBSET S, IsFiniteSet(Slots(count, S))
  PROVE  Cardinality(Slots(count, R)) <= Cardinality(Slots(count, S))
<1>1. Slots(count, R) \in SUBSET Slots(count, S)
  BY DEF Slots
<1> QED  BY <1>1, FS_Subset

(***************************************************************************)
(* The ranges of indices follow each other in the order of the nodes and end *)
(* at the total: the workers of n end where, or before, those of the next     *)
(* node begin.                                                              *)
(***************************************************************************)
LEMMA RangesInOrder ==
  ASSUME NEW count, NEW S, S \subseteq Int, IsFiniteSet(S), NEW bound \in Nat,
         \A m \in S : count[m] \in 0..bound
  PROVE  /\ WorkerTotal(count, S) \in Nat
         /\ \A n \in S :
              /\ FirstIndex(count, S, n) \in Nat
              /\ FirstIndex(count, S, n) + count[n] <= WorkerTotal(count, S)
              /\ \A m \in S : n < m =>
                   FirstIndex(count, S, n) + count[n] <= FirstIndex(count, S, m)
<1> DEFINE Before(n) == {m \in S : m < n}
<1>1. IsFiniteSet(Slots(count, S)) /\ WorkerTotal(count, S) \in Nat
  BY SlotsFinite DEF WorkerTotal
<1>2. ASSUME NEW n \in S
      PROVE  /\ IsFiniteSet(Slots(count, Before(n)))
             /\ FirstIndex(count, S, n) \in Nat
             /\ FirstIndex(count, S, n) + count[n]
                  = Cardinality(Slots(count, Before(n) \cup {n}))
  <2>1. IsFiniteSet(Before(n))
    BY FS_Subset
  <2>2. /\ IsFiniteSet(Slots(count, Before(n)))
        /\ Cardinality(Slots(count, Before(n))) \in Nat
    BY <2>1, SlotsFinite
  <2>3. n \notin Before(n) /\ count[n] \in Nat
    OBVIOUS
  <2>4. Cardinality(Slots(count, Before(n) \cup {n}))
          = Cardinality(Slots(count, Before(n))) + count[n]
    BY <2>2, <2>3, SlotsAdd
  <2> QED  BY <2>2, <2>4 DEF FirstIndex
<1>3. ASSUME NEW n \in S
      PROVE  FirstIndex(count, S, n) + count[n] <= WorkerTotal(count, S)
  <2>1. Before(n) \cup {n} \in SUBSET S
    OBVIOUS
  <2>2. Cardinality(Slots(count, Before(n) \cup {n}))
          <= Cardinality(Slots(count, S))
    BY <1>1, <2>1, SlotsMonotone
  <2> QED  BY <1>2, <2>2 DEF WorkerTotal
<1>4. ASSUME NEW n \in S, NEW m \in S, n < m
      PROVE  FirstIndex(count, S, n) + count[n] <= FirstIndex(count, S, m)
  <2>1. Before(n) \cup {n} \in SUBSET Before(m)
    <3>1. \A k \in S : k < n \/ k = n => k < m
      BY <1>4
    <3> QED  BY <3>1
  <2>2. IsFiniteSet(Slots(count, Before(m)))
    BY <1>2
  <2>3. Cardinality(Slots(count, Before(n) \cup {n}))
          <= Cardinality(Slots(count, Before(m)))
    BY <2>1, <2>2, SlotsMonotone
  <2> QED  BY <1>2, <2>3 DEF FirstIndex
<1> QED  BY <1>1, <1>2, <1>3, <1>4

(***************************************************************************)
(* The numbering that README.md promises divides the work: for any nodes and  *)
(* worker counts, every index below the total belongs to a worker of exactly  *)
(* one node.  There are as many workers as indices and no two workers have    *)
(* the same, so that none can be left over.                                 *)
(***************************************************************************)
InRange(count, S, n, i) ==
  /\ FirstIndex(count, S, n) <= i
  /\ i < FirstIndex(count, S, n) + count[n]

THEOREM NumberingDivides ==
  ASSUME NEW count, NEW S, S \subseteq Int, IsFiniteSet(S), NEW bound \in Nat,
         \A m \in S : count[m] \in 0..bound
  PROVE  /\ \A i \in 0..(WorkerTotal(count, S) - 1) :
              \E n \in S : InRange(count, S, n, i)
         /\ \A i \in Int : \A n, m \in S :
              InRange(count, S, n, i) /\ InRange(count, S, m, i) => n = m
<1> DEFINE F(n) == FirstIndex(count, S, n)
           total == WorkerTotal(count, S)
           Idx == 0..(total - 1)
           W == Slots(count, S)
           index == [x \in W |-> F(x[1]) + x[2] - 1]
<1>1. /\ total \in Nat
      /\ \A n \in S : F(n) \in Nat /\ F(n) + count[n] <= total
      /\ \A n, m \in S : n < m => F(n) + count[n] <= F(m)
  BY RangesInOrder
<1>2. \A n \in S : n \in Int /\ count[n] \in Nat
  OBVIOUS
<1>3. IsFiniteSet(W) /\ Cardinality(W) = total
  BY SlotsFinite DEF WorkerTotal
<1>4. IsFiniteSet(Idx) /\ Cardinality(Idx) = total
  <2>1. Cardinality(Idx) = IF 0 <= total - 1 THEN (total - 1) - 0 + 1 ELSE 0
    BY <1>1, FS_Interval
  <2>2. IsFiniteSet(Idx)
    BY <1>1, FS_Interval
  <2> QED  BY <1>1, <2>1, <2>2
<1> HIDE DEF F, total, W
<1>5. ASSUME NEW x \in W
      PROVE  /\ x[1] \in S /\ x[2] \in 1..count[x[1]]
             /\ x = <<x[1], x[2]>>
  <2>1. PICK m \in S : x \in {m} \X (1..count[m])
    BY DEF W, Slots
  <2> QED  BY <2>1
<1>6. index \in [W -> Idx]
  <2> SUFFICES ASSUME NEW x \in W PROVE F(x[1]) + x[2] - 1 \in Idx
    OBVIOUS
  <2>1. /\ F(x[1]) \in Nat /\ F(x[1]) + count[x[1]] <= total
        /\ count[x[1]] \in Nat /\ x[2] \in 1..count[x[1]]
    BY <1>1, <1>2, <1>5
  <2> QED  BY <1>1, <2>1
<1>7. ASSUME NEW x \in W, NEW y \in W, index[x] = index[y] PROVE x = y
  <2>1. F(x[1]) + x[2] - 1 = F(y[1]) + y[2] - 1
    BY <1>7
  <2>2. /\ x[1] \in S /\ y[1] \in S
        /\ x[2] \in 1..count[x[1]] /\ y[2] \in 1..count[y[1]]
    BY <1>5
  <2>3. /\ x[1] \in Int /\ y[1] \in Int /\ F(x[1]) \in Nat /\ F(y[1]) \in Nat
        /\ count[x[1]] \in Nat /\ count[y[1]] \in Nat
        /\ x[1] < y[1] => F(x[1]) + count[x[1]] <= F(y[1])
        /\ y[1] < x[1] => F(y[1]) + count[y[1]] <= F(x[1])
    BY <1>1, <1>2, <2>2
  <2>4. x[1] = y[1]
    BY <2>1, <2>2, <2>3
  <2>5. x[2] = y[2]
    BY <2>1, <2>2, <2>3, <2>4
  <2> QED  BY <1>5, <2>4, <2>5
<1>8. index \in Surjection(W, Idx)
  <2>1. index \in Injection(W, Idx)
    BY <1>6, <1>7, Fun_IsInj
  <2> QED  BY <1>3, <1>4, <2>1, FS_Injection
<1>9. \A i \in Idx : \E x \in W : index[x] = i
  <2> HIDE DEF index, Idx
  <2> QED  BY <1>8, Fun_SurjectionProperties, Zenon
<1>10. ASSUME NEW i \in Idx PROVE \E n \in S : InRange(count, S, n, i)
  <2>1. PICK x \in W : index[x] = i
    BY <1>9
  <2>2. i = F(x[1]) + x[2] - 1 /\ x[1] \in S /\ x[2] \in 1..count[x[1]]
    BY <1>5, <2>1
  <2>3. F(x[1]) \in Nat /\ count[x[1]] \in Nat
    BY <1>1, <1>2, <2>2
  <2>4. F(x[1]) <= i /\ i < F(x[1]) + count[x[1]]
    BY <2>2, <2>3
  <2> QED  BY <2>2, <2>4 DEF InRange, F
<1>11. ASSUME NEW i \in Int, NEW n \in S, NEW m \in S,
              InRange(count, S, n, i), InRange(count, S, m, i)
       PROVE  n = m
  <2>1. /\ F(n) <= i /\ i < F(n) + count[n]
        /\ F(m) <= i /\ i < F(m) + count[m]
    BY <1>11 DEF InRange, F
  <2>2. /\ F(n) \in Nat /\ F(m) \in Nat /\ n \in Int /\ m \in Int
        /\ count[n] \in Nat /\ count[m] \in Nat
        /\ n < m => F(n) + count[n] <= F(m)
        /\ m < n => F(m) + count[m] <= F(n)
    BY <1>1, <1>2
  <2> QED  BY <2>1, <2>2
<1> QED  BY <1>10, <1>11 DEF total
=============================================================================
