-------------------------- MODULE ThreadSimProofs --------------------------
(***************************************************************************)
(* Proofs about the supervisor, for every number of pools, budget and      *)
(* length of the segments its pools deliver.                               *)
(***************************************************************************)
EXTENDS ThreadSim, SequenceTheorems, FiniteSetTheorems, TLAPS

Row == [pl : Pools, at : Nat, term : Terminals]
Observation == [pl : Pools, at : Nat]
MemoryType == [rows : Seq(Row), nexts : Seq(Observation)]

(* A memory whose truncated rows have their own next observations. *)
Aligned(m) ==
    /\ Valid(m)
    /\ \A i \in TruncatedIn(m.rows) :
           m.nexts[BootstrapIndex(m.rows, i)] = SuccessorOf(m.rows[i])

Ordered(rows) == \A i, j \in DOMAIN rows : i < j => rows[i].pl <= rows[j].pl

(* What the first n pools are asked for of a total. *)
ShareOfFirst(total, n) ==
    n * (total \div NumPools) + (IF n = NumPools THEN total % NumPools ELSE 0)

(* How many rows there may be where so many are asked for. *)
WithinBound(n, asked) ==
    /\ mode = "exact" => n <= asked
    /\ mode = "overbatch" => n = 0 \/ n < 2 * asked

-----------------------------------------------------------------------------
(* The inductive invariant. *)

ControlInv ==
    /\ mode \in Modes /\ pc \in {"idle", "collect"}
    /\ budget \in Nat /\ shares \in [Pools -> Nat] /\ running \in [Pools -> BOOLEAN]
    /\ joined \in 0..NumPools /\ merged \in 0..NumPools
    /\ pc = "collect" => shares = Shares(budget) /\ merged < NumPools
    /\ merged > 0 => joined = NumPools
    /\ \A p \in Pools : pc = "collect" /\ p <= joined => ~running[p]

(* A pool's memory is its own, and has its share when the pool is done. *)
PoolInv ==
    /\ memories \in [Pools -> MemoryType]
    /\ \A p \in Pools :
          /\ Aligned(memories[p])
          /\ \A i \in DOMAIN memories[p].rows : memories[p].rows[i].pl = p
          /\ WithinBound(Len(memories[p].rows), shares[p])
          /\ pc = "collect" /\ ~running[p] => Len(memories[p].rows) >= shares[p]

(* What has been merged is of the first pools, in order, and as much as    *)
(* they were asked for.                                                    *)
MergedInv ==
    /\ memory \in MemoryType /\ Aligned(memory)
    /\ Ordered(memory.rows)
    /\ \A i \in DOMAIN memory.rows : memory.rows[i].pl <= merged
    /\ Len(memory.rows) >= ShareOfFirst(budget, merged)
    /\ WithinBound(Len(memory.rows), ShareOfFirst(budget, merged))
    /\ pc = "idle" => merged = NumPools \/ budget = 0

IInv == ControlInv /\ PoolInv /\ MergedInv

(* The first n + 1 pools are asked for what the first n are and the share  *)
(* of the next one; all of them are asked for the budget (split_budget).   *)
LEMMA SharesAddUp ==
    ASSUME NEW total \in Nat
    PROVE  /\ \A n \in 0..NumPools : ShareOfFirst(total, n) \in Nat
           /\ ShareOfFirst(total, 0) = 0
           /\ \A n \in 0..(NumPools - 1) :
                 ShareOfFirst(total, n + 1) = ShareOfFirst(total, n) + Shares(total)[n + 1]
           /\ ShareOfFirst(total, NumPools) = total
           /\ Shares(total) \in [Pools -> Nat]
<1> DEFINE base == total \div NumPools
           rest == total % NumPools
<1>1. NumPools \in Nat \ {0}
  BY SupervisorAssumption
<1>2. base \in Nat /\ rest \in Nat /\ NumPools * base + rest = total
  BY <1>1
<1> HIDE DEF base, rest
<1>3. \A n : ShareOfFirst(total, n) = n * base + (IF n = NumPools THEN rest ELSE 0)
  BY DEF ShareOfFirst, base, rest
<1>4. \A n \in Nat : n * base \in Nat /\ (n + 1) * base = n * base + base
  BY <1>2
<1>5. Shares(total) = [p \in Pools |-> base + (IF p = NumPools THEN rest ELSE 0)]
  BY DEF Shares, SplitBudget, base, rest, Pools
<1>6. Shares(total) \in [Pools -> Nat]
  BY <1>2, <1>5
<1>7. \A n \in 0..NumPools : ShareOfFirst(total, n) \in Nat
  BY <1>1, <1>2, <1>3, <1>4
<1>8. ShareOfFirst(total, 0) = 0
  BY <1>1, <1>2, <1>3
<1>9. ASSUME NEW n \in 0..(NumPools - 1)
      PROVE  ShareOfFirst(total, n + 1) = ShareOfFirst(total, n) + Shares(total)[n + 1]
  <2>1. n + 1 \in Pools /\ n # NumPools /\ n \in Nat
    BY <1>1 DEF Pools
  <2>2. ShareOfFirst(total, n) = n * base
    BY <1>2, <1>3, <1>4, <2>1
  <2>3. Shares(total)[n + 1] = base + (IF n + 1 = NumPools THEN rest ELSE 0)
    BY <1>5, <2>1
  <2>4. ShareOfFirst(total, n + 1) = (n * base + base) + (IF n + 1 = NumPools THEN rest ELSE 0)
    BY <1>3, <1>4, <2>1
  <2> DEFINE x == n * base
             more == IF n + 1 = NumPools THEN rest ELSE 0
  <2>5. x \in Nat /\ more \in Nat
    BY <1>2, <1>4, <2>1
  <2>6. /\ ShareOfFirst(total, n) = x
        /\ Shares(total)[n + 1] = base + more
        /\ ShareOfFirst(total, n + 1) = (x + base) + more
    BY <2>2, <2>3, <2>4
  <2> HIDE DEF x, more
  <2>7. (x + base) + more = x + (base + more)
    BY <1>2, <2>5
  <2> QED
    BY <2>6, <2>7
<1>10. ShareOfFirst(total, NumPools) = total
  BY <1>2, <1>3
<1> QED
  BY <1>6, <1>7, <1>8, <1>9, <1>10

(* Bounds add up. *)
LEMMA BoundsAdd ==
    ASSUME NEW a \in Nat, NEW b \in Nat, NEW x \in Nat, NEW y \in Nat,
           WithinBound(a, x), WithinBound(b, y)
    PROVE  WithinBound(a + b, x + y)
BY DEF WithinBound

(* c has the elements of a and then those of b. *)
IsConcat(c, a, b) ==
    /\ Len(a) \in Nat /\ Len(b) \in Nat /\ Len(c) = Len(a) + Len(b)
    /\ \A i \in 1..Len(a) : c[i] = a[i]
    /\ \A i \in 1..Len(b) : c[Len(a) + i] = b[i]

(* So has a concatenation. *)
LEMMA ConcatFacts ==
    ASSUME NEW S, NEW a \in Seq(S), NEW b \in Seq(S)
    PROVE  a \o b \in Seq(S) /\ IsConcat(a \o b, a, b)
<1> DEFINE c == a \o b
           k == Len(a)
           n == Len(b)
<1>1. /\ c \in Seq(S) /\ Len(c) = k + n
      /\ \A i \in 1..k + n : c[i] = IF i <= k THEN a[i] ELSE b[i - k]
  BY ConcatProperties
<1>2. k \in Nat /\ n \in Nat
  BY LenProperties
<1> HIDE DEF c, k, n
<1>3. /\ \A i \in 1..k : i \in 1..k + n /\ i <= k
      /\ \A i \in 1..n : k + i \in 1..k + n /\ ~(k + i <= k) /\ (k + i) - k = i
  BY <1>2
<1>4. /\ \A i \in 1..k : c[i] = a[i]
      /\ \A i \in 1..n : c[k + i] = b[i]
  BY <1>1, <1>3
<1>5. IsConcat(c, a, b)
  BY <1>1, <1>2, <1>4 DEF IsConcat, k, n
<1> QED
  BY <1>1, <1>5 DEF c

(* The rows and observations of a merged memory. *)
LEMMA MergeRows ==
    ASSUME NEW m \in MemoryType, NEW o \in MemoryType
    PROVE  /\ Merge(m, o) \in MemoryType
           /\ IsConcat(Merge(m, o).rows, m.rows, o.rows)
           /\ IsConcat(Merge(m, o).nexts, m.nexts, o.nexts)
<1>1. /\ m.rows \in Seq(Row) /\ o.rows \in Seq(Row)
      /\ m.nexts \in Seq(Observation) /\ o.nexts \in Seq(Observation)
  BY DEF MemoryType
<1>2. m.rows \o o.rows \in Seq(Row) /\ IsConcat(m.rows \o o.rows, m.rows, o.rows)
  BY <1>1, ConcatFacts
<1>3. /\ m.nexts \o o.nexts \in Seq(Observation)
      /\ IsConcat(m.nexts \o o.nexts, m.nexts, o.nexts)
  BY <1>1, ConcatFacts
<1> QED
  BY <1>2, <1>3 DEF Merge, MemoryType

(* Truncated rows of a memory are finitely many of its rows. *)
LEMMA TruncatedFinite ==
    ASSUME NEW m \in MemoryType
    PROVE  /\ TruncatedIn(m.rows) \subseteq 1..Len(m.rows)
           /\ IsFiniteSet(TruncatedIn(m.rows))
           /\ DOMAIN m.rows = 1..Len(m.rows) /\ Len(m.rows) \in Nat
<1>1. m.rows \in Seq(Row)
  BY DEF MemoryType
<1>2. DOMAIN m.rows = 1..Len(m.rows) /\ Len(m.rows) \in Nat
  BY <1>1, LenProperties
<1>3. TruncatedIn(m.rows) \subseteq 1..Len(m.rows)
  BY <1>2 DEF TruncatedIn
<1>4. \A n \in Nat : IsFiniteSet(1..n)
  BY FS_Interval
<1> DEFINE n == Len(m.rows)
<1>5. IsFiniteSet(1..n)
  BY <1>2, <1>4
<1>6. \A S, T : IsFiniteSet(T) /\ S \in SUBSET T => IsFiniteSet(S)
  BY FS_Subset
<1> HIDE DEF n
<1>7. TruncatedIn(m.rows) \in SUBSET (1..n)
  BY <1>3 DEF n
<1>8. IsFiniteSet(TruncatedIn(m.rows))
  BY <1>5, <1>6, <1>7
<1> QED
  BY <1>2, <1>3, <1>8

(* A shifted set has as many elements. *)
LEMMA ShiftSize ==
    ASSUME NEW S \in SUBSET Nat, IsFiniteSet(S), NEW L \in Nat
    PROVE  /\ IsFiniteSet({L + j : j \in S})
           /\ Cardinality({L + j : j \in S}) = Cardinality(S)
<1> DEFINE T == {L + j : j \in S}
           f == [j \in S |-> L + j]
<1>1. f \in Bijection(S, T)
  <2>1. f \in [S -> T]
    OBVIOUS
  <2>2. \A a, b \in S : f[a] = f[b] => a = b
    OBVIOUS
  <2>3. \A t \in T : \E s \in S : f[s] = t
    OBVIOUS
  <2> QED
    BY <2>1, <2>2, <2>3 DEF Bijection, Injection, Surjection, IsInjective
<1> QED
  BY <1>1, FS_Bijection DEF ExistsBijection

(* The truncated rows of a merged memory are those of the one and, behind  *)
(* its rows, those of the other.                                           *)
LEMMA TruncatedMerge ==
    ASSUME NEW m \in MemoryType, NEW o \in MemoryType
    PROVE  TruncatedIn(Merge(m, o).rows)
             = TruncatedIn(m.rows) \cup {Len(m.rows) + j : j \in TruncatedIn(o.rows)}
<1> DEFINE L == Len(m.rows)
           n == Len(o.rows)
           c == Merge(m, o)
           U == TruncatedIn(c.rows)
           T == TruncatedIn(m.rows)
           S == TruncatedIn(o.rows)
<1>1. /\ c \in MemoryType /\ L \in Nat /\ n \in Nat /\ Len(c.rows) = L + n
      /\ \A i \in 1..L : c.rows[i] = m.rows[i]
      /\ \A i \in 1..n : c.rows[L + i] = o.rows[i]
  BY MergeRows DEF IsConcat
<1>2. DOMAIN m.rows = 1..L /\ DOMAIN o.rows = 1..n /\ DOMAIN c.rows = 1..L + n
  BY <1>1, TruncatedFinite
<1>3. /\ U = {i \in 1..L + n : c.rows[i].term = "Truncated"}
      /\ T = {i \in 1..L : m.rows[i].term = "Truncated"}
      /\ S = {i \in 1..n : o.rows[i].term = "Truncated"}
  BY <1>2 DEF TruncatedIn
<1> HIDE DEF L, n, c, U, T, S
<1>4. ASSUME NEW i \in U
      PROVE  i \in T \cup {L + j : j \in S}
  <2>1. CASE i <= L
    <3>1. i \in 1..L
      BY <1>1, <1>3, <2>1
    <3> QED
      BY <1>1, <1>3, <3>1
  <2>2. CASE ~(i <= L)
    <3> DEFINE j == i - L
    <3>1. j \in 1..n /\ L + j = i
      BY <1>1, <1>3, <2>2
    <3> HIDE DEF j
    <3>2. c.rows[i] = o.rows[j]
      BY <1>1, <3>1
    <3>3. j \in S
      BY <1>3, <3>1, <3>2
    <3> QED
      BY <3>1, <3>3
  <2> QED
    BY <2>1, <2>2
<1>5. ASSUME NEW i \in T
      PROVE  i \in U
  <2>1. i \in 1..L /\ i \in 1..L + n
    BY <1>1, <1>3
  <2> QED
    BY <1>1, <1>3, <2>1
<1>6. ASSUME NEW j \in S
      PROVE  L + j \in U
  <2>1. j \in 1..n /\ L + j \in 1..L + n
    BY <1>1, <1>3
  <2>2. c.rows[L + j] = o.rows[j]
    BY <1>1, <2>1
  <2> QED
    BY <1>3, <2>1, <2>2
<1>7. U = T \cup {L + j : j \in S}
  BY <1>4, <1>5, <1>6
<1> QED
  BY <1>7 DEF U, T, S, L, c

(* Merging keeps the contract of the learner and every row's next          *)
(* observation.                                                            *)
LEMMA MergeAligned ==
    ASSUME NEW m \in MemoryType, NEW o \in MemoryType, Aligned(m), Aligned(o)
    PROVE  Aligned(Merge(m, o))
<1> DEFINE L == Len(m.rows)
           n == Len(o.rows)
           c == Merge(m, o)
           U == TruncatedIn(c.rows)
           T == TruncatedIn(m.rows)
           S == TruncatedIn(o.rows)
           k == Len(m.nexts)
           Upto(R, i) == {j \in R : j <= i}
<1>1. /\ c \in MemoryType /\ L \in Nat /\ n \in Nat /\ Len(c.rows) = L + n
      /\ \A i \in 1..L : c.rows[i] = m.rows[i]
      /\ \A i \in 1..n : c.rows[L + i] = o.rows[i]
  BY MergeRows DEF IsConcat
<1>2. /\ k \in Nat /\ Len(o.nexts) \in Nat /\ Len(c.nexts) = k + Len(o.nexts)
      /\ \A i \in 1..k : c.nexts[i] = m.nexts[i]
      /\ \A i \in 1..Len(o.nexts) : c.nexts[k + i] = o.nexts[i]
  BY MergeRows DEF IsConcat
<1>3. /\ T \subseteq 1..L /\ IsFiniteSet(T)
      /\ S \subseteq 1..n /\ IsFiniteSet(S)
      /\ U = T \cup {L + j : j \in S}
  BY TruncatedFinite, TruncatedMerge
<1>4. /\ k = Cardinality(T) /\ Len(o.nexts) = Cardinality(S)
      /\ m.rows # <<>> => m.rows[L].term # "None"
      /\ o.rows # <<>> => o.rows[n].term # "None"
      /\ \A i \in T : m.nexts[Cardinality(Upto(T, i))] = SuccessorOf(m.rows[i])
      /\ \A i \in S : o.nexts[Cardinality(Upto(S, i))] = SuccessorOf(o.rows[i])
  BY DEF Aligned, Valid, BootstrapIndex
<1>5. /\ m.rows = <<>> <=> L = 0
      /\ o.rows = <<>> <=> n = 0
      /\ c.rows # <<>> => L + n # 0
  <2>1. m.rows \in Seq(Row) /\ o.rows \in Seq(Row) /\ c.rows \in Seq(Row)
    BY <1>1 DEF MemoryType
  <2> QED
    BY <1>1, <2>1, EmptySeq
<1>6. ASSUME NEW R \in SUBSET S
      PROVE  /\ IsFiniteSet(R) /\ Cardinality(R) \in Nat
             /\ Cardinality(R) <= Cardinality(S)
             /\ Cardinality(T \cup {L + j : j \in R}) = k + Cardinality(R)
  <2>1. IsFiniteSet(R) /\ Cardinality(R) \in Nat /\ Cardinality(R) <= Cardinality(S)
    BY <1>3, FS_Subset, FS_CardinalityType
  <2> DEFINE B == {L + j : j \in R}
  <2>2. R \in SUBSET Nat
    BY <1>3
  <2>3. IsFiniteSet(B) /\ Cardinality(B) = Cardinality(R)
    BY <1>1, <2>1, <2>2, ShiftSize
  <2>4. T \cap B = {}
    <3>1. \A j \in R : j \in 1..n
      BY <1>3
    <3> HIDE DEF L, n, T, S
    <3>2. \A j \in R : L + j \notin 1..L
      BY <1>1, <3>1
    <3> QED
      BY <1>3, <3>2
  <2> HIDE DEF B
  <2>5. Cardinality(T \cap B) = 0
    BY <2>4, FS_EmptySet
  <2>6. Cardinality(T \cup B) = Cardinality(T) + Cardinality(B) - Cardinality(T \cap B)
    BY <1>3, <2>3, FS_Union
  <2> HIDE DEF T, k, S
  <2>7. Cardinality(T \cup B) = k + Cardinality(R)
    BY <1>2, <1>4, <2>1, <2>3, <2>5, <2>6
  <2> QED
    BY <2>1, <2>7 DEF B
<1> HIDE DEF L, n, c, U, T, S, k
<1>7. Len(c.nexts) = Cardinality(U)
  <2>1. S \in SUBSET S
    OBVIOUS
  <2> QED
    BY <1>2, <1>3, <1>4, <1>6, <2>1
<1>8. c.rows # <<>> => c.rows[L + n].term # "None"
  <2>1. CASE n = 0
    <3>1. CASE L = 0
      BY <1>5, <2>1, <3>1
    <3>2. CASE L # 0
      <4>1. L \in 1..L /\ L + n = L
        BY <1>1, <2>1, <3>2
      <4> QED
        BY <1>1, <1>4, <1>5, <3>2, <4>1
    <3> QED
      BY <3>1, <3>2
  <2>2. CASE n # 0
    <3>1. n \in 1..n
      BY <1>1, <2>2
    <3> QED
      BY <1>1, <1>4, <1>5, <2>2, <3>1
  <2> QED
    BY <2>1, <2>2
<1>9. ASSUME NEW i \in U
      PROVE  c.nexts[Cardinality(Upto(U, i))] = SuccessorOf(c.rows[i])
  <2>1. CASE i \in T
    <3>1. Upto(U, i) = Upto(T, i)
      <4>1. i \in 1..L /\ \A j \in S : j \in 1..n
        BY <1>3, <2>1
      <4>2. \A j \in 1..n : ~(L + j <= i)
        BY <1>1, <4>1
      <4> QED
        BY <1>3, <4>1, <4>2
    <3> DEFINE B == Upto(T, i)
    <3>2. B \in SUBSET T /\ i \in B
      <4>1. i <= i
        BY <1>1, <1>3, <2>1
      <4> QED
        BY <2>1, <4>1
    <3>3. m.nexts[Cardinality(B)] = SuccessorOf(m.rows[i])
      BY <1>4, <2>1
    <3>4. Upto(U, i) = B
      BY <3>1
    <3> HIDE DEF B, Upto
    <3>5. IsFiniteSet(B) /\ Cardinality(B) \in Nat /\ Cardinality(B) <= Cardinality(T)
      BY <1>3, <3>2, FS_Subset, FS_CardinalityType
    <3>6. Cardinality(B) # 0
      BY <3>2, <3>5, FS_EmptySet
    <3>7. Cardinality(B) \in 1..k
      BY <1>2, <1>4, <3>5, <3>6
    <3>8. c.rows[i] = m.rows[i]
      BY <1>1, <1>3, <2>1
    <3> QED
      BY <1>2, <3>3, <3>4, <3>7, <3>8
  <2>2. CASE i \notin T
    <3>1. PICK j \in S : i = L + j
      BY <1>3, <2>2
    <3> DEFINE R == Upto(S, j)
    <3>2. j \in 1..n /\ j \in Nat
      BY <1>3
    <3>3. Upto(U, i) = T \cup {L + h : h \in R}
      <4>1. \A h \in T : h <= L + j
        BY <1>1, <1>3, <3>2
      <4>2. \A h \in S : L + h <= L + j <=> h <= j
        BY <1>1, <1>3, <3>2
      <4> QED
        BY <1>3, <3>1, <4>1, <4>2
    <3>4. R \in SUBSET S /\ j \in R
      BY <3>2
    <3>5. o.nexts[Cardinality(R)] = SuccessorOf(o.rows[j])
      BY <1>4
    <3> HIDE DEF R, Upto
    <3>6. /\ IsFiniteSet(R) /\ Cardinality(R) \in Nat /\ Cardinality(R) <= Cardinality(S)
          /\ Cardinality(T \cup {L + h : h \in R}) = k + Cardinality(R)
      BY <1>6, <3>4
    <3>7. Cardinality(R) # 0
      BY <3>4, <3>6, FS_EmptySet
    <3>8. Cardinality(R) \in 1..Len(o.nexts)
      BY <1>2, <1>4, <3>6, <3>7
    <3>9. c.nexts[k + Cardinality(R)] = o.nexts[Cardinality(R)]
      BY <1>2, <3>8
    <3>10. c.rows[i] = o.rows[j]
      BY <1>1, <3>1, <3>2
    <3> QED
      BY <3>3, <3>5, <3>6, <3>9, <3>10
  <2> QED
    BY <2>1, <2>2
<1>10. Valid(c)
  BY <1>1, <1>7, <1>8 DEF Valid, U
<1>11. \A i \in TruncatedIn(c.rows) :
          c.nexts[BootstrapIndex(c.rows, i)] = SuccessorOf(c.rows[i])
  BY <1>9 DEF BootstrapIndex, U
<1> QED
  BY <1>10, <1>11 DEF Aligned, c

(* A segment is a memory of one pool that keeps the learner's contract.    *)
LEMMA SegmentFacts ==
    ASSUME NEW p \in Pools, NEW from \in Nat, NEW n \in Nat \ {0},
           NEW ending \in {"Normal", "Truncated"}
    PROVE  /\ Segment(p, from, n, ending) \in MemoryType
           /\ Aligned(Segment(p, from, n, ending))
           /\ Len(Segment(p, from, n, ending).rows) = n
           /\ \A i \in DOMAIN Segment(p, from, n, ending).rows :
                 Segment(p, from, n, ending).rows[i].pl = p
<1> DEFINE s == Segment(p, from, n, ending)
           rows == [i \in 1..n |-> [pl |-> p, at |-> from + i,
                                    term |-> IF i = n THEN ending ELSE "None"]]
           next == [pl |-> p, at |-> from + n + 1]
           nexts == IF ending = "Truncated" THEN <<next>> ELSE <<>>
<1>1. s.rows = rows /\ s.nexts = nexts /\ s = [rows |-> rows, nexts |-> nexts]
  BY DEF Segment
<1>2. \A i \in 1..n : rows[i] \in Row
  BY DEF Row, Terminals
<1>3. rows \in Seq(Row) /\ Len(rows) = n /\ DOMAIN rows = 1..n
  <2>1. rows \in [1..n -> Row]
    BY <1>2
  <2>2. n \in Nat
    OBVIOUS
  <2> HIDE DEF rows
  <2>3. rows \in Seq(Row)
    BY <2>1, <2>2, SeqDef
  <2> QED
    BY <2>1, <2>2, <2>3, LenProperties
<1>4. next \in Observation
  BY DEF Observation
<1>5. /\ nexts \in Seq(Observation)
      /\ Len(nexts) = (IF ending = "Truncated" THEN 1 ELSE 0)
      /\ ending = "Truncated" => nexts[1] = next
  <2> HIDE DEF next
  <2> QED
    BY <1>4
<1>6. TruncatedIn(rows) = IF ending = "Truncated" THEN {n} ELSE {}
  <2>1. \A i \in 1..n : rows[i].term = "Truncated" <=> i = n /\ ending = "Truncated"
    OBVIOUS
  <2>2. n \in 1..n
    OBVIOUS
  <2> HIDE DEF rows
  <2> QED
    BY <1>3, <2>1, <2>2 DEF TruncatedIn
<1>7. /\ rows[n].term = ending /\ rows[n].pl = p /\ rows[n].at = from + n
      /\ \A i \in 1..n : rows[i].pl = p
  OBVIOUS
<1>8. SuccessorOf(rows[n]) = next
  BY <1>7 DEF SuccessorOf
<1> HIDE DEF rows, nexts, next
<1>9. Cardinality(TruncatedIn(rows)) = Len(nexts)
  BY <1>5, <1>6, FS_EmptySet, FS_Singleton
<1>10. \A i \in TruncatedIn(rows) : nexts[BootstrapIndex(rows, i)] = SuccessorOf(rows[i])
  <2> SUFFICES ASSUME NEW i \in TruncatedIn(rows)
               PROVE  nexts[BootstrapIndex(rows, i)] = SuccessorOf(rows[i])
    OBVIOUS
  <2>1. i = n /\ ending = "Truncated" /\ TruncatedIn(rows) = {n}
    BY <1>6
  <2>2. {j \in TruncatedIn(rows) : j <= i} = {n}
    BY <2>1
  <2>3. BootstrapIndex(rows, i) = 1
    BY <2>2, FS_Singleton DEF BootstrapIndex
  <2> QED
    BY <1>5, <1>8, <2>1, <2>3
<1>11. s \in MemoryType
  BY <1>1, <1>3, <1>5 DEF MemoryType
<1>12. Aligned(s)
  BY <1>1, <1>3, <1>7, <1>9, <1>10 DEF Aligned, Valid
<1> QED
  BY <1>1, <1>3, <1>7, <1>11, <1>12 DEF s

(* Where the next segment starts. *)
LEMMA ResumeType ==
    ASSUME NEW m \in MemoryType
    PROVE  Resume(m.rows) \in Nat
<1>1. m.rows \in Seq(Row)
  BY DEF MemoryType
<1>2. CASE m.rows = <<>>
  BY <1>2 DEF Resume
<1>3. CASE m.rows # <<>>
  <2>1. Len(m.rows) \in 1..Len(m.rows)
    BY <1>1, <1>3, EmptySeq, LenProperties
  <2>2. \A s \in Seq(Row) : \A i \in 1..Len(s) : s[i] \in Row
    BY ElementOfSeq
  <2>3. m.rows[Len(m.rows)] \in Row
    BY <1>1, <2>1, <2>2
  <2> QED
    BY <1>3, <2>3 DEF Resume, Last, Row
<1> QED
  BY <1>2, <1>3

(* The empty memory. *)
LEMMA EmptyFacts ==
    /\ EmptyMemory \in MemoryType /\ Aligned(EmptyMemory)
    /\ Len(EmptyMemory.rows) = 0 /\ DOMAIN EmptyMemory.rows = {}
<1>1. EmptyMemory.rows = <<>> /\ EmptyMemory.nexts = <<>>
  BY DEF EmptyMemory
<1>2. EmptyMemory \in MemoryType
  BY DEF EmptyMemory, MemoryType
<1>3. TruncatedIn(EmptyMemory.rows) = {}
  BY <1>1 DEF TruncatedIn
<1> QED
  BY <1>1, <1>2, <1>3, FS_EmptySet, SMTT(30) DEF Aligned, Valid

(* Rows of a merged memory belong to the pools of its parts. *)
LEMMA MergeOwned ==
    ASSUME NEW m \in MemoryType, NEW o \in MemoryType, NEW a \in Nat, NEW p \in Nat, a <= p,
           Ordered(m.rows), \A i \in DOMAIN m.rows : m.rows[i].pl <= a,
           \A i \in DOMAIN o.rows : o.rows[i].pl = p
    PROVE  /\ Ordered(Merge(m, o).rows)
           /\ \A i \in DOMAIN Merge(m, o).rows : Merge(m, o).rows[i].pl <= p
<1> DEFINE L == Len(m.rows)
           n == Len(o.rows)
           c == Merge(m, o)
<1>1. /\ c \in MemoryType /\ L \in Nat /\ n \in Nat /\ Len(c.rows) = L + n
      /\ \A i \in 1..L : c.rows[i] = m.rows[i]
      /\ \A i \in 1..n : c.rows[L + i] = o.rows[i]
  BY MergeRows DEF IsConcat
<1>2. DOMAIN m.rows = 1..L /\ DOMAIN o.rows = 1..n /\ DOMAIN c.rows = 1..L + n
  BY <1>1, TruncatedFinite
<1>3. \A i \in 1..L : m.rows[i].pl \in Nat
  <2>1. m.rows \in Seq(Row)
    BY DEF MemoryType
  <2>2. \A s \in Seq(Row) : \A i \in 1..Len(s) : s[i] \in Row
    BY ElementOfSeq
  <2>3. \A i \in 1..L : m.rows[i] \in Row
    BY <2>1, <2>2
  <2>4. \A r \in Row : r.pl \in Nat
    BY DEF Row, Pools
  <2> QED
    BY <2>3, <2>4
<1>4. /\ \A i, j \in 1..L : i < j => m.rows[i].pl <= m.rows[j].pl
      /\ \A i \in 1..L : m.rows[i].pl <= a
      /\ \A i \in 1..n : o.rows[i].pl = p
  BY <1>2 DEF Ordered
<1> HIDE DEF L, n, c
<1>5. \A i \in 1..L + n : i \notin 1..L => c.rows[i].pl = p /\ i > L
  <2> SUFFICES ASSUME NEW i \in 1..L + n, i \notin 1..L
               PROVE  c.rows[i].pl = p /\ i > L
    OBVIOUS
  <2> DEFINE j == i - L
  <2>1. j \in 1..n /\ L + j = i /\ i > L
    BY <1>1
  <2> HIDE DEF j
  <2> QED
    BY <1>1, <1>4, <2>1
<1>6. \A i \in 1..L : c.rows[i].pl <= a /\ c.rows[i].pl \in Nat /\ c.rows[i].pl <= p
  BY <1>1, <1>3, <1>4
<1>7. ASSUME NEW i \in 1..L + n, NEW j \in 1..L + n, i < j
      PROVE  c.rows[i].pl <= c.rows[j].pl
  <2>1. CASE j \in 1..L
    <3>1. i \in 1..L
      BY <1>1, <1>7, <2>1
    <3> QED
      BY <1>1, <1>4, <1>7, <2>1, <3>1
  <2>2. CASE j \notin 1..L
    <3>1. c.rows[j].pl = p
      BY <1>5, <2>2
    <3>2. CASE i \in 1..L
      BY <1>6, <3>1, <3>2
    <3>3. CASE i \notin 1..L
      BY <1>5, <3>1, <3>3
    <3> QED
      BY <3>2, <3>3
  <2> QED
    BY <2>1, <2>2
<1>8. \A i \in 1..L + n : c.rows[i].pl <= p
  BY <1>5, <1>6
<1> QED
  BY <1>2, <1>7, <1>8 DEF Ordered, c

-----------------------------------------------------------------------------
(* The invariant holds at first and is kept by every step.                 *)
LEMMA InitIInv == Init => IInv
<1> SUFFICES ASSUME Init PROVE IInv
  OBVIOUS
<1>1. /\ mode \in Modes /\ pc = "idle" /\ budget = 0 /\ joined = 0 /\ merged = 0
      /\ shares = [p \in Pools |-> 0] /\ running = [p \in Pools |-> FALSE]
      /\ memories = [p \in Pools |-> EmptyMemory] /\ memory = EmptyMemory
  BY DEF Init
<1>2. NumPools \in Nat \ {0}
  BY SupervisorAssumption
<1>3. ControlInv
  BY <1>1, <1>2 DEF ControlInv
<1>4. PoolInv
  <2>1. memories \in [Pools -> MemoryType]
    BY <1>1, EmptyFacts
  <2>2. \A p \in Pools : memories[p] = EmptyMemory /\ shares[p] = 0
    BY <1>1
  <2> QED
    BY <1>1, <2>1, <2>2, EmptyFacts DEF PoolInv, WithinBound
<1>5. ShareOfFirst(budget, merged) = 0
  BY <1>1, SharesAddUp
<1>6. MergedInv
  BY <1>1, <1>5, EmptyFacts DEF MergedInv, Ordered, WithinBound
<1> QED
  BY <1>3, <1>4, <1>6 DEF IInv

(* A new rollout starts with nothing. *)
LEMMA RunKeeps ==
    ASSUME IInv, NEW total \in Budgets, RunInternal(total)
    PROVE  IInv'
<1>1. /\ mode' = mode /\ pc' = "collect" /\ budget' = total /\ shares' = Shares(total)
      /\ running' = [p \in Pools |-> TRUE] /\ memories' = [p \in Pools |-> EmptyMemory]
      /\ joined' = 0 /\ merged' = 0 /\ memory' = EmptyMemory
  BY DEF RunInternal
<1>2. total \in Nat /\ NumPools \in Nat \ {0}
  BY SupervisorAssumption
<1>3. mode \in Modes
  BY DEF IInv, ControlInv
<1>4. /\ ShareOfFirst(total, 0) = 0
      /\ Shares(total) \in [Pools -> Nat]
  BY <1>2, SharesAddUp
<1>8. ShareOfFirst(budget, merged)' = 0
  BY <1>1, <1>4
<1>5. ControlInv'
  <2>1. shares' \in [Pools -> Nat] /\ running' \in [Pools -> BOOLEAN]
    BY <1>1, <1>4
  <2>2. \A p \in Pools : ~(p <= joined')
    BY <1>1, <1>2 DEF Pools
  <2> QED
    BY <1>1, <1>2, <1>3, <2>1, <2>2 DEF ControlInv
<1>6. PoolInv'
  <2>1. memories' \in [Pools -> MemoryType]
    BY <1>1, EmptyFacts
  <2>2. \A p \in Pools : memories'[p] = EmptyMemory /\ running'[p] = TRUE /\ shares'[p] \in Nat
    BY <1>1, <1>4
  <2> QED
    BY <1>1, <2>1, <2>2, EmptyFacts DEF PoolInv, WithinBound
<1>7. MergedInv'
  BY <1>1, <1>8, EmptyFacts DEF MergedInv, Ordered, WithinBound
<1> QED
  BY <1>5, <1>6, <1>7 DEF IInv

(* What wanting more and being given more mean for a pool. *)
LEMMA ContractFacts ==
    ASSUME NEW p \in Pools
    PROVE  /\ Contract(p)!Wanted(mode, shares[p], memories[p].rows)
                <=> \/ Len(memories[p].rows) < shares[p]
                    \/ mode = "complete" /\ memories[p].rows = <<>>
           /\ \A n : Contract(p)!MayAdd(mode, BoundOf(p), memories[p].rows, n)
                        => WithinBound(Len(memories[p].rows) + n, shares[p])
BY DEF Contract!Wanted, Contract!MayAdd, BoundOf, WithinBound

(* A segment that a pool delivers. *)
LEMMA DeliverKeeps ==
    ASSUME IInv, NEW p \in Pools, NEW n \in 1..MaxSegment,
           NEW ending \in {"Normal", "Truncated"}, PoolDeliver(p, n, ending)
    PROVE  IInv'
<1> DEFINE m == memories[p]
           from == Resume(m.rows)
           s == Segment(p, from, n, ending)
<1>1. /\ pc = "collect" /\ running[p]
      /\ memories' = [memories EXCEPT ![p] = Merge(m, s)]
      /\ UNCHANGED <<mode, pc, budget, shares, running, joined, merged, memory>>
  BY DEF PoolDeliver
<1>2. WithinBound(Len(m.rows) + n, shares[p])
  BY ContractFacts DEF PoolDeliver
<1>3. /\ m \in MemoryType /\ Aligned(m)
      /\ \A i \in DOMAIN m.rows : m.rows[i].pl = p
      /\ memories \in [Pools -> MemoryType]
  BY DEF IInv, PoolInv
<1>4. n \in Nat \ {0} /\ n \in Nat
  BY SupervisorAssumption
<1>5. /\ s \in MemoryType /\ Aligned(s) /\ Len(s.rows) = n
      /\ \A i \in DOMAIN s.rows : s.rows[i].pl = p
  <2>1. from \in Nat
    BY <1>3, ResumeType
  <2> HIDE DEF from
  <2> QED
    BY <1>4, <2>1, SegmentFacts
<1> DEFINE c == Merge(m, s)
<1> HIDE DEF s
<1>6. c \in MemoryType /\ Aligned(c) /\ Len(c.rows) = Len(m.rows) + n
  BY <1>3, <1>5, MergeRows, MergeAligned DEF IsConcat
<1>7. \A i \in DOMAIN c.rows : c.rows[i].pl = p
  <2>1. /\ IsConcat(c.rows, m.rows, s.rows)
        /\ DOMAIN c.rows = 1..Len(c.rows)
        /\ DOMAIN m.rows = 1..Len(m.rows) /\ DOMAIN s.rows = 1..Len(s.rows)
    BY <1>3, <1>5, <1>6, MergeRows, TruncatedFinite
  <2> DEFINE L == Len(m.rows)
  <2>2. L \in Nat /\ \A i \in 1..L : c.rows[i] = m.rows[i]
    BY <2>1 DEF IsConcat
  <2>3. \A i \in 1..n : c.rows[L + i] = s.rows[i]
    BY <1>5, <2>1 DEF IsConcat
  <2> SUFFICES ASSUME NEW i \in 1..L + n PROVE c.rows[i].pl = p
    BY <1>6, <2>1
  <2>4. (\A j \in 1..L : m.rows[j].pl = p) /\ \A j \in 1..n : s.rows[j].pl = p
    BY <1>3, <1>5, <2>1
  <2> HIDE DEF L, c, m
  <2>5. CASE i \in 1..L
    BY <2>2, <2>4, <2>5
  <2>6. CASE i \notin 1..L
    <3> DEFINE j == i - L
    <3>1. j \in 1..n /\ L + j = i
      BY <1>4, <2>2, <2>6
    <3> HIDE DEF j
    <3> QED
      BY <2>3, <2>4, <3>1
  <2> QED
    BY <2>5, <2>6
<1> HIDE DEF c, m
<1>8. ControlInv'
  BY <1>1 DEF IInv, ControlInv
<1>9. PoolInv'
  <2>1. memories' \in [Pools -> MemoryType]
    BY <1>1, <1>3, <1>6 DEF c
  <2>2. memories'[p] = c /\ \A q \in Pools : q # p => memories'[q] = memories[q]
    BY <1>1, <1>3 DEF c
  <2>3. WithinBound(Len(c.rows), shares[p])
    BY <1>2, <1>6
  <2> SUFFICES ASSUME NEW q \in Pools
               PROVE  /\ Aligned(memories'[q])
                      /\ \A i \in DOMAIN memories'[q].rows : memories'[q].rows[i].pl = q
                      /\ WithinBound(Len(memories'[q].rows), shares[q])
                      /\ pc = "collect" /\ ~running[q] => Len(memories'[q].rows) >= shares[q]
    BY <1>1, <2>1 DEF PoolInv, WithinBound
  <2>4. CASE q = p
    BY <1>1, <1>6, <1>7, <2>2, <2>3, <2>4
  <2>5. CASE q # p
    BY <2>2, <2>5 DEF IInv, PoolInv
  <2> QED
    BY <2>4, <2>5
<1>10. MergedInv'
  BY <1>1 DEF IInv, MergedInv, WithinBound
<1> QED
  BY <1>8, <1>9, <1>10 DEF IInv

(* A pool that wants no more has its share. *)
LEMMA FinishKeeps ==
    ASSUME IInv, NEW p \in Pools, PoolFinish(p)
    PROVE  IInv'
<1>1. /\ pc = "collect" /\ running[p]
      /\ running' = [running EXCEPT ![p] = FALSE]
      /\ UNCHANGED <<mode, pc, budget, shares, memories, joined, merged, memory>>
  BY DEF PoolFinish
<1>2. Len(memories[p].rows) >= shares[p]
  <2>1. ~(Len(memories[p].rows) < shares[p])
    BY ContractFacts DEF PoolFinish
  <2>2. shares[p] \in Nat /\ Len(memories[p].rows) \in Nat
    <3>1. memories[p] \in MemoryType
      BY DEF IInv, PoolInv
    <3> QED
      BY <3>1, TruncatedFinite DEF IInv, ControlInv
  <2> QED
    BY <2>1, <2>2
<1>3. running \in [Pools -> BOOLEAN]
  BY DEF IInv, ControlInv
<1>4. running' \in [Pools -> BOOLEAN] /\ \A q \in Pools : ~running'[q] <=> q = p \/ ~running[q]
  BY <1>1, <1>3
<1>5. ControlInv'
  BY <1>1, <1>4 DEF IInv, ControlInv
<1>6. PoolInv'
  BY <1>1, <1>2, <1>4 DEF IInv, PoolInv, WithinBound
<1>7. MergedInv'
  BY <1>1 DEF IInv, MergedInv, WithinBound
<1> QED
  BY <1>5, <1>6, <1>7 DEF IInv

(* The next thread is joined. *)
LEMMA JoinKeeps ==
    ASSUME IInv, Join
    PROVE  IInv'
<1>1. /\ pc = "collect" /\ joined < NumPools /\ ~running[joined + 1] /\ joined' = joined + 1
      /\ UNCHANGED <<mode, pc, budget, shares, running, memories, merged, memory>>
  BY DEF Join
<1>2. joined \in 0..NumPools /\ NumPools \in Nat /\ merged \in 0..NumPools
  BY SupervisorAssumption DEF IInv, ControlInv
<1>3. joined' \in 0..NumPools /\ merged = 0
  <2>1. ~(merged > 0)
    BY <1>1, <1>2 DEF IInv, ControlInv
  <2> QED
    BY <1>1, <1>2, <2>1
<1>4. \A p \in Pools : p <= joined' => p <= joined \/ p = joined + 1
  BY <1>1, <1>2 DEF Pools
<1>5. ControlInv'
  BY <1>1, <1>3, <1>4 DEF IInv, ControlInv
<1>6. PoolInv' /\ MergedInv'
  BY <1>1 DEF IInv, PoolInv, MergedInv, WithinBound
<1> QED
  BY <1>5, <1>6 DEF IInv

(* The next result is merged. *)
LEMMA MergeKeeps ==
    ASSUME IInv, MergeResult
    PROVE  IInv'
<1> DEFINE p == merged + 1
           o == memories[p]
           c == Merge(memory, o)
           asked == ShareOfFirst(budget, merged)
<1>1. /\ pc = "collect" /\ joined = NumPools /\ memory' = c /\ merged' = p
      /\ pc' = (IF p = NumPools THEN "idle" ELSE pc)
      /\ UNCHANGED <<mode, budget, shares, running, memories, joined>>
  BY DEF MergeResult, ToMerge
<1>2. /\ merged \in 0..NumPools /\ merged < NumPools /\ NumPools \in Nat \ {0}
      /\ budget \in Nat /\ shares = Shares(budget) /\ shares \in [Pools -> Nat]
  BY <1>1, SupervisorAssumption DEF IInv, ControlInv
<1>3. p \in Pools /\ p \in 0..NumPools /\ p \in Nat /\ merged \in Nat /\ merged <= p /\ p > 0
      /\ merged \in 0..(NumPools - 1)
  BY <1>2 DEF Pools
<1>4. ~running[p]
  BY <1>1, <1>2, <1>3 DEF IInv, ControlInv
<1>5. /\ o \in MemoryType /\ Aligned(o)
      /\ \A i \in DOMAIN o.rows : o.rows[i].pl = p
      /\ WithinBound(Len(o.rows), shares[p])
      /\ Len(o.rows) >= shares[p]
  BY <1>1, <1>3, <1>4 DEF IInv, PoolInv
<1>6. /\ memory \in MemoryType /\ Aligned(memory) /\ Ordered(memory.rows)
      /\ \A i \in DOMAIN memory.rows : memory.rows[i].pl <= merged
      /\ Len(memory.rows) >= asked
      /\ WithinBound(Len(memory.rows), asked)
  BY DEF IInv, MergedInv
<1> HIDE DEF o
<1>7. /\ c \in MemoryType /\ Aligned(c) /\ Len(c.rows) = Len(memory.rows) + Len(o.rows)
      /\ Len(memory.rows) \in Nat /\ Len(o.rows) \in Nat
  BY <1>5, <1>6, MergeRows, MergeAligned DEF IsConcat
<1>8. Ordered(c.rows) /\ \A i \in DOMAIN c.rows : c.rows[i].pl <= p
  <2> HIDE DEF p
  <2> QED
    BY <1>3, <1>5, <1>6, MergeOwned
<1>9. ShareOfFirst(budget, p) = asked + shares[p] /\ asked \in Nat /\ shares[p] \in Nat
  <2>1. ShareOfFirst(budget, merged + 1)
          = ShareOfFirst(budget, merged) + Shares(budget)[merged + 1]
    BY <1>2, <1>3, SharesAddUp
  <2>2. ShareOfFirst(budget, merged) \in Nat
    BY <1>2, SharesAddUp
  <2> QED
    BY <1>2, <1>3, <2>1, <2>2
<1> HIDE DEF p, c, asked
<1>10. /\ Len(c.rows) >= ShareOfFirst(budget, p)
       /\ WithinBound(Len(c.rows), ShareOfFirst(budget, p))
  <2> DEFINE a == Len(memory.rows)
             b == Len(o.rows)
             y == shares[p]
  <2>1. /\ a \in Nat /\ b \in Nat /\ asked \in Nat /\ y \in Nat
        /\ a >= asked /\ b >= y /\ WithinBound(a, asked) /\ WithinBound(b, y)
    BY <1>5, <1>6, <1>7, <1>9
  <2>2. Len(c.rows) = a + b /\ ShareOfFirst(budget, p) = asked + y
    BY <1>7, <1>9
  <2> HIDE DEF a, b, y
  <2>3. WithinBound(a + b, asked + y) /\ a + b >= asked + y
    BY <2>1, BoundsAdd
  <2> QED
    BY <2>2, <2>3
<1>11. ControlInv'
  <2>1. pc' \in {"idle", "collect"} /\ (pc' = "collect" => p # NumPools)
    BY <1>1
  <2>2. pc' = "collect" => p < NumPools
    BY <1>2, <1>3, <2>1
  <2> QED
    BY <1>1, <1>2, <1>3, <2>1, <2>2 DEF IInv, ControlInv
<1>12. PoolInv'
  BY <1>1 DEF IInv, PoolInv, WithinBound
<1>13. MergedInv'
  <2>1. /\ memory' = c /\ ShareOfFirst(budget, merged)' = ShareOfFirst(budget, p)
        /\ (pc' = "idle" => p = NumPools) /\ merged' = p /\ mode' = mode
    BY <1>1
  <2>2. WithinBound(Len(memory.rows), ShareOfFirst(budget, merged))'
    BY <1>10, <2>1 DEF WithinBound
  <2> QED
    BY <1>7, <1>8, <1>10, <2>1, <2>2 DEF MergedInv
<1> QED
  BY <1>11, <1>12, <1>13 DEF IInv

(* Every step keeps the invariant. *)
LEMMA NextIInv == IInv /\ [Next]_vars => IInv'
<1> SUFFICES ASSUME IInv, [Next]_vars PROVE IInv'
  OBVIOUS
<1>1. CASE \E total \in Budgets : RunInternal(total)
  BY <1>1, RunKeeps
<1>2. CASE \E p \in Pools : PoolStep(p)
  <2>1. PICK p \in Pools : PoolStep(p)
    BY <1>2
  <2> QED
    BY <2>1, DeliverKeeps, FinishKeeps DEF PoolStep
<1>3. CASE Join
  BY <1>3, JoinKeeps
<1>4. CASE MergeResult
  BY <1>4, MergeKeeps
<1>5. CASE UNCHANGED vars
  BY <1>5 DEF vars, IInv, ControlInv, PoolInv, MergedInv, WithinBound
<1> QED
  BY <1>1, <1>2, <1>3, <1>4, <1>5 DEF Next

-----------------------------------------------------------------------------
(* The merged rollout has the size its mode promises, for every number of  *)
(* pools and every budget, the budgets that are fewer than the pools       *)
(* included (run_internal, split_budget).                                  *)
THEOREM RolloutSized == Spec => []RolloutSize
<1>1. IInv => RolloutSize
  <2> SUFFICES ASSUME IInv, Returned PROVE
               /\ Len(memory.rows) >= budget
               /\ mode = "exact" => Len(memory.rows) = budget
               /\ mode = "overbatch" /\ budget > 0 => Len(memory.rows) < 2 * budget
    BY DEF RolloutSize
  <2>1. /\ budget \in Nat /\ merged \in 0..NumPools /\ memory \in MemoryType
        /\ Len(memory.rows) >= ShareOfFirst(budget, merged)
        /\ WithinBound(Len(memory.rows), ShareOfFirst(budget, merged))
        /\ merged = NumPools \/ budget = 0
    BY DEF IInv, ControlInv, MergedInv, Returned
  <2>2. Len(memory.rows) \in Nat
    BY <2>1, TruncatedFinite
  <2>3. ShareOfFirst(budget, NumPools) = budget
    BY <2>1, SharesAddUp
  <2>4. budget = 0 => ShareOfFirst(budget, merged) = 0
    <3> SUFFICES ASSUME budget = 0 PROVE ShareOfFirst(0, merged) = 0
      OBVIOUS
    <3>1. NumPools \in Nat \ {0} /\ merged \in Nat
      BY <2>1, SupervisorAssumption
    <3>2. 0 \div NumPools = 0 /\ 0 % NumPools = 0
      BY <3>1
    <3> QED
      BY <3>1, <3>2 DEF ShareOfFirst
  <2>5. ShareOfFirst(budget, merged) = budget
    BY <2>1, <2>3, <2>4
  <2> QED
    BY <2>1, <2>2, <2>5 DEF WithinBound
<1> QED
  BY InitIInv, NextIInv, <1>1, PTL DEF Spec

(* The merged rollout keeps the learner's contract, and every truncated    *)
(* row the observation that followed it in its own pool (Memory::merge).   *)
THEOREM MergeIsAligned == Spec => []MergeKeepsBootstraps
<1>1. IInv => MergeKeepsBootstraps
  BY DEF IInv, MergedInv, Aligned, MergeKeepsBootstraps
<1> QED
  BY InitIInv, NextIInv, <1>1, PTL DEF Spec

(* The rollout lists the pools in pool order, whichever finished first.    *)
THEOREM PoolsInOrder == Spec => []PoolOrder
<1>1. IInv => PoolOrder
  BY DEF IInv, MergedInv, Ordered, PoolOrder
<1> QED
  BY InitIInv, NextIInv, <1>1, PTL DEF Spec
=============================================================================
