--------------------------------- MODULE Ranks ---------------------------------
(***************************************************************************)
(* Facts about finite sets of natural numbers that the proofs about        *)
(* folders named after numbers need: least and greatest elements, and the  *)
(* rank of an element, the number of elements below it; and about          *)
(* sequences of sequences put one after another.                           *)
(***************************************************************************)
EXTENDS Naturals, FiniteSets, FiniteSetsExt, SequencesExt,
        FiniteSetTheorems, SequenceTheorems, TLAPS

Below(S, d) == {e \in S : e < d}
Lowest(S, n) == {d \in S : Cardinality({e \in S : e < d}) < n}

(* Every non-empty set of natural numbers has a least element. *)
LEMMA LeastExists ==
    ASSUME NEW S \in SUBSET Nat, S # {}
    PROVE  \E m \in S : \A n \in S : m <= n
<1> DEFINE R == {ss \in Nat \X Nat : ss[1] < ss[2]}
<1>1. OpToRel(<, Nat) = R
  BY ZenonT(30) DEF OpToRel
<1>2. IsWellFoundedOn(R, Nat)
  BY <1>1, NatLessThanWellFounded, Zenon
<1>3. \A n, m \in Nat : n < m => <<n, m>> \in R
  OBVIOUS
<1> HIDE DEF R
<1>4. PICK m \in S : \A n \in S : ~ (<<n, m>> \in R)
  BY <1>2, WFMin
<1>5. ASSUME NEW n \in S
      PROVE  m <= n
  <2>1. n \in Nat /\ m \in Nat
    OBVIOUS
  <2>2. ~ (n < m)
    BY <1>3, <1>4, <2>1, Zenon
  <2> QED
    BY <2>1, <2>2
<1> QED
  BY <1>5

(* Every non-empty bounded one has a greatest element. *)
LEMMA GreatestExists ==
    ASSUME NEW S \in SUBSET Nat, S # {}, NEW b \in Nat, \A n \in S : n <= b
    PROVE  \E m \in S : \A n \in S : n <= m
<1> DEFINE T == {k \in Nat : b - k \in S}
<1>1. T \in SUBSET Nat /\ T # {}
  <2>1. PICK n \in S : TRUE
    OBVIOUS
  <2>2. b - n \in Nat /\ b - (b - n) = n
    BY <2>1
  <2> QED
    BY <2>1, <2>2
<1>2. PICK k \in T : \A l \in T : k <= l
  <2> HIDE DEF T
  <2> QED
    BY <1>1, LeastExists
<1>3. ASSUME NEW n \in S
      PROVE  n <= b - k
  <2>1. b - n \in T
    BY <1>3
  <2>2. k <= b - n
    BY <1>2, <2>1
  <2> QED
    BY <2>2
<1> QED
  BY <1>3

(* Min and Max of the community modules are those elements. *)
LEMMA MinIsLeast ==
    ASSUME NEW S \in SUBSET Nat, S # {}
    PROVE  Min(S) \in S /\ \A n \in S : Min(S) <= n
BY LeastExists, Zenon DEF Min

(* The same for Max. *)
LEMMA MaxIsGreatest ==
    ASSUME NEW S \in SUBSET Nat, S # {}, NEW b \in Nat, \A n \in S : n <= b
    PROVE  Max(S) \in S /\ \A n \in S : n <= Max(S)
<1>1. \E m \in S : \A n \in S : m >= n
  BY GreatestExists
<1>2. Max(S) \in S /\ \A n \in S : Max(S) >= n
  BY <1>1, Zenon DEF Max
<1> QED
  BY <1>2

(* Ranks are natural numbers below the size of the set. *)
LEMMA RankType ==
    ASSUME NEW S \in SUBSET Nat, IsFiniteSet(S), NEW d \in S
    PROVE  /\ Below(S, d) \in SUBSET S /\ IsFiniteSet(Below(S, d))
           /\ Cardinality(Below(S, d)) \in Nat
           /\ Cardinality(Below(S, d)) < Cardinality(S)
<1>1. Below(S, d) \in SUBSET S /\ d \notin Below(S, d)
  BY DEF Below
<1>2. /\ IsFiniteSet(Below(S, d))
      /\ Cardinality(Below(S, d)) <= Cardinality(S)
      /\ Cardinality(Below(S, d)) = Cardinality(S) => S = Below(S, d)
  BY <1>1, FS_Subset
<1>3. Cardinality(Below(S, d)) \in Nat /\ Cardinality(S) \in Nat
  BY <1>2, FS_CardinalityType
<1> QED
  BY <1>1, <1>2, <1>3

(* A larger element has a larger rank. *)
LEMMA RankGrows ==
    ASSUME NEW S \in SUBSET Nat, IsFiniteSet(S), NEW d \in S, NEW e \in S, d < e
    PROVE  Cardinality(Below(S, d)) < Cardinality(Below(S, e))
<1>1. Below(S, d) \in SUBSET Below(S, e) /\ d \in Below(S, e) /\ d \notin Below(S, d)
  <2>1. \A x \in S : x < d => x < e
    OBVIOUS
  <2>2. d \in Nat /\ ~ (d < d)
    OBVIOUS
  <2> QED
    BY <2>1, <2>2 DEF Below
<1>2. IsFiniteSet(Below(S, e))
  BY RankType
<1>3. /\ Cardinality(Below(S, d)) <= Cardinality(Below(S, e))
      /\ Cardinality(Below(S, e)) = Cardinality(Below(S, d)) => Below(S, e) = Below(S, d)
  BY <1>1, <1>2, FS_Subset
<1>4. Cardinality(Below(S, d)) \in Nat /\ Cardinality(Below(S, e)) \in Nat
  BY RankType
<1> QED
  BY <1>1, <1>3, <1>4

(* Every number below the size of the set is the rank of an element: the   *)
(* induction takes the least number that is none.                          *)
LEMMA RankExists ==
    ASSUME NEW S \in SUBSET Nat, IsFiniteSet(S),
           NEW k \in Nat, k < Cardinality(S)
    PROVE  \E d \in S : Cardinality(Below(S, d)) = k
<1> DEFINE Bad == {n \in Nat : n < Cardinality(S) /\ \A d \in S : Cardinality(Below(S, d)) # n}
<1>1. Cardinality(S) \in Nat
  BY FS_CardinalityType
<1> SUFFICES ASSUME Bad # {}
             PROVE  FALSE
  OBVIOUS
<1>2. PICK n \in Bad : \A m \in Bad : n <= m
  <2>1. Bad \in SUBSET Nat
    OBVIOUS
  <2> HIDE DEF Bad
  <2> QED
    BY <2>1, LeastExists
<1>3. n \in Nat /\ n < Cardinality(S) /\ \A d \in S : Cardinality(Below(S, d)) # n
  OBVIOUS
<1>4. PICK T \in SUBSET S : /\ Cardinality(T) = n
                            /\ \A d \in S \ T, e \in T : e < d
  <2>1. CASE n = 0
    BY <2>1, FS_EmptySet
  <2>2. CASE n # 0
    <3>1. n - 1 \in Nat /\ n - 1 < n /\ n - 1 < Cardinality(S)
      BY <1>1, <1>3, <2>2
    <3>2. n - 1 \notin Bad
      BY <1>2, <3>1
    <3>3. PICK c \in S : Cardinality(Below(S, c)) = n - 1
      BY <3>1, <3>2
    <3>4. c \notin Below(S, c) /\ IsFiniteSet(Below(S, c))
      BY RankType DEF Below
    <3>5. Cardinality(Below(S, c) \cup {c}) = n
      <4>1. Cardinality(Below(S, c) \cup {c}) = Cardinality(Below(S, c)) + 1
        BY <3>4, FS_AddElement
      <4> QED
        BY <1>3, <3>3, <4>1
    <3>6. Below(S, c) \cup {c} \in SUBSET S
      BY DEF Below
    <3>7. \A d \in S \ (Below(S, c) \cup {c}), e \in Below(S, c) \cup {c} : e < d
      BY DEF Below
    <3> QED
      BY <3>5, <3>6, <3>7
  <2> QED
    BY <2>1, <2>2
<1>5. S \ T # {}
  <2>1. T # S
    BY <1>1, <1>3, <1>4
  <2> QED
    BY <2>1
<1>6. PICK d \in S \ T : \A e \in S \ T : d <= e
  BY <1>5, LeastExists
<1>7. Below(S, d) = T
  <2>1. ASSUME NEW e \in S
        PROVE  e < d <=> e \in T
    <3>1. e \in Nat /\ d \in Nat
      OBVIOUS
    <3> QED
      BY <1>4, <1>6, <3>1
  <2> QED
    BY <2>1 DEF Below
<1> QED
  BY <1>3, <1>4, <1>6, <1>7

(* The n elements of lowest rank are n. *)
LEMMA LowestAre ==
    ASSUME NEW S \in SUBSET Nat, IsFiniteSet(S), NEW n \in Nat, n <= Cardinality(S)
    PROVE  /\ Lowest(S, n) \in SUBSET S /\ IsFiniteSet(Lowest(S, n))
           /\ Cardinality(Lowest(S, n)) >= n
           /\ Cardinality(S \ Lowest(S, n)) <= Cardinality(S) - n
<1> DEFINE L == Lowest(S, n)
           f == [d \in L |-> Cardinality(Below(S, d)) + 1]
<1>1. L \in SUBSET S /\ \A d \in S : d \in L <=> Cardinality(Below(S, d)) < n
  BY DEF Lowest, Below
<1>2. IsFiniteSet(L)
  BY <1>1, FS_Subset
<1>3. f \in Surjection(L, 1..n)
  <2>1. \A d \in L : f[d] \in 1..n
    <3> SUFFICES ASSUME NEW d \in L
                 PROVE  Cardinality(Below(S, d)) + 1 \in 1..n
      OBVIOUS
    <3>1. Cardinality(Below(S, d)) \in Nat
      BY <1>1, RankType
    <3>2. Cardinality(Below(S, d)) < n
      BY <1>1
    <3> QED
      BY <3>1, <3>2
  <2>2. ASSUME NEW i \in 1..n
        PROVE  \E d \in L : f[d] = i
    <3>1. i - 1 \in Nat /\ i - 1 < n /\ i - 1 < Cardinality(S) /\ (i - 1) + 1 = i
      BY FS_CardinalityType
    <3>2. PICK d \in S : Cardinality(Below(S, d)) = i - 1
      BY <3>1, RankExists
    <3>3. d \in L
      BY <1>1, <3>1, <3>2
    <3> QED
      BY <3>1, <3>2, <3>3
  <2>3. f \in [L -> 1..n]
    BY <2>1
  <2> HIDE DEF f, L
  <2> QED
    BY <2>2, <2>3 DEF Surjection
<1>4. Cardinality(1..n) = n
  BY FS_Interval
<1> HIDE DEF f
<1>5. Cardinality(1..n) <= Cardinality(L)
  BY <1>2, <1>3, FS_Surjection
<1>6. Cardinality(L) >= n
  BY <1>2, <1>4, <1>5, FS_CardinalityType
<1>7. Cardinality(S \ L) = Cardinality(S) - Cardinality(S \cap L)
  BY FS_Difference
<1>8. S \cap L = L
  BY <1>1
<1>9. Cardinality(S) \in Nat /\ Cardinality(L) \in Nat
  BY <1>2, FS_CardinalityType
<1> QED
  BY <1>1, <1>2, <1>6, <1>7, <1>8, <1>9

-----------------------------------------------------------------------------
(* What FlattenSeq is defined by: the first i sequences, one after another. *)
Accumulated(seqs, k, f) ==
    f = [i \in 1..k |-> IF i = 1 THEN seqs[i] ELSE f[i - 1] \o seqs[i]]

(* There is such a function, for as many of the sequences as one likes.    *)
LEMMA PrefixesExist ==
    ASSUME NEW seqs, NEW k \in Nat
    PROVE  \E f : Accumulated(seqs, k, f)
<1> SUFFICES ASSUME ~ \E f : Accumulated(seqs, k, f)
             PROVE  FALSE
  OBVIOUS
<1> DEFINE Bad == {n \in Nat : ~ \E f : Accumulated(seqs, n, f)}
<1>1. PICK m \in Bad : \A n \in Bad : m <= n
  <2>1. Bad \in SUBSET Nat /\ Bad # {}
    OBVIOUS
  <2> HIDE DEF Bad
  <2> QED
    BY <2>1, LeastExists
<1>2. m \in Nat /\ ~ \E f : Accumulated(seqs, m, f)
  OBVIOUS
<1>3. m # 0
  <2>1. Accumulated(seqs, 0, [i \in 1..0 |-> 0])
    BY DEF Accumulated
  <2> QED
    BY <1>2, <2>1
<1>4. PICK f : Accumulated(seqs, m - 1, f)
  <2>1. m - 1 \in Nat /\ ~(m <= m - 1)
    BY <1>2, <1>3
  <2>2. m - 1 \notin Bad
    BY <1>1, <2>1
  <2> QED
    BY <2>1, <2>2
<1> DEFINE g == [i \in 1..m |-> IF i = m THEN (IF i = 1 THEN seqs[i] ELSE f[m - 1] \o seqs[i])
                                ELSE f[i]]
<1>5. ASSUME NEW i \in 1..m
      PROVE  g[i] = IF i = 1 THEN seqs[i] ELSE g[i - 1] \o seqs[i]
  <2>1. CASE i = m /\ i = 1
    BY <2>1
  <2>2. CASE i = m /\ i # 1
    <3>1. i - 1 \in 1..m /\ i - 1 # m /\ i - 1 = m - 1
      BY <1>2, <2>2
    <3>2. g[i - 1] = f[m - 1]
      BY <3>1
    <3> QED
      BY <2>2, <3>2
  <2>3. CASE i # m
    <3>1. i \in 1..(m - 1)
      BY <1>2, <2>3
    <3>2. f[i] = IF i = 1 THEN seqs[i] ELSE f[i - 1] \o seqs[i]
      BY <1>4, <3>1 DEF Accumulated
    <3>3. i # 1 => i - 1 \in 1..m /\ i - 1 # m
      BY <1>2, <3>1
    <3> QED
      BY <2>3, <3>2, <3>3
  <2> QED
    BY <2>1, <2>2, <2>3
<1>6. g = [i \in 1..m |-> g[i]]
  OBVIOUS
<1> HIDE DEF g
<1>7. Accumulated(seqs, m, g)
  BY <1>5, <1>6, Zenon DEF Accumulated
<1> QED
  BY <1>2, <1>7

(* What FlattenSeq is. *)
LEMMA FlattenIs ==
    ASSUME NEW seqs, Len(seqs) \in Nat
    PROVE  \E f : /\ Accumulated(seqs, Len(seqs), f)
                  /\ FlattenSeq(seqs) = IF Len(seqs) = 0 THEN seqs ELSE f[Len(seqs)]
<1> DEFINE f == CHOOSE f : f = [i \in 1..Len(seqs) |->
                                   IF i = 1 THEN seqs[i] ELSE f[i - 1] \o seqs[i]]
<1>0. \E h : Accumulated(seqs, Len(seqs), h)
  BY PrefixesExist
<1>1. \E h : h = [i \in 1..Len(seqs) |-> IF i = 1 THEN seqs[i] ELSE h[i - 1] \o seqs[i]]
  BY <1>0, Zenon DEF Accumulated
<1>2. f = [i \in 1..Len(seqs) |-> IF i = 1 THEN seqs[i] ELSE f[i - 1] \o seqs[i]]
  BY <1>1, Zenon
<1>3. FlattenSeq(seqs) = IF Len(seqs) = 0 THEN seqs ELSE f[Len(seqs)]
  BY Zenon DEF FlattenSeq
<1> HIDE DEF f
<1> QED
  BY <1>2, <1>3, Zenon DEF Accumulated

(* Induction on the numbers from 1 to k.                                   *)
LEMMA OneAfterAnother ==
    ASSUME NEW k \in Nat, NEW G \in SUBSET (1..k),
           \A i \in 1..k : (i = 1 \/ i - 1 \in G) => i \in G
    PROVE  G = 1..k
<1> DEFINE Bad == (1..k) \ G
<1> SUFFICES ASSUME Bad # {} PROVE FALSE
  OBVIOUS
<1>1. PICK m \in Bad : \A n \in Bad : m <= n
  <2>1. Bad \in SUBSET Nat /\ Bad # {}
    OBVIOUS
  <2> HIDE DEF Bad
  <2> QED
    BY <2>1, LeastExists
<1>2. m \in 1..k /\ m # 1 /\ m - 1 \notin G
  OBVIOUS
<1>3. m - 1 \in Bad
  BY <1>2
<1>4. m <= m - 1
  BY <1>1, <1>3
<1> QED
  BY <1>2, <1>4

(* One step of the definition. *)
LEMMA PrefixStep ==
    ASSUME NEW seqs, NEW k \in Nat, NEW f, Accumulated(seqs, k, f), NEW i \in 1..k
    PROVE  f[i] = IF i = 1 THEN seqs[i] ELSE f[i - 1] \o seqs[i]
BY DEF Accumulated

(* The prefixes are sequences of the same kind. *)
LEMMA PrefixesTyped ==
    ASSUME NEW S, NEW seqs \in Seq(Seq(S)), NEW f, Accumulated(seqs, Len(seqs), f)
    PROVE  \A i \in 1..Len(seqs) : f[i] \in Seq(S)
<1> DEFINE k == Len(seqs)
           G == {i \in 1..k : f[i] \in Seq(S)}
<1>1. k \in Nat /\ \A i \in 1..k : seqs[i] \in Seq(S)
  OBVIOUS
<1>2. ASSUME NEW i \in 1..k, i = 1 \/ i - 1 \in G
      PROVE  i \in G
  <2>1. f[i] = IF i = 1 THEN seqs[i] ELSE f[i - 1] \o seqs[i]
    BY <1>1, PrefixStep
  <2>2. CASE i = 1
    BY <1>1, <2>1, <2>2
  <2>3. CASE i # 1
    <3>1. f[i - 1] \in Seq(S) /\ seqs[i] \in Seq(S)
      BY <1>1, <1>2, <2>3
    <3>2. f[i - 1] \o seqs[i] \in Seq(S)
      BY <3>1, ConcatProperties
    <3> QED
      BY <2>1, <2>3, <3>2
  <2> QED
    BY <2>2, <2>3
<1>3. G \in SUBSET (1..k)
  OBVIOUS
<1>4. G = 1..k
  <2> HIDE DEF G, k
  <2> QED
    BY <1>1, <1>2, <1>3, OneAfterAnother
<1> QED
  BY <1>4

(* No sequence, and a single one. *)
LEMMA FlattenFew ==
    ASSUME NEW S
    PROVE  /\ FlattenSeq(<<>>) = <<>>
           /\ \A s \in Seq(S) : FlattenSeq(<<s>>) = s
           /\ \A seqs \in Seq(Seq(S)) : FlattenSeq(seqs) \in Seq(S)
<1>1. FlattenSeq(<<>>) = <<>>
  <2>1. Len(<<>>) = 0
    OBVIOUS
  <2> QED
    BY <2>1, FlattenIs
<1>2. ASSUME NEW s \in Seq(S)
      PROVE  FlattenSeq(<<s>>) = s
  <2> DEFINE one == <<s>>
  <2>1. Len(one) = 1 /\ one[1] = s /\ Len(one) \in Nat
    OBVIOUS
  <2> HIDE DEF one
  <2>2. PICK f : /\ Accumulated(one, Len(one), f)
                 /\ FlattenSeq(one) = IF Len(one) = 0 THEN one ELSE f[Len(one)]
    BY <2>1, FlattenIs
  <2>3. f[1] = one[1]
    BY <2>1, <2>2 DEF Accumulated
  <2> QED
    BY <2>1, <2>2, <2>3 DEF one
<1>3. ASSUME NEW seqs \in Seq(Seq(S))
      PROVE  FlattenSeq(seqs) \in Seq(S)
  <2>1. Len(seqs) \in Nat
    OBVIOUS
  <2>2. PICK f : /\ Accumulated(seqs, Len(seqs), f)
                 /\ FlattenSeq(seqs) = IF Len(seqs) = 0 THEN seqs ELSE f[Len(seqs)]
    BY <2>1, FlattenIs
  <2>3. CASE Len(seqs) = 0
    <3>1. seqs = <<>> /\ <<>> \in Seq(S)
      BY <2>3
    <3> QED
      BY <2>2, <2>3, <3>1
  <2>4. CASE Len(seqs) # 0
    <3>1. f[Len(seqs)] \in Seq(S)
      <4>1. Len(seqs) \in 1..Len(seqs)
        BY <2>1, <2>4
      <4> QED
        BY <2>2, <4>1, PrefixesTyped
    <3> QED
      BY <2>2, <2>4, <3>1
  <2> QED
    BY <2>3, <2>4
<1> QED
  BY <1>1, <1>2, <1>3

(* Flattening goes part by part. *)
LEMMA FlattenConcat ==
    ASSUME NEW S, NEW s \in Seq(Seq(S)), NEW t \in Seq(Seq(S))
    PROVE  FlattenSeq(s \o t) = FlattenSeq(s) \o FlattenSeq(t)
<1>0. ASSUME NEW a \in Seq(S), NEW b \in Seq(S), NEW c \in Seq(S)
      PROVE  (a \o b) \o c = a \o (b \o c)
  BY ConcatAssociative, SMTT(60)
<1> DEFINE n == Len(s)
           m == Len(t)
           st == s \o t
           F == FlattenSeq(s)
<1>1. /\ st \in Seq(Seq(S)) /\ Len(st) = n + m /\ n \in Nat /\ m \in Nat
      /\ \A i \in 1..n : st[i] = s[i]
      /\ \A i \in 1..m : st[n + i] = t[i] /\ t[i] \in Seq(S)
  BY ConcatProperties
<1>2. F \in Seq(S) /\ FlattenSeq(t) \in Seq(S)
  BY FlattenFew
<1> HIDE DEF st
<1>3. PICK f : /\ Accumulated(st, n + m, f)
               /\ FlattenSeq(st) = IF n + m = 0 THEN st ELSE f[n + m]
  <2>1. Len(st) \in Nat
    BY <1>1
  <2>2. \E f : /\ Accumulated(st, Len(st), f)
               /\ FlattenSeq(st) = IF Len(st) = 0 THEN st ELSE f[Len(st)]
    BY <2>1, FlattenIs
  <2> QED
    BY <1>1, <2>2
<1>4. PICK g : /\ Accumulated(s, n, g)
               /\ F = IF n = 0 THEN s ELSE g[n]
  BY <1>1, FlattenIs
<1>5. PICK h : /\ Accumulated(t, m, h)
               /\ FlattenSeq(t) = IF m = 0 THEN t ELSE h[m]
  BY <1>1, FlattenIs
<1>6. \A i \in 1..m : h[i] \in Seq(S)
  BY <1>5, PrefixesTyped
<1>7. \A i \in 1..n : f[i] = g[i]
  <2> DEFINE G == {i \in 1..n : f[i] = g[i]}
  <2>1. ASSUME NEW i \in 1..n, i = 1 \/ i - 1 \in G
        PROVE  i \in G
    <3>1. i \in 1..(n + m)
      BY <1>1
    <3>2. f[i] = IF i = 1 THEN st[i] ELSE f[i - 1] \o st[i]
      BY <1>3, <3>1 DEF Accumulated
    <3>3. g[i] = IF i = 1 THEN s[i] ELSE g[i - 1] \o s[i]
      BY <1>4 DEF Accumulated
    <3>4. st[i] = s[i]
      <4>1. \A j \in 1..n : st[j] = s[j]
        BY <1>1, Zenon
      <4> QED
        BY ONLY <4>1, i \in 1..n
    <3>5. i # 1 => f[i - 1] = g[i - 1]
      BY <2>1
    <3> QED
      BY <3>2, <3>3, <3>4, <3>5
  <2>2. G \in SUBSET (1..n)
    OBVIOUS
  <2>3. G = 1..n
    <3> HIDE DEF G, n
    <3> QED
      BY <1>1, <2>1, <2>2, OneAfterAnother
  <2> QED
    BY <2>3
<1>8. n # 0 => f[n] = F
  <2>1. n # 0 => n \in 1..n
    BY <1>1
  <2> QED
    BY <1>4, <1>7, <2>1
<1> HIDE DEF F, n, m
<1>9. \A i \in 1..m : f[n + i] = F \o h[i]
  <2> DEFINE G == {i \in 1..m : f[n + i] = F \o h[i]}
  <2>1. ASSUME NEW i \in 1..m, i = 1 \/ i - 1 \in G
        PROVE  i \in G
    <3>1. n + i \in 1..(n + m) /\ n + i - 1 = n + (i - 1) /\ n + m \in Nat
      BY <1>1
    <3>2. f[n + i] = IF n + i = 1 THEN st[n + i] ELSE f[n + i - 1] \o st[n + i]
      <4>1. PICK j \in 1..(n + m) : j = n + i
        BY <3>1
      <4>2. f[j] = IF j = 1 THEN st[j] ELSE f[j - 1] \o st[j]
        BY <1>3, <4>1 DEF Accumulated
      <4> QED
        BY <1>1, <4>1, <4>2
    <3>3. h[i] = IF i = 1 THEN t[i] ELSE h[i - 1] \o t[i]
      BY <1>1, <1>5, PrefixStep
    <3>4. st[n + i] = t[i] /\ t[i] \in Seq(S)
      BY <1>1
    <3>5. CASE i = 1 /\ n = 0
      <4>1. n + i = 1 /\ s = <<>> /\ F = <<>>
        BY <1>4, <3>5 DEF n
      <4>2. f[n + i] = t[i] /\ h[i] = t[i]
        BY <3>2, <3>3, <3>4, <3>5, <4>1
      <4>3. <<>> \o t[i] = t[i]
        BY <3>4, ConcatEmptySeq
      <4> QED
        BY <4>1, <4>2, <4>3
    <3>6. CASE i = 1 /\ n # 0
      <4>1. n + i # 1 /\ n + i - 1 = n
        BY <1>1, <3>6
      <4> QED
        BY <1>8, <3>2, <3>3, <3>4, <3>6, <4>1
    <3>7. CASE i # 1
      <4>1. n + i # 1 /\ i - 1 \in 1..m
        BY <1>1, <3>7
      <4>2. f[n + (i - 1)] = F \o h[i - 1]
        BY <2>1, <3>7
      <4>3. f[n + i] = (F \o h[i - 1]) \o t[i]
        BY <3>1, <3>2, <3>4, <4>1, <4>2
      <4>4. (F \o h[i - 1]) \o t[i] = F \o (h[i - 1] \o t[i])
        <5>1. F \in Seq(S) /\ h[i - 1] \in Seq(S) /\ t[i] \in Seq(S)
          BY <1>2, <1>6, <3>4, <4>1
        <5> DEFINE p == h[i - 1]
                   q == t[i]
        <5>2. p \in Seq(S) /\ q \in Seq(S)
          BY <5>1
        <5> HIDE DEF p, q
        <5>3. (F \o p) \o q = F \o (p \o q)
          <6>1. F \in Seq(S)
            BY <1>2
          <6> QED
            BY ONLY <1>0, <5>2, <6>1
        <5> QED
          BY <5>3 DEF p, q
      <4> QED
        BY <3>3, <3>7, <4>3, <4>4
    <3> QED
      BY <3>5, <3>6, <3>7
  <2>2. G \in SUBSET (1..m)
    OBVIOUS
  <2>3. G = 1..m
    <3> HIDE DEF G
    <3> QED
      BY <1>1, <2>1, <2>2, OneAfterAnother
  <2> QED
    BY <2>3
<1>10. CASE m = 0
  <2>1. t = <<>> /\ FlattenSeq(t) = <<>> /\ F \o <<>> = F
    BY <1>2, <1>5, <1>10, ConcatEmptySeq DEF m
  <2>2. st = s
    BY <2>1, ConcatEmptySeq DEF st
  <2> QED
    BY <2>1, <2>2 DEF F, st
<1>11. CASE m # 0
  <2>1. m \in 1..m /\ n + m # 0
    BY <1>1, <1>11
  <2>2. FlattenSeq(st) = F \o h[m] /\ FlattenSeq(t) = h[m]
    BY <1>3, <1>5, <1>9, <1>11, <2>1
  <2> QED
    BY <2>2 DEF F, st
<1> QED
  BY <1>10, <1>11

(* Nothing comes of empty sequences. *)
LEMMA FlattenEmpties ==
    ASSUME NEW seqs \in Seq({<<>>})
    PROVE  FlattenSeq(seqs) = <<>>
<1> DEFINE k == Len(seqs)
<1>0. k \in Nat /\ \A i \in 1..k : seqs[i] = <<>>
  OBVIOUS
<1>1. PICK f : Accumulated(seqs, k, f) /\ FlattenSeq(seqs) = IF k = 0 THEN seqs ELSE f[k]
  BY <1>0, FlattenIs
<1> DEFINE G == {i \in 1..k : f[i] = <<>>}
<1>2. ASSUME NEW i \in 1..k, i = 1 \/ i - 1 \in G
      PROVE  i \in G
  <2>1. f[i] = IF i = 1 THEN seqs[i] ELSE f[i - 1] \o seqs[i]
    BY <1>0, <1>1, PrefixStep
  <2>2. seqs[i] = <<>> /\ <<>> \o <<>> = <<>>
    BY <1>0
  <2>3. i # 1 => f[i - 1] = <<>>
    BY <1>2
  <2> QED
    BY <2>1, <2>2, <2>3
<1>3. G \in SUBSET (1..k)
  OBVIOUS
<1>4. G = 1..k
  <2> HIDE DEF G
  <2> QED
    BY <1>0, <1>2, <1>3, OneAfterAnother
<1> QED
  <2>1. CASE k = 0
    <3>1. seqs = <<>>
      BY <2>1
    <3> QED
      BY <1>1, <2>1, <3>1
  <2>2. CASE k # 0
    <3>1. k \in 1..k
      BY <1>0, <2>2
    <3> QED
      BY <1>1, <1>4, <2>2, <3>1
  <2> QED
    BY <2>1, <2>2
=============================================================================
