---------------------------- MODULE VersionsProofs ----------------------------
(***************************************************************************)
(* Proofs about Versions: the window of saved policy versions, the folder  *)
(* on disk it is written to and what a restart finds there.                *)
(***************************************************************************)
EXTENDS Versions, Ranks, SequenceTheorems, TLAPS

Version == [t : 1..MaxNow, model : Nat \X Nat, rating : Nat]
Stored == [model : Nat \X Nat, rating : Seq(Nat)]

TypeInv ==
    /\ now \in 0..MaxNow /\ life \in Nat /\ checkpoint \in 0..now
    /\ versions \in Seq(Version) /\ work \in Seq(Version)
    /\ fresh \in Seq(Version) /\ Len(fresh) <= 1
    /\ disk \in [Saved -> Stored] /\ Saved \subseteq 1..MaxNow
    /\ durable \in [1..MaxNow -> Nat]
    /\ pc \in {"train", "persist", "write", "rate", "prune", "down"}

PhaseInv ==
    /\ pc \in {"train", "prune", "down"} => work = <<>> /\ fresh = <<>>
    /\ pc \in {"write", "rate"} => work # <<>> /\ Head(work).t \in Saved

OrderInv ==
    /\ \A i, j \in DOMAIN versions : i < j => versions[i].t < versions[j].t
    /\ \A i \in DOMAIN versions : versions[i].t <= now
    /\ Len(versions) <= MaxOld
    /\ fresh # <<>> => /\ fresh[1].t = now /\ checkpoint < now
                       /\ \A i \in DOMAIN versions : versions[i].t < now

WorkInv ==
    /\ fresh # <<>> => work \in {<<>>, fresh}
    /\ fresh = <<>> => \A j \in DOMAIN work : \E i \in DOMAIN versions : work[j] = versions[i]

Written == {versions[i].t : i \in DOMAIN versions}
Recent(s) == s > checkpoint /\ (pc = "down" \/ (fresh # <<>> /\ s = now))
Older(s) == Len(versions) = MaxOld /\ \A i \in DOMAIN versions : s < versions[i].t

WindowInv ==
    (RetentionCovers /\ ~rolled) =>
        /\ \A i \in DOMAIN versions : /\ versions[i].t \in Saved
                                      /\ disk[versions[i].t].model = versions[i].model
        /\ \A s \in Saved : s \in Written \/ Recent(s) \/ Older(s)
        /\ (fresh # <<>> /\ work = <<>>) => now \in Saved
        /\ (fresh # <<>> /\ pc # "write" /\ now \in Saved) => disk[now].model = fresh[1].model
        /\ pc = "write" => fresh # <<>>
        /\ pc = "down" => before = versions

RatingInv ==
    /\ \A t \in 1..MaxNow : t > checkpoint => durable[t] = 0
    /\ \A t \in Saved : disk[t].rating # <<>> => disk[t].rating[1] >= durable[t]
    /\ \A i \in DOMAIN versions : versions[i].rating >= durable[versions[i].t]
    /\ (now = checkpoint /\ pc \in {"persist", "write", "rate", "prune"}) =>
           \A i \in DOMAIN versions :
               \/ versions[i].t \notin Saved
               \/ \E j \in DOMAIN work : work[j].t = versions[i].t
               \/ disk[versions[i].t].rating = <<versions[i].rating>>

IInv == TypeInv /\ PhaseInv /\ OrderInv /\ WorkInv /\ WindowInv /\ RatingInv

-----------------------------------------------------------------------------
(* A sorted set: as long as the set, all of it, in order, each element at  *)
(* the place its rank gives.                                               *)
LEMMA AscendingSorts ==
    ASSUME NEW S \in SUBSET Nat, IsFiniteSet(S)
    PROVE  /\ Cardinality(S) \in Nat
           /\ Ascending(S) \in [1..Cardinality(S) -> S]
           /\ \A i, j \in 1..Cardinality(S) : i < j => Ascending(S)[i] < Ascending(S)[j]
           /\ \A i \in 1..Cardinality(S) : \A d \in S :
                  Cardinality(Below(S, d)) = i - 1 => Ascending(S)[i] = d
<1> DEFINE n == Cardinality(S)
<1>1. n \in Nat
  BY FS_CardinalityType
<1>2. ASSUME NEW d \in S, NEW e \in S, d # e
      PROVE  Cardinality(Below(S, d)) # Cardinality(Below(S, e))
  <2>1. d < e \/ e < d
    BY <1>2
  <2>2. /\ Cardinality(Below(S, d)) \in Nat
        /\ Cardinality(Below(S, e)) \in Nat
    BY RankType
  <2>3. CASE d < e
    BY <2>2, <2>3, RankGrows
  <2>4. CASE e < d
    BY <2>2, <2>4, RankGrows
  <2> QED
    BY <2>1, <2>3, <2>4
<1>3. ASSUME NEW i \in 1..n
      PROVE  /\ Ascending(S)[i] \in S
             /\ Cardinality(Below(S, Ascending(S)[i])) = i - 1
  <2>1. i - 1 \in Nat /\ i - 1 < n
    BY <1>1
  <2>2. \E d \in S : Cardinality(Below(S, d)) = i - 1
    BY <2>1, RankExists
  <2>3. Ascending(S)[i] = CHOOSE d \in S : Cardinality(Below(S, d)) = i - 1
    BY DEF Ascending, Below
  <2> QED
    BY <2>2, <2>3
<1>4. Ascending(S) \in [1..n -> S]
  BY <1>3 DEF Ascending
<1>5. ASSUME NEW i \in 1..n, NEW j \in 1..n, i < j
      PROVE  Ascending(S)[i] < Ascending(S)[j]
  <2> DEFINE d == Ascending(S)[i]
             e == Ascending(S)[j]
  <2>1. /\ d \in S /\ e \in S
        /\ Cardinality(Below(S, d)) = i - 1
        /\ Cardinality(Below(S, e)) = j - 1
    BY <1>3
  <2> HIDE DEF d, e
  <2>2. ~ (e < d)
    <3>1. SUFFICES ASSUME e < d PROVE FALSE
      OBVIOUS
    <3>2. Cardinality(Below(S, e)) < Cardinality(Below(S, d))
      BY <2>1, <3>1, RankGrows
    <3> QED
      BY <1>1, <1>5, <2>1, <3>2
  <2>3. d # e
    BY <1>1, <1>5, <2>1
  <2>4. d \in Nat /\ e \in Nat
    BY <2>1
  <2>5. d < e
    BY <2>2, <2>3, <2>4
  <2> QED
    BY <2>5 DEF d, e
<1>6. ASSUME NEW i \in 1..n, NEW d \in S, Cardinality(Below(S, d)) = i - 1
      PROVE  Ascending(S)[i] = d
  BY <1>2, <1>3, <1>6
<1> QED
  BY <1>1, <1>4, <1>5, <1>6

(* The window of a sequence is its last MaxOld elements.                   *)
LEMMA WindowIsSuffix ==
    ASSUME NEW S, NEW seq \in Seq(S)
    PROVE  \E k \in Nat :
             /\ Len(Window(seq)) = Len(seq) - k /\ k <= Len(seq)
             /\ Window(seq) \in Seq(S)
             /\ \A i \in 1..Len(seq) - k : Window(seq)[i] = seq[k + i]
             /\ Len(seq) <= MaxOld => k = 0
             /\ Len(seq) > MaxOld => Len(seq) - k = MaxOld
<1> USE VersionsAssumption
<1> DEFINE k == IF Len(seq) > MaxOld THEN Len(seq) - MaxOld ELSE 0
<1>1. Len(seq) \in Nat /\ MaxOld \in Nat \ {0}
  BY LenProperties
<1>2. k \in Nat /\ k <= Len(seq) /\ (Len(seq) <= MaxOld => k = 0)
      /\ (Len(seq) > MaxOld => Len(seq) - k = MaxOld)
  BY <1>1
<1>3. (IF Len(seq) > MaxOld THEN Len(seq) - MaxOld + 1 ELSE 1) = k + 1
  BY <1>1
<1>4. Window(seq) = SubSeq(seq, k + 1, Len(seq))
  BY <1>3 DEF Window
<1>5. \A s \in Seq(S) : \A m, l \in Nat :
          (m >= 1 /\ l <= Len(s) /\ m <= l + 1) =>
             /\ SubSeq(s, m, l) \in Seq(S)
             /\ Len(SubSeq(s, m, l)) = l - m + 1
             /\ \A i \in 1..l - m + 1 : SubSeq(s, m, l)[i] = s[m + i - 1]
  OBVIOUS
<1> HIDE DEF k
<1>6. /\ SubSeq(seq, k + 1, Len(seq)) \in Seq(S)
      /\ Len(SubSeq(seq, k + 1, Len(seq))) = Len(seq) - (k + 1) + 1
      /\ \A i \in 1..Len(seq) - (k + 1) + 1 :
            SubSeq(seq, k + 1, Len(seq))[i] = seq[(k + 1) + i - 1]
  <2>1. k + 1 \in Nat /\ k + 1 >= 1 /\ Len(seq) <= Len(seq) /\ k + 1 <= Len(seq) + 1
    BY <1>1, <1>2
  <2> QED
    BY <1>1, <1>5, <2>1
<1>7. Len(seq) - (k + 1) + 1 = Len(seq) - k
  BY <1>1, <1>2
<1>8. \A i \in 1..Len(seq) - k : (k + 1) + i - 1 = k + i
  BY <1>1, <1>2
<1> QED
  BY <1>2, <1>4, <1>6, <1>7, <1>8
(* What the types give: the sequences as functions, the folder finite.     *)
LEMMA SeqFacts ==
    ASSUME NEW seq \in Seq(Version)
    PROVE  /\ Len(seq) \in Nat /\ DOMAIN seq = 1..Len(seq)
           /\ \A i \in DOMAIN seq : /\ seq[i] \in Version /\ seq[i].t \in Nat
                                    /\ seq[i].t \in 1..MaxNow
                                    /\ seq[i].model \in Nat \X Nat /\ seq[i].rating \in Nat
           /\ seq # <<>> => /\ 1 \in DOMAIN seq /\ Head(seq) = seq[1]
                            /\ Head(seq) \in Version /\ Head(seq).t \in 1..MaxNow
                            /\ Tail(seq) \in Seq(Version) /\ Len(Tail(seq)) = Len(seq) - 1
                            /\ \A j \in 1..Len(seq) - 1 : Tail(seq)[j] = seq[j + 1]
           /\ seq = <<>> <=> Len(seq) = 0
<1> USE VersionsAssumption
<1>1. Len(seq) \in Nat /\ DOMAIN seq = 1..Len(seq) /\ (seq = <<>> <=> Len(seq) = 0)
  BY EmptySeq, LenProperties
<1>2. \A v \in Version : /\ v.t \in Nat /\ v.t \in 1..MaxNow
                         /\ v.model \in Nat \X Nat /\ v.rating \in Nat
  BY DEF Version
<1>3. \A i \in DOMAIN seq : seq[i] \in Version
  BY <1>1, ElementOfSeq
<1>4. \A s \in Seq(Version) : s # <<>> =>
         /\ Head(s) = s[1] /\ Tail(s) \in Seq(Version) /\ Len(Tail(s)) = Len(s) - 1
         /\ \A j \in 1..Len(s) - 1 : Tail(s)[j] = s[j + 1]
  BY HeadTailProperties
<1>5. ASSUME seq # <<>>
      PROVE  1 \in DOMAIN seq
  BY <1>1, <1>5
<1> QED
  BY <1>1, <1>2, <1>3, <1>4, <1>5

(* The folders are finitely many timesteps. *)
LEMMA SavedFacts ==
    ASSUME TypeInv
    PROVE  /\ now \in Nat /\ checkpoint \in Nat /\ checkpoint <= now /\ now <= MaxNow
           /\ MaxNow \in Nat
           /\ Saved \in SUBSET Nat /\ IsFiniteSet(Saved) /\ Cardinality(Saved) \in Nat
           /\ \A t \in Saved : /\ t \in 1..MaxNow /\ disk[t] \in Stored
                               /\ disk[t].model \in Nat \X Nat /\ disk[t].rating \in Seq(Nat)
                               /\ disk[t].rating # <<>> => disk[t].rating[1] \in Nat
<1> USE VersionsAssumption
<1>1. now \in Nat /\ checkpoint \in Nat /\ checkpoint <= now /\ now <= MaxNow /\ MaxNow \in Nat
  BY DEF TypeInv
<1>2. Saved \subseteq 1..MaxNow /\ 1..MaxNow \subseteq Nat
  BY DEF TypeInv
<1>3. IsFiniteSet(1..MaxNow)
  BY <1>1, FS_Interval
<1>4. IsFiniteSet(Saved)
  BY <1>2, <1>3, FS_Subset
<1>5. Cardinality(Saved) \in Nat
  BY <1>4, FS_CardinalityType
<1>6. \A d \in Stored : d.model \in Nat \X Nat /\ d.rating \in Seq(Nat)
  BY DEF Stored
<1>7. \A t \in Saved : disk[t] \in Stored
  BY DEF TypeInv
<1>8. \A s \in Seq(Nat) : s # <<>> => s[1] \in Nat
  OBVIOUS
<1> QED
  BY <1>1, <1>2, <1>4, <1>5, <1>6, <1>7, <1>8

(* A version by its fields. *)
LEMMA VersionIs ==
    ASSUME NEW t \in 1..MaxNow, NEW m \in Nat \X Nat, NEW r \in Nat
    PROVE  [t |-> t, model |-> m, rating |-> r] \in Version
BY DEF Version

(* The invariant holds at first. *)
LEMMA InitIInv == Init => IInv
<1> SUFFICES ASSUME Init PROVE IInv
  OBVIOUS
<1> USE VersionsAssumption DEF Init
<1>1. Saved = {}
  BY DEF Saved
<1>2. TypeInv
  <2>1. <<>> \in Seq(Version) /\ Len(<<>>) = 0
    OBVIOUS
  <2>2. disk \in [Saved -> Stored]
    BY <1>1
  <2>3. durable \in [1..MaxNow -> Nat]
    OBVIOUS
  <2> QED
    BY <1>1, <2>1, <2>2, <2>3 DEF TypeInv
<1>3. PhaseInv /\ WorkInv
  BY DEF PhaseInv, WorkInv
<1>4. OrderInv
  BY DEF OrderInv
<1>5. WindowInv
  BY <1>1 DEF WindowInv
<1>6. RatingInv
  BY <1>1 DEF RatingInv
<1> QED
  BY <1>2, <1>3, <1>4, <1>5, <1>6 DEF IInv

(* An iteration: the new version is later than all others. *)
LEMMA IterateKeeps ==
    ASSUME IInv, NEW n \in 1..MaxSteps, Iterate(n)
    PROVE  IInv'
<1> USE VersionsAssumption
<1>1. /\ TypeInv /\ PhaseInv /\ OrderInv /\ WorkInv /\ WindowInv /\ RatingInv
  BY DEF IInv
<1>2. /\ pc = "train" /\ work = <<>> /\ fresh = <<>>
      /\ now' = now + n /\ now + n <= MaxNow
      /\ UNCHANGED <<life, versions, disk, checkpoint, before, durable, rolled>>
  BY <1>1 DEF Iterate, PhaseInv, historyVars
<1>3. /\ now \in Nat /\ checkpoint \in Nat /\ checkpoint <= now /\ MaxNow \in Nat
      /\ now' \in 1..MaxNow /\ now < now' /\ checkpoint < now' /\ checkpoint \in 0..now'
  BY <1>1, <1>2, SavedFacts
<1>4. PICK v \in Version :
        /\ v.t = now'
        /\ \/ work' = <<v>> /\ fresh' = <<v>> /\ pc' = "persist"
           \/ work' = <<>> /\ fresh' = <<>> /\ pc' = "train"
  <2> DEFINE v == [t |-> now', model |-> <<life, now'>>, rating |-> 0]
  <2>1. v \in Version /\ v.t = now'
    BY <1>1, <1>3 DEF Version, TypeInv
  <2>2. \/ work' = <<v>> /\ fresh' = <<v>> /\ pc' = "persist"
        \/ work' = <<>> /\ fresh' = <<>> /\ pc' = "train"
    BY <1>2 DEF Iterate, persistVars
  <2> HIDE DEF v
  <2> QED
    BY <2>1, <2>2
<1>5. <<v>> \in Seq(Version) /\ Len(<<v>>) = 1 /\ <<v>> # <<>> /\ <<v>>[1] = v
  OBVIOUS
<1>6. <<>> \in Seq(Version) /\ Len(<<>>) = 0
  OBVIOUS
<1>7. Saved' = Saved /\ Written' = Written
  BY <1>2 DEF Written, Saved
<1>8. \A i \in DOMAIN versions : versions[i].t \in Nat /\ versions[i].t <= now
  BY <1>1, SeqFacts DEF TypeInv, OrderInv
<1>9. TypeInv'
  <2>1. now' \in 0..MaxNow /\ checkpoint' \in 0..now' /\ life' \in Nat
    BY <1>1, <1>2, <1>3 DEF TypeInv
  <2>2. /\ work' \in Seq(Version) /\ fresh' \in Seq(Version) /\ Len(fresh') <= 1
        /\ pc' \in {"train", "persist"}
    <3>1. Len(<<v>>) <= 1 /\ Len(<<>>) <= 1
      BY <1>5, <1>6
    <3>2. CASE work' = <<v>> /\ fresh' = <<v>> /\ pc' = "persist"
      BY <1>5, <3>1, <3>2, Zenon
    <3>3. CASE work' = <<>> /\ fresh' = <<>> /\ pc' = "train"
      BY <1>6, <3>1, <3>3, Zenon
    <3> QED
      BY <1>4, <3>2, <3>3
  <2> QED
    BY <1>1, <1>2, <1>7, <2>1, <2>2 DEF TypeInv
<1>10. PhaseInv'
  BY <1>4 DEF PhaseInv
<1>11. OrderInv'
  <2>1. \A i \in DOMAIN versions : versions[i].t <= now' /\ versions[i].t < now'
    BY <1>3, <1>8
  <2>2. fresh' # <<>> => fresh'[1].t = now'
    BY <1>4, <1>5
  <2> QED
    BY <1>1, <1>2, <1>3, <2>1, <2>2 DEF OrderInv
<1>12. WorkInv'
  BY <1>4 DEF WorkInv
<1>13. WindowInv'
  <2> SUFFICES ASSUME RetentionCovers, ~rolled
               PROVE  WindowInv'
    BY <1>2 DEF WindowInv, RetentionCovers
  <2>1. \A s \in Saved : s \in Written \/ Older(s)
    BY <1>1, <1>2 DEF WindowInv, Recent
  <2>2. now' \notin Saved
    <3>1. SUFFICES ASSUME now' \in Saved PROVE FALSE
      OBVIOUS
    <3>2. now' \notin Written
      BY <1>3, <1>8 DEF Written
    <3>3. Older(now')
      BY <2>1, <3>1, <3>2
    <3>4. 1 \in DOMAIN versions /\ now' < versions[1].t
      BY <1>1, <3>3, SeqFacts DEF Older, TypeInv
    <3>5. now' <= now
      BY <1>3, <1>8, <3>4
    <3> QED
      BY <1>3, <3>5
  <2>3. \A s \in Saved' : s \in Written' \/ Older(s)'
    BY <1>2, <1>7, <2>1 DEF Older
  <2>4. ~ (fresh' # <<>> /\ work' = <<>>) /\ pc' # "write" /\ pc' # "down"
    BY <1>4
  <2> QED
    BY <1>1, <1>2, <1>7, <2>2, <2>3, <2>4 DEF WindowInv
<1>14. RatingInv'
  <2>1. now' # checkpoint'
    BY <1>2, <1>3
  <2> QED
    BY <1>1, <1>2, <1>7, <2>1 DEF RatingInv
<1> QED
  BY <1>9, <1>10, <1>11, <1>12, <1>13, <1>14 DEF IInv

(* A rating that grows disturbs neither the order nor what is durable. *)
LEMMA RateKeeps ==
    ASSUME IInv, NEW k \in DOMAIN versions, Rate(k)
    PROVE  IInv'
<1> USE VersionsAssumption
<1>1. /\ TypeInv /\ PhaseInv /\ OrderInv /\ WorkInv /\ WindowInv /\ RatingInv
  BY DEF IInv
<1>2. /\ pc = "train" /\ work = <<>> /\ fresh = <<>>
      /\ versions' = [versions EXCEPT ![k].rating = @ + 1]
      /\ UNCHANGED <<now, life, disk, checkpoint, pc, work, fresh, before, durable, rolled>>
  BY <1>1 DEF Rate, PhaseInv, historyVars, persistVars
<1>3. versions \in Seq(Version) /\ Len(versions) \in Nat /\ DOMAIN versions = 1..Len(versions)
  BY <1>1, SeqFacts DEF TypeInv
<1>4. \A v \in Version : /\ [v EXCEPT !.rating = @ + 1] \in Version
                         /\ [v EXCEPT !.rating = @ + 1].t = v.t
                         /\ [v EXCEPT !.rating = @ + 1].model = v.model
                         /\ [v EXCEPT !.rating = @ + 1].rating = v.rating + 1
  BY SMTT(30) DEF Version
<1>5. \A i \in DOMAIN versions : versions'[i] = IF i = k THEN [versions[i] EXCEPT !.rating = @ + 1]
                                               ELSE versions[i]
  BY <1>2, <1>3
<1>6. \A i \in DOMAIN versions : versions[i] \in Version
  BY <1>1, SeqFacts DEF TypeInv
<1>7. DOMAIN versions' = DOMAIN versions /\ Len(versions') = Len(versions)
      /\ versions' \in Seq(Version)
  <2>1. \A i \in 1..Len(versions) : versions'[i] \in Version
    BY <1>3, <1>4, <1>5, <1>6
  <2>2. versions' = [i \in 1..Len(versions) |-> versions'[i]]
    BY <1>2, <1>3
  <2>3. versions' \in [1..Len(versions) -> Version]
    BY <2>1, <2>2
  <2>4. \A S, nn \in Nat : [1..nn -> S] \subseteq Seq(S)
    OBVIOUS
  <2>5. versions' \in Seq(Version)
    BY <1>3, <2>3, SeqDef
  <2>6. DOMAIN versions' = 1..Len(versions)
    BY <2>3
  <2>7. Len(versions') = Len(versions)
    BY <1>3, <2>5, <2>6, LenProperties
  <2> QED
    BY <1>3, <2>5, <2>6, <2>7
<1>8. \A i \in DOMAIN versions :
         /\ versions'[i].t = versions[i].t /\ versions'[i].model = versions[i].model
         /\ versions'[i].rating \in {versions[i].rating, versions[i].rating + 1}
         /\ versions[i].rating \in Nat /\ versions[i].t \in 1..MaxNow
  BY <1>4, <1>5, <1>6, <1>1, SeqFacts DEF TypeInv
<1>9. Saved' = Saved
  BY <1>2 DEF Saved
<1>10. Written' = Written
  BY <1>7, <1>8 DEF Written
<1>11. \A s : Older(s)' <=> Older(s)
  BY <1>7, <1>8 DEF Older
<1>12. TypeInv'
  BY <1>1, <1>2, <1>7, <1>9 DEF TypeInv
<1>13. PhaseInv'
  BY <1>1, <1>2, <1>9 DEF PhaseInv
<1>14. OrderInv'
  BY <1>1, <1>2, <1>7, <1>8, SMTT(30) DEF OrderInv
<1>15. WorkInv'
  BY <1>2 DEF WorkInv
<1>16. WindowInv'
  <2> SUFFICES ASSUME RetentionCovers, ~rolled
               PROVE  WindowInv'
    BY <1>2 DEF WindowInv, RetentionCovers
  <2>1. \A s \in Saved' : s \in Written' \/ Older(s)'
    BY <1>1, <1>2, <1>9, <1>10, <1>11 DEF WindowInv, Recent
  <2>2. \A i \in DOMAIN versions' : /\ versions'[i].t \in Saved'
                                    /\ disk'[versions'[i].t].model = versions'[i].model
    BY <1>1, <1>2, <1>7, <1>8, <1>9 DEF WindowInv
  <2> QED
    BY <1>2, <2>1, <2>2 DEF WindowInv
<1>17. RatingInv'
  <2>1. \A i \in DOMAIN versions' : versions'[i].rating >= durable'[versions'[i].t]
    <3>1. ASSUME NEW i \in DOMAIN versions
          PROVE  versions'[i].rating >= durable[versions[i].t]
      <4>1. versions[i].rating >= durable[versions[i].t]
        BY <1>1 DEF RatingInv
      <4>2. durable[versions[i].t] \in Nat
        BY <1>1, <1>8 DEF TypeInv
      <4>3. versions[i].rating \in Nat
        BY <1>8
      <4>4. \A a, d \in Nat : a >= d => a + 1 >= d
        OBVIOUS
      <4> QED
        BY <1>8, <4>1, <4>2, <4>3, <4>4
    <3> QED
      BY <1>2, <1>7, <1>8, <3>1
  <2> QED
    BY <1>1, <1>2, <1>9, <2>1 DEF RatingInv
<1> QED
  BY <1>12, <1>13, <1>14, <1>15, <1>16, <1>17 DEF IInv

(* A save has all of the window to write. *)
LEMMA SaveKeeps ==
    ASSUME IInv, Save
    PROVE  IInv'
<1>1. /\ TypeInv /\ PhaseInv /\ OrderInv /\ WorkInv /\ WindowInv /\ RatingInv
  BY DEF IInv
<1>2. /\ pc = "train" /\ fresh = <<>> /\ now > 0
      /\ checkpoint' = now /\ work' = versions /\ pc' = "persist"
      /\ UNCHANGED <<now, life, versions, disk, fresh, before, durable, rolled>>
  BY <1>1 DEF Save, PhaseInv, historyVars
<1>3. now \in Nat /\ checkpoint \in Nat /\ checkpoint <= now
  BY <1>1, SavedFacts
<1>4. Saved' = Saved /\ Written' = Written
  BY <1>2 DEF Saved, Written
<1>5. TypeInv'
  <2>1. checkpoint' \in 0..now'
    BY <1>2, <1>3
  <2> QED
    BY <1>1, <1>2, <1>4, <2>1 DEF TypeInv
<1>6. PhaseInv'
  BY <1>2 DEF PhaseInv
<1>7. OrderInv'
  BY <1>1, <1>2 DEF OrderInv
<1>8. WorkInv'
  BY <1>2 DEF WorkInv
<1>9. WindowInv'
  <2> SUFFICES ASSUME RetentionCovers, ~rolled
               PROVE  WindowInv'
    BY <1>2 DEF WindowInv, RetentionCovers
  <2>1. \A s \in Saved' : s \in Written' \/ Older(s)'
    BY <1>1, <1>2, <1>4 DEF WindowInv, Recent, Older
  <2> QED
    BY <1>1, <1>2, <1>4, <2>1 DEF WindowInv
<1>10. RatingInv'
  <2>1. \A t \in 1..MaxNow : t > checkpoint' => durable'[t] = 0
    <3>1. \A t \in 1..MaxNow : t > now => t > checkpoint
      BY <1>3
    <3> QED
      BY <1>1, <1>2, <3>1 DEF RatingInv
  <2>2. \A i \in DOMAIN versions' : \E j \in DOMAIN work' : work'[j].t = versions'[i].t
    BY <1>2
  <2> QED
    BY <1>1, <1>2, <1>4, <2>1, <2>2 DEF RatingInv
<1> QED
  BY <1>5, <1>6, <1>7, <1>8, <1>9, <1>10 DEF IInv

(* What a step that writes to one folder changes. *)
LEMMA WriteModelEffect ==
    ASSUME TypeInv, PhaseInv, WriteModel
    PROVE  /\ Head(work).t \in Saved /\ Head(work) \in Version /\ Saved' = Saved
           /\ disk' \in [Saved -> Stored]
           /\ \A t \in Saved \ {Head(work).t} : disk'[t] = disk[t]
           /\ disk'[Head(work).t].model = Head(work).model
           /\ disk'[Head(work).t].rating = disk[Head(work).t].rating
<1> DEFINE h == Head(work)
<1>1. work # <<>> /\ h.t \in Saved
  BY DEF PhaseInv, WriteModel
<1>2. h \in Version /\ h.model \in Nat \X Nat
  BY <1>1, SeqFacts DEF TypeInv, Version
<1>3. disk' = [disk EXCEPT ![h.t].model = h.model] /\ disk \in [Saved -> Stored]
  BY DEF WriteModel, TypeInv
<1> HIDE DEF h
<1>4. \A d \in Stored : /\ [d EXCEPT !.model = h.model] \in Stored
                        /\ [d EXCEPT !.model = h.model].model = h.model
                        /\ [d EXCEPT !.model = h.model].rating = d.rating
  BY <1>2 DEF Stored
<1>5. DOMAIN disk' = DOMAIN disk
  BY <1>3
<1>6. \A t \in Saved : disk'[t] = IF t = h.t THEN [disk[t] EXCEPT !.model = h.model] ELSE disk[t]
  BY <1>3
<1>7. disk' = [t \in Saved |-> disk'[t]] /\ \A t \in Saved : disk'[t] \in Stored
  BY <1>3, <1>4, <1>6
<1> QED
  BY <1>1, <1>2, <1>3, <1>4, <1>5, <1>6, <1>7 DEF Saved, h

(* What each action does to the folders: a rating is emptied. *)
LEMMA OpenRatingEffect ==
    ASSUME TypeInv, OpenRating
    PROVE  /\ Head(work).t \in Saved /\ Head(work) \in Version /\ Saved' = Saved
           /\ disk' \in [Saved -> Stored]
           /\ \A t \in Saved \ {Head(work).t} : disk'[t] = disk[t]
           /\ disk'[Head(work).t].model = disk[Head(work).t].model
           /\ disk'[Head(work).t].rating = <<>>
<1> DEFINE h == Head(work)
           r == <<>>
<1>1. work # <<>> /\ h.t \in Saved
  BY DEF OpenRating
<1>2. h \in Version
  BY <1>1, SeqFacts DEF TypeInv
<1>3. disk' = [disk EXCEPT ![h.t].rating = r] /\ disk \in [Saved -> Stored] /\ r \in Seq(Nat)
  BY DEF OpenRating, TypeInv
<1> HIDE DEF h, r
<1>4. \A d \in Stored : /\ [d EXCEPT !.rating = r] \in Stored
                        /\ [d EXCEPT !.rating = r].model = d.model
                        /\ [d EXCEPT !.rating = r].rating = r
  BY <1>3 DEF Stored
<1>5. DOMAIN disk' = DOMAIN disk
  BY <1>3
<1>6. \A t \in Saved : disk'[t] = IF t = h.t THEN [disk[t] EXCEPT !.rating = r] ELSE disk[t]
  BY <1>3
<1>7. disk' = [t \in Saved |-> disk'[t]] /\ \A t \in Saved : disk'[t] \in Stored
  BY <1>3, <1>4, <1>6
<1> QED
  BY <1>1, <1>2, <1>3, <1>4, <1>5, <1>6, <1>7 DEF Saved, h, r

(* A rating is written. *)
LEMMA WriteRatingEffect ==
    ASSUME TypeInv, PhaseInv, WriteRating
    PROVE  /\ Head(work).t \in Saved /\ Head(work) \in Version /\ Saved' = Saved
           /\ disk' \in [Saved -> Stored]
           /\ \A t \in Saved \ {Head(work).t} : disk'[t] = disk[t]
           /\ disk'[Head(work).t].model = disk[Head(work).t].model
           /\ disk'[Head(work).t].rating = <<Head(work).rating>>
<1> DEFINE h == Head(work)
           r == <<h.rating>>
<1>1. work # <<>> /\ h.t \in Saved
  BY DEF PhaseInv, WriteRating
<1>2. h \in Version /\ h.rating \in Nat
  BY <1>1, SeqFacts DEF TypeInv, Version
<1>3. disk' = [disk EXCEPT ![h.t].rating = r] /\ disk \in [Saved -> Stored] /\ r \in Seq(Nat)
  BY <1>2 DEF WriteRating, TypeInv
<1> HIDE DEF h, r
<1>4. \A d \in Stored : /\ [d EXCEPT !.rating = r] \in Stored
                        /\ [d EXCEPT !.rating = r].model = d.model
                        /\ [d EXCEPT !.rating = r].rating = r
  BY <1>3 DEF Stored
<1>5. DOMAIN disk' = DOMAIN disk
  BY <1>3
<1>6. \A t \in Saved : disk'[t] = IF t = h.t THEN [disk[t] EXCEPT !.rating = r] ELSE disk[t]
  BY <1>3
<1>7. disk' = [t \in Saved |-> disk'[t]] /\ \A t \in Saved : disk'[t] \in Stored
  BY <1>3, <1>4, <1>6
<1> QED
  BY <1>1, <1>2, <1>3, <1>4, <1>5, <1>6, <1>7 DEF Saved, h, r

(* A folder is made. *)
LEMMA MakeFolderEffect ==
    ASSUME TypeInv, MakeFolder
    PROVE  /\ work # <<>> /\ Head(work) \in Version
           /\ Head(work).t \notin Saved /\ Saved' = Saved \cup {Head(work).t}
           /\ disk' \in [Saved' -> Stored]
           /\ \A t \in Saved : disk'[t] = disk[t]
           /\ disk'[Head(work).t].rating = <<>>
<1> DEFINE h == Head(work)
           empty == [model |-> Unwritten, rating |-> <<>>]
<1>1. work # <<>> /\ h \in Version
  BY SeqFacts DEF TypeInv, MakeFolder
<1>2. empty \in Stored /\ empty.rating = <<>>
  BY DEF Stored, Unwritten
<1>3. /\ disk' = [t \in Saved \cup {h.t} |-> IF t \in Saved THEN disk[t] ELSE empty]
      /\ disk \in [Saved -> Stored] /\ h.t \notin Saved
  BY DEF MakeFolder, TypeInv
<1> HIDE DEF h, empty
<1>4. DOMAIN disk' = Saved \cup {h.t}
  BY <1>3
<1>5. \A t \in Saved \cup {h.t} : disk'[t] = (IF t \in Saved THEN disk[t] ELSE empty)
  BY <1>3
<1>6. disk' = [t \in Saved \cup {h.t} |-> disk'[t]]
  BY <1>3
<1>7. \A t \in Saved \cup {h.t} : disk'[t] \in Stored
  BY <1>2, <1>3, <1>5
<1> QED
  BY <1>1, <1>2, <1>3, <1>4, <1>5, <1>6, <1>7 DEF Saved, h

(* A folder is pruned. *)
LEMMA PruneEffect ==
    ASSUME TypeInv, Prune
    PROVE  /\ Saved # {} /\ FirstToGo \in Saved /\ \A t \in Saved : FirstToGo <= t
           /\ Saved' = Saved \ {FirstToGo}
           /\ disk' \in [Saved' -> Stored]
           /\ \A t \in Saved' : disk'[t] = disk[t]
           /\ MaxSaved # <<>> /\ Cardinality(Saved) > MaxSaved[1]
<1> USE VersionsAssumption
<1>1. Saved \in SUBSET Nat /\ IsFiniteSet(Saved) /\ Cardinality(Saved) \in Nat
  BY SavedFacts
<1>2. MaxSaved # <<>> /\ Cardinality(Saved) > MaxSaved[1]
  BY DEF Prune, Surplus
<1>3. Saved # {}
  <2>1. SUFFICES ASSUME Saved = {} PROVE FALSE
    OBVIOUS
  <2>2. Cardinality(Saved) = 0
    BY <2>1, FS_EmptySet
  <2>3. MaxSaved[1] \in Nat
    BY <1>2, EmptySeq, ElementOfSeq
  <2> QED
    BY <1>2, <2>2, <2>3
<1>4. FirstToGo \in Saved /\ \A t \in Saved : FirstToGo <= t
  BY <1>1, <1>3, MinIsLeast DEF FirstToGo
<1>5. disk' = [t \in Saved \ {FirstToGo} |-> disk[t]] /\ disk \in [Saved -> Stored]
  BY DEF Prune, TypeInv
<1>6. DOMAIN disk' = Saved \ {FirstToGo} /\ disk' \in [Saved \ {FirstToGo} -> Stored]
  BY <1>5
<1> QED
  BY <1>2, <1>3, <1>4, <1>5, <1>6 DEF Saved

(* What is at the head of the work: the new version, or one of the window. *)
LEMMA HeadOfWork ==
    ASSUME IInv, work # <<>>
    PROVE  /\ Head(work) = work[1] /\ 1 \in DOMAIN work /\ Head(work) \in Version
           /\ fresh # <<>> => /\ work = fresh /\ Head(work) = fresh[1] /\ Head(work).t = now
                              /\ Tail(work) = <<>>
           /\ fresh = <<>> => \E i \in DOMAIN versions : Head(work) = versions[i]
<1>1. TypeInv /\ WorkInv /\ OrderInv
  BY DEF IInv
<1>2. Head(work) = work[1] /\ 1 \in DOMAIN work /\ Head(work) \in Version
  BY <1>1, SeqFacts DEF TypeInv
<1>3. ASSUME fresh # <<>>
      PROVE  /\ work = fresh /\ Head(work) = fresh[1] /\ Head(work).t = now
             /\ Tail(work) = <<>>
  <2>1. work = fresh
    BY <1>1, <1>3 DEF WorkInv
  <2>2. Len(work) \in Nat /\ Len(work) # 0 /\ Len(work) <= 1
    BY <1>1, <2>1, SeqFacts DEF TypeInv
  <2>3. Len(work) - 1 = 0
    <3>1. \A n \in Nat : (n # 0 /\ n <= 1) => n - 1 = 0
      OBVIOUS
    <3> QED
      BY <2>2, <3>1
  <2>4. Tail(work) \in Seq(Version) /\ Len(Tail(work)) = 0
    BY <1>1, <2>3, SeqFacts DEF TypeInv
  <2>5. Tail(work) = <<>>
    BY <2>4, SeqFacts
  <2> QED
    BY <1>1, <1>2, <1>3, <2>1, <2>5 DEF OrderInv
<1>4. fresh = <<>> => \E i \in DOMAIN versions : Head(work) = versions[i]
  BY <1>1, <1>2 DEF WorkInv
<1> QED
  BY <1>2, <1>3, <1>4

(* Each action keeps the invariant: making a folder. *)
LEMMA MakeFolderKeeps ==
    ASSUME IInv, MakeFolder
    PROVE  IInv'
<1> DEFINE h == Head(work)
<1>1. /\ TypeInv /\ PhaseInv /\ OrderInv /\ WorkInv /\ WindowInv /\ RatingInv
  BY DEF IInv
<1>2. /\ pc = "persist" /\ work # <<>> /\ pc' = "write"
      /\ UNCHANGED <<now, life, versions, checkpoint, work, fresh, before, durable, rolled>>
  BY DEF MakeFolder, historyVars, persistVars
<1>3. /\ h \in Version /\ h.t \notin Saved /\ Saved' = Saved \cup {h.t}
      /\ disk' \in [Saved' -> Stored]
      /\ \A t \in Saved : disk'[t] = disk[t]
      /\ disk'[h.t].rating = <<>>
  BY <1>1, MakeFolderEffect
<1>4. h.t \in 1..MaxNow
  BY <1>3 DEF Version
<1> HIDE DEF h
<1>5. Written' = Written
  BY <1>2 DEF Written
<1>6. TypeInv'
  BY <1>1, <1>2, <1>3, <1>4 DEF TypeInv
<1>7. PhaseInv'
  BY <1>2, <1>3 DEF PhaseInv, h
<1>8. OrderInv'
  BY <1>1, <1>2 DEF OrderInv
<1>9. WorkInv'
  BY <1>1, <1>2 DEF WorkInv
<1>10. WindowInv'
  <2> SUFFICES ASSUME RetentionCovers, ~rolled
               PROVE  WindowInv'
    BY <1>2 DEF WindowInv, RetentionCovers
  <2>1. fresh # <<>> /\ h.t = now
    <3>1. \A i \in DOMAIN versions : versions[i].t \in Saved
      BY <1>1 DEF WindowInv
    <3>2. fresh # <<>>
      BY <1>2, <1>3, <3>1, HeadOfWork DEF h
    <3> QED
      BY <1>2, <3>2, HeadOfWork DEF h
  <2>2. \A i \in DOMAIN versions' : /\ versions'[i].t \in Saved'
                                    /\ disk'[versions'[i].t].model = versions'[i].model
    BY <1>1, <1>2, <1>3 DEF WindowInv
  <2>3. checkpoint < now
    BY <1>1, <2>1 DEF OrderInv
  <2>4. \A s : (s = now \/ Recent(s)) => Recent(s)'
    BY <1>1, <1>2, <2>1, <2>3, SavedFacts DEF Recent
  <2>5. \A s \in Saved' : s \in Written' \/ Recent(s)' \/ Older(s)'
    <3>1. \A s \in Saved : s \in Written \/ Recent(s) \/ Older(s)
      BY <1>1 DEF WindowInv
    <3>2. \A s : Older(s) => Older(s)'
      BY <1>2 DEF Older
    <3> QED
      BY <1>3, <1>5, <2>1, <2>4, <3>1, <3>2
  <2> QED
    BY <1>1, <1>2, <1>3, <2>1, <2>2, <2>5 DEF WindowInv
<1>11. RatingInv'
  <2>1. ASSUME NEW t \in Saved', disk'[t].rating # <<>>
        PROVE  disk'[t].rating[1] >= durable'[t]
    BY <1>1, <1>2, <1>3, <2>1 DEF RatingInv
  <2>2. ASSUME now = checkpoint, NEW i \in DOMAIN versions
        PROVE  \/ versions[i].t \notin Saved'
               \/ \E j \in DOMAIN work : work[j].t = versions[i].t
               \/ disk'[versions[i].t].rating = <<versions[i].rating>>
    <3>1. CASE versions[i].t = h.t
      <4>1. 1 \in DOMAIN work /\ work[1] = h
        BY <1>2, HeadOfWork DEF h
      <4> QED
        BY <3>1, <4>1
    <3>2. CASE versions[i].t # h.t
      BY <1>1, <1>2, <1>3, <2>2, <3>2 DEF RatingInv
    <3> QED
      BY <3>1, <3>2
  <2> QED
    BY <1>1, <1>2, <2>1, <2>2 DEF RatingInv
<1> QED
  BY <1>6, <1>7, <1>8, <1>9, <1>10, <1>11 DEF IInv

(* Writing the networks. *)
LEMMA WriteModelKeeps ==
    ASSUME IInv, WriteModel
    PROVE  IInv'
<1> DEFINE h == Head(work)
<1>1. /\ TypeInv /\ PhaseInv /\ OrderInv /\ WorkInv /\ WindowInv /\ RatingInv
  BY DEF IInv
<1>2. /\ pc = "write" /\ work # <<>> /\ pc' = "persist"
      /\ UNCHANGED <<now, life, versions, checkpoint, work, fresh, before, durable, rolled>>
  BY <1>1 DEF WriteModel, PhaseInv, historyVars, persistVars
<1>3. /\ h.t \in Saved /\ Saved' = Saved
      /\ disk' \in [Saved -> Stored]
      /\ \A t \in Saved \ {h.t} : disk'[t] = disk[t]
      /\ disk'[h.t].model = h.model
      /\ disk'[h.t].rating = disk[h.t].rating
  BY <1>1, WriteModelEffect
<1> HIDE DEF h
<1>4. \A t \in Saved : disk'[t].rating = disk[t].rating
  BY <1>3
<1>5. Written' = Written
  BY <1>2 DEF Written
<1>6. TypeInv'
  BY <1>1, <1>2, <1>3 DEF TypeInv
<1>7. PhaseInv'
  BY <1>2 DEF PhaseInv
<1>8. OrderInv'
  BY <1>1, <1>2 DEF OrderInv
<1>9. WorkInv'
  BY <1>1, <1>2 DEF WorkInv
<1>10. WindowInv'
  <2> SUFFICES ASSUME RetentionCovers, ~rolled
               PROVE  WindowInv'
    BY <1>2 DEF WindowInv, RetentionCovers
  <2>1. fresh # <<>>
    BY <1>1, <1>2 DEF WindowInv
  <2>2. h = fresh[1] /\ h.t = now
    BY <1>2, <2>1, HeadOfWork DEF h
  <2>3. ASSUME NEW i \in DOMAIN versions
        PROVE  versions[i].t \in Saved' /\ disk'[versions[i].t].model = versions[i].model
    <3>1. versions[i].t \in Nat /\ versions[i].t < now
      BY <1>1, <2>1, SeqFacts DEF OrderInv, TypeInv
    <3>2. versions[i].t # h.t
      BY <1>1, <2>2, <3>1, SavedFacts
    <3> QED
      BY <1>1, <1>3, <3>2 DEF WindowInv
  <2>4. \A s \in Saved' : s \in Written' \/ Recent(s)' \/ Older(s)'
    BY <1>1, <1>2, <1>3, <1>5 DEF WindowInv, Recent, Older
  <2>5. disk'[now].model = fresh[1].model
    BY <1>3, <2>2
  <2> QED
    BY <1>1, <1>2, <1>3, <2>3, <2>4, <2>5 DEF WindowInv
<1>11. RatingInv'
  BY <1>1, <1>2, <1>3, <1>4 DEF RatingInv
<1> QED
  BY <1>6, <1>7, <1>8, <1>9, <1>10, <1>11 DEF IInv

(* Emptying the file of a rating. *)
LEMMA OpenRatingKeeps ==
    ASSUME IInv, OpenRating
    PROVE  IInv'
<1> DEFINE h == Head(work)
<1>1. /\ TypeInv /\ PhaseInv /\ OrderInv /\ WorkInv /\ WindowInv /\ RatingInv
  BY DEF IInv
<1>2. /\ pc = "persist" /\ work # <<>> /\ pc' = "rate"
      /\ UNCHANGED <<now, life, versions, checkpoint, work, fresh, before, durable, rolled>>
  BY DEF OpenRating, historyVars, persistVars
<1>3. /\ h.t \in Saved /\ Saved' = Saved
      /\ disk' \in [Saved -> Stored]
      /\ \A t \in Saved \ {h.t} : disk'[t] = disk[t]
      /\ disk'[h.t].model = disk[h.t].model
      /\ disk'[h.t].rating = <<>>
  BY <1>1, OpenRatingEffect
<1> HIDE DEF h
<1>4. \A t \in Saved : disk'[t].model = disk[t].model
  BY <1>3
<1>5. Written' = Written
  BY <1>2 DEF Written
<1>6. TypeInv'
  BY <1>1, <1>2, <1>3 DEF TypeInv
<1>7. PhaseInv'
  BY <1>2, <1>3 DEF PhaseInv, h
<1>8. OrderInv'
  BY <1>1, <1>2 DEF OrderInv
<1>9. WorkInv'
  BY <1>1, <1>2 DEF WorkInv
<1>10. WindowInv'
  <2> SUFFICES ASSUME RetentionCovers, ~rolled
               PROVE  WindowInv'
    BY <1>2 DEF WindowInv, RetentionCovers
  <2>1. \A i \in DOMAIN versions : versions[i].t \in Saved'
                                   /\ disk'[versions[i].t].model = versions[i].model
    BY <1>1, <1>3, <1>4 DEF WindowInv
  <2>2. \A s \in Saved' : s \in Written' \/ Recent(s)' \/ Older(s)'
    BY <1>1, <1>2, <1>3, <1>5 DEF WindowInv, Recent, Older
  <2>3. (fresh # <<>> /\ now \in Saved) => disk'[now].model = fresh[1].model
    BY <1>1, <1>2, <1>4 DEF WindowInv
  <2> QED
    BY <1>1, <1>2, <1>3, <2>1, <2>2, <2>3 DEF WindowInv
<1>11. RatingInv'
  <2>1. \A t \in Saved' : disk'[t].rating # <<>> => disk'[t].rating[1] >= durable'[t]
    BY <1>1, <1>2, <1>3 DEF RatingInv
  <2>2. ASSUME now = checkpoint, NEW i \in DOMAIN versions
        PROVE  \/ versions[i].t \notin Saved'
               \/ \E j \in DOMAIN work : work[j].t = versions[i].t
               \/ disk'[versions[i].t].rating = <<versions[i].rating>>
    <3>1. CASE versions[i].t = h.t
      <4>1. 1 \in DOMAIN work /\ work[1] = h
        BY <1>2, HeadOfWork DEF h
      <4> QED
        BY <3>1, <4>1
    <3>2. CASE versions[i].t # h.t
      BY <1>1, <1>2, <1>3, <2>2, <3>2 DEF RatingInv
    <3> QED
      BY <3>1, <3>2
  <2> QED
    BY <1>1, <1>2, <2>1, <2>2 DEF RatingInv
<1> QED
  BY <1>6, <1>7, <1>8, <1>9, <1>10, <1>11 DEF IInv

(* Writing a rating. *)
LEMMA WriteRatingKeeps ==
    ASSUME IInv, WriteRating
    PROVE  IInv'
<1> DEFINE h == Head(work)
<1>1. /\ TypeInv /\ PhaseInv /\ OrderInv /\ WorkInv /\ WindowInv /\ RatingInv
  BY DEF IInv
<1>2. /\ pc = "rate" /\ work # <<>> /\ pc' = "persist" /\ work' = Tail(work)
      /\ UNCHANGED <<now, life, versions, checkpoint, fresh, before, durable, rolled>>
  BY <1>1 DEF WriteRating, PhaseInv, historyVars
<1>3. /\ h.t \in Saved /\ h \in Version /\ Saved' = Saved
      /\ disk' \in [Saved -> Stored]
      /\ \A t \in Saved \ {h.t} : disk'[t] = disk[t]
      /\ disk'[h.t].model = disk[h.t].model
      /\ disk'[h.t].rating = <<h.rating>>
  BY <1>1, WriteRatingEffect
<1>4. /\ fresh # <<>> => work = fresh /\ h = fresh[1] /\ h.t = now /\ work' = <<>>
      /\ fresh = <<>> => \E i \in DOMAIN versions : h = versions[i]
  BY <1>2, HeadOfWork
<1>5. /\ h.rating \in Nat /\ h.t \in 1..MaxNow
      /\ <<h.rating>> # <<>> /\ <<h.rating>>[1] = h.rating
  BY <1>3 DEF Version
<1>6. /\ Len(work) \in Nat /\ DOMAIN work = 1..Len(work) /\ work[1] = h /\ 1 \in DOMAIN work
      /\ work' \in Seq(Version) /\ DOMAIN work' = 1..Len(work) - 1
      /\ \A j \in 1..Len(work) - 1 : work'[j] = work[j + 1]
  <2>1. work \in Seq(Version)
    BY <1>1 DEF TypeInv
  <2>2. /\ Len(work) \in Nat /\ DOMAIN work = 1..Len(work) /\ work[1] = h /\ 1 \in DOMAIN work
        /\ work' \in Seq(Version) /\ Len(work') = Len(work) - 1
        /\ \A j \in 1..Len(work) - 1 : work'[j] = work[j + 1]
    BY <1>2, <2>1, SeqFacts
  <2> QED
    BY <2>2, SeqFacts
<1> HIDE DEF h
<1>7. \A t \in Saved : disk'[t].model = disk[t].model
  BY <1>3
<1>8. Written' = Written
  BY <1>2 DEF Written
<1>9. TypeInv'
  BY <1>1, <1>2, <1>3, <1>6 DEF TypeInv
<1>10. PhaseInv'
  BY <1>2 DEF PhaseInv
<1>11. OrderInv'
  BY <1>1, <1>2 DEF OrderInv
<1>12. WorkInv'
  <2>1. ASSUME fresh = <<>>, NEW j \in DOMAIN work'
        PROVE  \E i \in DOMAIN versions : work'[j] = versions[i]
    <3>1. j + 1 \in DOMAIN work /\ work'[j] = work[j + 1]
      BY <1>6
    <3> QED
      BY <1>1, <2>1, <3>1 DEF WorkInv
  <2> QED
    BY <1>2, <1>4, <2>1 DEF WorkInv
<1>13. WindowInv'
  <2> SUFFICES ASSUME RetentionCovers, ~rolled
               PROVE  WindowInv'
    BY <1>2 DEF WindowInv, RetentionCovers
  <2>1. \A i \in DOMAIN versions : versions[i].t \in Saved'
                                   /\ disk'[versions[i].t].model = versions[i].model
    BY <1>1, <1>3, <1>7 DEF WindowInv
  <2>2. \A s \in Saved' : s \in Written' \/ Recent(s)' \/ Older(s)'
    BY <1>1, <1>2, <1>3, <1>8 DEF WindowInv, Recent, Older
  <2>3. (fresh # <<>> /\ now \in Saved) => disk'[now].model = fresh[1].model
    BY <1>1, <1>2, <1>7 DEF WindowInv
  <2>4. fresh # <<>> => now \in Saved
    BY <1>3, <1>4
  <2> QED
    BY <1>1, <1>2, <1>3, <2>1, <2>2, <2>3, <2>4 DEF WindowInv
<1>14. RatingInv'
  <2>1. h.rating >= durable[h.t]
    <3>1. CASE fresh # <<>>
      <4>1. durable[h.t] = 0
        BY <1>1, <1>4, <1>5, <3>1 DEF RatingInv, OrderInv
      <4> QED
        BY <1>5, <4>1
    <3>2. CASE fresh = <<>>
      BY <1>1, <1>4, <3>2 DEF RatingInv
    <3> QED
      BY <3>1, <3>2
  <2>2. \A t \in Saved' : disk'[t].rating # <<>> => disk'[t].rating[1] >= durable'[t]
    BY <1>1, <1>2, <1>3, <1>5, <2>1 DEF RatingInv
  <2>3. ASSUME now = checkpoint, NEW i \in DOMAIN versions, versions[i].t \in Saved
        PROVE  \/ \E j \in DOMAIN work' : work'[j].t = versions[i].t
               \/ disk'[versions[i].t].rating = <<versions[i].rating>>
    <3>1. PICK k \in DOMAIN versions : h = versions[k]
      <4>1. now \in Nat /\ ~ (now < now)
        BY <1>1, SavedFacts
      <4>2. fresh = <<>>
        BY <1>1, <2>3, <4>1 DEF OrderInv
      <4> QED
        BY <1>4, <4>2
    <3>2. CASE versions[i].t = h.t
      <4>1. i = k
        <5>1. Len(versions) \in Nat /\ DOMAIN versions = 1..Len(versions)
              /\ versions[i].t \in Nat /\ versions[k].t = versions[i].t
          BY <1>1, <3>1, <3>2, SeqFacts DEF TypeInv
        <5>2. ~ (i < k) /\ ~ (k < i)
          BY <1>1, <5>1 DEF OrderInv
        <5>3. i \in Nat /\ k \in Nat
          BY <5>1
        <5> QED
          BY <5>2, <5>3
      <4> QED
        BY <1>3, <3>1, <3>2, <4>1
    <3>3. CASE versions[i].t # h.t
      <4>1. CASE disk[versions[i].t].rating = <<versions[i].rating>>
        BY <1>3, <2>3, <3>3, <4>1
      <4>2. CASE \E j \in DOMAIN work : work[j].t = versions[i].t
        <5>1. PICK j \in DOMAIN work : work[j].t = versions[i].t
          BY <4>2
        <5>2. j # 1
          BY <1>6, <3>3, <5>1
        <5>3. j - 1 \in 1..Len(work) - 1 /\ (j - 1) + 1 = j
          BY <1>6, <5>2
        <5>4. j - 1 \in DOMAIN work' /\ work'[j - 1].t = versions[i].t
          BY <1>6, <5>1, <5>3
        <5> QED
          BY <5>4
      <4> QED
        BY <1>1, <1>2, <2>3, <4>1, <4>2 DEF RatingInv
    <3> QED
      BY <3>2, <3>3
  <2> QED
    BY <1>1, <1>2, <1>3, <2>2, <2>3 DEF RatingInv
<1> QED
  BY <1>9, <1>10, <1>11, <1>12, <1>13, <1>14 DEF IInv

(* The window of an ordered sequence: ordered, and what is not in it is    *)
(* older than all that is.                                                 *)
LEMMA WindowOfOrdered ==
    ASSUME NEW seq \in Seq(Version),
           \A i, j \in DOMAIN seq : i < j => seq[i].t < seq[j].t
    PROVE  LET w == Window(seq)
           IN  /\ w \in Seq(Version) /\ Len(w) <= MaxOld
               /\ \A i, j \in DOMAIN w : i < j => w[i].t < w[j].t
               /\ \A i \in DOMAIN w : \E j \in DOMAIN seq : w[i] = seq[j]
               /\ \A j \in DOMAIN seq :
                     \/ \E i \in DOMAIN w : w[i] = seq[j]
                     \/ Len(w) = MaxOld /\ \A i \in DOMAIN w : seq[j].t < w[i].t
               /\ Len(seq) >= MaxOld => Len(w) = MaxOld
               /\ Len(seq) <= MaxOld => Len(w) = Len(seq)
<1> USE VersionsAssumption
<1> DEFINE w == Window(seq)
<1>1. PICK k \in Nat :
        /\ Len(w) = Len(seq) - k /\ k <= Len(seq)
        /\ w \in Seq(Version)
        /\ \A i \in 1..Len(seq) - k : w[i] = seq[k + i]
        /\ Len(seq) <= MaxOld => k = 0
        /\ Len(seq) > MaxOld => Len(seq) - k = MaxOld
  BY WindowIsSuffix
<1> HIDE DEF w
<1>2. /\ Len(seq) \in Nat /\ MaxOld \in Nat /\ DOMAIN seq = 1..Len(seq)
      /\ Len(w) \in Nat /\ DOMAIN w = 1..Len(seq) - k
  BY <1>1, SeqFacts
<1>3. \A i \in DOMAIN w : k + i \in DOMAIN seq /\ w[i] = seq[k + i]
  BY <1>1, <1>2
<1>4. \A i, j \in DOMAIN w : i < j => k + i < k + j
  BY <1>2
<1>5. \A i, j \in DOMAIN w : i < j => w[i].t < w[j].t
  BY <1>3, <1>4
<1>6. ASSUME NEW j \in DOMAIN seq
      PROVE  \/ \E i \in DOMAIN w : w[i] = seq[j]
             \/ Len(w) = MaxOld /\ \A i \in DOMAIN w : seq[j].t < w[i].t
  <2>1. CASE j > k
    <3>1. j - k \in DOMAIN w /\ k + (j - k) = j
      BY <1>2, <2>1
    <3> QED
      BY <1>3, <3>1
  <2>2. CASE ~ (j > k)
    <3>1. k # 0
      BY <1>2, <2>2
    <3>2. Len(w) = MaxOld
      BY <1>1, <1>2, <3>1
    <3>3. \A i \in DOMAIN w : j < k + i
      BY <1>2, <2>2
    <3> QED
      BY <1>3, <3>2, <3>3
  <2> QED
    BY <2>1, <2>2
<1>7. /\ Len(w) <= MaxOld
      /\ Len(seq) >= MaxOld => Len(w) = MaxOld
      /\ Len(seq) <= MaxOld => Len(w) = Len(seq)
  BY <1>1, <1>2
<1>8. \A i \in DOMAIN w : \E j \in DOMAIN seq : w[i] = seq[j]
  BY <1>3
<1> QED
  BY <1>1, <1>5, <1>6, <1>7, <1>8 DEF w

(* The window with the new version at its end. *)
LEMMA ExtendedWindow ==
    ASSUME IInv
    PROVE  LET seq == versions \o fresh
           IN  /\ seq \in Seq(Version)
               /\ \A i, j \in DOMAIN seq : i < j => seq[i].t < seq[j].t
               /\ \A j \in DOMAIN seq : \/ \E i \in DOMAIN versions : seq[j] = versions[i]
                                        \/ fresh # <<>> /\ seq[j] = fresh[1]
               /\ \A i \in DOMAIN versions : i \in DOMAIN seq /\ seq[i] = versions[i]
               /\ fresh # <<>> => \E j \in DOMAIN seq : seq[j] = fresh[1]
               /\ Len(seq) \in Nat /\ Len(seq) >= Len(versions)
               /\ fresh = <<>> => Len(seq) = Len(versions)
<1> DEFINE seq == versions \o fresh
           L == Len(versions)
           f == Len(fresh)
<1>1. TypeInv /\ OrderInv
  BY DEF IInv
<1>2. /\ versions \in Seq(Version) /\ fresh \in Seq(Version)
      /\ L \in Nat /\ DOMAIN versions = 1..L
      /\ f \in Nat /\ f <= 1 /\ (fresh = <<>> <=> f = 0)
  <2>1. versions \in Seq(Version) /\ fresh \in Seq(Version) /\ f <= 1
    BY <1>1 DEF TypeInv
  <2> QED
    BY <2>1, SeqFacts
<1>3. \A a, b \in Seq(Version) :
        /\ a \o b \in Seq(Version) /\ Len(a \o b) = Len(a) + Len(b)
        /\ \A i \in 1..Len(a) + Len(b) :
              (a \o b)[i] = IF i <= Len(a) THEN a[i] ELSE b[i - Len(a)]
  BY ConcatProperties
<1>4. /\ seq \in Seq(Version) /\ Len(seq) = L + f /\ DOMAIN seq = 1..L + f
      /\ \A i \in 1..L + f : seq[i] = IF i <= L THEN versions[i] ELSE fresh[i - L]
  <2>1. /\ seq \in Seq(Version) /\ Len(seq) = L + f
        /\ \A i \in 1..L + f : seq[i] = IF i <= L THEN versions[i] ELSE fresh[i - L]
    BY <1>2, <1>3
  <2> QED
    BY <2>1, SeqFacts
<1>5. \A i \in DOMAIN versions : versions[i].t \in Nat /\ versions[i].t \in 1..MaxNow
  BY <1>2, SeqFacts
<1> HIDE DEF seq, L, f
<1>6. fresh # <<>> => f = 1 /\ fresh[1].t = now /\ \A i \in DOMAIN versions : versions[i].t < now
  <2>1. fresh # <<>> => f = 1
    BY <1>2
  <2> QED
    BY <1>1, <2>1 DEF OrderInv
<1>7. ASSUME NEW i \in DOMAIN seq, ~ (i <= L)
      PROVE  fresh # <<>> /\ i = L + 1 /\ i - L = 1
  <2>1. f # 0
    BY <1>2, <1>4, <1>7
  <2>2. f = 1
    BY <1>2, <2>1
  <2> QED
    BY <1>2, <1>4, <1>7, <2>1, <2>2
<1>8. \A i \in DOMAIN seq : i <= L => i \in DOMAIN versions /\ seq[i] = versions[i]
  BY <1>2, <1>4
<1>9. \A i \in DOMAIN seq : ~ (i <= L) => fresh # <<>> /\ i = L + 1 /\ seq[i] = fresh[1]
  BY <1>4, <1>7
<1>10. ASSUME NEW i \in DOMAIN seq, NEW j \in DOMAIN seq, i < j
       PROVE  seq[i].t < seq[j].t
  <2>1. CASE j <= L
    <3>1. i <= L
      BY <1>2, <1>4, <1>10, <2>1
    <3> QED
      BY <1>1, <1>8, <1>10, <2>1, <3>1 DEF OrderInv
  <2>2. CASE ~ (j <= L)
    <3>1. j = L + 1 /\ seq[j].t = now /\ fresh # <<>>
      BY <1>6, <1>9, <2>2
    <3>2. i <= L
      BY <1>2, <1>4, <1>10, <3>1
    <3> QED
      BY <1>6, <1>8, <3>1, <3>2
  <2> QED
    BY <2>1, <2>2
<1>11. \A i \in DOMAIN versions : i \in DOMAIN seq /\ seq[i] = versions[i]
  BY <1>2, <1>4
<1>12. ASSUME fresh # <<>>
       PROVE  \E j \in DOMAIN seq : seq[j] = fresh[1]
  <2>1. f = 1
    BY <1>6, <1>12
  <2>2. L + 1 \in DOMAIN seq /\ ~ (L + 1 <= L)
    BY <1>2, <1>4, <2>1
  <2> QED
    BY <1>9, <2>2
<1>13. Len(seq) \in Nat /\ Len(seq) >= L /\ (fresh = <<>> => Len(seq) = L)
  BY <1>2, <1>4
<1>14. \A j \in DOMAIN seq : \/ \E i \in DOMAIN versions : seq[j] = versions[i]
                             \/ fresh # <<>> /\ seq[j] = fresh[1]
  BY <1>8, <1>9
<1> QED
  BY <1>4, <1>10, <1>11, <1>12, <1>13, <1>14 DEF seq, L

(* The end of persisting. *)
LEMMA EndPersistKeeps ==
    ASSUME IInv, EndPersist
    PROVE  IInv'
<1> USE VersionsAssumption
<1> DEFINE seq == versions \o fresh
<1>1. /\ TypeInv /\ PhaseInv /\ OrderInv /\ WorkInv /\ WindowInv /\ RatingInv
  BY DEF IInv
<1>2. /\ pc = "persist" /\ work = <<>> /\ work' = <<>> /\ fresh' = <<>> /\ pc' = "prune"
      /\ versions' = Window(seq)
      /\ UNCHANGED <<now, life, disk, checkpoint, before, durable, rolled>>
  BY DEF EndPersist, historyVars
<1>3. /\ seq \in Seq(Version)
      /\ \A i, j \in DOMAIN seq : i < j => seq[i].t < seq[j].t
      /\ \A j \in DOMAIN seq : \/ \E i \in DOMAIN versions : seq[j] = versions[i]
                               \/ fresh # <<>> /\ seq[j] = fresh[1]
      /\ \A i \in DOMAIN versions : i \in DOMAIN seq /\ seq[i] = versions[i]
      /\ fresh # <<>> => \E j \in DOMAIN seq : seq[j] = fresh[1]
      /\ Len(seq) \in Nat /\ Len(seq) >= Len(versions)
  BY ExtendedWindow
<1> HIDE DEF seq
<1>4. /\ versions' \in Seq(Version) /\ Len(versions') <= MaxOld
      /\ \A i, j \in DOMAIN versions' : i < j => versions'[i].t < versions'[j].t
      /\ \A i \in DOMAIN versions' : \E j \in DOMAIN seq : versions'[i] = seq[j]
      /\ \A j \in DOMAIN seq :
            \/ \E i \in DOMAIN versions' : versions'[i] = seq[j]
            \/ Len(versions') = MaxOld /\ \A i \in DOMAIN versions' : seq[j].t < versions'[i].t
      /\ Len(seq) >= MaxOld => Len(versions') = MaxOld
  BY <1>2, <1>3, WindowOfOrdered
<1>5. \A i \in DOMAIN versions' : \/ \E k \in DOMAIN versions : versions'[i] = versions[k]
                                  \/ fresh # <<>> /\ versions'[i] = fresh[1]
  BY <1>3, <1>4, SMTT(30)
<1>6. fresh # <<>> => fresh[1].t = now /\ checkpoint < now /\ fresh[1].rating \in Nat
  <2>1. fresh # <<>> => fresh[1].rating \in Nat
    BY <1>1, SeqFacts DEF TypeInv
  <2> QED
    BY <1>1, <2>1 DEF OrderInv
<1>7. now \in Nat /\ checkpoint \in Nat /\ MaxNow \in Nat /\ now <= MaxNow
  BY <1>1, SavedFacts
<1>8. \A s : (\E j \in DOMAIN seq : seq[j].t = s) => (s \in Written' \/ Older(s)')
  BY <1>4 DEF Written, Older
<1>9. Saved' = Saved
  BY <1>2 DEF Saved
<1>10. TypeInv'
  <2>1. fresh' \in Seq(Version) /\ work' \in Seq(Version) /\ Len(fresh') <= 1
    <3>1. <<>> \in Seq(Version) /\ Len(<<>>) <= 1
      OBVIOUS
    <3> QED
      BY <1>2, <3>1, Zenon
  <2> QED
    BY <1>1, <1>2, <1>4, <1>9, <2>1 DEF TypeInv
<1>11. PhaseInv'
  BY <1>2 DEF PhaseInv
<1>12. OrderInv'
  <2>1. \A i \in DOMAIN versions' : versions'[i].t <= now
    BY <1>1, <1>5, <1>6, <1>7 DEF OrderInv
  <2> QED
    BY <1>2, <1>4, <2>1 DEF OrderInv
<1>13. WorkInv'
  BY <1>2 DEF WorkInv
<1>14. WindowInv'
  <2> SUFFICES ASSUME RetentionCovers, ~rolled
               PROVE  WindowInv'
    BY <1>2 DEF WindowInv, RetentionCovers
  <2>1. /\ \A i \in DOMAIN versions : /\ versions[i].t \in Saved
                                      /\ disk[versions[i].t].model = versions[i].model
        /\ \A s \in Saved : s \in Written \/ Recent(s) \/ Older(s)
        /\ fresh # <<>> => now \in Saved /\ disk[now].model = fresh[1].model
    BY <1>1, <1>2 DEF WindowInv
  <2>2. \A i \in DOMAIN versions' : /\ versions'[i].t \in Saved'
                                    /\ disk'[versions'[i].t].model = versions'[i].model
    BY <1>2, <1>5, <1>6, <1>9, <2>1
  <2>3. ASSUME NEW s \in Saved
        PROVE  s \in Written' \/ Older(s)'
    <3>1. CASE s \in Written
      BY <1>3, <1>8, <3>1 DEF Written
    <3>2. CASE Recent(s)
      BY <1>2, <1>3, <1>6, <1>8, <3>2 DEF Recent
    <3>3. CASE Older(s)
      <4>1. Len(versions') = MaxOld
        BY <1>3, <1>4, <3>3 DEF Older
      <4>2. \A i \in DOMAIN versions : s < versions[i].t
        BY <3>3 DEF Older
      <4>3. s < now
        <5>1. 1 \in DOMAIN versions /\ s < versions[1].t
          BY <1>1, <3>3, SeqFacts DEF Older, TypeInv
        <5>2. versions[1].t \in Nat /\ versions[1].t <= now /\ s \in Nat
          BY <1>1, <5>1, SeqFacts, SavedFacts DEF OrderInv, TypeInv
        <5> QED
          BY <1>7, <5>1, <5>2
      <4>4. \A i \in DOMAIN versions' : s < versions'[i].t
        BY <1>5, <1>6, <4>2, <4>3
      <4> QED
        BY <4>1, <4>4 DEF Older
    <3> QED
      BY <2>1, <3>1, <3>2, <3>3
  <2> QED
    BY <1>1, <1>2, <1>9, <2>2, <2>3 DEF WindowInv
<1>15. RatingInv'
  <2>1. \A i \in DOMAIN versions' : versions'[i].rating >= durable[versions'[i].t]
    <3>1. ASSUME fresh # <<>>
          PROVE  fresh[1].rating >= durable[fresh[1].t]
      <4>1. now \in 1..MaxNow /\ now > checkpoint
        BY <1>6, <1>7, <3>1
      <4>2. durable[now] = 0
        BY <1>1, <4>1 DEF RatingInv
      <4> QED
        BY <1>6, <3>1, <4>2
    <3> QED
      BY <1>1, <1>5, <3>1 DEF RatingInv
  <2>2. ASSUME now = checkpoint, NEW i \in DOMAIN versions'
        PROVE  \/ versions'[i].t \notin Saved
               \/ disk[versions'[i].t].rating = <<versions'[i].rating>>
    <3>1. fresh = <<>>
      BY <1>6, <1>7, <2>2
    <3>2. PICK k \in DOMAIN versions : versions'[i] = versions[k]
      BY <1>5, <3>1
    <3>3. ~ \E j \in DOMAIN work : work[j].t = versions[k].t
      BY <1>2
    <3> QED
      BY <1>1, <1>2, <2>2, <3>2, <3>3 DEF RatingInv
  <2> QED
    BY <1>1, <1>2, <1>9, <2>1, <2>2 DEF RatingInv
<1> QED
  BY <1>10, <1>11, <1>12, <1>13, <1>14, <1>15 DEF IInv

(* As many versions as the window has places hold at least what is in it. *)
LEMMA WrittenSize ==
    ASSUME TypeInv
    PROVE  /\ IsFiniteSet(Written) /\ Cardinality(Written) \in Nat
           /\ Cardinality(Written) <= Len(versions)
<1> DEFINE n == Len(versions)
<1>1. n \in Nat /\ DOMAIN versions = 1..n
  BY SeqFacts DEF TypeInv
<1> HIDE DEF n
<1>2. IsFiniteSet(1..n) /\ Cardinality(1..n) = n
  <2>1. IsFiniteSet(1..n) /\ Cardinality(1..n) = IF 1 > n THEN 0 ELSE n - 1 + 1
    BY <1>1, FS_Interval
  <2>2. (IF 1 > n THEN 0 ELSE n - 1 + 1) = n
    BY <1>1
  <2> QED
    BY <2>1, <2>2
<1> DEFINE g == [i \in 1..n |-> versions[i].t]
<1>3. Written = {g[i] : i \in 1..n}
  BY <1>1 DEF Written
<1>4. g \in Surjection(1..n, Written)
  BY <1>3 DEF Surjection
<1>5. IsFiniteSet(Written) /\ Cardinality(Written) <= Cardinality(1..n)
  BY <1>2, <1>4, FS_Surjection
<1>6. Cardinality(Written) \in Nat
  BY <1>5, FS_CardinalityType
<1> QED
  BY <1>2, <1>5, <1>6 DEF n

(* The folder that goes first is older than the window. *)
LEMMA FirstToGoIsOld ==
    ASSUME IInv, Prune, RetentionCovers, ~rolled
    PROVE  FirstToGo \notin Written
<1> USE VersionsAssumption
<1>1. TypeInv /\ PhaseInv /\ OrderInv /\ WindowInv
  BY DEF IInv
<1>2. /\ FirstToGo \in Saved /\ \A t \in Saved : FirstToGo <= t
      /\ MaxSaved # <<>> /\ Cardinality(Saved) > MaxSaved[1]
  BY <1>1, PruneEffect
<1>3. Saved \in SUBSET Nat /\ Cardinality(Saved) \in Nat
  BY <1>1, SavedFacts
<1>4. MaxSaved[1] \in Nat /\ MaxOld \in Nat /\ MaxSaved[1] >= MaxOld
  BY <1>2, EmptySeq, ElementOfSeq DEF RetentionCovers
<1>5. SUFFICES ASSUME FirstToGo \in Written PROVE FALSE
  OBVIOUS
<1>6. ASSUME NEW s \in Saved
      PROVE  s \in Written
  <2>1. ~ Recent(s)
    BY <1>1 DEF Recent, PhaseInv, Prune
  <2>2. ~ Older(s)
    <3>1. SUFFICES ASSUME Older(s) PROVE FALSE
      OBVIOUS
    <3>2. s < FirstToGo
      BY <1>5, <3>1 DEF Older, Written
    <3>3. FirstToGo <= s /\ s \in Nat /\ FirstToGo \in Nat
      BY <1>2, <1>3
    <3> QED
      BY <3>2, <3>3
  <2> QED
    BY <1>1, <2>1, <2>2 DEF WindowInv
<1>7. Cardinality(Saved) <= Cardinality(Written)
  BY <1>1, <1>6, WrittenSize, FS_Subset
<1>8. Cardinality(Written) <= Len(versions) /\ Len(versions) <= MaxOld
      /\ Cardinality(Written) \in Nat /\ Len(versions) \in Nat
  BY <1>1, WrittenSize, SeqFacts DEF OrderInv, TypeInv
<1> QED
  BY <1>2, <1>3, <1>4, <1>7, <1>8

(* Pruning a folder. *)
LEMMA PruneKeeps ==
    ASSUME IInv, Prune
    PROVE  IInv'
<1>1. /\ TypeInv /\ PhaseInv /\ OrderInv /\ WorkInv /\ WindowInv /\ RatingInv
  BY DEF IInv
<1>2. /\ pc = "prune" /\ work = <<>> /\ fresh = <<>>
      /\ UNCHANGED <<now, life, versions, checkpoint, pc, work, fresh, before, durable, rolled>>
  BY <1>1 DEF Prune, PhaseInv, historyVars, persistVars
<1>3. /\ Saved' = Saved \ {FirstToGo}
      /\ disk' \in [Saved' -> Stored]
      /\ \A t \in Saved' : disk'[t] = disk[t]
  BY <1>1, PruneEffect
<1>4. Written' = Written
  BY <1>2 DEF Written
<1>5. TypeInv'
  BY <1>1, <1>2, <1>3 DEF TypeInv
<1>6. PhaseInv'
  BY <1>2 DEF PhaseInv
<1>7. OrderInv'
  BY <1>1, <1>2 DEF OrderInv
<1>8. WorkInv'
  BY <1>1, <1>2 DEF WorkInv
<1>9. WindowInv'
  <2> SUFFICES ASSUME RetentionCovers, ~rolled
               PROVE  WindowInv'
    BY <1>2 DEF WindowInv, RetentionCovers
  <2>1. FirstToGo \notin Written
    BY FirstToGoIsOld
  <2>2. ASSUME NEW i \in DOMAIN versions
        PROVE  versions[i].t \in Saved' /\ disk'[versions[i].t].model = versions[i].model
    <3>1. versions[i].t # FirstToGo
      BY <2>1 DEF Written
    <3> QED
      BY <1>1, <1>3, <3>1 DEF WindowInv
  <2>3. \A s \in Saved' : s \in Written' \/ Recent(s)' \/ Older(s)'
    BY <1>1, <1>2, <1>3, <1>4 DEF WindowInv, Recent, Older
  <2> QED
    BY <1>1, <1>2, <2>2, <2>3 DEF WindowInv
<1>10. RatingInv'
  BY <1>1, <1>2, <1>3 DEF RatingInv
<1> QED
  BY <1>5, <1>6, <1>7, <1>8, <1>9, <1>10 DEF IInv

(* The ratings of the window are durable once all are written. *)
LEMMA EndPruneKeeps ==
    ASSUME IInv, EndPrune
    PROVE  IInv'
<1>1. /\ TypeInv /\ PhaseInv /\ OrderInv /\ WorkInv /\ WindowInv /\ RatingInv
  BY DEF IInv
<1>2. /\ pc = "prune" /\ pc' = "train" /\ work = <<>> /\ fresh = <<>>
      /\ durable' = [t \in DOMAIN durable |->
                       IF now = checkpoint /\ \E i \in DOMAIN versions : versions[i].t = t
                       THEN (CHOOSE v \in ToSet(versions) : v.t = t).rating ELSE durable[t]]
      /\ UNCHANGED <<now, life, versions, disk, checkpoint, work, fresh, before, rolled>>
  BY <1>1 DEF EndPrune, PhaseInv, persistVars
<1>3. /\ now \in Nat /\ checkpoint \in Nat /\ MaxNow \in Nat
      /\ Len(versions) \in Nat /\ DOMAIN versions = 1..Len(versions)
      /\ \A i \in DOMAIN versions : /\ versions[i].t \in 1..MaxNow /\ versions[i].t \in Nat
                                    /\ versions[i].rating \in Nat
      /\ DOMAIN durable = 1..MaxNow
  BY <1>1, SavedFacts, SeqFacts DEF TypeInv
<1>4. ASSUME NEW i \in DOMAIN versions
      PROVE  (CHOOSE v \in ToSet(versions) : v.t = versions[i].t) = versions[i]
  <2>1. ToSet(versions) = {versions[j] : j \in DOMAIN versions}
    BY DEF ToSet
  <2>2. ASSUME NEW j \in DOMAIN versions, versions[j].t = versions[i].t
        PROVE  j = i
    <3>1. ~ (i < j) /\ ~ (j < i)
      BY <1>1, <1>3, <2>2 DEF OrderInv
    <3> QED
      BY <1>3, <3>1
  <2>3. versions[i] \in ToSet(versions)
        /\ \A v \in ToSet(versions) : v.t = versions[i].t => v = versions[i]
    BY <2>1, <2>2
  <2> QED
    BY <2>3
<1>5. ASSUME NEW i \in DOMAIN versions
      PROVE  durable'[versions[i].t] = IF now = checkpoint THEN versions[i].rating
                                       ELSE durable[versions[i].t]
  <2> DEFINE rated(t) == (CHOOSE v \in ToSet(versions) : v.t = t).rating
  <2>1. versions[i].t \in DOMAIN durable
    BY <1>3
  <2>2. rated(versions[i].t) = versions[i].rating
    BY <1>4
  <2>3. durable' = [t \in DOMAIN durable |->
                      IF now = checkpoint /\ \E k \in DOMAIN versions : versions[k].t = t
                      THEN rated(t) ELSE durable[t]]
    BY <1>2
  <2> HIDE DEF rated
  <2>4. durable'[versions[i].t] =
           IF now = checkpoint /\ \E k \in DOMAIN versions : versions[k].t = versions[i].t
           THEN rated(versions[i].t) ELSE durable[versions[i].t]
    BY <2>1, <2>3
  <2> QED
    BY <2>2, <2>4
<1>6. \A t \in 1..MaxNow :
         (now # checkpoint \/ ~ \E i \in DOMAIN versions : versions[i].t = t)
            => durable'[t] = durable[t]
  BY <1>2, <1>3
<1>7. \A t \in 1..MaxNow : durable'[t] \in Nat
  BY <1>1, <1>3, <1>5, <1>6 DEF TypeInv
<1>8. Saved' = Saved /\ Written' = Written
  BY <1>2 DEF Saved, Written
<1>9. TypeInv'
  <2>1. durable' = [t \in 1..MaxNow |-> durable'[t]]
    BY <1>2, <1>3
  <2>2. durable' \in [1..MaxNow -> Nat]
    BY <1>7, <2>1
  <2> QED
    BY <1>1, <1>2, <1>8, <2>2 DEF TypeInv
<1>10. PhaseInv'
  BY <1>2 DEF PhaseInv
<1>11. OrderInv'
  BY <1>1, <1>2 DEF OrderInv
<1>12. WorkInv'
  BY <1>1, <1>2 DEF WorkInv
<1>13. WindowInv'
  <2> SUFFICES ASSUME RetentionCovers, ~rolled
               PROVE  WindowInv'
    BY <1>2 DEF WindowInv, RetentionCovers
  <2>1. \A s \in Saved' : s \in Written' \/ Recent(s)' \/ Older(s)'
    BY <1>1, <1>2, <1>8 DEF WindowInv, Recent, Older
  <2> QED
    BY <1>1, <1>2, <1>8, <2>1 DEF WindowInv
<1>14. RatingInv'
  <2>1. ASSUME NEW t \in 1..MaxNow, t > checkpoint
        PROVE  durable'[t] = 0
    <3>1. now # checkpoint \/ ~ \E i \in DOMAIN versions : versions[i].t = t
      <4>1. SUFFICES ASSUME now = checkpoint, NEW i \in DOMAIN versions, versions[i].t = t
                     PROVE  FALSE
        OBVIOUS
      <4>2. t <= now
        BY <1>1, <4>1 DEF OrderInv
      <4> QED
        BY <1>3, <2>1, <4>1, <4>2
    <3> QED
      BY <1>1, <1>6, <2>1, <3>1 DEF RatingInv
  <2>2. ASSUME NEW t \in Saved, disk[t].rating # <<>>
        PROVE  disk[t].rating[1] >= durable'[t]
    <3>0. t \in 1..MaxNow
      BY <1>1, SavedFacts
    <3>1. CASE now = checkpoint /\ \E i \in DOMAIN versions : versions[i].t = t
      <4>1. PICK i \in DOMAIN versions : versions[i].t = t
        BY <3>1
      <4>2. ~ \E j \in DOMAIN work : work[j].t = versions[i].t
        BY <1>2
      <4>3. disk[t].rating = <<versions[i].rating>>
        BY <1>1, <1>2, <2>2, <3>1, <4>1, <4>2 DEF RatingInv
      <4>4. disk[t].rating[1] = versions[i].rating /\ durable'[t] = versions[i].rating
        BY <1>5, <3>1, <4>1, <4>3
      <4> QED
        BY <1>3, <4>4
    <3>2. CASE ~ (now = checkpoint /\ \E i \in DOMAIN versions : versions[i].t = t)
      BY <1>1, <1>6, <2>2, <3>0, <3>2 DEF RatingInv
    <3> QED
      BY <3>1, <3>2
  <2>3. \A i \in DOMAIN versions : versions[i].rating >= durable'[versions[i].t]
    BY <1>1, <1>3, <1>5 DEF RatingInv
  <2> QED
    BY <1>2, <1>8, <2>1, <2>2, <2>3 DEF RatingInv
<1> QED
  BY <1>9, <1>10, <1>11, <1>12, <1>13, <1>14 DEF IInv

(* A crash. *)
LEMMA CrashKeeps ==
    ASSUME IInv, Crash
    PROVE  IInv'
<1>1. /\ TypeInv /\ PhaseInv /\ OrderInv /\ WorkInv /\ WindowInv /\ RatingInv
  BY DEF IInv
<1>2. /\ pc' = "down" /\ work' = <<>> /\ fresh' = <<>> /\ before' = versions
      /\ UNCHANGED <<now, life, versions, disk, checkpoint, durable, rolled>>
  BY DEF Crash
<1>3. Saved' = Saved /\ Written' = Written
  BY <1>2 DEF Saved, Written
<1>4. TypeInv'
  <2>1. fresh' \in Seq(Version) /\ work' \in Seq(Version) /\ Len(fresh') <= 1
    <3>1. <<>> \in Seq(Version) /\ Len(<<>>) <= 1
      OBVIOUS
    <3> QED
      BY <1>2, <3>1, Zenon
  <2> QED
    BY <1>1, <1>2, <1>3, <2>1 DEF TypeInv
<1>5. PhaseInv'
  BY <1>2 DEF PhaseInv
<1>6. OrderInv'
  BY <1>1, <1>2 DEF OrderInv
<1>7. WorkInv'
  BY <1>2 DEF WorkInv
<1>8. WindowInv'
  <2> SUFFICES ASSUME RetentionCovers, ~rolled
               PROVE  WindowInv'
    BY <1>2 DEF WindowInv, RetentionCovers
  <2>1. \A s \in Saved' : s \in Written' \/ Recent(s)' \/ Older(s)'
    BY <1>1, <1>2, <1>3 DEF WindowInv, Recent, Older
  <2> QED
    BY <1>1, <1>2, <1>3, <2>1 DEF WindowInv
<1>9. RatingInv'
  BY <1>1, <1>2, <1>3 DEF RatingInv
<1> QED
  BY <1>4, <1>5, <1>6, <1>7, <1>8, <1>9 DEF IInv

(* The folders a restart loads. *)
Loadable == {t \in Saved : t <= checkpoint}

(* What load_versions reads: the loadable versions as they are on disk,    *)
(* sorted, before the window slides.                                       *)
LEMMA LoadedVersions ==
    ASSUME TypeInv
    PROVE  LET found == Ascending(Loadable)
               loaded == [i \in DOMAIN found |-> Loaded(found[i])]
           IN  /\ loaded \in Seq(Version)
               /\ \A i, j \in DOMAIN loaded : i < j => loaded[i].t < loaded[j].t
               /\ \A i \in DOMAIN loaded : /\ loaded[i].t \in Loadable
                                           /\ loaded[i] = Loaded(loaded[i].t)
               /\ \A s \in Loadable : \E j \in DOMAIN loaded : loaded[j].t = s
<1> DEFINE C == Loadable
           n == Cardinality(C)
           found == Ascending(C)
           loaded == [i \in DOMAIN found |-> Loaded(found[i])]
<1>1. C \in SUBSET Nat /\ IsFiniteSet(C) /\ C \subseteq Saved
  BY SavedFacts, FS_Subset DEF Loadable
<1>2. ASSUME NEW t \in C
      PROVE  /\ Loaded(t) \in Version /\ Loaded(t).t = t
  <2>1. /\ t \in 1..MaxNow /\ disk[t].model \in Nat \X Nat
        /\ disk[t].rating # <<>> => disk[t].rating[1] \in Nat
    BY <1>1, SavedFacts
  <2>2. (IF disk[t].rating = <<>> THEN 0 ELSE disk[t].rating[1]) \in Nat
    BY <2>1
  <2>3. Loaded(t) \in Version
    BY <2>1, <2>2, VersionIs DEF Loaded
  <2> QED
    BY <2>3 DEF Loaded
<1> HIDE DEF C
<1>3. /\ n \in Nat /\ found \in [1..n -> C]
      /\ \A i, j \in 1..n : i < j => found[i] < found[j]
      /\ \A i \in 1..n : \A d \in C : Cardinality(Below(C, d)) = i - 1 => found[i] = d
  BY <1>1, AscendingSorts
<1> HIDE DEF n, found
<1>4. DOMAIN loaded = 1..n /\ \A i \in 1..n : loaded[i] = Loaded(found[i]) /\ found[i] \in C
  BY <1>3
<1>5. loaded \in Seq(Version)
  <2>1. loaded \in [1..n -> Version]
    BY <1>2, <1>3, <1>4
  <2> QED
    BY <1>3, <2>1, SeqDef
<1> HIDE DEF loaded
<1>6. \A i \in 1..n : loaded[i].t = found[i]
  BY <1>2, <1>4
<1>7. \A i, j \in DOMAIN loaded : i < j => loaded[i].t < loaded[j].t
  BY <1>3, <1>4, <1>6
<1>8. \A i \in DOMAIN loaded : loaded[i].t \in C /\ loaded[i] = Loaded(loaded[i].t)
  BY <1>4, <1>6
<1>9. ASSUME NEW s \in C
      PROVE  \E j \in DOMAIN loaded : loaded[j].t = s
  <2> DEFINE r == Cardinality(Below(C, s))
  <2>1. r \in Nat /\ r < n
    BY <1>1, RankType DEF n
  <2> HIDE DEF r
  <2>2. r + 1 \in 1..n /\ (r + 1) - 1 = r
    BY <1>3, <2>1
  <2>3. found[r + 1] = s
    BY <1>3, <2>2 DEF r
  <2> QED
    BY <1>4, <1>6, <2>2, <2>3
<1> QED
  BY <1>5, <1>7, <1>8, <1>9 DEF loaded, found, C

(* What is in the window after a restart. *)
LEMMA RestartEffect ==
    ASSUME TypeInv, Restart
    PROVE  /\ versions' \in Seq(Version) /\ Len(versions') <= MaxOld
           /\ \A i, j \in DOMAIN versions' : i < j => versions'[i].t < versions'[j].t
           /\ \A i \in DOMAIN versions' : /\ versions'[i].t \in Loadable
                                          /\ versions'[i] = Loaded(versions'[i].t)
           /\ \A s \in Loadable :
                 \/ \E i \in DOMAIN versions' : versions'[i].t = s
                 \/ Len(versions') = MaxOld /\ \A i \in DOMAIN versions' : s < versions'[i].t
<1> DEFINE found == Ascending(Loadable)
           loaded == [i \in DOMAIN found |-> Loaded(found[i])]
<1>1. versions' = Window(loaded)
  BY DEF Restart, Loadable, NotNewer
<1>2. /\ loaded \in Seq(Version)
      /\ \A i, j \in DOMAIN loaded : i < j => loaded[i].t < loaded[j].t
      /\ \A i \in DOMAIN loaded : /\ loaded[i].t \in Loadable
                                  /\ loaded[i] = Loaded(loaded[i].t)
      /\ \A s \in Loadable : \E j \in DOMAIN loaded : loaded[j].t = s
  BY LoadedVersions
<1> HIDE DEF loaded
<1>3. /\ versions' \in Seq(Version) /\ Len(versions') <= MaxOld
      /\ \A i, j \in DOMAIN versions' : i < j => versions'[i].t < versions'[j].t
      /\ \A i \in DOMAIN versions' : \E j \in DOMAIN loaded : versions'[i] = loaded[j]
      /\ \A j \in DOMAIN loaded :
            \/ \E i \in DOMAIN versions' : versions'[i] = loaded[j]
            \/ Len(versions') = MaxOld /\ \A i \in DOMAIN versions' : loaded[j].t < versions'[i].t
  BY <1>1, <1>2, WindowOfOrdered
<1>4. \A i \in DOMAIN versions' : /\ versions'[i].t \in Loadable
                                  /\ versions'[i] = Loaded(versions'[i].t)
  BY <1>2, <1>3
<1>5. \A s \in Loadable :
         \/ \E i \in DOMAIN versions' : versions'[i].t = s
         \/ Len(versions') = MaxOld /\ \A i \in DOMAIN versions' : s < versions'[i].t
  <2> TAKE s \in Loadable
  <2>1. PICK j \in DOMAIN loaded : loaded[j].t = s
    BY <1>2
  <2> QED
    BY <1>3, <2>1
<1> QED
  BY <1>3, <1>4, <1>5

(* A restart. *)
LEMMA RestartKeeps ==
    ASSUME IInv, Restart
    PROVE  IInv'
<1>1. /\ TypeInv /\ PhaseInv /\ OrderInv /\ WorkInv /\ WindowInv /\ RatingInv
  BY DEF IInv
<1>2. /\ pc = "down" /\ pc' = "train" /\ work = <<>> /\ fresh = <<>>
      /\ now' = checkpoint /\ life' = life + 1
      /\ rolled' = (rolled \/ \E t \in Saved : t > checkpoint)
      /\ durable' = [t \in DOMAIN durable |->
                       IF t \in Saved /\ disk[t].rating = <<>> THEN 0 ELSE durable[t]]
      /\ UNCHANGED <<disk, checkpoint, work, fresh>>
  BY <1>1 DEF Restart, PhaseInv, persistVars
<1>3. /\ versions' \in Seq(Version) /\ Len(versions') <= MaxOld
      /\ \A i, j \in DOMAIN versions' : i < j => versions'[i].t < versions'[j].t
      /\ \A i \in DOMAIN versions' : /\ versions'[i].t \in Loadable
                                     /\ versions'[i] = Loaded(versions'[i].t)
      /\ \A s \in Loadable :
            \/ \E i \in DOMAIN versions' : versions'[i].t = s
            \/ Len(versions') = MaxOld /\ \A i \in DOMAIN versions' : s < versions'[i].t
  BY <1>1, RestartEffect
<1>4. /\ now \in Nat /\ checkpoint \in Nat /\ checkpoint <= now /\ MaxNow \in Nat /\ now <= MaxNow
      /\ Saved \in SUBSET Nat
      /\ DOMAIN durable = 1..MaxNow /\ \A t \in 1..MaxNow : durable[t] \in Nat
      /\ \A t \in Saved : t \in 1..MaxNow
                          /\ (disk[t].rating # <<>> => disk[t].rating[1] \in Nat)
  BY <1>1, SavedFacts DEF TypeInv
<1>5. Saved' = Saved
  BY <1>2 DEF Saved
<1>6. \A t \in 1..MaxNow :
         durable'[t] = IF t \in Saved /\ disk[t].rating = <<>> THEN 0 ELSE durable[t]
  BY <1>2, <1>4
<1>7. TypeInv'
  <2>1. now' \in 0..MaxNow /\ checkpoint' \in 0..now' /\ life' \in Nat
    BY <1>1, <1>2, <1>4 DEF TypeInv
  <2>2. durable' \in [1..MaxNow -> Nat]
    BY <1>2, <1>4, <1>6
  <2> QED
    BY <1>1, <1>2, <1>3, <1>5, <2>1, <2>2 DEF TypeInv
<1>8. PhaseInv'
  BY <1>2 DEF PhaseInv
<1>9. OrderInv'
  <2>1. \A i \in DOMAIN versions' : versions'[i].t <= now'
    BY <1>2, <1>3 DEF Loadable
  <2> QED
    BY <1>2, <1>3, <2>1 DEF OrderInv
<1>10. WorkInv'
  BY <1>2 DEF WorkInv
<1>11. WindowInv'
  <2> SUFFICES ASSUME RetentionCovers, ~rolled'
               PROVE  WindowInv'
    BY DEF WindowInv, RetentionCovers
  <2>1. Loadable = Saved
    <3>1. ASSUME NEW t \in Saved
          PROVE  t <= checkpoint
      <4>1. ~ (t > checkpoint) /\ t \in Nat
        BY <1>2, <1>4
      <4> QED
        BY <1>4, <4>1
    <3> QED
      BY <3>1 DEF Loadable
  <2>2. \A s \in Saved' : s \in Written' \/ Older(s)'
    BY <1>3, <1>5, <2>1 DEF Written, Older
  <2>3. \A i \in DOMAIN versions' : versions'[i].t \in Saved'
                                    /\ disk'[versions'[i].t].model = versions'[i].model
    BY <1>2, <1>3, <1>5, <2>1 DEF Loaded
  <2> QED
    BY <1>2, <2>2, <2>3 DEF WindowInv
<1>12. RatingInv'
  <2>1. \A t \in 1..MaxNow : t > checkpoint => durable'[t] = 0
    BY <1>1, <1>6 DEF RatingInv
  <2>2. \A t \in Saved : disk[t].rating # <<>> => disk[t].rating[1] >= durable'[t]
    BY <1>1, <1>4, <1>6 DEF RatingInv
  <2>3. ASSUME NEW i \in DOMAIN versions'
        PROVE  versions'[i].rating >= durable'[versions'[i].t]
    <3> DEFINE t == versions'[i].t
    <3>1. t \in Saved /\ t \in 1..MaxNow
      BY <1>3, <1>4 DEF Loadable
    <3>2. versions'[i].rating = IF disk[t].rating = <<>> THEN 0 ELSE disk[t].rating[1]
      BY <1>3 DEF Loaded
    <3> HIDE DEF t
    <3>3. CASE disk[t].rating = <<>>
      BY <1>6, <3>1, <3>2, <3>3 DEF t
    <3>4. CASE disk[t].rating # <<>>
      BY <2>2, <3>1, <3>2, <3>4 DEF t
    <3> QED
      BY <3>3, <3>4
  <2> QED
    BY <1>2, <1>5, <2>1, <2>2, <2>3 DEF RatingInv
<1> QED
  BY <1>7, <1>8, <1>9, <1>10, <1>11, <1>12 DEF IInv

(* Every step keeps the invariant. *)
LEMMA NextIInv == IInv /\ [Next]_vars => IInv'
<1> SUFFICES ASSUME IInv, [Next]_vars PROVE IInv'
  OBVIOUS
<1>1. CASE UNCHANGED vars
  BY <1>1 DEF IInv, TypeInv, PhaseInv, OrderInv, WorkInv, WindowInv, RatingInv, Written, Recent,
              Older, Saved, vars, persistVars, historyVars
<1>2. ASSUME NEW n \in 1..MaxSteps, Iterate(n)
      PROVE  IInv'
  BY <1>2, IterateKeeps
<1>3. ASSUME NEW i \in DOMAIN versions, Rate(i)
      PROVE  IInv'
  BY <1>3, RateKeeps
<1>4. CASE Save
  BY <1>4, SaveKeeps
<1>5. CASE MakeFolder
  BY <1>5, MakeFolderKeeps
<1>6. CASE WriteModel
  BY <1>6, WriteModelKeeps
<1>7. CASE OpenRating
  BY <1>7, OpenRatingKeeps
<1>8. CASE WriteRating
  BY <1>8, WriteRatingKeeps
<1>9. CASE EndPersist
  BY <1>9, EndPersistKeeps
<1>10. CASE Prune
  BY <1>10, PruneKeeps
<1>11. CASE EndPrune
  BY <1>11, EndPruneKeeps
<1>12. CASE Crash
  BY <1>12, CrashKeeps
<1>13. CASE Restart
  BY <1>13, RestartKeeps
<1> QED
  BY <1>1, <1>2, <1>3, <1>4, <1>5, <1>6, <1>7, <1>8, <1>9, <1>10, <1>11, <1>12, <1>13 DEF Next

(* The invariant holds in every reachable state. *)
LEMMA InvariantHolds == Spec => []IInv
BY InitIInv, NextIInv, PTL DEF Spec

(* The window is ordered by timestep, and nothing in it is newer than the  *)
(* policy in training, whatever is on disk when the process starts.        *)
THEOREM OrderedWindow == Spec => []WindowOrdered
<1>1. IInv => WindowOrdered
  BY DEF IInv, OrderInv, WindowOrdered
<1> QED
  BY <1>1, InvariantHolds, PTL

(* A window of a set of timesteps: in order, with all of the set but what  *)
(* is older than MaxOld others.                                            *)
WindowOf(S, w) ==
    /\ w \in Seq(Version) /\ Len(w) <= MaxOld
    /\ \A i, j \in DOMAIN w : i < j => w[i].t < w[j].t
    /\ \A i \in DOMAIN w : w[i].t \in S
    /\ \A s \in S : \/ \E i \in DOMAIN w : w[i].t = s
                    \/ Len(w) = MaxOld /\ \A i \in DOMAIN w : s < w[i].t

From(S, d) == {s \in S : d <= s}

(* The place of an element in a window is its distance from the end.       *)
LEMMA PlaceInWindow ==
    ASSUME NEW S \in SUBSET Nat, IsFiniteSet(S), NEW w, WindowOf(S, w), NEW i \in DOMAIN w
    PROVE  Cardinality(From(S, w[i].t)) = Len(w) - i + 1
<1> DEFINE n == Len(w)
           F == From(S, w[i].t)
           g == [j \in i..n |-> w[j].t]
<1>1. /\ n \in Nat /\ DOMAIN w = 1..n /\ i \in 1..n
      /\ \A j \in DOMAIN w : w[j].t \in Nat /\ w[j].t \in S
      /\ \A k, j \in DOMAIN w : k < j => w[k].t < w[j].t
  BY SeqFacts DEF WindowOf
<1> HIDE DEF n
<1>2. \A j \in i..n : j \in DOMAIN w /\ w[i].t <= w[j].t
  <2> TAKE j \in i..n
  <2>1. j \in DOMAIN w /\ (i = j \/ i < j)
    BY <1>1
  <2> QED
    BY <1>1, <2>1
<1>3. g \in [i..n -> F]
  BY <1>1, <1>2 DEF From
<1>4. \A k, j \in i..n : k # j => g[k] # g[j]
  <2> TAKE k, j \in i..n
  <2>1. k # j => k < j \/ j < k
    BY <1>1
  <2>2. k \in DOMAIN w /\ j \in DOMAIN w /\ g[k] = w[k].t /\ g[j] = w[j].t
    BY <1>2
  <2> QED
    BY <1>1, <2>1, <2>2
<1>5. ASSUME NEW s \in F
      PROVE  \E j \in i..n : g[j] = s
  <2>1. s \in S /\ w[i].t <= s /\ s \in Nat
    BY DEF From
  <2>2. PICK j \in DOMAIN w : w[j].t = s
    BY <1>1, <2>1 DEF WindowOf
  <2>3. ~ (j < i)
    BY <1>1, <2>1, <2>2
  <2>4. j \in i..n
    BY <1>1, <2>3
  <2> QED
    BY <2>2, <2>4
<1>6. g \in Bijection(i..n, F)
  BY <1>3, <1>4, <1>5 DEF Bijection, Injection, Surjection, IsInjective
<1>7. IsFiniteSet(i..n) /\ Cardinality(i..n) = n - i + 1
  <2>1. IsFiniteSet(i..n) /\ Cardinality(i..n) = IF i > n THEN 0 ELSE n - i + 1
    BY <1>1, FS_Interval
  <2> QED
    BY <1>1, <2>1
<1>8. Cardinality(F) = Cardinality(i..n)
  <2>1. ExistsBijection(i..n, F)
    BY <1>6 DEF ExistsBijection
  <2> QED
    BY <1>7, <2>1, FS_Bijection
<1> QED
  BY <1>7, <1>8 DEF n

(* The length of a window is that of the set, up to MaxOld.                *)
LEMMA WindowLength ==
    ASSUME NEW S \in SUBSET Nat, IsFiniteSet(S), NEW w, WindowOf(S, w)
    PROVE  /\ Len(w) \in Nat /\ Cardinality(S) \in Nat
           /\ Len(w) = IF Cardinality(S) < MaxOld THEN Cardinality(S) ELSE MaxOld
<1> USE VersionsAssumption
<1>1. /\ Len(w) \in Nat /\ DOMAIN w = 1..Len(w) /\ Len(w) <= MaxOld /\ MaxOld \in Nat
      /\ \A j \in DOMAIN w : w[j].t \in Nat /\ w[j].t \in S
  BY SeqFacts DEF WindowOf
<1>2. Cardinality(S) \in Nat
  BY FS_CardinalityType
<1>3. CASE Len(w) = 0
  <2>1. MaxOld # 0 /\ DOMAIN w = {}
    BY <1>1, <1>3
  <2>2. S = {}
    BY <1>3, <2>1 DEF WindowOf
  <2>3. Cardinality(S) = 0
    BY <2>2, FS_EmptySet
  <2> QED
    BY <1>1, <1>3, <2>1, <2>3
<1>4. CASE Len(w) # 0
  <2>1. 1 \in DOMAIN w
    BY <1>1, <1>4
  <2>2. Cardinality(From(S, w[1].t)) = Len(w)
    <3>1. Cardinality(From(S, w[1].t)) = Len(w) - 1 + 1
      BY <2>1, PlaceInWindow
    <3> QED
      BY <1>1, <3>1
  <2>3. From(S, w[1].t) \subseteq S
    BY DEF From
  <2>4. Len(w) <= Cardinality(S)
    BY <2>2, <2>3, FS_Subset
  <2>5. ASSUME Len(w) # MaxOld
        PROVE  From(S, w[1].t) = S
    <3>1. ASSUME NEW s \in S
          PROVE  w[1].t <= s
      <4>1. PICK j \in DOMAIN w : w[j].t = s
        BY <2>5 DEF WindowOf
      <4>2. j = 1 \/ 1 < j
        BY <1>1, <4>1
      <4>3. w[1].t \in Nat /\ w[j].t \in Nat
        BY <1>1, <2>1
      <4>4. 1 < j => w[1].t < w[j].t
        BY <2>1 DEF WindowOf
      <4>5. w[1].t <= w[j].t
        BY <4>2, <4>3, <4>4
      <4> QED
        BY <4>1, <4>5
    <3> QED
      BY <3>1 DEF From
  <2>6. CASE Len(w) = MaxOld
    BY <1>1, <1>2, <2>4, <2>6
  <2>7. CASE Len(w) # MaxOld
    <3>1. Cardinality(S) = Len(w)
      BY <2>2, <2>5, <2>7
    <3>2. Len(w) < MaxOld
      <4>1. \A m, n \in Nat : (m <= n /\ m # n) => m < n
        OBVIOUS
      <4>2. Len(w) \in Nat /\ MaxOld \in Nat /\ Len(w) <= MaxOld
        BY <1>1
      <4> QED
        BY <2>7, <4>1, <4>2
    <3> QED
      BY <1>1, <3>1, <3>2
  <2> QED
    BY <2>6, <2>7
<1> QED
  BY <1>3, <1>4

(* There is one window of a set of timesteps.                              *)
LEMMA OneWindow ==
    ASSUME NEW S \in SUBSET Nat, IsFiniteSet(S), NEW v, WindowOf(S, v), NEW w, WindowOf(S, w)
    PROVE  /\ DOMAIN v = DOMAIN w
           /\ \A i \in DOMAIN v : v[i].t = w[i].t
<1>1. /\ DOMAIN v = 1..Len(v) /\ DOMAIN w = 1..Len(w)
      /\ \A j \in DOMAIN w : w[j].t \in S
      /\ \A j \in DOMAIN v : v[j].t \in S
  BY SeqFacts DEF WindowOf
<1>2. Len(v) = Len(w) /\ Len(v) \in Nat
  BY WindowLength
<1>3. \A d, e \in S : d < e => Cardinality(From(S, d)) # Cardinality(From(S, e))
  <2> TAKE d, e \in S
  <2> HAVE d < e
  <2>0. d \in Nat /\ e \in Nat /\ \A s \in S : s \in Nat
    OBVIOUS
  <2>1. From(S, e) \subseteq From(S, d) /\ d \in From(S, d) /\ d \notin From(S, e)
    <3>1. \A s \in S : e <= s => d <= s
      BY <2>0
    <3>2. d <= d /\ ~ (e <= d)
      BY <2>0
    <3> QED
      BY <3>1, <3>2 DEF From
  <2>2. IsFiniteSet(From(S, d))
    BY FS_Subset DEF From
  <2>3. From(S, e) # From(S, d)
    BY <2>1
  <2>4. Cardinality(From(S, d)) = Cardinality(From(S, e)) => From(S, d) = From(S, e)
    BY <2>1, <2>2, FS_Subset
  <2> QED
    BY <2>3, <2>4
<1>4. ASSUME NEW i \in DOMAIN v
      PROVE  v[i].t = w[i].t
  <2>1. i \in DOMAIN w /\ Cardinality(From(S, v[i].t)) = Cardinality(From(S, w[i].t))
    BY <1>1, <1>2, PlaceInWindow
  <2>2. v[i].t \in S /\ w[i].t \in S
    BY <1>1, <2>1
  <2>3. ~ (v[i].t < w[i].t) /\ ~ (w[i].t < v[i].t)
    BY <1>3, <2>1, <2>2
  <2>4. v[i].t \in Nat /\ w[i].t \in Nat
    BY <2>2
  <2> QED
    BY <2>3, <2>4
<1> QED
  BY <1>1, <1>2, <1>4

(* A restart from the newest version on disk finds the window the process  *)
(* died with: the same timesteps in the same order, with the same models.  *)
THEOREM WindowSurvivesRestart == Spec => RestartKeepsWindow
<1> DEFINE Kept == (RetentionCovers /\ pc = "down" /\ pc' = "train" /\ ~rolled')
                      => ModelsOf(versions') = ModelsOf(before)
<1>1. ASSUME IInv, [Next]_vars
      PROVE  [Kept]_vars
  <2> SUFFICES ASSUME Next, RetentionCovers, pc = "down", pc' = "train", ~rolled'
               PROVE  ModelsOf(versions') = ModelsOf(before)
    BY <1>1 DEF vars
  <2>1. /\ TypeInv /\ OrderInv /\ WindowInv
    BY <1>1 DEF IInv
  <2>2. Restart
    BY DEF Next, Iterate, Rate, Save, MakeFolder, WriteModel, OpenRating, WriteRating, EndPersist,
           Prune, EndPrune, Crash
  <2>3. rolled' = (rolled \/ \E t \in Saved : t > checkpoint)
    BY <2>2 DEF Restart
  <2>4. Saved \in SUBSET Nat /\ IsFiniteSet(Saved) /\ checkpoint \in Nat
    BY <2>1, SavedFacts
  <2>5. \A t \in Saved : t <= checkpoint /\ ~ (t > checkpoint)
    <3> TAKE t \in Saved
    <3>1. ~ (t > checkpoint) /\ t \in Nat
      BY <2>3, <2>4
    <3> QED
      BY <2>4, <3>1
  <2>6. Loadable = Saved
    BY <2>5 DEF Loadable
  <2>7. /\ \A i \in DOMAIN versions : /\ versions[i].t \in Saved
                                      /\ disk[versions[i].t].model = versions[i].model
        /\ \A s \in Saved : s \in Written \/ Older(s)
        /\ before = versions
    BY <2>1, <2>3, <2>5 DEF WindowInv, Recent
  <2>8. WindowOf(Saved, versions)
    BY <2>1, <2>7 DEF WindowOf, OrderInv, TypeInv, Written, Older
  <2>9. /\ WindowOf(Saved, versions')
        /\ \A i \in DOMAIN versions' : versions'[i] = Loaded(versions'[i].t)
    BY <2>1, <2>2, <2>6, RestartEffect DEF WindowOf
  <2>10. /\ DOMAIN versions = DOMAIN versions'
         /\ \A i \in DOMAIN versions : versions[i].t = versions'[i].t
    BY <2>4, <2>8, <2>9, OneWindow
  <2>11. \A i \in DOMAIN versions : versions'[i].model = versions[i].model
    BY <2>7, <2>9, <2>10 DEF Loaded
  <2> QED
    BY <2>7, <2>10, <2>11 DEF ModelsOf
<1>2. RestartKeepsWindow <=> [][Kept]_vars
  BY DEF RestartKeepsWindow
<1> QED
  BY <1>1, <1>2, InvariantHolds, PTL DEF Spec

(* A rating a finished save has written is not lost by a crash, unless it  *)
(* is the one whose file was being written.                                *)
THEOREM RatingsAreDurable == Spec => RatingsSurvive
<1> DEFINE Kept == (pc = "down" /\ pc' = "train")
                      => \A i \in DOMAIN versions' :
                            LET t == versions'[i].t
                            IN  disk[t].rating # <<>> => versions'[i].rating >= durable[t]
<1>1. ASSUME IInv, [Next]_vars
      PROVE  [Kept]_vars
  <2> SUFFICES ASSUME Next, pc = "down", pc' = "train",
                      NEW i \in DOMAIN versions', disk[versions'[i].t].rating # <<>>
               PROVE  versions'[i].rating >= durable[versions'[i].t]
    BY <1>1 DEF vars
  <2>1. TypeInv /\ RatingInv
    BY <1>1 DEF IInv
  <2>2. Restart
    BY DEF Next, Iterate, Rate, Save, MakeFolder, WriteModel, OpenRating, WriteRating, EndPersist,
           Prune, EndPrune, Crash
  <2>3. versions'[i].t \in Saved /\ versions'[i] = Loaded(versions'[i].t)
    BY <2>1, <2>2, RestartEffect DEF Loadable
  <2>4. versions'[i].rating = disk[versions'[i].t].rating[1]
    BY <2>3 DEF Loaded
  <2> QED
    BY <2>1, <2>3, <2>4 DEF RatingInv
<1>2. RatingsSurvive <=> [][Kept]_vars
  BY DEF RatingsSurvive
<1> QED
  BY <1>1, <1>2, InvariantHolds, PTL DEF Spec
=============================================================================
