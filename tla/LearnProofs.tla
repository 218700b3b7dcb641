---------------------------- MODULE LearnProofs ----------------------------
(***************************************************************************)
(* Proofs about the learner's reverse scan, for every rollout.             *)
(***************************************************************************)
EXTENDS Learn, FiniteSetTheorems, TLAPS

(* The rank of a row among the truncated ones grows by one exactly at a    *)
(* truncated row.                                                          *)
LEMMA RankFacts ==
    ASSUME NEW n \in Nat, NEW rows, DOMAIN rows = 1..n
    PROVE  /\ \A k \in Nat : BootstrapIndex(rows, k) \in Nat
           /\ BootstrapIndex(rows, 0) = 0
           /\ \A k \in 1..n : BootstrapIndex(rows, k) = BootstrapIndex(rows, k - 1)
                                + IF rows[k].term = "Truncated" THEN 1 ELSE 0
           /\ \A k \in 0..n : BootstrapIndex(rows, k) <= Cardinality(TruncatedIn(rows))
           /\ \A k \in 1..n : rows[k].term = "Truncated" => BootstrapIndex(rows, k) >= 1
           /\ \A j, k \in Nat : j <= k => BootstrapIndex(rows, j) <= BootstrapIndex(rows, k)
<1> DEFINE Upto(k) == {j \in TruncatedIn(rows) : j <= k}
<1>1. TruncatedIn(rows) \subseteq 1..n
  BY DEF TruncatedIn
<1>2. IsFiniteSet(TruncatedIn(rows))
  BY <1>1, FS_Interval, FS_Subset
<1>3. \A k : IsFiniteSet(Upto(k)) /\ Cardinality(Upto(k)) <= Cardinality(TruncatedIn(rows))
  <2> TAKE k
  <2>1. Upto(k) \in SUBSET TruncatedIn(rows)
    OBVIOUS
  <2> QED
    BY <1>2, <2>1, FS_Subset
<1>4. \A k : BootstrapIndex(rows, k) = Cardinality(Upto(k))
  BY DEF BootstrapIndex
<1>5. \A k : BootstrapIndex(rows, k) \in Nat
  BY <1>3, <1>4, FS_CardinalityType
<1>6. BootstrapIndex(rows, 0) = 0
  <2>1. Upto(0) = {}
    BY <1>1
  <2> QED
    BY <1>4, <2>1, FS_EmptySet
<1>7. \A k \in 1..n : BootstrapIndex(rows, k) = BootstrapIndex(rows, k - 1)
                        + IF rows[k].term = "Truncated" THEN 1 ELSE 0
  <2> SUFFICES ASSUME NEW k \in 1..n
               PROVE  BootstrapIndex(rows, k) = BootstrapIndex(rows, k - 1)
                        + IF rows[k].term = "Truncated" THEN 1 ELSE 0
    OBVIOUS
  <2>1. CASE rows[k].term = "Truncated"
    <3>1. Upto(k) = Upto(k - 1) \cup {k} /\ k \notin Upto(k - 1)
      BY <1>1, <2>1 DEF TruncatedIn
    <3>2. Cardinality(Upto(k)) = Cardinality(Upto(k - 1)) + 1
      <4> HIDE DEF Upto
      <4> QED
        BY <1>3, <3>1, FS_AddElement
    <3> QED
      BY <1>4, <2>1, <3>2
  <2>2. CASE rows[k].term # "Truncated"
    <3>1. Upto(k) = Upto(k - 1)
      BY <1>1, <2>2 DEF TruncatedIn
    <3>2. BootstrapIndex(rows, k) = BootstrapIndex(rows, k - 1)
      BY <1>4, <3>1
    <3> QED
      BY <1>5, <2>2, <3>2
  <2> QED
    BY <2>1, <2>2
<1>8. \A k : BootstrapIndex(rows, k) <= Cardinality(TruncatedIn(rows))
  BY <1>3, <1>4
<1>9. \A k \in 1..n : rows[k].term = "Truncated" => BootstrapIndex(rows, k) >= 1
  <2> SUFFICES ASSUME NEW k \in 1..n, rows[k].term = "Truncated"
               PROVE  BootstrapIndex(rows, k) >= 1
    OBVIOUS
  <2>1. BootstrapIndex(rows, k) = BootstrapIndex(rows, k - 1) + 1
    BY <1>7
  <2> QED
    BY <1>5, <2>1
<1>10. \A j, k \in Nat : j <= k => BootstrapIndex(rows, j) <= BootstrapIndex(rows, k)
  <2> SUFFICES ASSUME NEW j \in Nat, NEW k \in Nat, j <= k
               PROVE  BootstrapIndex(rows, j) <= BootstrapIndex(rows, k)
    OBVIOUS
  <2>1. Upto(j) \in SUBSET Upto(k)
    BY <1>1
  <2> HIDE DEF Upto
  <2> QED
    BY <1>3, <1>4, <2>1, FS_Subset
<1> QED
  BY <1>5, <1>6, <1>7, <1>8, <1>9, <1>10

(* The truncated rows of a window are those of the rollout up to its end. *)
LEMMA WindowRank ==
    ASSUME NEW S, NEW rows \in Seq(S), NEW w \in 0..Len(rows)
    PROVE  WindowTruncations(SubSeq(rows, 1, w)) = BootstrapIndex(rows, w)
<1>1. DOMAIN SubSeq(rows, 1, w) = 1..w
      /\ \A i \in 1..w : SubSeq(rows, 1, w)[i] = rows[i]
  OBVIOUS
<1>2. DOMAIN rows = 1..Len(rows) /\ Len(rows) \in Nat
  OBVIOUS
<1>3. TruncatedIn(SubSeq(rows, 1, w)) = {j \in TruncatedIn(rows) : j <= w}
  BY <1>1, <1>2 DEF TruncatedIn
<1> QED
  BY <1>3 DEF WindowTruncations, BootstrapIndex

(* How the end of a suffix is found from the row after. *)
LEMMA EndFacts ==
    ASSUME window \in Nat, NEW i \in 1..window
    PROVE  EndOf(i) = IF Closed(i) \/ i = window THEN i ELSE EndOf(i + 1)
<1> DEFINE S(k) == {window} \cup {j \in k..window : Closed(j)}
<1>1. CASE Closed(i) \/ i = window
  <2>1. i \in S(i) /\ \A y \in S(i) : i <= y /\ y \in Nat
    BY <1>1
  <2>2. \A x \in S(i) : (\A y \in S(i) : x <= y) <=> x = i
    BY <2>1
  <2>3. Min(S(i)) = i
    <3> HIDE DEF S
    <3> QED
      BY <2>1, <2>2 DEF Min
  <2> QED
    BY <1>1, <2>3 DEF EndOf
<1>2. CASE ~(Closed(i) \/ i = window)
  <2>1. S(i) = S(i + 1)
    BY <1>2
  <2> QED
    BY <1>2, <2>1 DEF EndOf
<1> QED
  BY <1>1, <1>2

-----------------------------------------------------------------------------
Typed == memory \in RolloutMemory /\ Size >= Timesteps /\ overbatching \in BOOLEAN
         /\ pc \in {"window", "scan", "train", "done"}

(* Where the scan stands: the cursor is the rank of the row it is about to *)
(* handle, and the rows behind it are settled.                             *)
Scanning ==
    /\ Valid(memory)
    /\ window \in 1..Size /\ row \in 0..window
    /\ preds = SubSeq(memory.nexts, 1, BootstrapIndex(memory.rows, window))
    /\ DOMAIN nextVal = 1..window /\ DOMAIN suffix = 1..window /\ DOMAIN summed = 1..window
    /\ remaining = IF row = window THEN 0 ELSE suffix[row + 1]
    /\ \A i \in Scanned : EndOf(i) \in i..window

ScanInv ==
    /\ Typed
    /\ pc # "window" => Scanning
    /\ BootstrapsAligned
    /\ SuffixesAreTrajectories

(* A rollout is typed and long enough. *)
LEMMA InitScan == Init => ScanInv
<1> SUFFICES ASSUME Init PROVE ScanInv
  OBVIOUS
<1>1. PICK rollout \in Rollouts : memory = rollout.memory /\ overbatching = rollout.overbatching
  BY DEF Init
<1>2. rollout \in [ mode: {"exact", "overbatch", "complete"},
                    overbatching: BOOLEAN, memory: RolloutMemory ]
      /\ Len(rollout.memory.rows) >= Timesteps
  BY LearnAssumption
<1>3. pc = "window"
  BY DEF Init
<1> QED
  BY <1>1, <1>2, <1>3 DEF ScanInv, Typed, Size, BootstrapsAligned, SuffixesAreTrajectories

(* The window is fixed and its truncations are predicted. *)
LEMMA WindowScan == ScanInv /\ Window => ScanInv'
<1> SUFFICES ASSUME Typed, Window PROVE ScanInv'
  BY DEF ScanInv
<1>1. /\ memory.rows \in Seq([pl: Nat, at: Nat, term: Terminals])
      /\ memory.nexts \in Seq([pl: Nat, at: Nat])
      /\ Size \in Nat /\ Size = Len(memory.rows) /\ Size >= Timesteps
      /\ Timesteps \in Nat \ {0} /\ DOMAIN memory.rows = 1..Size
  BY LearnAssumption DEF Typed, RolloutMemory, Size
<1>2. window' = RolloutSize /\ memory' = memory /\ Valid(memory) /\ pc' = "scan"
      /\ overbatching' = overbatching
  BY DEF Window
<1>3. window' \in 1..Size
  BY <1>1, <1>2 DEF RolloutSize
<1>4. preds' = SubSeq(memory.nexts, 1, BootstrapIndex(memory.rows, window'))
  <2>1. preds' = SubSeq(memory.nexts, 1, WindowTruncations(SubSeq(memory.rows, 1, window')))
    BY DEF Window
  <2>2. \A w \in 0..Len(memory.rows) :
          WindowTruncations(SubSeq(memory.rows, 1, w)) = BootstrapIndex(memory.rows, w)
    BY <1>1, WindowRank
  <2>3. window' \in 0..Len(memory.rows)
    BY <1>1, <1>3
  <2> QED
    BY <2>1, <2>2, <2>3
<1>5. BootstrapIndex(memory.rows, window') \in 0..Len(memory.nexts)
  <2>1. \A w \in 0..Size : /\ BootstrapIndex(memory.rows, w) \in Nat
                           /\ BootstrapIndex(memory.rows, w)
                                <= Cardinality(TruncatedIn(memory.rows))
    <3>1. Size \in Nat /\ DOMAIN memory.rows = 1..Size
      BY <1>1
    <3> QED
      BY <3>1, RankFacts
  <2>2. window' \in 0..Size
    BY <1>1, <1>3
  <2> QED
    BY <1>1, <1>2, <2>1, <2>2 DEF Valid
<1>6. Len(preds') = BootstrapIndex(memory.rows, window')
  BY <1>1, <1>4, <1>5
<1>7. row' = window' /\ cursor' = BootstrapIndex(memory.rows, window') /\ remaining' = 0
  BY <1>6 DEF Window
<1>8. DOMAIN nextVal' = 1..window' /\ DOMAIN suffix' = 1..window' /\ DOMAIN summed' = 1..window'
  BY DEF Window
<1>9. Typed'
  BY <1>2 DEF Typed, Size
<1>10. Scanned' = {}
  <2>1. window' \in Nat /\ row' = window'
    BY <1>1, <1>3, <1>7
  <2>2. \A k \in Nat : k + 1..k = {}
    OBVIOUS
  <2> QED
    BY <2>1, <2>2 DEF Scanned
<1>11. Scanning'
  BY <1>2, <1>3, <1>4, <1>7, <1>8, <1>10 DEF Scanning, Size
<1>12. BootstrapsAligned' /\ SuffixesAreTrajectories'
  BY <1>2, <1>7, <1>10 DEF BootstrapsAligned, SuffixesAreTrajectories, BootstrapIndex
<1> QED
  BY <1>9, <1>11, <1>12 DEF ScanInv

(* One row is settled, in terms of the one after it. *)
LEMMA ScanRowScan == ScanInv /\ ScanRow => ScanInv'
<1> SUFFICES ASSUME ScanInv, ScanRow PROVE ScanInv'
  OBVIOUS
<1>1. /\ Typed /\ Scanning /\ pc = "scan" /\ row > 0
      /\ BootstrapsAligned /\ SuffixesAreTrajectories
  BY DEF ScanInv, ScanRow
<1>2. /\ memory.rows \in Seq([pl: Nat, at: Nat, term: Terminals])
      /\ memory.nexts \in Seq([pl: Nat, at: Nat])
      /\ Size \in Nat /\ Size = Len(memory.rows) /\ DOMAIN memory.rows = 1..Size
  BY <1>1 DEF Typed, RolloutMemory, Size
<1>3. /\ window \in 1..Size /\ row \in 1..window /\ window \in Nat
      /\ row \in Nat /\ row - 1 \in 0..window /\ row \in 1..Size
  BY <1>1, <1>2 DEF Scanning
<1>4. /\ UNCHANGED <<overbatching, memory, pc, window, preds>>
      /\ row' = row - 1
      /\ cursor' = IF IsTrunc(row) THEN cursor - 1 ELSE cursor
      /\ remaining' = SuffixAfter(row)
      /\ nextVal' = [nextVal EXCEPT ![row] = NextValOf(row)]
      /\ suffix' = [suffix EXCEPT ![row] = remaining']
      /\ summed' = [summed EXCEPT ![row] = SummedOf(row)]
  BY DEF ScanRow
<1>5. /\ DOMAIN nextVal = 1..window /\ DOMAIN suffix = 1..window /\ DOMAIN summed = 1..window
      /\ remaining = IF row = window THEN 0 ELSE suffix[row + 1]
  BY <1>1 DEF Scanning
<1>6. /\ DOMAIN nextVal' = 1..window /\ DOMAIN suffix' = 1..window /\ DOMAIN summed' = 1..window
      /\ nextVal'[row] = NextValOf(row) /\ suffix'[row] = SuffixAfter(row)
      /\ summed'[row] = SummedOf(row)
      /\ \A i \in row + 1..window : /\ nextVal'[i] = nextVal[i]
                                    /\ suffix'[i] = suffix[i] /\ summed'[i] = summed[i]
  BY <1>3, <1>4, <1>5
<1>7. Scanned' = Scanned \cup {row}
  BY <1>3, <1>4 DEF Scanned
<1>8. Typed'
  BY <1>1, <1>4 DEF Typed, Size
<1>9. Scanning'
  <2>1. remaining' = suffix'[row] /\ row' # window
    BY <1>3, <1>4, <1>6
  <2>2. row' + 1 = row /\ row' \in 0..window
    BY <1>3, <1>4
  <2>3. EndOf(row) \in row..window
    <3>1. EndOf(row) = IF Closed(row) \/ row = window THEN row ELSE EndOf(row + 1)
      BY <1>3, EndFacts
    <3>2. ~(Closed(row) \/ row = window) => EndOf(row + 1) \in row + 1..window
      BY <1>1, <1>3 DEF Scanning, Scanned
    <3> QED
      BY <1>3, <3>1, <3>2
  <2>4. \A i \in Scanned' : EndOf(i) \in i..window
    BY <1>1, <1>7, <2>3 DEF Scanning
  <2>5. (\A i \in Scanned : EndOf(i) \in i..window)'
    BY <1>4, <2>4 DEF EndOf, Closed
  <2> QED
    BY <1>1, <1>4, <1>6, <2>1, <2>2, <2>5 DEF Scanning, Size
<1>10. BootstrapsAligned'
  <2>1. cursor = BootstrapIndex(memory.rows, row)
    BY <1>1 DEF BootstrapsAligned, BootstrapIndex
  <2>2. \A k \in 1..Size :
          /\ BootstrapIndex(memory.rows, k) \in Nat /\ BootstrapIndex(memory.rows, k - 1) \in Nat
          /\ BootstrapIndex(memory.rows, k) = BootstrapIndex(memory.rows, k - 1)
               + IF memory.rows[k].term = "Truncated" THEN 1 ELSE 0
    <3>1. Size \in Nat /\ DOMAIN memory.rows = 1..Size
      BY <1>2
    <3>2. \A k \in 1..Size : k \in Nat /\ k - 1 \in Nat
      BY <3>1
    <3> QED
      BY <3>1, <3>2, RankFacts
  <2>3. cursor' = BootstrapIndex(memory.rows, row - 1)
    BY <1>3, <1>4, <2>1, <2>2 DEF IsTrunc
  <2>4. ASSUME IsTrunc(row)
        PROVE  nextVal'[row] = <<memory.nexts[BootstrapIndex(memory.rows, row)]>>
    <3>1. NextValOf(row) = <<preds[BootstrapIndex(memory.rows, row)]>>
      BY <2>1, <2>4 DEF NextValOf
    <3>2. BootstrapIndex(memory.rows, row) \in 1..BootstrapIndex(memory.rows, window)
      <4>1. Size \in Nat /\ DOMAIN memory.rows = 1..Size
        BY <1>2
      <4>2. BootstrapIndex(memory.rows, row) <= BootstrapIndex(memory.rows, window)
        BY <1>3, <4>1, RankFacts
      <4>3. BootstrapIndex(memory.rows, row) >= 1 /\ BootstrapIndex(memory.rows, row) \in Nat
            /\ BootstrapIndex(memory.rows, window) \in Nat
        BY <1>3, <2>4, <4>1, RankFacts DEF IsTrunc
      <4> QED
        BY <4>2, <4>3
    <3>3. preds = SubSeq(memory.nexts, 1, BootstrapIndex(memory.rows, window))
          /\ BootstrapIndex(memory.rows, window) \in 0..Len(memory.nexts)
      <4>1. Size \in Nat /\ DOMAIN memory.rows = 1..Size /\ window \in 0..Size
        BY <1>2, <1>3
      <4>2. BootstrapIndex(memory.rows, window) \in Nat
            /\ BootstrapIndex(memory.rows, window) <= Cardinality(TruncatedIn(memory.rows))
        BY <4>1, RankFacts
      <4> QED
        BY <1>1, <4>2 DEF Scanning, Valid
    <3> QED
      BY <1>2, <1>6, <3>1, <3>2, <3>3
  <2>5. \A i \in Scanned' : IsTrunc(i) =>
          nextVal'[i] = <<memory.nexts[BootstrapIndex(memory.rows, i)]>>
    BY <1>1, <1>6, <1>7, <2>4 DEF BootstrapsAligned, Scanned
  <2> QED
    BY <1>4, <2>3, <2>5 DEF BootstrapsAligned, BootstrapIndex, IsTrunc
<1>11. SuffixesAreTrajectories'
  <2>1. summed'[row] = row..EndOf(row) /\ suffix'[row] = EndOf(row) - row + 1
    <3>1. EndOf(row) = IF Closed(row) \/ row = window THEN row ELSE EndOf(row + 1)
      BY <1>3, EndFacts
    <3>2. CASE Closed(row) \/ row = window
      BY <1>3, <1>5, <1>6, <3>1, <3>2 DEF SummedOf, SuffixAfter
    <3>3. CASE ~(Closed(row) \/ row = window)
      <4>1. row + 1 \in Scanned
        BY <1>3, <3>3 DEF Scanned
      <4>2. summed[row + 1] = row + 1..EndOf(row + 1)
            /\ suffix[row + 1] = EndOf(row + 1) - (row + 1) + 1
        BY <1>1, <4>1 DEF SuffixesAreTrajectories
      <4>3. EndOf(row + 1) \in Nat /\ EndOf(row + 1) >= row + 1
        BY <1>1, <1>3, <4>1 DEF Scanning
      <4>4. SummedOf(row) = {row} \cup row + 1..EndOf(row + 1)
        BY <3>3, <4>2 DEF SummedOf
      <4>5. {row} \cup row + 1..EndOf(row + 1) = row..EndOf(row + 1)
        BY <1>3, <4>3
      <4>6. SuffixAfter(row) = EndOf(row + 1) - row + 1
        BY <1>3, <1>5, <3>3, <4>2, <4>3 DEF SuffixAfter
      <4> QED
        BY <1>6, <3>1, <3>3, <4>4, <4>5, <4>6
    <3> QED
      BY <3>2, <3>3
  <2>2. \A i \in Scanned' : summed'[i] = i..EndOf(i) /\ suffix'[i] = EndOf(i) - i + 1
    BY <1>1, <1>6, <1>7, <2>1 DEF SuffixesAreTrajectories, Scanned
  <2> QED
    BY <1>4, <2>2 DEF SuffixesAreTrajectories, EndOf, Closed
<1> QED
  BY <1>8, <1>9, <1>10, <1>11 DEF ScanInv

(* Only the scan changes what was scanned. *)
LEMMA NextScan == ScanInv /\ [Next]_vars => ScanInv'
<1> SUFFICES ASSUME ScanInv, [Next]_vars PROVE ScanInv'
  OBVIOUS
<1>1. CASE Window
  BY <1>1, WindowScan
<1>2. CASE ScanRow
  BY <1>2, ScanRowScan
<1>3. CASE ScanDone \/ TrainBatch \/ NextEpoch \/ UNCHANGED vars
  <2>1. /\ UNCHANGED <<overbatching, memory, window, preds>>
        /\ UNCHANGED <<row, cursor, remaining, nextVal, suffix, summed>>
        /\ pc' \in {"window", "scan", "train", "done"}
        /\ pc' = "window" <=> pc = "window"
    BY <1>3 DEF ScanDone, TrainBatch, NextEpoch, vars, scanVars, ScanInv, Typed
  <2>2. Typed' /\ (pc' # "window" => Scanning')
    BY <2>1 DEF ScanInv, Typed, Scanning, Size, Scanned, EndOf, Closed
  <2>3. BootstrapsAligned'
    BY <2>1 DEF ScanInv, BootstrapsAligned, Scanned, IsTrunc
  <2>4. SuffixesAreTrajectories'
    BY <2>1 DEF ScanInv, SuffixesAreTrajectories, Scanned, EndOf, Closed
  <2> QED
    BY <2>2, <2>3, <2>4 DEF ScanInv
<1> QED
  BY <1>1, <1>2, <1>3 DEF Next

(* The reverse scan of get_gae pairs every truncated row of the window     *)
(* with the prediction for its own boundary, for every rollout and window. *)
THEOREM ScanAligned == Spec => []BootstrapsAligned
<1>1. ScanInv => BootstrapsAligned
  BY DEF ScanInv
<1> QED
  BY InitScan, NextScan, <1>1, PTL DEF Spec

(* Advantages and the lengths given to the termination-time estimator      *)
(* never reach across the end of a trajectory.                             *)
THEOREM ScanStaysInside == Spec => []SuffixesAreTrajectories
<1>1. ScanInv => SuffixesAreTrajectories
  BY DEF ScanInv
<1> QED
  BY InitScan, NextScan, <1>1, PTL DEF Spec

-----------------------------------------------------------------------------
(* What each row was bootstrapped from, as soon as it is scanned. *)
ValuesInv ==
    pc # "window" => \A i \in Scanned :
        nextVal[i] = IF IsTrunc(i) THEN <<memory.nexts[BootstrapIndex(memory.rows, i)]>>
                     ELSE IF ~Closed(i) /\ i < window THEN <<ObservationOf(memory.rows[i + 1])>>
                     ELSE <<>>

(* The rollout is one of those the supervisor may return. *)
FromRollouts == \E rollout \in Rollouts : memory = rollout.memory

BatchesPerEpoch == (window + BatchSize - 1) \div BatchSize

(* k batches of the epoch were full, but for the last one. *)
InEpoch(k) ==
    /\ batches = epoch * BatchesPerEpoch + k
    /\ left # {} => Cardinality(left) = window - BatchSize * k
    /\ left = {} => BatchSize * (k - 1) < window /\ window <= BatchSize * k

(* Where the training of the window stands. *)
TrainInv ==
    /\ pc \in {"window", "scan"} => epoch = 0 /\ batches = 0
    /\ pc # "window" => window \in Nat \ {0}
    /\ pc = "train" =>
          /\ left \subseteq 1..window /\ epoch \in Nat /\ epoch < Epochs
          /\ trained = [i \in 1..window |-> IF i \in left THEN epoch ELSE epoch + 1]
          /\ \E k \in 0..window : InEpoch(k)
    /\ EachRowOncePerEpoch
(* The inductive invariant. *)
FullInv == ScanInv /\ ValuesInv /\ FromRollouts /\ TrainInv

(* One row more is settled; the others keep their values. *)
LEMMA NextValues == ScanInv /\ ValuesInv /\ [Next]_vars => ValuesInv'
<1> SUFFICES ASSUME ScanInv, ValuesInv, [Next]_vars PROVE ValuesInv'
  OBVIOUS
<1>1. CASE Window
  <2>1. ScanInv'
    BY <1>1, WindowScan
  <2>2. pc' = "scan" /\ row' = window' /\ window' \in Nat
    <3>1. pc' = "scan" /\ row' = window'
      BY <1>1 DEF Window
    <3>2. Scanning' /\ Typed'
      BY <2>1, <3>1 DEF ScanInv
    <3> QED
      BY <3>1, <3>2 DEF Scanning
  <2>3. Scanned' = {}
    <3>1. \A k \in Nat : k + 1..k = {}
      OBVIOUS
    <3> QED
      BY <2>2, <3>1 DEF Scanned
  <2> QED
    BY <2>3 DEF ValuesInv
<1>2. CASE ScanRow
  <2>1. /\ Scanning /\ pc = "scan" /\ row > 0 /\ BootstrapsAligned
        /\ UNCHANGED <<memory, pc, window, preds>> /\ row' = row - 1
        /\ nextVal' = [nextVal EXCEPT ![row] = NextValOf(row)]
    BY <1>2 DEF ScanInv, ScanRow
  <2>2. /\ window \in Nat /\ row \in 1..window /\ DOMAIN nextVal = 1..window
    BY <2>1 DEF Scanning, Size
  <2>3. ScanInv'
    BY <1>2, ScanRowScan
  <2>4. Scanned' = Scanned \cup {row} /\ row \in Scanned'
    BY <2>1, <2>2 DEF Scanned
  <2>5. IsTrunc(row) => nextVal'[row] = <<memory.nexts[BootstrapIndex(memory.rows, row)]>>
    BY <2>1, <2>3, <2>4 DEF ScanInv, BootstrapsAligned, IsTrunc
  <2>6. nextVal'[row] = NextValOf(row) /\ \A i \in Scanned : nextVal'[i] = nextVal[i]
    BY <2>1, <2>2 DEF Scanned
  <2>7. \A i \in Scanned' :
          nextVal'[i] = IF IsTrunc(i) THEN <<memory.nexts[BootstrapIndex(memory.rows, i)]>>
                        ELSE IF ~Closed(i) /\ i < window
                             THEN <<ObservationOf(memory.rows[i + 1])>> ELSE <<>>
    BY <2>1, <2>4, <2>5, <2>6 DEF ValuesInv, NextValOf
  <2> QED
    BY <2>1, <2>7 DEF ValuesInv, IsTrunc, Closed
<1>3. CASE ScanDone \/ TrainBatch \/ NextEpoch \/ UNCHANGED vars
  <2>1. \/ UNCHANGED <<memory, window, row, nextVal>> /\ pc # "window"
        \/ UNCHANGED <<memory, window, row, nextVal, pc>>
    BY <1>3 DEF ScanDone, TrainBatch, NextEpoch, vars, scanVars
  <2> QED
    BY <2>1 DEF ValuesInv, Scanned, IsTrunc, Closed
<1> QED
  BY <1>1, <1>2, <1>3 DEF Next

(* The least number of batches that covers the window. *)
LEMMA CeilingFacts ==
    ASSUME NEW w \in Nat, NEW b \in Nat \ {0}, NEW k \in Nat,
           b * (k - 1) < w, w <= b * k
    PROVE  (w + b - 1) \div b = k
<1> DEFINE n == w + b - 1
           q == n \div b
           r == n % b
<1>1. n \in Nat
  OBVIOUS
<1>2. q \in Int /\ r \in 0..b - 1 /\ n = b * q + r
  BY <1>1
<1> DEFINE d == b * k
<1>3. b * (k - 1) = d - b /\ d \in Nat
  OBVIOUS
<1>4. d <= n /\ n < d + b
  BY <1>3
<1> HIDE DEF q, r
<1>5. CASE q > k
  <2>1. PICK x \in Nat : q = k + 1 + x
    <3>1. q - k - 1 \in Nat /\ q = k + 1 + (q - k - 1)
      BY <1>2, <1>5
    <3> QED
      BY <3>1
  <2>2. b * q = d + b + b * x /\ b * x \in Nat
    BY <2>1
  <2> HIDE DEF d, n
  <2> QED
    BY <1>1, <1>2, <1>3, <1>4, <2>2
<1>6. CASE q < k
  <2>1. PICK x \in Nat : k = q + 1 + x
    <3>1. k - q - 1 \in Nat /\ k = q + 1 + (k - q - 1)
      BY <1>2, <1>6
    <3> QED
      BY <3>1
  <2>2. d = b * q + b + b * x /\ b * x \in Nat
    BY <1>2, <2>1
  <2> HIDE DEF d, n
  <2> QED
    BY <1>1, <1>2, <1>3, <1>4, <2>2
<1> QED
  BY <1>2, <1>5, <1>6 DEF q

(* A batch is full, or all that is left, and what remains is smaller. *)
LEMMA BatchFacts ==
    ASSUME NEW S, IsFiniteSet(S), S # {}, NEW batch \in Batches(S)
    PROVE  /\ batch \subseteq S /\ IsFiniteSet(S \ batch)
           /\ Cardinality(S) \in Nat \ {0}
           /\ Cardinality(S \ batch) \in Nat
           /\ Cardinality(S) < BatchSize => S \ batch = {}
           /\ Cardinality(S) >= BatchSize =>
                 Cardinality(S \ batch) = Cardinality(S) - BatchSize
<1>1. /\ batch \subseteq S
      /\ Cardinality(batch) = IF Cardinality(S) < BatchSize THEN Cardinality(S) ELSE BatchSize
  BY DEF Batches, kSubset
<1>2. Cardinality(S) \in Nat \ {0}
  BY FS_CardinalityType, FS_EmptySet
<1>3. IsFiniteSet(S \ batch) /\ Cardinality(S \ batch) = Cardinality(S) - Cardinality(batch)
  <2>1. S \cap batch = batch
    BY <1>1
  <2> QED
    BY <2>1, FS_Difference
<1>4. Cardinality(S \ batch) \in Nat
  BY <1>3, FS_CardinalityType
<1>5. Cardinality(S) < BatchSize => S \ batch = {}
  <2> SUFFICES ASSUME Cardinality(S) < BatchSize PROVE S \ batch = {}
    OBVIOUS
  <2>1. Cardinality(S \ batch) = 0
    BY <1>1, <1>2, <1>3
  <2> QED
    BY <1>3, <2>1, FS_EmptySet
<1>6. BatchSize \in Nat
  BY LearnAssumption
<1> QED
  BY <1>1, <1>2, <1>3, <1>4, <1>5, <1>6

(* A new epoch starts with the whole window. *)
LEMMA EpochStarts ==
    ASSUME NEW w \in Nat \ {0}
    PROVE  /\ 1..w # {} /\ Cardinality(1..w) = w - BatchSize * 0
           /\ 0 \in 0..w
<1>1. Cardinality(1..w) = w
  BY FS_Interval
<1>2. BatchSize * 0 = 0
  BY LearnAssumption
<1> QED
  BY <1>1, <1>2

(* A batch trains its rows once more. *)
LEMMA TrainBatchKeeps == TrainInv /\ TrainBatch => TrainInv'
<1> SUFFICES ASSUME TrainInv, TrainBatch PROVE TrainInv'
  OBVIOUS
<1>1. /\ pc = "train" /\ left # {} /\ batches' = batches + 1
      /\ UNCHANGED <<pc, window, epoch>>
  BY DEF TrainBatch
<1>2. PICK batch \in Batches(left) :
        /\ left' = left \ batch
        /\ trained' = [i \in 1..window |-> trained[i] + IF i \in batch THEN 1 ELSE 0]
  BY DEF TrainBatch
<1>3. /\ window \in Nat \ {0} /\ left \subseteq 1..window /\ epoch \in Nat /\ epoch < Epochs
      /\ trained = [i \in 1..window |-> IF i \in left THEN epoch ELSE epoch + 1]
  BY <1>1 DEF TrainInv
<1>4. PICK k \in 0..window : InEpoch(k)
  BY <1>1 DEF TrainInv
<1>5. IsFiniteSet(left)
  <2>1. IsFiniteSet(1..window) /\ left \in SUBSET (1..window)
    BY <1>3, FS_Interval
  <2> QED
    BY <2>1, FS_Subset
<1> DEFINE c == Cardinality(left)
           b == BatchSize
<1>6. /\ batch \subseteq left
      /\ c \in Nat \ {0} /\ Cardinality(left') \in Nat
      /\ c < b => left' = {}
      /\ c >= b => Cardinality(left') = c - b
      /\ b \in Nat \ {0}
  BY <1>1, <1>2, <1>5, BatchFacts, LearnAssumption
<1>7. c = window - b * k /\ batches = epoch * BatchesPerEpoch + k
  BY <1>1, <1>4 DEF InEpoch
<1> HIDE DEF c, b
<1> DEFINE n == k + 1
           d == b * k
<1>8. d \in Nat /\ b * n = d + b /\ b * (n - 1) = d
  BY <1>3, <1>6
<1>9. d >= k
  BY <1>3, <1>6
<1> HIDE DEF d
<1>10. n \in 0..window
  <2>1. d < window
    BY <1>3, <1>6, <1>7, <1>8 DEF d
  <2> QED
    <3>1. \A x, y, z \in Nat : x >= y /\ x < z => y + 1 \in 0..z
      OBVIOUS
    <3>2. d \in Nat /\ k \in Nat /\ window \in Nat
      BY <1>3, <1>8
    <3> QED
      BY <1>9, <2>1, <3>1, <3>2
<1>11. left' = {} => Cardinality(left') = 0
  BY FS_EmptySet
<1>12. InEpoch(n)'
  <2>1. batches' = epoch * BatchesPerEpoch + n
    <3>1. BatchesPerEpoch \in Int /\ epoch * BatchesPerEpoch \in Int
      BY <1>3, LearnAssumption DEF BatchesPerEpoch
    <3> HIDE DEF BatchesPerEpoch
    <3> QED
      BY <1>1, <1>3, <1>7, <3>1
  <2>2. left' # {} => Cardinality(left') = window - b * n
    <3>1. c = window - d
      BY <1>7 DEF d
    <3> QED
      BY <1>3, <1>6, <1>8, <3>1
  <2>3. left' = {} => b * (n - 1) < window /\ window <= b * n
    <3>1. c = window - d
      BY <1>7 DEF d
    <3> QED
      BY <1>3, <1>6, <1>8, <1>11, <3>1
  <2> HIDE DEF n
  <2>4. window' = window /\ epoch' = epoch /\ BatchesPerEpoch' = BatchesPerEpoch
    BY <1>1 DEF BatchesPerEpoch
  <2> QED
    BY <2>1, <2>2, <2>3, <2>4 DEF InEpoch, b
<1>13. left' \subseteq 1..window
  BY <1>2, <1>3
<1>14. trained' = [i \in 1..window |-> IF i \in left' THEN epoch ELSE epoch + 1]
  <2>1. \A i \in 1..window : trained[i] + (IF i \in batch THEN 1 ELSE 0)
                               = IF i \in left' THEN epoch ELSE epoch + 1
    BY <1>2, <1>3, <1>6
  <2> QED
    BY <1>2, <2>1
<1> QED
  BY <1>1, <1>3, <1>10, <1>12, <1>13, <1>14 DEF TrainInv, EachRowOncePerEpoch

(* At the end of an epoch every row was trained on once in it. *)
LEMMA NextEpochKeeps == TrainInv /\ NextEpoch => TrainInv'
<1> SUFFICES ASSUME TrainInv, NextEpoch PROVE TrainInv'
  OBVIOUS
<1>1. /\ pc = "train" /\ left = {} /\ epoch' = epoch + 1
      /\ epoch' < Epochs => left' = 1..window /\ pc' = pc
      /\ ~(epoch' < Epochs) => left' = {} /\ pc' = "done"
      /\ UNCHANGED <<window, trained, batches>>
  BY DEF NextEpoch
<1>2. /\ window \in Nat \ {0} /\ epoch \in Nat /\ epoch < Epochs
      /\ trained = [i \in 1..window |-> IF i \in left THEN epoch ELSE epoch + 1]
  BY <1>1 DEF TrainInv
<1>3. PICK k \in 0..window : InEpoch(k)
  BY <1>1 DEF TrainInv
<1>4. BatchSize \in Nat \ {0} /\ Epochs \in Nat \ {0}
  BY LearnAssumption
<1>5. k = BatchesPerEpoch
  <2>1. BatchSize * (k - 1) < window /\ window <= BatchSize * k
    BY <1>1, <1>3 DEF InEpoch
  <2>2. k \in Nat /\ window \in Nat
    BY <1>2
  <2> QED
    BY <1>4, <2>1, <2>2, CeilingFacts DEF BatchesPerEpoch
<1>6. batches = epoch * k + k /\ BatchesPerEpoch' = BatchesPerEpoch
  BY <1>1, <1>3, <1>5 DEF InEpoch, BatchesPerEpoch
<1>7. batches' = epoch' * k
  <2>1. epoch * k + k = (epoch + 1) * k
    BY <1>2
  <2> QED
    BY <1>1, <1>6, <2>1
<1>8. \A i \in 1..window : trained'[i] = epoch'
  BY <1>1, <1>2
<1>9. trained' = [i \in 1..window |-> epoch']
  BY <1>1, <1>2
<1>10. CASE epoch' < Epochs
  <2>1. InEpoch(0)'
    <3>1. batches' = epoch' * k + 0
      BY <1>2, <1>1, <1>7
    <3>2. left' # {} /\ Cardinality(left') = window' - BatchSize * 0
      BY <1>1, <1>2, <1>10, EpochStarts
    <3> QED
      BY <1>5, <1>6, <3>1, <3>2 DEF InEpoch
  <2>2. left' = 1..window /\ pc' = "train" /\ 0 \in 0..window' /\ epoch' \in Nat
    BY <1>1, <1>2, <1>10
  <2>3. trained' = [i \in 1..window' |-> IF i \in left' THEN epoch' ELSE epoch' + 1]
    BY <1>1, <1>9, <2>2
  <2> QED
    BY <1>1, <1>2, <1>10, <2>1, <2>2, <2>3 DEF TrainInv, EachRowOncePerEpoch
<1>11. CASE ~(epoch' < Epochs)
  <2>1. epoch' = Epochs /\ pc' = "done"
    BY <1>1, <1>2, <1>4, <1>11
  <2>2. k = k * 1 /\ epoch' * k = k * Epochs
    BY <1>2, <1>4, <2>1
  <2>3. EachRowOncePerEpoch'
    BY <1>1, <1>5, <1>7, <1>8, <2>1, <2>2 DEF EachRowOncePerEpoch, BatchesPerEpoch
  <2> QED
    BY <1>1, <1>2, <2>1, <2>3 DEF TrainInv
<1> QED
  BY <1>10, <1>11

(* Training starts with the scanned window and only training counts. *)
LEMMA NextTrain == ScanInv /\ TrainInv /\ [Next]_vars => TrainInv'
<1> SUFFICES ASSUME ScanInv, TrainInv, [Next]_vars PROVE TrainInv'
  OBVIOUS
<1>1. CASE Window
  <2>1. ScanInv' /\ pc = "window" /\ pc' = "scan" /\ UNCHANGED <<epoch, batches>>
    BY <1>1, WindowScan DEF Window, trainVars
  <2>2. Scanning' /\ Typed'
    BY <2>1 DEF ScanInv
  <2>3. window' \in Nat \ {0}
    BY <2>2 DEF Scanning
  <2> QED
    BY <2>1, <2>3 DEF TrainInv, EachRowOncePerEpoch
<1>2. CASE ScanRow
  BY <1>2 DEF ScanRow, trainVars, TrainInv, EachRowOncePerEpoch
<1>3. CASE ScanDone
  <2>1. /\ pc = "scan" /\ pc' = "train" /\ left' = 1..window
        /\ trained' = [i \in 1..window |-> 0]
        /\ UNCHANGED <<window, epoch, batches>>
    BY <1>3 DEF ScanDone
  <2>2. epoch = 0 /\ batches = 0 /\ window \in Nat \ {0}
    BY <2>1 DEF TrainInv
  <2>3. InEpoch(0)'
    <3>1. BatchesPerEpoch' \in Int
      BY <2>1, <2>2, LearnAssumption DEF BatchesPerEpoch
    <3>2. batches' = epoch' * BatchesPerEpoch' + 0
      <4>1. 0 * BatchesPerEpoch' = 0
        <5>1. \A x \in Int : 0 * x = 0
          OBVIOUS
        <5> QED
          BY <3>1, <5>1
      <4> QED
        BY <2>1, <2>2, <4>1
    <3> QED
      BY <2>1, <2>2, <3>2, EpochStarts DEF InEpoch
  <2>4. trained' = [i \in 1..window' |-> IF i \in left' THEN epoch' ELSE epoch' + 1]
    BY <2>1, <2>2
  <2>5. 0 \in 0..window'
    BY <2>1, <2>2
  <2> QED
    BY <2>1, <2>2, <2>3, <2>4, <2>5, LearnAssumption DEF TrainInv, EachRowOncePerEpoch
<1>4. CASE TrainBatch
  BY <1>4, TrainBatchKeeps
<1>5. CASE NextEpoch
  BY <1>5, NextEpochKeeps
<1>6. CASE UNCHANGED vars
  BY <1>6 DEF vars, scanVars, trainVars, TrainInv, EachRowOncePerEpoch, InEpoch, BatchesPerEpoch
<1> QED
  BY <1>1, <1>2, <1>3, <1>4, <1>5, <1>6 DEF Next

(* Nothing is scanned or trained on at first. *)
LEMMA InitFull == Init => FullInv
<1> SUFFICES ASSUME Init PROVE FullInv
  OBVIOUS
<1>1. ScanInv
  BY InitScan
<1>2. FromRollouts /\ pc = "window" /\ epoch = 0 /\ batches = 0
  BY DEF Init, FromRollouts
<1>3. ValuesInv /\ TrainInv
  BY <1>2 DEF ValuesInv, TrainInv, EachRowOncePerEpoch
<1> QED
  BY <1>1, <1>2, <1>3 DEF FullInv

(* The four parts are inductive together. *)
LEMMA NextFull == FullInv /\ [Next]_vars => FullInv'
<1> SUFFICES ASSUME FullInv, [Next]_vars PROVE FullInv'
  OBVIOUS
<1>1. ScanInv' /\ ValuesInv' /\ TrainInv'
  BY NextScan, NextValues, NextTrain DEF FullInv
<1>2. memory' = memory
  BY DEF Next, Window, ScanRow, ScanDone, TrainBatch, NextEpoch, vars
<1> QED
  BY <1>1, <1>2 DEF FullInv, FromRollouts

(* Every row of the window is trained on once per epoch, in as many        *)
(* batches as the losses are averaged over, whatever the shuffles.         *)
THEOREM TrainsEachRow == Spec => []EachRowOncePerEpoch
<1>1. FullInv => EachRowOncePerEpoch
  BY DEF FullInv, TrainInv
<1> QED
  BY InitFull, NextFull, <1>1, PTL DEF Spec

(* The rows of every rollout follow each other, as the theorems about      *)
(* BatchSim say of a memory.                                               *)
RolloutsFollow == \A rollout \in Rollouts : Followed(rollout.memory)

(* Row by row, what was scanned is what happened. *)
LEMMA FollowedBootstraps == RolloutsFollow /\ FullInv => WholeRolloutsBootstrap
<1> SUFFICES ASSUME RolloutsFollow, FullInv, pc # "window", window = Size, NEW i \in Scanned
             PROVE  BootstrappedRight(i)
  BY DEF WholeRolloutsBootstrap
<1>1. Followed(memory)
  BY DEF RolloutsFollow, FullInv, FromRollouts
<1>2. /\ Size \in Nat /\ DOMAIN memory.rows = 1..Size
      /\ memory.rows \in Seq([pl: Nat, at: Nat, term: Terminals]) /\ row \in 0..window
  BY DEF FullInv, ScanInv, Typed, Scanning, RolloutMemory, Size
<1>3. i \in 1..Size
  BY <1>2 DEF Scanned
<1>4. memory.rows[i].term \in Terminals
  <2>1. memory.rows[i] \in [pl: Nat, at: Nat, term: Terminals]
    <3>1. \A S : \A t \in Seq(S) : \A j \in 1..Len(t) : t[j] \in S
      OBVIOUS
    <3> QED
      BY <1>2, <1>3, <3>1 DEF Size
  <2> QED
    BY <2>1
<1>5. nextVal[i] = IF IsTrunc(i) THEN <<memory.nexts[BootstrapIndex(memory.rows, i)]>>
                   ELSE IF ~Closed(i) /\ i < window THEN <<ObservationOf(memory.rows[i + 1])>>
                   ELSE <<>>
  BY DEF FullInv, ValuesInv
<1>6. CASE memory.rows[i].term = "Truncated"
  <2>1. memory.nexts[BootstrapIndex(memory.rows, i)] = SuccessorOf(memory.rows[i])
    BY <1>1, <1>2, <1>3, <1>6 DEF Followed, TruncatedIn
  <2> QED
    BY <1>5, <1>6, <2>1 DEF IsTrunc, BootstrappedRight
<1>7. CASE memory.rows[i].term = "None"
  <2>1. i < Size /\ ObservationOf(memory.rows[i + 1]) = SuccessorOf(memory.rows[i])
    BY <1>1, <1>2, <1>3, <1>7 DEF Followed, Size
  <2> QED
    BY <1>5, <1>7, <2>1 DEF IsTrunc, Closed, BootstrappedRight
<1>8. CASE memory.rows[i].term = "Normal"
  BY <1>5, <1>8 DEF IsTrunc, Closed, BootstrappedRight
<1> QED
  BY <1>4, <1>6, <1>7, <1>8 DEF Terminals

(* A rollout that is not cut and whose rows follow each other is           *)
(* bootstrapped right: the learner adds no gap of its own.                 *)
THEOREM WholeRollouts == RolloutsFollow /\ Spec => []WholeRolloutsBootstrap
<1> SUFFICES ASSUME RolloutsFollow PROVE Spec => []WholeRolloutsBootstrap
  OBVIOUS
<1>1. FullInv => WholeRolloutsBootstrap
  BY FollowedBootstraps
<1> QED
  BY InitFull, NextFull, <1>1, PTL DEF Spec
=============================================================================
