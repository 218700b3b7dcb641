------------------------------- MODULE Learn -------------------------------
(***************************************************************************)
(* One learner update (agent/mod.rs, Ppo::learn; agent/gae.rs, get_gae):   *)
(* the part of the rollout that is trained on, the critic's predictions    *)
(* for truncated rows, the reverse scan that turns rewards into advantages *)
(* and the epochs of shuffled batches.                                     *)
(*                                                                         *)
(* Numbers are kept as what they are computed from: a value prediction is  *)
(* the observation it was predicted for, an advantage is the set of rows   *)
(* whose temporal difference it adds up.                                   *)
(***************************************************************************)
EXTENDS Memory, FiniteSetsExt

CONSTANTS
    Timesteps,   \* timesteps_per_iteration
    BatchSize,   \* batch_size
    Epochs,      \* epochs
    Rollouts     \* the memories a supervisor may return, with their mode

RolloutMemory == [ rows: Seq([pl: Nat, at: Nat, term: Terminals]),
                   nexts: Seq([pl: Nat, at: Nat]) ]

ASSUME LearnAssumption ==
    /\ Timesteps \in Nat \ {0} /\ BatchSize \in Nat \ {0} /\ Epochs \in Nat \ {0}
    /\ Timesteps % BatchSize = 0
    /\ Rollouts \subseteq [ mode: {"exact", "overbatch", "complete"},
                            overbatching: BOOLEAN, memory: RolloutMemory ]
    /\ \A rollout \in Rollouts : Len(rollout.memory.rows) >= Timesteps

(* A memory whose consecutive rows are consecutive decisions and whose     *)
(* truncated rows know the observation after them, as a collector returns  *)
(* it while the same players are tracked in every run.                     *)
Followed(m) ==
    /\ \A i \in DOMAIN m.rows : m.rows[i].term = "None" =>
          i < Len(m.rows) /\ ObservationOf(m.rows[i + 1]) = SuccessorOf(m.rows[i])
    /\ \A i \in TruncatedIn(m.rows) :
          m.nexts[BootstrapIndex(m.rows, i)] = SuccessorOf(m.rows[i])

VARIABLES
    mode,       \* "exact", "overbatch" or "complete"
    overbatching,
    memory,     \* the rollout
    pc,
    window,     \* rollout_size
    preds,      \* trunc_val_preds
    row,        \* the scan is about to handle this row
    cursor,     \* trunc_cursor
    remaining,  \* rows of the finite suffix
    nextVal,    \* what next_val was for each scanned row; empty for zero
    suffix,     \* remaining, as each scanned row used it
    summed,     \* the rows each scanned row's advantage adds up
    epoch,      \* epochs done
    left,       \* rows of this epoch not yet in a batch
    trained,    \* how often each row was trained on
    batches     \* optimizer steps

scanVars == <<row, cursor, remaining, nextVal, suffix, summed>>
trainVars == <<epoch, left, trained, batches>>
vars == <<mode, overbatching, memory, pc, window, preds, scanVars, trainVars>>

Size == Len(memory.rows)

Init ==
    /\ \E rollout \in Rollouts :
         mode = rollout.mode /\ overbatching = rollout.overbatching /\ memory = rollout.memory
    /\ pc = "window"
    /\ window = 0 /\ preds = <<>>
    /\ row = 0 /\ cursor = 0 /\ remaining = 0
    /\ nextVal = <<>> /\ suffix = <<>> /\ summed = <<>>
    /\ epoch = 0 /\ left = {} /\ trained = <<>> /\ batches = 0

RolloutSize == IF Size > Timesteps /\ overbatching THEN Size ELSE Timesteps

WindowRows == SubSeq(memory.rows, 1, window)

(* Faulty: every truncated row of the rollout is predicted. *)
FaultyWindowTruncations(rows) == Cardinality(TruncatedIn(memory.rows))

(* Predictions are made for the first window_truncations observations. *)
WindowTruncations(rows) == Cardinality(TruncatedIn(rows))

(* The window is fixed, its truncated rows are predicted and the memory    *)
(* validated before the scan.                                              *)
Window ==
    /\ pc = "window" /\ Valid(memory)
    /\ window' = RolloutSize
    /\ LET rows == SubSeq(memory.rows, 1, window')
       IN  preds' = SubSeq(memory.nexts, 1, WindowTruncations(rows))
    /\ row' = window' /\ cursor' = Len(preds') /\ remaining' = 0
    /\ nextVal' = [i \in 1..window' |-> <<>>]
    /\ suffix' = [i \in 1..window' |-> 0]
    /\ summed' = [i \in 1..window' |-> {}]
    /\ pc' = "scan"
    /\ UNCHANGED <<mode, overbatching, memory, trainVars>>

Closed(i) == memory.rows[i].term # "None"
IsTrunc(i) == memory.rows[i].term = "Truncated"

SuffixAfter(i) == IF Closed(i) THEN 1 ELSE remaining + 1

(* Faulty: the next row's value whatever closes the row. *)
FaultyNextValOf(i) ==
    IF i < window THEN <<ObservationOf(memory.rows[i + 1])>> ELSE <<>>

(* The observation row i is bootstrapped from; none counts as zero. *)
NextValOf(i) ==
    IF IsTrunc(i) THEN <<preds[cursor]>>
    ELSE IF ~Closed(i) /\ i < window THEN <<ObservationOf(memory.rows[i + 1])>>
    ELSE <<>>

(* Faulty: the advantage runs on across a truncation. *)
FaultySummedOf(i) ==
    {i} \cup IF memory.rows[i].term = "Normal" \/ i = window THEN {} ELSE summed[i + 1]

(* delta plus the running advantage, unless the row is closed. *)
SummedOf(i) == {i} \cup IF Closed(i) \/ i = window THEN {} ELSE summed[i + 1]

(* One turn of get_gae's reverse loop. *)
ScanRow ==
    /\ pc = "scan" /\ row > 0
    /\ remaining' = SuffixAfter(row)
    /\ nextVal' = [nextVal EXCEPT ![row] = NextValOf(row)]
    /\ cursor' = IF IsTrunc(row) THEN cursor - 1 ELSE cursor
    /\ suffix' = [suffix EXCEPT ![row] = remaining']
    /\ summed' = [summed EXCEPT ![row] = SummedOf(row)]
    /\ row' = row - 1
    /\ UNCHANGED <<mode, overbatching, memory, pc, window, preds, trainVars>>

(* The scan ends, with its assertion that no prediction is left over. *)
ScanDone ==
    /\ pc = "scan" /\ row = 0 /\ cursor = 0
    /\ pc' = "train"
    /\ left' = 1..window
    /\ trained' = [i \in 1..window |-> 0]
    /\ UNCHANGED <<mode, overbatching, memory, window, preds, scanVars, epoch, batches>>

(* Faulty: a last batch that is not full is skipped. *)
FaultyBatches(rows) == kSubset(BatchSize, rows)

(* rollout_order.shuffle and chunks(batch_size): any full batch, or the rest. *)
Batches(rows) == kSubset(IF Cardinality(rows) < BatchSize THEN Cardinality(rows)
                         ELSE BatchSize, rows)

TrainBatch ==
    /\ pc = "train" /\ left # {}
    /\ \E batch \in Batches(left) :
         /\ left' = left \ batch
         /\ trained' = [i \in 1..window |-> trained[i] + IF i \in batch THEN 1 ELSE 0]
    /\ batches' = batches + 1
    /\ UNCHANGED <<mode, overbatching, memory, pc, window, preds, scanVars, epoch>>

(* Faulty: an epoch ends when no full batch is left. *)
FaultyNextEpoch ==
    /\ pc = "train" /\ Cardinality(left) < BatchSize
    /\ epoch' = epoch + 1
    /\ IF epoch' < Epochs THEN left' = 1..window /\ pc' = pc
       ELSE left' = {} /\ pc' = "done"
    /\ UNCHANGED <<mode, overbatching, memory, window, preds, scanVars, trained, batches>>

NextEpoch ==
    /\ pc = "train" /\ left = {}
    /\ epoch' = epoch + 1
    /\ IF epoch' < Epochs THEN left' = 1..window /\ pc' = pc
       ELSE left' = {} /\ pc' = "done"
    /\ UNCHANGED <<mode, overbatching, memory, window, preds, scanVars, trained, batches>>

Next == Window \/ ScanRow \/ ScanDone \/ TrainBatch \/ NextEpoch

Spec == Init /\ [][Next]_vars /\ WF_vars(Next)
-----------------------------------------------------------------------------
(* The last row of i's trajectory, or of the window if that comes first. *)
EndOf(i) == Min({window} \cup {j \in i..window : Closed(j)})

Scanned == row + 1..window

(* The reverse scan gives every truncated row the prediction for its own   *)
(* boundary observation, although rows outside the window have predictions *)
(* of their own in the memory, and never runs out of predictions.          *)
BootstrapsAligned ==
    pc # "window" =>
        /\ cursor = Cardinality({j \in TruncatedIn(memory.rows) : j <= row})
        /\ \A i \in Scanned : IsTrunc(i) =>
               nextVal[i] = <<memory.nexts[BootstrapIndex(memory.rows, i)]>>

(* An advantage adds up the temporal differences of its row and the rows   *)
(* after it in the same trajectory, never those of another trajectory, and *)
(* the termination-time estimator is told how many they are.               *)
SuffixesAreTrajectories ==
    pc # "window" => \A i \in Scanned : summed[i] = i..EndOf(i)
                                        /\ suffix[i] = EndOf(i) - i + 1

(* What an update assumes of the future is what happened: a row that did   *)
(* not end the episode is bootstrapped from the observation that followed  *)
(* it, a row that did is not bootstrapped.                                 *)
BootstrappedRight(i) ==
    IF memory.rows[i].term = "Normal" THEN nextVal[i] = <<>>
    ELSE nextVal[i] = <<SuccessorOf(memory.rows[i])>>

(* So it is whenever the rollout is not cut to timesteps_per_iteration,    *)
(* given that its rows follow each other.                                  *)
WholeRolloutsBootstrap ==
    pc # "window" /\ window = Size => \A i \in Scanned : BootstrappedRight(i)

(* A row the learner trains on belongs to a trajectory it sees to its end. *)
CompleteHorizons ==
    pc # "window" /\ mode = "complete" => \A i \in Scanned : Closed(EndOf(i))

(* Each row of the window is trained on once per epoch and nothing else is, *)
(* in the number of batches the averages of the losses are divided by.      *)
EachRowOncePerEpoch ==
    pc = "done" =>
        /\ \A i \in 1..window : trained[i] = Epochs
        /\ batches = ((window + BatchSize - 1) \div BatchSize) * Epochs

(* The update ends. *)
UpdateEnds == <>(pc = "done")
=============================================================================
