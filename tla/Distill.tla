------------------------------- MODULE Distill -------------------------------
(***************************************************************************)
(* Distillation of a teacher policy (Ppo::transfer_learn): the teacher     *)
(* scores the rows of a memory chunk by chunk, once; in every epoch the    *)
(* student is compared with it on the same chunks, and one optimizer step  *)
(* takes the gradients of them all.                                        *)
(***************************************************************************)
EXTENDS Naturals, Sequences, FiniteSetsExt

CONSTANTS
    MiniBatch,  \* mini_batch_size
    Epochs      \* epochs

(* TransferLearnConfig::validate *)
ASSUME DistillAssumption == MiniBatch \in Nat \ {0} /\ Epochs \in Nat \ {0}

VARIABLES
    distill,    \* its place, the memory's rows, the teacher's chunks, epoch, chunk
    gradients,  \* accumulated: of each chunk, its rows and those the teacher scored
    optimized   \* history: the gradients each optimizer step took

distillVars == <<distill, gradients, optimized>>

DistillInit ==
    /\ distill = [at |-> "idle", rows |-> 0, teacher |-> <<>>, epoch |-> 0, chunk |-> 0]
    /\ gradients = <<>> /\ optimized = <<>>

(* The memory may hold a few rows more than whole chunks. *)
Chunk(n, start) == start..(Min({start + MiniBatch, n}) - 1)

Chunks(n) == (n + MiniBatch - 1) \div MiniBatch

BeginDistill(n) ==
    /\ distill.at = "idle" /\ n > 0
    /\ distill' = [at |-> "teacher", rows |-> n, teacher |-> <<>>, epoch |-> 0, chunk |-> 0]
    /\ gradients' = <<>> /\ optimized' = <<>>

(* The teacher scores its own observations of the rows, or the student's. *)
TeacherScores ==
    /\ distill.at = "teacher"
    /\ LET scores == Append(distill.teacher,
                            Chunk(distill.rows, Len(distill.teacher) * MiniBatch))
       IN  distill' = [distill EXCEPT !.teacher = scores,
                          !.at = IF Len(scores) = Chunks(distill.rows) THEN "student" ELSE @]
    /\ UNCHANGED <<gradients, optimized>>

(* The loss on a chunk is a mean over its rows, weighted with the chunk's  *)
(* share of the memory: every row has the same weight.                     *)
StudentLearns ==
    /\ distill.at = "student" /\ distill.chunk < Len(distill.teacher)
    /\ gradients' = Append(gradients, [rows |-> Chunk(distill.rows, distill.chunk * MiniBatch),
                                       taught |-> distill.teacher[distill.chunk + 1]])
    /\ distill' = [distill EXCEPT !.chunk = @ + 1]
    /\ UNCHANGED optimized

(* Faulty: the gradients stay in the accumulator. *)
FaultyLeftOver == gradients

LeftOver == <<>>

(* GradientsAccumulator::grads takes what has been accumulated. *)
OptimizerSteps ==
    /\ distill.at = "student" /\ distill.chunk = Len(distill.teacher)
    /\ optimized' = Append(optimized, gradients)
    /\ gradients' = LeftOver
    /\ distill' = [distill EXCEPT !.epoch = @ + 1, !.chunk = 0,
                      !.at = IF distill.epoch + 1 = Epochs THEN "idle" ELSE @]

DistillStep == TeacherScores \/ StudentLearns \/ OptimizerSteps

-----------------------------------------------------------------------------
(* Every optimizer step learns from each row of the memory once, compared  *)
(* with what the teacher said of that row; there is one for every epoch.   *)
DistillsEachRow ==
    /\ \A step \in DOMAIN optimized : \A row \in 0..(distill.rows - 1) :
           LET with == {i \in DOMAIN optimized[step] : row \in optimized[step][i].rows}
           IN  Cardinality(with) = 1 /\ \A i \in with : row \in optimized[step][i].taught
    /\ distill.at = "idle" /\ distill.rows > 0 => Len(optimized) = Epochs
=============================================================================
