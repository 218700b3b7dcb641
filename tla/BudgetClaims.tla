---------------------------- MODULE BudgetClaims ----------------------------
(***************************************************************************)
(* How finished trajectories are charged against a rollout budget          *)
(* (environment/batch_sim.rs, the claim_* functions and                    *)
(* partition_claimed_trajectory; environment/thread_sim.rs, split_budget). *)
(* A trajectory is a record [rows, next]: its rows and, when its last row  *)
(* is truncated, the observation that follows.  Subtraction saturates at   *)
(* zero, as usize::saturating_sub does.                                    *)
(***************************************************************************)
EXTENDS Memory

(* Faulty: the subtraction without saturation. *)
FaultyMinus(a, b) == a - b

Minus(a, b) == IF a > b THEN a - b ELSE 0
Least(a, b) == IF a < b THEN a ELSE b

(* claim_available_steps: never more than what is left. *)
ClaimAvailable(remaining, steps) == Least(remaining, steps)

(* Faulty: the bound is off by one. *)
FaultyClaimOverbatch(remaining, steps, budget) ==
    IF remaining > 0 THEN Least(steps, remaining + budget) ELSE 0

(* claim_overbatch_steps: while something is left, up to budget - 1 more.  *)
ClaimOverbatch(remaining, steps, budget) ==
    IF remaining > 0 THEN Least(steps, remaining + Minus(budget, 1)) ELSE 0

(* Faulty: the budget is not consulted. *)
FaultyClaimComplete(remaining, steps, allowFinalOverrun) == steps

(* Faulty: no overrun, even for the first trajectory of a run. *)
FaultyClaimCompleteStrict(remaining, steps, allowFinalOverrun) ==
    IF remaining > 0 THEN steps ELSE 0

(* claim_complete_steps: all of the trajectory or nothing. *)
ClaimComplete(remaining, steps, allowFinalOverrun) ==
    IF remaining > 0 \/ allowFinalOverrun THEN steps ELSE 0

(* Faulty: the prefix is not followed by an observation. *)
FaultyPartitionOpen(traj, claimed, retain) ==
    LET n == Len(traj.rows)
    IN  [ claimed |-> IF claimed = 0 THEN <<>>
                      ELSE <<[rows |-> SubSeq(traj.rows, 1, claimed),
                              next |-> IF claimed = n THEN traj.next ELSE <<>>]>>,
          overflow |-> IF claimed < n /\ retain
                       THEN <<[traj EXCEPT !.rows = SubSeq(@, claimed + 1, n)]>> ELSE <<>> ]

(* Faulty: the prefix is followed by its own last observation. *)
FaultyPartitionLate(traj, claimed, retain) ==
    LET n == Len(traj.rows)
    IN  [ claimed |-> IF claimed = 0 THEN <<>>
                      ELSE <<[rows |-> SubSeq(traj.rows, 1, claimed),
                              next |-> IF claimed = n THEN traj.next
                                       ELSE <<ObservationOf(traj.rows[claimed])>>]>>,
          overflow |-> IF claimed < n /\ retain
                       THEN <<[traj EXCEPT !.rows = SubSeq(@, claimed + 1, n)]>> ELSE <<>> ]

(* partition_claimed_trajectory: the claimed prefix, with the observation  *)
(* that follows it, and what is kept of the rest.                          *)
Partition(traj, claimed, retain) ==
    LET n == Len(traj.rows)
        suffix == [rows |-> SubSeq(traj.rows, claimed + 1, n), next |-> traj.next]
    IN  [ claimed |-> IF claimed = n THEN <<traj>>
                      ELSE IF claimed = 0 THEN <<>>
                      ELSE <<[rows |-> SubSeq(traj.rows, 1, claimed),
                              next |-> <<ObservationOf(traj.rows[claimed + 1])>>]>>,
          overflow |-> IF claimed < n /\ retain THEN <<suffix>> ELSE <<>> ]

(* Faulty: the cut row keeps its marker. *)
FaultyPushTraj(memory, traj) == PushPlayer(memory, traj.rows, traj.next)

(* push_traj_prefix: a prefix that is followed by an observation ends in a *)
(* truncated row.                                                          *)
PushTraj(memory, traj) ==
    LET n == Len(traj.rows)
        rows == IF traj.next # <<>> /\ n > 0
                THEN [traj.rows EXCEPT ![n].term = "Truncated"]
                ELSE traj.rows
    IN  PushPlayer(memory, rows, traj.next)

(* push_claimed_trajectory *)
PushClaimed(memory, claimed) ==
    IF claimed = <<>> THEN memory ELSE PushTraj(memory, claimed[1])

(* split_budget: pool p's share; the last pool takes the remainder. *)
SplitBudget(budget, pools) ==
    [p \in 1..pools |-> budget \div pools + (IF p = pools THEN budget % pools ELSE 0)]
=============================================================================
