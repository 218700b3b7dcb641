----------------------------- MODULE ThreadSim -----------------------------
(***************************************************************************)
(* The rollout supervisor (environment/thread_sim.rs): run_internal splits *)
(* the budget into shares, lets every pool collect its share on a thread   *)
(* of its own, joins the threads in pool order and merges their memories   *)
(* in pool order.                                                          *)
(*                                                                         *)
(* A pool is any program that keeps PoolContract (BatchSim does): it adds  *)
(* closed segments until its share is reached.  A segment of pool p is a   *)
(* stretch of decisions at, at + 1, ... of p; segments are one observation *)
(* apart, so that what follows a truncated row is told from what comes     *)
(* next in the memory.                                                     *)
(***************************************************************************)
EXTENDS BudgetClaims, SequencesExt

CONSTANTS
    NumPools,
    Modes,       \* "exact", "overbatch", "complete"
    Budgets,     \* the budgets of a rollout
    MaxSegment   \* bound: rows of a segment

Pools == 1..NumPools

ASSUME SupervisorAssumption ==
    /\ NumPools \in Nat \ {0} /\ MaxSegment \in Nat \ {0}
    /\ Modes \subseteq {"exact", "overbatch", "complete"} /\ Budgets \subseteq Nat

VARIABLES
    mode,      \* fixed when the supervisor is built
    pc,
    budget,    \* of the current rollout
    shares,    \* share of each pool
    running,   \* whether the thread of each pool still collects
    memories,  \* the memory each pool returns
    joined,    \* how many threads have been joined
    merged,    \* how many results have been merged
    memory     \* the merged rollout

vars == <<mode, pc, budget, shares, running, memories, joined, merged, memory>>

Contract(p) == INSTANCE PoolContract
    WITH running <- running[p], share <- shares[p], memory <- memories[p]

Init ==
    /\ mode \in Modes
    /\ pc = "idle"
    /\ budget = 0
    /\ shares = [p \in Pools |-> 0]
    /\ running = [p \in Pools |-> FALSE]
    /\ memories = [p \in Pools |-> EmptyMemory]
    /\ joined = 0 /\ merged = 0
    /\ memory = EmptyMemory

Shares(total) == SplitBudget(total, NumPools)

RunInternal(total) ==
    /\ pc = "idle"
    /\ pc' = "collect"
    /\ budget' = total
    /\ shares' = Shares(total)
    /\ running' = [p \in Pools |-> TRUE]
    /\ memories' = [p \in Pools |-> EmptyMemory]
    /\ joined' = 0 /\ merged' = 0
    /\ memory' = EmptyMemory
    /\ UNCHANGED mode

Segment(p, from, n, ending) ==
    [ rows |-> [i \in 1..n |-> [pl |-> p, at |-> from + i,
                                term |-> IF i = n THEN ending ELSE "None"]],
      nexts |-> IF ending = "Truncated" THEN <<[pl |-> p, at |-> from + n + 1]>> ELSE <<>> ]

(* Where the next segment of a pool starts. *)
Resume(rows) == IF rows = <<>> THEN 0 ELSE Last(rows).at + 1

(* Faulty: the overbatch bound is the global budget. *)
FaultyBoundOf(p) == budget

(* The overbatch bound of a pool. *)
BoundOf(p) == shares[p]

PoolDeliver(p, n, ending) ==
    /\ pc = "collect" /\ running[p]
    /\ Contract(p)!Wanted(mode, shares[p], memories[p].rows)
    /\ Contract(p)!MayAdd(mode, BoundOf(p), memories[p].rows, n)
    /\ memories' = [memories EXCEPT ![p] = Merge(@, Segment(p, Resume(@.rows), n, ending))]
    /\ UNCHANGED <<mode, pc, budget, shares, running, joined, merged, memory>>

(* Faulty: the thread waits for exactly its share. *)
FaultyPoolFinish(p) ==
    /\ pc = "collect" /\ running[p]
    /\ Len(memories[p].rows) = shares[p]
    /\ running' = [running EXCEPT ![p] = FALSE]
    /\ UNCHANGED <<mode, pc, budget, shares, memories, joined, merged, memory>>

PoolFinish(p) ==
    /\ pc = "collect" /\ running[p]
    /\ ~Contract(p)!Wanted(mode, shares[p], memories[p].rows)
    /\ running' = [running EXCEPT ![p] = FALSE]
    /\ UNCHANGED <<mode, pc, budget, shares, memories, joined, merged, memory>>

(* handle.join() for the next pool in order. *)
Join ==
    /\ pc = "collect" /\ joined < NumPools
    /\ ~running[joined + 1]
    /\ joined' = joined + 1
    /\ UNCHANGED <<mode, pc, budget, shares, running, memories, merged, memory>>

(* Faulty: the last result comes first. *)
FaultyToMerge == NumPools - merged

(* The results are merged in the order of the pools. *)
ToMerge == merged + 1

(* One turn of the loop over the results; the last one ends run_internal. *)
MergeResult ==
    /\ pc = "collect" /\ joined = NumPools
    /\ memory' = Merge(memory, memories[ToMerge])
    /\ merged' = merged + 1
    /\ pc' = IF merged' = NumPools THEN "idle" ELSE pc
    /\ UNCHANGED <<mode, budget, shares, running, memories, joined>>

PoolStep(p) ==
    \/ \E n \in 1..MaxSegment, ending \in {"Normal", "Truncated"} : PoolDeliver(p, n, ending)
    \/ PoolFinish(p)

Next ==
    \/ \E total \in Budgets : RunInternal(total)
    \/ \E p \in Pools : PoolStep(p)
    \/ Join
    \/ MergeResult

(* Every pool's thread and the joining thread keep running. *)
Spec == /\ Init /\ [][Next]_vars
        /\ \A p \in Pools : WF_vars(PoolStep(p))
        /\ WF_vars(Join) /\ WF_vars(MergeResult)
-----------------------------------------------------------------------------
Returned == pc = "idle"

(* The merged rollout has exactly the budget, or less than twice the budget *)
(* when overbatching, or at least the budget: the shares and the bounds of  *)
(* the pools add up to those of the rollout (split_budget and the bound     *)
(* PoolCollector::run passes).                                              *)
RolloutSize ==
    Returned =>
        /\ Len(memory.rows) >= budget
        /\ mode = "exact" => Len(memory.rows) = budget
        /\ mode = "overbatch" /\ budget > 0 => Len(memory.rows) < 2 * budget

(* Merging keeps the contract of the learner and pairs every truncated row *)
(* with the observation that followed it in its own pool (Memory::merge).  *)
MergeKeepsBootstraps ==
    Returned => /\ Valid(memory)
                /\ \A i \in TruncatedIn(memory.rows) :
                       memory.nexts[BootstrapIndex(memory.rows, i)] = SuccessorOf(memory.rows[i])

(* The rollout lists the pools in pool order, whichever finished first. *)
PoolOrder ==
    \A i, j \in DOMAIN memory.rows : i < j => memory.rows[i].pl <= memory.rows[j].pl

(* Every rollout returns. *)
RolloutReturns == pc = "collect" ~> Returned
=============================================================================
