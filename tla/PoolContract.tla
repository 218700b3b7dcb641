---------------------------- MODULE PoolContract ----------------------------
(***************************************************************************)
(* What one collector promises its supervisor: a run given a share returns *)
(* a memory made of whole segments, each a stretch of one trajectory that  *)
(* is closed exactly at its end.  How many rows come back is fixed by the  *)
(* mode: "exact" the share, "overbatch" at least the share and less than   *)
(* twice it, "complete" at least the share and at least one trajectory,    *)
(* with nothing delivered after the share is reached.                      *)
(***************************************************************************)
EXTENDS Memory

CONSTANT Modes,   \* among "exact", "overbatch" and "complete"
         Budgets

VARIABLES mode, running, share, memory

vars == <<mode, running, share, memory>>

(* The run goes on. *)
Wanted(kind, budget, rows) == Len(rows) < budget \/ (kind = "complete" /\ rows = <<>>)

(* A run that has Len(rows) rows may be given added more. *)
MayAdd(kind, budget, rows, added) ==
    /\ Wanted(kind, budget, rows)
    /\ kind = "exact" => Len(rows) + added <= budget
    /\ kind = "overbatch" => Len(rows) + added < 2 * budget

(* One closed stretch of a trajectory, with the observation that follows a *)
(* truncation.                                                             *)
IsSegment(part) ==
    /\ part.rows # <<>>
    /\ \A i \in DOMAIN part.rows : part.rows[i].term = "None" <=> i < Len(part.rows)
    /\ Len(part.nexts) = Cardinality(TruncatedIn(part.rows))

(* What the memory gained over an earlier one. *)
Gained(after, before) ==
    [ rows |-> SubSeq(after.rows, Len(before.rows) + 1, Len(after.rows)),
      nexts |-> SubSeq(after.nexts, Len(before.nexts) + 1, Len(after.nexts)) ]

Init == mode \in Modes /\ running = FALSE /\ share = 0 /\ memory = EmptyMemory

Start ==
    /\ ~running /\ running' = TRUE
    /\ share' \in Budgets
    /\ memory' = EmptyMemory
    /\ UNCHANGED mode

Deliver ==
    /\ running
    /\ LET part == Gained(memory', memory)
       IN  /\ IsSegment(part)
           /\ MayAdd(mode, share, memory.rows, Len(part.rows))
           /\ memory' = Merge(memory, part)
    /\ UNCHANGED <<mode, running, share>>

Finish ==
    /\ running /\ ~Wanted(mode, share, memory.rows)
    /\ running' = FALSE
    /\ UNCHANGED <<mode, share, memory>>

Next == Start \/ Deliver \/ Finish

Spec == Init /\ [][Next]_vars
=============================================================================
