------------------------------ MODULE MCLearn ------------------------------
(* Every rollout of up to MaxRows rows that a supervisor may return for    *)
(* the timesteps of an iteration: exactly as many rows in an exact one, as *)
(* many or more (less than twice as many when overbatching) in the others. *)
EXTENDS Learn

MaxRows == 5

(* One player's decisions; an episode or a truncation skips one.           *)
Skips(terms, i) == Cardinality({j \in 1..i - 1 : terms[j] # "None"})
RowsWith(terms) ==
    [i \in DOMAIN terms |-> [pl |-> 1, at |-> i + Skips(terms, i), term |-> terms[i]]]
NextsOf(rows) ==
    LET cut == TruncatedIn(rows)
        nth(k) == CHOOSE i \in cut : BootstrapIndex(rows, i) = k
    IN  [k \in 1..Cardinality(cut) |-> SuccessorOf(rows[nth(k)])]

ClosedRollouts(n) ==
    { [rows |-> RowsWith(terms), nexts |-> NextsOf(RowsWith(terms))] :
        terms \in {t \in [1..n -> Terminals] : t[n] # "None"} }

RolloutsOf(kind, over, sizes) ==
    { [mode |-> kind, overbatching |-> over, memory |-> m] :
        m \in UNION {ClosedRollouts(n) : n \in sizes} }

CompleteRollouts(over) == RolloutsOf("complete", over, Timesteps..MaxRows)

AllRollouts ==
    RolloutsOf("exact", FALSE, {Timesteps})
    \cup RolloutsOf("overbatch", TRUE, Timesteps..2 * Timesteps - 1)
    \cup UNION {CompleteRollouts(over) : over \in BOOLEAN}

(* These rollouts have no gaps: a missing bootstrap is the learner's.      *)
ASSUME RolloutsFollowed == \A rollout \in Rollouts : Followed(rollout.memory)

CutRollouts == CompleteRollouts(FALSE)
=============================================================================
