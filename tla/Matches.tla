------------------------------ MODULE Matches ------------------------------
(***************************************************************************)
(* What an evaluation promises (SkillTracker::run_matches): it plays the   *)
(* opponents of its job in their order, from the one the job before it     *)
(* left unfinished if that is among them.  It ends, after the last         *)
(* opponent or with the current one left to be continued.                  *)
(***************************************************************************)
EXTENDS Naturals, Sequences, SequencesExt

CONSTANT Jobs   \* sequences of opponents
Nobody == <<>>

VARIABLES
    job,        \* the opponents of the running job, or <<>>
    opponent,   \* the one that is played
    left        \* the one left unfinished, or Nobody

vars == <<job, opponent, left>>

First(opponents, unfinished) ==
    IF unfinished \in ToSet(opponents) THEN unfinished ELSE Head(opponents)

Init == job = <<>> /\ opponent = Nobody /\ left = Nobody

Begin(opponents) ==
    /\ job = <<>>
    /\ job' = opponents /\ opponent' = First(opponents, left) /\ left' = Nobody

Advance ==
    /\ \E i \in 1..(Len(job) - 1) : job[i] = opponent /\ opponent' = job[i + 1]
    /\ UNCHANGED <<job, left>>

Stop(unfinished) ==
    /\ job # <<>>
    /\ unfinished = Nobody => opponent = Last(job)
    /\ unfinished # Nobody => unfinished = opponent
    /\ job' = <<>> /\ opponent' = Nobody /\ left' = unfinished

Plays == Advance \/ \E unfinished \in {Nobody, opponent} : Stop(unfinished)

Next == Plays \/ \E opponents \in Jobs : Begin(opponents)

Spec == Init /\ [][Next]_vars /\ WF_vars(Plays)
=============================================================================
