------------------------------- MODULE Memory -------------------------------
(***************************************************************************)
(* The learner's rollout buffer (base/memory.rs).  The code keeps parallel *)
(* flat vectors; a row stands for one index of all of them.  What the      *)
(* learner's correctness depends on is kept: who produced the row (pl), at *)
(* which decision of the player's episode (at), and its terminal marker.   *)
(* Observations are named by where they were seen: [pl, at].  The          *)
(* observations that follow truncated rows live in a list of their own,    *)
(* "nexts", in the order of the truncated rows.                            *)
(***************************************************************************)
EXTENDS Naturals, Sequences, FiniteSets

Terminals == {"None", "Normal", "Truncated"}

(* An optional value is a sequence of length 0 or 1. *)
Option(S) == {s \in Seq(S) : Len(s) <= 1}

ObservationOf(row) == [pl |-> row.pl, at |-> row.at]

(* What the environment showed the player right after the row's step. *)
SuccessorOf(row) == [pl |-> row.pl, at |-> row.at + 1]

EmptyMemory == [rows |-> <<>>, nexts |-> <<>>]

TruncatedIn(rows) == {i \in DOMAIN rows : rows[i].term = "Truncated"}

(* Memory::push_player *)
PushPlayer(memory, rows, next) ==
    IF rows = <<>> THEN memory
    ELSE [rows |-> memory.rows \o rows, nexts |-> memory.nexts \o next]

(* Faulty: the other's next states come first. *)
FaultyMerge(memory, other) ==
    [rows |-> memory.rows \o other.rows, nexts |-> other.nexts \o memory.nexts]

(* Memory::merge *)
Merge(memory, other) ==
    [rows |-> memory.rows \o other.rows, nexts |-> memory.nexts \o other.nexts]

(* Memory::validate: one next state for each truncated row, and the last   *)
(* row closes its trajectory.                                              *)
Valid(memory) ==
    /\ Len(memory.nexts) = Cardinality(TruncatedIn(memory.rows))
    /\ memory.rows # <<>> => memory.rows[Len(memory.rows)].term # "None"

(* The position in nexts of the bootstrap observation of truncated row i.  *)
BootstrapIndex(rows, i) == Cardinality({j \in TruncatedIn(rows) : j <= i})
=============================================================================
