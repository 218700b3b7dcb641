------------------------------ MODULE BatchSim ------------------------------
(***************************************************************************)
(* One rollout collector (environment/batch_sim.rs, pool_collector.rs): a  *)
(* batch of games, the trajectory each player is accumulating, the queue   *)
(* of finished but unclaimed trajectories, and the loop of                 *)
(* run_with_budget that steps every game once per decision and then, on    *)
(* its own thread, claims the finished trajectories in player order.       *)
(*                                                                         *)
(* Everything but the returned memory survives from one run to the next:   *)
(* trajectories, overflow, teams and the games themselves.  A run may send *)
(* one team to an old policy; its players are not tracked in that run.     *)
(*                                                                         *)
(* A game's clock is the number of decisions since its last reset, which   *)
(* names its current observation; MaxClock bounds an episode.              *)
(***************************************************************************)
EXTENDS BudgetClaims, SequencesExt

CONSTANTS
    NumGames,    \* games of the batch
    NumPlayers,  \* players of the batch, in game order
    GameOf,      \* the game of each player
    Teams,       \* team indices
    Layouts,     \* the team assignments a reset may produce
    NoTeam,      \* no old policy in this run
    Configs,     \* the configurations a collector may be built with
    Shares,      \* the budgets a run may be given
    MaxClock     \* bound: an environment ends its episode by then

Games == 1..NumGames
Players == 1..NumPlayers

Config == [ complete: BOOLEAN, overbatching: BOOLEAN, retain: BOOLEAN,
            delay: BOOLEAN, maxEpisode: Option(Nat), oldTeams: SUBSET (Teams \cup {NoTeam}) ]

ASSUME BatchAssumption ==
    /\ NumGames \in Nat \ {0} /\ NumPlayers \in Nat \ {0} /\ MaxClock \in Nat
    /\ GameOf \in [Players -> Games]
    /\ \A p, q \in Players : p < q => GameOf[p] <= GameOf[q]
    /\ NoTeam \notin Teams
    /\ Layouts \subseteq [Players -> Teams] /\ Layouts # {}
    /\ Configs \subseteq Config
    /\ Shares \subseteq Nat

VARIABLES
    config,     \* fixed when the collector is built
    pc,         \* where run_with_budget is
    clock,      \* next_obs of each game: decisions since its reset
    teams,      \* player_teams
    primed,     \* action_delay_primed of each game
    held,       \* held_actions of each game: the decision that chose them
    lead,       \* what the delayed part of the interval was driven by
    trajs,      \* player_trajs: the rows each player has accumulated
    overflow,   \* overflow_trajs
    tracked,    \* player_is_tracked of the run
    share,      \* rollout_budget of the run
    remaining,  \* remaining_steps
    completed,  \* completed_for_update
    pending,    \* games whose step job of this decision has not ended
    flushed,    \* outcomes: the trajectory each player finished, unclaimed
    memory      \* the memory the run returns

envVars == <<clock, teams, primed, held, lead>>
runVars == <<tracked, share>>
vars == <<config, pc, envVars, trajs, overflow, runVars, remaining, completed,
          pending, flushed, memory>>

PlayersOf(g) == {p \in Players : GameOf[p] = g}

Row == [pl: Players, at: Nat, term: Terminals]
Observation == [pl: Players, at: Nat]
Trajectory == [rows: Seq(Row), next: Option(Observation)]

TypeOK ==
    /\ config \in Configs
    /\ pc \in {"idle", "drain", "loop", "step", "claim"}
    /\ clock \in [Games -> Nat]
    /\ teams \in [Players -> Teams]
    /\ primed \in [Games -> BOOLEAN]
    /\ held \in [Games -> Nat]
    /\ lead \in [Games -> {"none", "neutral", "held"}]
    /\ trajs \in [Players -> Seq(Row)]
    /\ overflow \in Seq(Trajectory)
    /\ tracked \subseteq Players
    /\ share \in Nat
    /\ remaining \in Nat
    /\ completed \in BOOLEAN
    /\ pending \subseteq Games
    /\ flushed \in [Players -> Option(Trajectory)]
    /\ memory \in [rows: Seq(Row), nexts: Seq(Observation)]

NoFlush == [p \in Players |-> <<>>]

(* BatchSim::new: every game is reset, nothing is accumulated. *)
Init ==
    /\ config \in Configs
    /\ pc = "idle"
    /\ clock = [g \in Games |-> 0]
    /\ teams \in Layouts
    /\ primed = [g \in Games |-> FALSE]
    /\ held = [g \in Games |-> 0]
    /\ lead = [g \in Games |-> "none"]
    /\ trajs = [p \in Players |-> <<>>]
    /\ overflow = <<>>
    /\ tracked = Players
    /\ share = 0
    /\ remaining = 0
    /\ completed = FALSE
    /\ pending = {}
    /\ flushed = NoFlush
    /\ memory = EmptyMemory

-----------------------------------------------------------------------------
(* PoolCollector::run stores the share; run_with_budget decides once, from *)
(* the teams it finds, whose steps it will record.                         *)
BeginRun(budget, oldTeam) ==
    /\ pc = "idle"
    /\ pc' = "drain"
    /\ share' = budget
    /\ remaining' = budget
    /\ tracked' = {p \in Players : teams[p] # oldTeam}
    /\ overflow' = IF config.complete THEN <<>> ELSE overflow
    /\ completed' = FALSE
    /\ memory' = EmptyMemory
    /\ UNCHANGED <<config, envVars, trajs, pending, flushed>>

(* The budget a finished trajectory is granted outside complete mode. *)
Grant(steps) ==
    IF config.overbatching THEN ClaimOverbatch(remaining, steps, share)
    ELSE ClaimAvailable(remaining, steps)

(* Faulty: the rest of a split leftover goes to the back of the queue. *)
FaultyRequeue(rest, queue) == queue \o rest

(* overflow_trajs.push_front *)
Requeue(rest, queue) == rest \o queue

(* One turn of the loop that serves last run's leftovers first.  What does *)
(* not fit goes back to the front of the queue, whatever the retain flag.  *)
DrainOverflow ==
    /\ pc = "drain"
    /\ remaining > 0 /\ overflow # <<>>
    /\ LET claimed == Grant(Len(Head(overflow).rows))
           part == Partition(Head(overflow), claimed, TRUE)
       IN  /\ memory' = PushClaimed(memory, part.claimed)
           /\ overflow' = Requeue(part.overflow, Tail(overflow))
           /\ remaining' = Minus(remaining, claimed)
           /\ pc' = IF claimed = 0 THEN "loop" ELSE "drain"
    /\ UNCHANGED <<config, envVars, trajs, runVars, completed, pending, flushed>>

DrainDone ==
    /\ pc = "drain"
    /\ remaining = 0 \/ overflow = <<>>
    /\ pc' = "loop"
    /\ UNCHANGED <<config, envVars, trajs, overflow, runVars, remaining, completed,
                   pending, flushed, memory>>

-----------------------------------------------------------------------------
(* Faulty: a complete run may return without a trajectory. *)
FaultyWantsMore == remaining > 0

WantsMore == remaining > 0 \/ (config.complete /\ ~completed)

(* Inference is submitted for the current observations, and meanwhile      *)
(* begin_delayed_phase drives every game through the delayed part of the   *)
(* interval with its held actions, or with neutral controls after a reset. *)
Decide ==
    /\ pc = "loop" /\ WantsMore
    /\ pc' = "step"
    /\ pending' = Games
    /\ lead' = IF config.delay
               THEN [g \in Games |-> IF primed[g] THEN "held" ELSE "neutral"]
               ELSE lead
    /\ UNCHANGED <<config, clock, teams, primed, held, trajs, overflow, runVars,
                   remaining, completed, flushed, memory>>

(* reached_max_episode_length *)
ReachedMaxEpisode(g) ==
    config.maxEpisode # <<>> /\
        \E p \in PlayersOf(g) \cap tracked : Len(trajs[p]) + 1 >= config.maxEpisode[1]

(* How the step of game g is recorded, given how the environment ended it. *)
TerminalType(g, ending) ==
    IF ending = "None" /\ ReachedMaxEpisode(g) THEN "Truncated" ELSE ending

Recorded(p, term) ==
    Append(trajs[p], [pl |-> p, at |-> clock[GameOf[p]], term |-> term])

FlushOf(p, term) ==
    [ rows |-> Recorded(p, term),
      next |-> IF term = "Truncated"
               THEN <<[pl |-> p, at |-> clock[GameOf[p]] + 1]>> ELSE <<>> ]

(* Faulty: the flag survives the reset. *)
FaultyPrimedAfter(ending) == TRUE

(* action_delay_primed after a step. *)
PrimedAfter(ending) == ending = "None"

(* The part of step_game that resets the game or keeps its new observation: *)
(* a forced truncation ends the trajectories but not the episode.           *)
Advance(g, ending) ==
    /\ held' = [held EXCEPT ![g] = clock[g]]
    /\ lead' = [lead EXCEPT ![g] = "none"]
    /\ primed' = [primed EXCEPT ![g] = PrimedAfter(ending)]
    /\ IF ending # "None"
       THEN /\ clock' = [clock EXCEPT ![g] = 0]
            /\ \E layout \in Layouts :
                 teams' = [p \in Players |-> IF GameOf[p] = g THEN layout[p] ELSE teams[p]]
       ELSE /\ clock' = [clock EXCEPT ![g] = @ + 1]
            /\ UNCHANGED teams

(* step_game, one job of the rayon scope: tracked players record the step, *)
(* and when the trajectory ends they hand it out while the buffers of the  *)
(* others are dropped.  Jobs of different games run in any order.          *)
StepGame(g, ending) ==
    /\ pc = "step" /\ g \in pending
    /\ clock[g] = MaxClock => ending # "None"
    /\ LET term == TerminalType(g, ending)
       IN  /\ trajs' = [p \in Players |->
                 IF GameOf[p] # g THEN trajs[p]
                 ELSE IF term # "None" THEN <<>>
                 ELSE IF p \in tracked THEN Recorded(p, term)
                 ELSE trajs[p]]
           /\ flushed' = [p \in Players |->
                 IF GameOf[p] = g /\ p \in tracked /\ term # "None"
                 THEN <<FlushOf(p, term)>> ELSE flushed[p]]
    /\ Advance(g, ending)
    /\ pending' = pending \ {g}
    /\ pc' = IF pending' = {} THEN "claim" ELSE "step"
    /\ UNCHANGED <<config, overflow, runVars, remaining, completed, memory>>

-----------------------------------------------------------------------------
Unclaimed == {p \in Players : flushed[p] # <<>>}

ClaimWhole(traj) ==
    LET steps == Len(traj.rows)
        claimed == ClaimComplete(remaining, steps, ~completed)
    IN  /\ remaining' = Minus(remaining, steps)
        /\ completed' = (completed \/ claimed = steps)
        /\ memory' = IF claimed = steps THEN PushTraj(memory, traj) ELSE memory
        /\ UNCHANGED overflow

ClaimPart(traj) ==
    LET claimed == Grant(Len(traj.rows))
        part == Partition(traj, claimed, config.retain)
    IN  /\ remaining' = Minus(remaining, claimed)
        /\ memory' = PushClaimed(memory, part.claimed)
        /\ overflow' = overflow \o part.overflow
        /\ UNCHANGED completed

(* One turn of claim_game_outcomes: the first unclaimed trajectory. *)
ClaimFlush ==
    /\ pc = "claim" /\ Unclaimed # {}
    /\ \E p \in Unclaimed :
           /\ \A q \in Unclaimed : p <= q
           /\ IF config.complete THEN ClaimWhole(flushed[p][1]) ELSE ClaimPart(flushed[p][1])
           /\ flushed' = [flushed EXCEPT ![p] = <<>>]
    /\ UNCHANGED <<config, pc, envVars, trajs, runVars, pending>>

ClaimDone ==
    /\ pc = "claim" /\ Unclaimed = {}
    /\ pc' = "loop"
    /\ UNCHANGED <<config, envVars, trajs, overflow, runVars, remaining, completed,
                   pending, flushed, memory>>

(* The loop ends and the memory is returned. *)
EndRun ==
    /\ pc = "loop" /\ ~WantsMore
    /\ pc' = "idle"
    /\ UNCHANGED <<config, envVars, trajs, overflow, runVars, remaining, completed,
                   pending, flushed, memory>>

-----------------------------------------------------------------------------
Run ==
    \/ DrainOverflow
    \/ DrainDone
    \/ Decide
    \/ \E g \in Games, ending \in Terminals : StepGame(g, ending)
    \/ ClaimFlush
    \/ ClaimDone
    \/ EndRun

Next ==
    \/ \E budget \in Shares, oldTeam \in config.oldTeams : BeginRun(budget, oldTeam)
    \/ Run

(* The collector's thread and its rayon workers keep running until the run *)
(* returns; nothing forces the learner to start another run.               *)
Spec == Init /\ [][Next]_vars /\ WF_vars(Run)
-----------------------------------------------------------------------------
(* Correctness.                                                            *)

Collected == Len(memory.rows)

(* At every point of a run the rows in the memory and the budget that is   *)
(* left add up to the share; once the budget is spent an exact run has     *)
(* exactly its share, an overbatching one at least that and less than      *)
(* twice that, and a complete run at least that (the claim_* functions,    *)
(* partition_claimed_trajectory and push_traj_prefix together).            *)
BudgetAccounting ==
    /\ remaining > 0 => Collected + remaining = share
    /\ remaining = 0 => Collected >= share
    /\ ~config.complete => IF config.overbatching /\ share > 0
                           THEN Collected < 2 * share ELSE Collected <= share

(* A complete run goes past its share with its last trajectory only: the   *)
(* trajectories before it did not reach the share (claim_complete_steps    *)
(* and completed_for_update).                                              *)
OneFinalOverrun ==
    config.complete /\ Collected > 0 =>
        \E i \in 0..Collected - 1 :
            /\ i > 0 => memory.rows[i].term # "None" /\ i < share
            /\ \A j \in i + 1..Collected - 1 : memory.rows[j].term = "None"

(* The memory always satisfies the contract that Ppo::learn panics without:*)
(* a next state for every truncated row, a closed last row.                *)
LearnerContract == Valid(memory)

(* Every run tracks the same players as the runs before it. *)
SteadyTracking ==
    /\ \E team \in config.oldTeams : config.oldTeams = {team}
    /\ \E layout \in Layouts : Layouts = {layout}

(* Consecutive rows that nothing closes are consecutive decisions of one   *)
(* player in one episode, which is what get_gae takes them for, across     *)
(* splits, leftovers and runs.                                             *)
Contiguous ==
    \A i \in DOMAIN memory.rows : memory.rows[i].term = "None" =>
        i < Collected /\ ObservationOf(memory.rows[i + 1]) = SuccessorOf(memory.rows[i])

(* The critic bootstraps a truncated row from the observation that really  *)
(* followed it, never from the next episode's first one, whether the row   *)
(* was truncated by the environment, by the episode limit or by a split.   *)
Bootstraps ==
    \A i \in TruncatedIn(memory.rows) :
        memory.nexts[BootstrapIndex(memory.rows, i)] = SuccessorOf(memory.rows[i])

(* With complete trajectories the rows of a run have no gap, whatever the  *)
(* run's self-play choice was.                                             *)
CompleteMeansContiguous == config.complete => Contiguous

SteadyContiguous == SteadyTracking => Contiguous
SteadyBootstraps == SteadyTracking => Bootstraps

RowsOf(list) == FlattenSeq([i \in DOMAIN list |-> list[i].rows])

(* Everything on its way to the learner, in order of delivery. *)
Stream ==
    LET rows == memory.rows \o RowsOf(overflow)
                \o RowsOf(FlattenSeq([p \in Players |-> flushed[p]]))
    IN  [i \in DOMAIN rows |-> ObservationOf(rows[i])]

(* With retained overflow no claim loses, repeats or reorders a step: what *)
(* a split leaves behind is served first in the next run.                  *)
NothingLost ==
    [][ (pc \in {"drain", "claim"}) /\ config.retain /\ ~config.complete
            => Stream' = Stream ]_vars

(* The delayed part of a decision interval replays the actions of the      *)
(* previous decision of the same episode, and is neutral after a reset     *)
(* (action_delay_primed).                                                  *)
DelayReplaysPrevious ==
    pc = "step" /\ config.delay =>
        \A g \in pending : \/ lead[g] = "neutral" /\ clock[g] = 0
                           \/ lead[g] = "held" /\ clock[g] = held[g] + 1

(* A run that tracks somebody returns. *)
RunReturns == (pc = "drain" /\ tracked # {}) ~> (pc = "idle")

Mode == IF config.complete THEN "complete"
        ELSE IF config.overbatching THEN "overbatch" ELSE "exact"

Contract == INSTANCE PoolContract
    WITH Modes <- {"exact", "overbatch", "complete"}, Budgets <- Shares,
         mode <- Mode, running <- pc # "idle"

(* The collector implements the contract its supervisor relies on.  Its    *)
(* loop may stop only when the share is reached, claims only whole closed  *)
(* segments, and only while something is wanted.                           *)
ImplementsContract == Contract!Spec
=============================================================================
