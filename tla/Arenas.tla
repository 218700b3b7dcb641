------------------------------- MODULE Arenas -------------------------------
(***************************************************************************)
(* The evaluation matches (agent/skill_tracker.rs): the tracker's thread   *)
(* runs the phases of a job over arenas that have a thread each.  It sends *)
(* every arena a command and takes an answer from every one.  A phase      *)
(* stops when its slice of time is over, and the next job continues it.    *)
(*                                                                         *)
(* A car is named after its team, 0 (blue) or 1.  Its driver is the        *)
(* current policy, Current, or the opponent.                               *)
(***************************************************************************)
EXTENDS Naturals, Sequences, SequencesExt, FiniteSets

CONSTANTS
    NumArenas,  \* num_arenas
    TickSkip,   \* get_tick_skip
    SliceTicks, \* sim_time_secs, in ticks
    PhaseTicks  \* max_sim_time_secs, in ticks

ASSUME ArenasAssumption ==
    NumArenas \in Nat /\ TickSkip \in Nat /\ SliceTicks \in Nat /\ PhaseTicks \in Nat

Teams == {0, 1}
ArenaIds == 1..NumArenas
Current == <<"current">>
NextoPolicy == <<"nexto">>

VARIABLES
    match,      \* run_matches: at, job, opponent, team (new_team), ticks, slice (slice_end)
    goals,      \* cur_goals
    resume,     \* <<>> or do_continuation with prev_*: <<[opponent, team, ticks]>>
    arena,      \* of each: the command it has, its episode and its answer
    credited    \* history: who was credited with a goal of the last step, and who had
                \* driven its scorer

matchVars == <<match, goals, resume, credited>>
arenaVars == <<matchVars, arena>>

(* An episode: who has driven each team's car, how many steps there were,  *)
(* and which of them Nexto's next observation of each car shows (0: none). *)
NewEpisode == [drivers |-> [team \in Teams |-> {}], steps |-> 0,
               nexto |-> [team \in Teams |-> 0]]

ArenasInit ==
    /\ match = [at |-> "idle", job |-> <<>>, opponent |-> <<>>, team |-> 0, ticks |-> 0,
                slice |-> 0]
    /\ goals = 0 /\ resume = <<>> /\ credited = {}
    /\ arena = [a \in ArenaIds |->
                   [alive |-> TRUE, command |-> <<>>, episode |-> NewEpisode, answer |-> <<>>]]

-----------------------------------------------------------------------------
(* An arena's thread. *)

(* send_skill_reset *)
ArenaResets(a) ==
    /\ arena[a].command # <<>> /\ arena[a].command[1].kind = "reset"
    /\ arena' = [arena EXCEPT ![a].command = <<>>, ![a].episode = NewEpisode,
                              ![a].answer = <<[scorer |-> <<>>, drove |-> {}]>>]
    /\ UNCHANGED matchVars

(* step_mixed: every car gets its driver's action, Nexto's as raw controls *)
(* that the next observation shows.                                        *)
Stepped(episode, driver) ==
    [drivers |-> [team \in Teams |-> episode.drivers[team] \cup {driver[team]}],
     steps |-> episode.steps + 1,
     nexto |-> [team \in Teams |-> IF driver[team] = NextoPolicy THEN episode.steps + 1
                                   ELSE episode.nexto[team]]]

(* send_skill_step; after a goal the arena starts another episode. *)
ArenaSteps(a, scorer) ==
    /\ arena[a].command # <<>> /\ arena[a].command[1].kind = "step"
    /\ LET episode == Stepped(arena[a].episode, arena[a].command[1].driver)
           drove == IF scorer = <<>> THEN {} ELSE episode.drivers[scorer[1]]
       IN  arena' = [arena EXCEPT
               ![a].command = <<>>,
               ![a].episode = IF scorer = <<>> THEN episode ELSE NewEpisode,
               ![a].answer = <<[scorer |-> scorer, drove |-> drove]>>]
    /\ UNCHANGED matchVars

ArenaEnds(a) ==
    /\ arena[a].command # <<>> /\ arena[a].command[1].kind = "shutdown"
    /\ arena' = [arena EXCEPT ![a].command = <<>>, ![a].alive = FALSE]
    /\ UNCHANGED matchVars

-----------------------------------------------------------------------------
(* The tracker's thread. *)
SendAll(command) == arena' = [a \in ArenaIds |-> [arena[a] EXCEPT !.command = <<command>>]]
AllAnswered == \A a \in ArenaIds : arena[a].answer # <<>>
ClearAnswers == arena' = [a \in ArenaIds |-> [arena[a] EXCEPT !.answer = <<>>]]

SliceEnd(ticks) ==
    LET slice == IF SliceTicks < TickSkip THEN TickSkip ELSE SliceTicks
    IN  IF ticks + slice > PhaseTicks THEN PhaseTicks ELSE ticks + slice

(* Faulty: a continued phase draws its side again. *)
FaultyTeamOf(continued, toss) == toss

TeamOf(continued, toss) == continued.team

(* A job begins: it continues the phase left unfinished if it brings that  *)
(* opponent, or else resets the arenas for its first phase.                *)
BeginJob(job, toss) ==
    /\ match.at = "idle"
    /\ resume' = <<>>
    /\ IF resume # <<>> /\ resume[1].opponent \in ToSet(job)
       THEN /\ match' = [at |-> "play", job |-> job, opponent |-> resume[1].opponent,
                         team |-> TeamOf(resume[1], toss), ticks |-> resume[1].ticks,
                         slice |-> SliceEnd(resume[1].ticks)]
            /\ UNCHANGED <<goals, arena>>
       ELSE /\ match' = [at |-> "reset", job |-> job, opponent |-> Head(job), team |-> toss,
                         ticks |-> 0, slice |-> SliceEnd(0)]
            /\ goals' = 0 /\ SendAll([kind |-> "reset"])
    /\ UNCHANGED credited

(* reset_all_arenas has every answer. *)
CollectResets ==
    /\ match.at = "reset" /\ AllAnswered
    /\ match' = [match EXCEPT !.at = "play"] /\ ClearAnswers
    /\ UNCHANGED <<goals, resume, credited>>

Playing == match.ticks < match.slice /\ goals < NumArenas

Driver == [team \in Teams |-> IF team = match.team THEN Current ELSE match.opponent]

SendSteps ==
    /\ match.at = "play" /\ Playing
    /\ SendAll([kind |-> "step", driver |-> Driver])
    /\ match' = [match EXCEPT !.at = "collect"]
    /\ UNCHANGED <<goals, resume, credited>>

(* Every goal is rated, in the order of the arenas. *)
CollectSteps ==
    /\ match.at = "collect" /\ AllAnswered
    /\ LET scored == {a \in ArenaIds : arena[a].answer[1].scorer # <<>>}
           winner(a) == IF arena[a].answer[1].scorer = <<match.team>> THEN Current
                        ELSE match.opponent
       IN  /\ goals' = goals + Cardinality(scored)
           /\ credited' =
                  {[to |-> winner(a), drove |-> arena[a].answer[1].drove] : a \in scored}
    /\ match' = [match EXCEPT !.at = "play", !.ticks = @ + TickSkip]
    /\ ClearAnswers /\ UNCHANGED resume

Finished == goals >= NumArenas \/ match.ticks >= PhaseTicks

(* The slice is over before the phase is: it is left to be continued. *)
LeavePhase ==
    /\ match.at = "play" /\ ~Playing /\ ~Finished
    /\ resume' = <<[opponent |-> match.opponent, team |-> match.team, ticks |-> match.ticks]>>
    /\ match' = [match EXCEPT !.at = "idle", !.job = <<>>]
    /\ UNCHANGED <<goals, arena, credited>>

NextPhase(toss) ==
    /\ match.at = "play" /\ ~Playing /\ Finished
    /\ goals' = 0
    /\ \E i \in 1..(Len(match.job) - 1) :
          /\ match.job[i] = match.opponent
          /\ match' = [match EXCEPT !.at = "reset", !.opponent = match.job[i + 1],
                                    !.team = toss, !.ticks = 0, !.slice = SliceEnd(0)]
    /\ SendAll([kind |-> "reset"])
    /\ UNCHANGED <<resume, credited>>

(* Faulty: the job is over with its first phase. *)
FaultyEndJob ==
    /\ match.at = "play" /\ ~Playing /\ Finished
    /\ goals' = 0
    /\ match' = [match EXCEPT !.at = "idle", !.job = <<>>]
    /\ UNCHANGED <<resume, arena, credited>>

EndJob ==
    /\ match.at = "play" /\ ~Playing /\ Finished /\ match.opponent = Last(match.job)
    /\ goals' = 0
    /\ match' = [match EXCEPT !.at = "idle", !.job = <<>>]
    /\ UNCHANGED <<resume, arena, credited>>

(* The tracker is dropped: it shuts the arenas down and joins them. *)
DropTracker ==
    /\ match.at = "idle"
    /\ match' = [match EXCEPT !.at = "closing"]
    /\ SendAll([kind |-> "shutdown"])
    /\ UNCHANGED <<goals, resume, credited>>

JoinArenas ==
    /\ match.at = "closing" /\ \A a \in ArenaIds : ~arena[a].alive
    /\ match' = [match EXCEPT !.at = "closed"]
    /\ UNCHANGED <<goals, resume, arena, credited>>

MatchStep ==
    \/ CollectResets \/ SendSteps \/ CollectSteps \/ LeavePhase \/ EndJob \/ JoinArenas
    \/ \E toss \in Teams : NextPhase(toss)

ArenaStep ==
    \E a \in ArenaIds :
        ArenaResets(a) \/ ArenaEnds(a) \/ \E scorer \in {<<>>, <<0>>, <<1>>} : ArenaSteps(a, scorer)

-----------------------------------------------------------------------------
(* An episode is played by the same policy on each side from its kick-off  *)
(* to its goal, over the slices and the jobs a phase takes; the goal is    *)
(* credited to the policy that drove the scorer; and what Nexto is shown   *)
(* as its last action is the one of the step before (run_matches and       *)
(* send_skill_step).                                                       *)
EpisodesAreWhole ==
    /\ \A a \in ArenaIds : \A team \in Teams : Cardinality(arena[a].episode.drivers[team]) <= 1
    /\ \A goal \in credited : goal.drove = {goal.to}
    /\ match.at = "play" /\ match.opponent = NextoPolicy =>
           \A a \in ArenaIds : \A team \in Teams :
               team # match.team => arena[a].episode.nexto[team] = arena[a].episode.steps
=============================================================================
