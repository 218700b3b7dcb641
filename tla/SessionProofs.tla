---------------------------- MODULE SessionProofs ----------------------------
(***************************************************************************)
(* Proofs about two parts of a session: the evaluation matches, for any    *)
(* number of arenas, any opponents and jobs, any lengths of slices and     *)
(* phases; and distillation, for any memories, chunks and epochs.          *)
(***************************************************************************)
EXTENDS Arenas, Distill, Ranks, SequenceTheorems

CONSTANT Opponents  \* whoever may be in a job

(* The matches alone: jobs come as they may, until the tracker is dropped. *)
ArenasNext ==
    \/ MatchStep \/ ArenaStep \/ DropTracker
    \/ \E job \in Seq(Opponents) \ {<<>>}, toss \in Teams : BeginJob(job, toss)

ArenasSpec == ArenasInit /\ [][ArenasNext]_arenaVars

-----------------------------------------------------------------------------
(* The inductive invariant. *)
Drivers == Opponents \cup {Current}

Phases == [opponent : Opponents, team : Teams, ticks : Nat]

Commands ==
    [kind : {"reset", "shutdown"}] \cup [kind : {"step"}, driver : [Teams -> Drivers]]

Episodes == [drivers : [Teams -> SUBSET Drivers], steps : Nat, nexto : [Teams -> Nat]]

Scorers == {<<>>, <<0>>, <<1>>}

Answers == [scorer : Scorers, drove : SUBSET Drivers]

Optional(S) == {<<>>} \cup {<<x>> : x \in S}

MatchTypes ==
    [at : {"idle", "reset", "play", "collect", "closing", "closed"}, job : Seq(Opponents),
     opponent : Opponents \cup {<<>>}, team : Teams, ticks : Nat, slice : Nat]

ArenaTypes ==
    [alive : BOOLEAN, command : Optional(Commands), episode : Episodes,
     answer : Optional(Answers)]

TypeOK ==
    /\ match \in MatchTypes
    /\ match.at \in {"reset", "play", "collect"} => match.opponent \in Opponents
    /\ goals \in Nat
    /\ resume \in Optional(Phases)
    /\ arena \in [ArenaIds -> ArenaTypes]

(* Who drives a team in a phase, and an episode of that phase. *)
DriverIn(team, opponent) == [t \in Teams |-> IF t = team THEN Current ELSE opponent]

OfPhase(episode, team, opponent) ==
    \A t \in Teams :
        /\ episode.drivers[t] \subseteq {DriverIn(team, opponent)[t]}
        /\ t # team /\ opponent = NextoPolicy => episode.nexto[t] = episode.steps

(* A thread has its command still, or has answered it. *)
Asked(a, command) ==
    arena[a].command = <<command>> /\ arena[a].answer = <<>>

Answered(a) == arena[a].command = <<>> /\ arena[a].answer # <<>>

Rightly(answer, driver) ==
    \A t \in Teams : answer.scorer = <<t>> => answer.drove = {driver[t]}

ArenaInv(a) ==
    /\ match.at = "reset" =>
           \/ Asked(a, [kind |-> "reset"])
           \/ Answered(a) /\ arena[a].episode = NewEpisode
    /\ match.at \in {"play", "collect"} =>
           OfPhase(arena[a].episode, match.team, match.opponent)
    /\ match.at = "collect" =>
           \/ Asked(a, [kind |-> "step", driver |-> Driver])
           \/ Answered(a) /\ Rightly(arena[a].answer[1], Driver)
    /\ match.at \in {"idle", "play"} => arena[a].command = <<>> /\ arena[a].answer = <<>>
    /\ match.at = "idle" /\ resume # <<>> =>
           OfPhase(arena[a].episode, resume[1].team, resume[1].opponent)
    /\ match.at \in {"closing", "closed"} =>
           arena[a].command \in {<<>>, <<[kind |-> "shutdown"]>>}
    /\ \A t \in Teams : \A x, y \in arena[a].episode.drivers[t] : x = y

Inv ==
    /\ TypeOK
    /\ match.at \in {"reset", "play", "collect"} => resume = <<>>
    /\ \A a \in ArenaIds : ArenaInv(a)
    /\ \A goal \in credited : goal.drove = {goal.to}

-----------------------------------------------------------------------------
(* Lemmas on the operators. *)

(* A command sent to all arenas leaves everything else in them alone. *)
LEMMA SendAllFacts ==
    ASSUME TypeOK, NEW command \in Commands, SendAll(command)
    PROVE  /\ arena' \in [ArenaIds -> ArenaTypes]
           /\ \A a \in ArenaIds : /\ arena'[a].command = <<command>>
                                  /\ arena'[a].episode = arena[a].episode
                                  /\ arena'[a].answer = arena[a].answer
<1>1. ASSUME NEW a \in ArenaIds
      PROVE  /\ [arena[a] EXCEPT !.command = <<command>>] \in ArenaTypes
             /\ arena'[a] = [arena[a] EXCEPT !.command = <<command>>]
  <2>1. <<command>> \in Optional(Commands)
    BY DEF Optional
  <2>2. arena[a] \in ArenaTypes
    BY DEF TypeOK
  <2> QED
    BY <2>1, <2>2 DEF SendAll, ArenaTypes
<1>2. ASSUME NEW a \in ArenaIds
      PROVE  /\ arena'[a].command = <<command>>
             /\ arena'[a].episode = arena[a].episode
             /\ arena'[a].answer = arena[a].answer
  <2>1. arena[a] \in ArenaTypes
    BY DEF TypeOK
  <2> QED
    BY <1>1, <2>1 DEF ArenaTypes
<1>3. arena' \in [ArenaIds -> ArenaTypes]
  BY <1>1 DEF SendAll
<1> QED
  BY <1>2, <1>3

(* Taking the answers leaves everything else alone. *)
LEMMA ClearFacts ==
    ASSUME TypeOK, ClearAnswers
    PROVE  /\ arena' \in [ArenaIds -> ArenaTypes]
           /\ \A a \in ArenaIds : /\ arena'[a].command = arena[a].command
                                  /\ arena'[a].episode = arena[a].episode
                                  /\ arena'[a].answer = <<>>
<1>1. ASSUME NEW a \in ArenaIds
      PROVE  /\ [arena[a] EXCEPT !.answer = <<>>] \in ArenaTypes
             /\ arena'[a] = [arena[a] EXCEPT !.answer = <<>>]
  <2>1. <<>> \in Optional(Answers)
    BY DEF Optional
  <2>2. arena[a] \in ArenaTypes
    BY DEF TypeOK
  <2> QED
    BY <2>1, <2>2 DEF ClearAnswers, ArenaTypes
<1>2. ASSUME NEW a \in ArenaIds
      PROVE  /\ arena'[a].command = arena[a].command
             /\ arena'[a].episode = arena[a].episode
             /\ arena'[a].answer = <<>>
  <2>1. arena[a] \in ArenaTypes
    BY DEF TypeOK
  <2> QED
    BY <1>1, <2>1 DEF ArenaTypes
<1>3. arena' \in [ArenaIds -> ArenaTypes]
  BY <1>1 DEF ClearAnswers
<1> QED
  BY <1>2, <1>3

(* A new episode may be of any phase, and nobody has driven in it. *)
LEMMA NewEpisodeFacts ==
    /\ NewEpisode \in Episodes
    /\ \A team, opponent : OfPhase(NewEpisode, team, opponent)
    /\ \A t \in Teams : \A x, y \in NewEpisode.drivers[t] : x = y
BY DEF NewEpisode, Episodes, OfPhase, Teams

(* A step keeps an episode in its phase if the phase's drivers drive. *)
LEMMA SteppedFacts ==
    ASSUME NEW episode \in Episodes, NEW team \in Teams, NEW opponent \in Opponents,
           OfPhase(episode, team, opponent)
    PROVE  LET after == Stepped(episode, DriverIn(team, opponent))
           IN  /\ after \in Episodes
               /\ OfPhase(after, team, opponent)
               /\ \A t \in Teams : after.drivers[t] = {DriverIn(team, opponent)[t]}
<1> DEFINE driver == DriverIn(team, opponent)
           after == Stepped(episode, driver)
<1>1. driver \in [Teams -> Drivers]
  BY DEF DriverIn, Drivers
<1>2. /\ episode.drivers \in [Teams -> SUBSET Drivers] /\ episode.steps \in Nat
      /\ episode.nexto \in [Teams -> Nat]
  BY DEF Episodes
<1>3. /\ after = [drivers |-> after.drivers, steps |-> after.steps, nexto |-> after.nexto]
      /\ after.drivers = [t \in Teams |-> episode.drivers[t] \cup {driver[t]}]
      /\ after.steps = episode.steps + 1
      /\ after.nexto = [t \in Teams |-> IF driver[t] = NextoPolicy THEN episode.steps + 1
                                        ELSE episode.nexto[t]]
  BY DEF Stepped
<1>4. after \in Episodes
  <2>1. after.drivers \in [Teams -> SUBSET Drivers]
    BY <1>1, <1>2, <1>3
  <2>2. after.nexto \in [Teams -> Nat]
    BY <1>2, <1>3
  <2> QED
    BY <1>2, <1>3, <2>1, <2>2 DEF Episodes
<1>5. \A t \in Teams : after.drivers[t] = {driver[t]}
  BY <1>3 DEF OfPhase
<1>6. \A t \in Teams : t # team /\ opponent = NextoPolicy => after.nexto[t] = after.steps
  BY <1>3 DEF DriverIn
<1> QED
  BY <1>4, <1>5, <1>6 DEF OfPhase

(* A phase's drivers are those of the match. *)
LEMMA DriverIsPhases ==
    ASSUME TypeOK, match.at \in {"reset", "play", "collect"}
    PROVE  /\ Driver = DriverIn(match.team, match.opponent)
           /\ match.team \in Teams /\ match.opponent \in Opponents
           /\ Driver \in [Teams -> Drivers]
<1>1. match.team \in Teams /\ match.opponent \in Opponents
  BY DEF TypeOK, MatchTypes
<1> QED
  BY <1>1 DEF Driver, DriverIn, Drivers

-----------------------------------------------------------------------------
(* Type correctness. *)

(* The end of a slice is a number of ticks. *)
LEMMA SliceEndType == ASSUME NEW ticks \in Nat PROVE SliceEnd(ticks) \in Nat
BY ArenasAssumption DEF SliceEnd

(* A match is a record whose parts can be told. *)
LEMMA MatchParts ==
    ASSUME TypeOK
    PROVE  /\ match.at \in {"idle", "reset", "play", "collect", "closing", "closed"}
           /\ match.job \in Seq(Opponents) /\ match.opponent \in Opponents \cup {<<>>}
           /\ match.team \in Teams /\ match.ticks \in Nat /\ match.slice \in Nat
           /\ resume # <<>> => /\ resume[1] \in Phases /\ resume[1].opponent \in Opponents
                               /\ resume[1].team \in Teams /\ resume[1].ticks \in Nat
           /\ \A a \in ArenaIds : /\ arena[a] \in ArenaTypes /\ arena[a].alive \in BOOLEAN
                                  /\ arena[a].command \in Optional(Commands)
                                  /\ arena[a].episode \in Episodes
                                  /\ arena[a].answer \in Optional(Answers)
<1>1. resume # <<>> => resume[1] \in Phases
  BY DEF TypeOK, Optional
<1>2. \A a \in ArenaIds : arena[a] \in ArenaTypes
  BY DEF TypeOK
<1> QED
  BY <1>1, <1>2 DEF TypeOK, MatchTypes, ArenaTypes, Phases

(* The initial states satisfy the invariant. *)
LEMMA Initially == ArenasInit => Inv
<1> SUFFICES ASSUME ArenasInit PROVE Inv
  OBVIOUS
<1>1. \A a \in ArenaIds : /\ arena[a].command = <<>> /\ arena[a].answer = <<>>
                          /\ arena[a].episode = NewEpisode
  BY DEF ArenasInit
<1>2. TypeOK
  <2>1. match \in MatchTypes
    BY DEF ArenasInit, MatchTypes, Teams
  <2>2. [alive |-> TRUE, command |-> <<>>, episode |-> NewEpisode, answer |-> <<>>] \in ArenaTypes
    BY NewEpisodeFacts DEF ArenaTypes, Optional
  <2>3. arena \in [ArenaIds -> ArenaTypes]
    BY <2>2 DEF ArenasInit
  <2> QED
    BY <2>1, <2>3 DEF TypeOK, ArenasInit, Optional
<1>3. match.at = "idle" /\ resume = <<>> /\ credited = {}
  BY DEF ArenasInit
<1> QED
  BY <1>1, <1>2, <1>3, NewEpisodeFacts DEF Inv, ArenaInv

-----------------------------------------------------------------------------
(* One lemma for each action of the tracker's thread. *)

(* A continued phase finds its arenas as they were left. *)
LEMMA BeginJobStep ==
    ASSUME Inv, NEW job \in Seq(Opponents) \ {<<>>}, NEW toss \in Teams, BeginJob(job, toss)
    PROVE  Inv'
<1> USE DEF Inv
<1>1. match.at = "idle" /\ resume' = <<>> /\ credited' = credited
  BY DEF BeginJob
<1>2. CASE resume # <<>> /\ resume[1].opponent \in ToSet(job)
  <2>1. /\ match' = [at |-> "play", job |-> job, opponent |-> resume[1].opponent,
                     team |-> resume[1].team, ticks |-> resume[1].ticks,
                     slice |-> SliceEnd(resume[1].ticks)]
        /\ goals' = goals /\ arena' = arena
    BY <1>2 DEF BeginJob, TeamOf
  <2>2. TypeOK'
    BY <1>1, <1>2, <2>1, MatchParts, SliceEndType DEF TypeOK, MatchTypes, Optional
  <2>3. \A a \in ArenaIds : ArenaInv(a)'
    BY <1>1, <1>2, <2>1 DEF ArenaInv, OfPhase
  <2> QED
    BY <1>1, <2>2, <2>3
<1>3. CASE ~(resume # <<>> /\ resume[1].opponent \in ToSet(job))
  <2>1. /\ match' = [at |-> "reset", job |-> job, opponent |-> Head(job), team |-> toss,
                     ticks |-> 0, slice |-> SliceEnd(0)]
        /\ goals' = 0 /\ SendAll([kind |-> "reset"])
    BY <1>3 DEF BeginJob
  <2>2. [kind |-> "reset"] \in Commands
    BY DEF Commands
  <2>3. Head(job) \in Opponents
    OBVIOUS
  <2>4. TypeOK'
    BY <1>1, <2>1, <2>2, <2>3, SendAllFacts, SliceEndType DEF TypeOK, MatchTypes, Optional
  <2>5. ASSUME NEW a \in ArenaIds PROVE ArenaInv(a)'
    <3>1. match'.at = "reset" /\ resume' = <<>>
      BY <1>1, <2>1
    <3>2. /\ arena'[a].command = <<[kind |-> "reset"]>> /\ arena'[a].answer = <<>>
          /\ arena'[a].episode = arena[a].episode
      BY <1>1, <2>1, <2>2, SendAllFacts DEF ArenaInv
    <3> QED
      BY <3>1, <3>2 DEF ArenaInv, Asked
  <2> QED
    BY <1>1, <2>4, <2>5
<1> QED
  BY <1>2, <1>3

(* All arenas have begun a new episode when the phase is played. *)
LEMMA CollectResetsStep == ASSUME Inv, CollectResets PROVE Inv'
<1> USE DEF Inv
<1>1. /\ match.at = "reset" /\ AllAnswered /\ match' = [match EXCEPT !.at = "play"]
      /\ ClearAnswers /\ UNCHANGED <<goals, resume, credited>>
  BY DEF CollectResets
<1>2. TypeOK'
  BY <1>1, ClearFacts DEF TypeOK, MatchTypes
<1>3. match'.at = "play" /\ match'.team = match.team /\ match'.opponent = match.opponent
  BY <1>1 DEF TypeOK, MatchTypes
<1>4. ASSUME NEW a \in ArenaIds PROVE ArenaInv(a)'
  <2>1. arena[a].command = <<>> /\ arena[a].episode = NewEpisode
    BY <1>1 DEF ArenaInv, Asked, Answered, AllAnswered
  <2>2. /\ arena'[a].command = <<>> /\ arena'[a].answer = <<>>
        /\ arena'[a].episode = NewEpisode
    BY <1>1, <2>1, ClearFacts
  <2>3. OfPhase(NewEpisode, match.team, match.opponent)
    BY NewEpisodeFacts
  <2>4. \A t \in Teams : \A x, y \in NewEpisode.drivers[t] : x = y
    BY NewEpisodeFacts
  <2> QED
    BY <1>3, <2>2, <2>3, <2>4 DEF ArenaInv
<1> QED
  BY <1>1, <1>2, <1>4

(* The step's drivers are those of the phase. *)
LEMMA SendStepsStep == ASSUME Inv, SendSteps PROVE Inv'
<1> USE DEF Inv
<1> DEFINE command == [kind |-> "step", driver |-> Driver]
<1>1. /\ match.at = "play" /\ SendAll(command) /\ match' = [match EXCEPT !.at = "collect"]
      /\ UNCHANGED <<goals, resume, credited>>
  BY DEF SendSteps
<1>2. command \in Commands
  BY <1>1, DriverIsPhases DEF Commands
<1> HIDE DEF command
<1>3. TypeOK'
  BY <1>1, <1>2, SendAllFacts DEF TypeOK, MatchTypes
<1>4. match'.at = "collect" /\ match'.team = match.team /\ match'.opponent = match.opponent
  BY <1>1 DEF TypeOK, MatchTypes
<1>5. command = [kind |-> "step", driver |-> Driver']
  BY <1>4 DEF Driver, command
<1>6. ASSUME NEW a \in ArenaIds PROVE ArenaInv(a)'
  <2>1. /\ arena'[a].command = <<command>> /\ arena'[a].answer = <<>>
        /\ arena'[a].episode = arena[a].episode
    BY <1>1, <1>2, SendAllFacts DEF ArenaInv
  <2>2. Asked(a, [kind |-> "step", driver |-> Driver])'
    BY <1>5, <2>1 DEF Asked
  <2> QED
    BY <1>1, <1>4, <2>1, <2>2 DEF ArenaInv
<1> QED
  BY <1>1, <1>3, <1>6

(* A goal is credited to the policy that drove the scorer.  What has been  *)
(* taken is cleared, and the phase goes on.                                *)
LEMMA CollectStepsStep == ASSUME Inv, CollectSteps PROVE Inv'
<1> USE DEF Inv
<1> DEFINE scored == {a \in ArenaIds : arena[a].answer[1].scorer # <<>>}
           winner(a) == IF arena[a].answer[1].scorer = <<match.team>> THEN Current
                        ELSE match.opponent
<1>1. /\ match.at = "collect" /\ AllAnswered
      /\ goals' = goals + Cardinality(scored)
      /\ credited' = {[to |-> winner(a), drove |-> arena[a].answer[1].drove] : a \in scored}
      /\ match' = [match EXCEPT !.at = "play", !.ticks = @ + TickSkip]
      /\ ClearAnswers /\ resume' = resume
  BY DEF CollectSteps
<1>2. ASSUME NEW a \in ArenaIds
      PROVE  /\ Answered(a) /\ Rightly(arena[a].answer[1], Driver)
             /\ arena[a].answer[1].scorer \in Scorers
  <2>1. Answered(a) /\ Rightly(arena[a].answer[1], Driver)
    BY <1>1 DEF ArenaInv, Asked, AllAnswered
  <2>2. arena[a].answer[1] \in Answers
    BY <2>1, MatchParts DEF Optional, Answered
  <2> QED
    BY <2>1, <2>2 DEF Answers
<1>3. Cardinality(scored) \in Nat
  <2>1. IsFiniteSet(ArenaIds)
    BY ArenasAssumption, FS_Interval DEF ArenaIds
  <2>2. IsFiniteSet(scored)
    BY <2>1, FS_Subset
  <2> QED
    BY <2>2, FS_CardinalityType
<1>4. TypeOK'
  <2>1. match' \in MatchTypes /\ match'.opponent \in Opponents
    <3>1. match.opponent \in Opponents /\ match.ticks + TickSkip \in Nat
      BY <1>1, ArenasAssumption, DriverIsPhases, MatchParts
    <3>2. match' \in MatchTypes
      BY <1>1, <3>1 DEF TypeOK, MatchTypes
    <3> QED
      BY <1>1, <3>1, <3>2 DEF TypeOK, MatchTypes
  <2> QED
    BY <1>1, <1>3, <2>1, ClearFacts DEF TypeOK
<1>5. match'.at = "play" /\ match'.team = match.team /\ match'.opponent = match.opponent
  BY <1>1 DEF TypeOK, MatchTypes
<1>6. ASSUME NEW a \in ArenaIds PROVE ArenaInv(a)'
  <2>1. /\ arena'[a].command = <<>> /\ arena'[a].answer = <<>>
        /\ arena'[a].episode = arena[a].episode
    BY <1>1, <1>2, ClearFacts DEF Answered
  <2> QED
    BY <1>1, <1>5, <2>1 DEF ArenaInv
<1>7. ASSUME NEW a \in scored PROVE arena[a].answer[1].drove = {winner(a)}
  <2>1. PICK t \in Teams : arena[a].answer[1].scorer = <<t>>
    BY <1>2 DEF Teams, Scorers
  <2>2. arena[a].answer[1].drove = {Driver[t]}
    BY <1>2, <2>1 DEF Rightly
  <2>3. Driver[t] = IF t = match.team THEN Current ELSE match.opponent
    BY DEF Driver
  <2>4. <<t>> = <<match.team>> <=> t = match.team
    OBVIOUS
  <2> QED
    BY <2>1, <2>2, <2>3, <2>4
<1>8. \A goal \in credited' : goal.drove = {goal.to}
  <2> HIDE DEF scored, winner
  <2> QED
    BY <1>1, <1>7
<1>9. resume' = <<>>
  BY <1>1
<1> QED
  BY <1>4, <1>6, <1>8, <1>9

(* A phase that is cut is kept with its side and its opponent. *)
LEMMA LeavePhaseStep == ASSUME Inv, LeavePhase PROVE Inv'
<1> USE DEF Inv
<1> DEFINE kept == [opponent |-> match.opponent, team |-> match.team, ticks |-> match.ticks]
<1>1. /\ match.at = "play" /\ resume' = <<kept>>
      /\ match' = [match EXCEPT !.at = "idle", !.job = <<>>]
      /\ UNCHANGED <<goals, arena, credited>>
  BY DEF LeavePhase
<1>2. kept \in Phases
  BY <1>1, MatchParts, DriverIsPhases DEF Phases
<1>3. match' \in MatchTypes /\ match'.at = "idle"
  <2>1. <<>> \in Seq(Opponents)
    OBVIOUS
  <2> QED
    BY <1>1, <2>1 DEF TypeOK, MatchTypes
<1>4. /\ resume'[1].team = match.team /\ resume'[1].opponent = match.opponent
  BY <1>1
<1>5. TypeOK'
  BY <1>1, <1>2, <1>3 DEF TypeOK, Optional
<1>6. ASSUME NEW a \in ArenaIds PROVE ArenaInv(a)'
  BY <1>1, <1>3, <1>4 DEF ArenaInv
<1> QED
  BY <1>1, <1>5, <1>6

(* The next phase begins with new episodes. *)
LEMMA NextPhaseStep == ASSUME Inv, NEW toss \in Teams, NextPhase(toss) PROVE Inv'
<1> USE DEF Inv
<1>1. PICK i \in 1..(Len(match.job) - 1) :
          match' = [match EXCEPT !.at = "reset", !.opponent = match.job[i + 1],
                                 !.team = toss, !.ticks = 0, !.slice = SliceEnd(0)]
  BY DEF NextPhase
<1>2. /\ match.at = "play" /\ goals' = 0 /\ SendAll([kind |-> "reset"])
      /\ UNCHANGED <<resume, credited>>
  BY DEF NextPhase
<1>3. [kind |-> "reset"] \in Commands
  BY DEF Commands
<1>4. match.job[i + 1] \in Opponents
  BY MatchParts
<1>5. match' \in MatchTypes /\ match'.at = "reset" /\ match'.opponent \in Opponents
  BY <1>1, <1>4, SliceEndType DEF TypeOK, MatchTypes
<1>6. TypeOK'
  BY <1>2, <1>3, <1>5, SendAllFacts DEF TypeOK
<1>7. ASSUME NEW a \in ArenaIds PROVE ArenaInv(a)'
  <2>1. /\ arena'[a].command = <<[kind |-> "reset"]>> /\ arena'[a].answer = <<>>
        /\ arena'[a].episode = arena[a].episode
    BY <1>2, <1>3, SendAllFacts DEF ArenaInv
  <2> QED
    BY <1>5, <2>1 DEF ArenaInv, Asked
<1> QED
  BY <1>2, <1>6, <1>7

(* The job is over; its last phase is not kept. *)
LEMMA EndJobStep == ASSUME Inv, EndJob PROVE Inv'
<1> USE DEF Inv
<1>1. /\ match.at = "play" /\ match' = [match EXCEPT !.at = "idle", !.job = <<>>]
      /\ goals' = 0 /\ UNCHANGED <<resume, arena, credited>>
  BY DEF EndJob
<1>2. match' \in MatchTypes /\ match'.at = "idle"
  <2>1. <<>> \in Seq(Opponents)
    OBVIOUS
  <2> QED
    BY <1>1, <2>1 DEF TypeOK, MatchTypes
<1>3. TypeOK'
  BY <1>1, <1>2 DEF TypeOK
<1>4. ASSUME NEW a \in ArenaIds PROVE ArenaInv(a)'
  BY <1>1, <1>2 DEF ArenaInv
<1> QED
  BY <1>1, <1>3, <1>4

(* The arenas are told to shut down. *)
LEMMA DropTrackerStep == ASSUME Inv, DropTracker PROVE Inv'
<1> USE DEF Inv
<1>1. /\ match.at = "idle" /\ match' = [match EXCEPT !.at = "closing"]
      /\ SendAll([kind |-> "shutdown"]) /\ UNCHANGED <<goals, resume, credited>>
  BY DEF DropTracker
<1>2. [kind |-> "shutdown"] \in Commands
  BY DEF Commands
<1>3. match' \in MatchTypes /\ match'.at = "closing"
  BY <1>1 DEF TypeOK, MatchTypes
<1>4. TypeOK'
  BY <1>1, <1>2, <1>3, SendAllFacts DEF TypeOK
<1>5. ASSUME NEW a \in ArenaIds PROVE ArenaInv(a)'
  <2>1. arena'[a].command = <<[kind |-> "shutdown"]>> /\ arena'[a].episode = arena[a].episode
    BY <1>1, <1>2, SendAllFacts
  <2> QED
    BY <1>3, <2>1 DEF ArenaInv
<1> QED
  BY <1>1, <1>3, <1>4, <1>5

(* Nothing is left to do. *)
LEMMA JoinArenasStep == ASSUME Inv, JoinArenas PROVE Inv'
<1> USE DEF Inv
<1>1. /\ match.at = "closing" /\ match' = [match EXCEPT !.at = "closed"]
      /\ UNCHANGED <<goals, resume, arena, credited>>
  BY DEF JoinArenas
<1>2. match' \in MatchTypes /\ match'.at = "closed"
  BY <1>1 DEF TypeOK, MatchTypes
<1>3. TypeOK'
  BY <1>1, <1>2 DEF TypeOK
<1>4. ASSUME NEW a \in ArenaIds PROVE ArenaInv(a)'
  BY <1>1, <1>2 DEF ArenaInv
<1> QED
  BY <1>1, <1>2, <1>3, <1>4

-----------------------------------------------------------------------------
(* One lemma for each action of an arena's thread. *)

(* An arena is a record of four parts. *)
LEMMA ArenaRebuilt ==
    ASSUME NEW r \in ArenaTypes, NEW command, NEW episode, NEW answer
    PROVE  [r EXCEPT !.command = command, !.episode = episode, !.answer = answer]
           = [alive |-> r.alive, command |-> command, episode |-> episode, answer |-> answer]
<1> DEFINE s == [r EXCEPT !.command = command, !.episode = episode, !.answer = answer]
           t == [alive |-> r.alive, command |-> command, episode |-> episode, answer |-> answer]
<1>1. /\ r = [part \in {"alive", "command", "episode", "answer"} |-> r[part]]
      /\ r.alive = r["alive"]
  BY DEF ArenaTypes
<1>2. s = [part \in {"alive", "command", "episode", "answer"} |-> s[part]]
  BY <1>1
<1>3. s["alive"] = r.alive /\ s["command"] = command /\ s["episode"] = episode
      /\ s["answer"] = answer
  BY <1>1
<1>4. t = [part \in {"alive", "command", "episode", "answer"} |-> t[part]]
  OBVIOUS
<1>5. t["alive"] = r.alive /\ t["command"] = command /\ t["episode"] = episode
      /\ t["answer"] = answer
  OBVIOUS
<1> HIDE DEF s, t
<1>6. s = t
  BY <1>2, <1>3, <1>4, <1>5
<1> QED
  BY <1>6 DEF s, t

(* What a thread does changes its arena only. *)
LEMMA OneArena ==
    ASSUME Inv, UNCHANGED matchVars, NEW a \in ArenaIds, NEW after \in ArenaTypes,
           arena' = [b \in ArenaIds |-> IF b = a THEN after ELSE arena[b]], ArenaInv(a)'
    PROVE  Inv'
<1> USE DEF Inv, matchVars
<1>1. TypeOK'
  BY DEF TypeOK
<1>2. ASSUME NEW b \in ArenaIds PROVE ArenaInv(b)'
  <2>1. CASE b = a
    BY <2>1
  <2>2. CASE b # a
    <3>1. arena'[b] = arena[b]
      BY <2>2 DEF TypeOK
    <3> QED
      BY <3>1 DEF ArenaInv, Asked, Answered, Driver
  <2> QED
    BY <2>1, <2>2
<1> QED
  BY <1>1, <1>2

(* The kind of a command tells where the match is. *)
LEMMA CommandFacts ==
    ASSUME Inv, NEW a \in ArenaIds, arena[a].command # <<>>
    PROVE  /\ arena[a].command[1].kind = "reset" =>
                  match.at = "reset" /\ Asked(a, [kind |-> "reset"])
           /\ arena[a].command[1].kind = "step" =>
                  match.at = "collect" /\ Asked(a, [kind |-> "step", driver |-> Driver])
           /\ arena[a].command[1].kind = "shutdown" => match.at \in {"closing", "closed"}
<1>1. match.at \in {"idle", "reset", "play", "collect", "closing", "closed"}
  BY MatchParts DEF Inv
<1> QED
  BY <1>1 DEF Inv, ArenaInv, Asked, Answered

(* A new episode is of any phase. *)
LEMMA ArenaResetsStep == ASSUME Inv, NEW a \in ArenaIds, ArenaResets(a) PROVE Inv'
<1> DEFINE answer == [scorer |-> <<>>, drove |-> {}]
           after == [alive |-> arena[a].alive, command |-> <<>>, episode |-> NewEpisode,
                     answer |-> <<answer>>]
<1>1. match.at = "reset" /\ UNCHANGED matchVars
  BY CommandFacts DEF ArenaResets
<1>2. arena' = [b \in ArenaIds |-> IF b = a THEN after ELSE arena[b]]
  <2>1. arena[a] \in ArenaTypes /\ DOMAIN arena = ArenaIds
    BY DEF Inv, TypeOK
  <2>2. DOMAIN arena[a] = {"alive", "command", "episode", "answer"}
    BY <2>1 DEF ArenaTypes
  <2>3. arena' = [arena EXCEPT ![a] =
                     [arena[a] EXCEPT !.command = <<>>, !.episode = NewEpisode, !.answer = <<answer>>]]
    BY <2>1, <2>2 DEF ArenaResets
  <2>4. [arena[a] EXCEPT !.command = <<>>, !.episode = NewEpisode, !.answer = <<answer>>] = after
    BY <2>1, ArenaRebuilt
  <2> QED
    BY <2>1, <2>3, <2>4
<1>3. after \in ArenaTypes
  <2>1. answer \in Answers
    BY DEF Answers, Scorers
  <2> QED
    BY <2>1, MatchParts, NewEpisodeFacts DEF ArenaTypes, Optional, Inv
<1>4. ArenaInv(a)'
  <2>1. arena'[a] = after
    BY <1>2 DEF Inv, TypeOK
  <2>2. /\ arena'[a].command = <<>> /\ arena'[a].answer # <<>>
        /\ arena'[a].episode = NewEpisode
    BY <2>1
  <2> QED
    BY <1>1, <2>2, NewEpisodeFacts DEF ArenaInv, Answered, matchVars
<1> QED
  BY <1>1, <1>2, <1>3, <1>4, OneArena

(* The drivers of the phase drive the step, and after a goal there is a    *)
(* new episode.                                                            *)
LEMMA ArenaStepsStep ==
    ASSUME Inv, NEW a \in ArenaIds, NEW scorer \in Scorers, ArenaSteps(a, scorer)
    PROVE  Inv'
<1> DEFINE stepped == Stepped(arena[a].episode, Driver)
           drove == IF scorer = <<>> THEN {} ELSE stepped.drivers[scorer[1]]
           answer == [scorer |-> scorer, drove |-> drove]
           episode == IF scorer = <<>> THEN stepped ELSE NewEpisode
           after == [alive |-> arena[a].alive, command |-> <<>>, episode |-> episode,
                     answer |-> <<answer>>]
<1>1. /\ match.at = "collect" /\ UNCHANGED matchVars
      /\ arena[a].command[1].driver = Driver
  <2>1. match.at = "collect" /\ Asked(a, [kind |-> "step", driver |-> Driver])
    BY CommandFacts DEF ArenaSteps
  <2> QED
    BY <2>1 DEF Asked, ArenaSteps
<1>2. /\ arena[a] \in ArenaTypes /\ DOMAIN arena = ArenaIds
      /\ arena[a].episode \in Episodes /\ OfPhase(arena[a].episode, match.team, match.opponent)
  BY <1>1, MatchParts DEF Inv, TypeOK, ArenaInv
<1>3. /\ Driver = DriverIn(match.team, match.opponent) /\ Driver \in [Teams -> Drivers]
      /\ match.team \in Teams /\ match.opponent \in Opponents
  BY <1>1, DriverIsPhases DEF Inv
<1>4. /\ stepped \in Episodes /\ OfPhase(stepped, match.team, match.opponent)
      /\ \A t \in Teams : stepped.drivers[t] = {Driver[t]}
  BY <1>2, <1>3, SteppedFacts
<1>5. arena' = [b \in ArenaIds |-> IF b = a THEN after ELSE arena[b]]
  <2>1. DOMAIN arena[a] = {"alive", "command", "episode", "answer"}
    BY <1>2 DEF ArenaTypes
  <2>2. arena' = [arena EXCEPT ![a].command = <<>>, ![a].episode = episode,
                               ![a].answer = <<answer>>]
    BY <1>1 DEF ArenaSteps
  <2> HIDE DEF episode, answer
  <2>3. arena' = [arena EXCEPT ![a] =
                     [arena[a] EXCEPT !.command = <<>>, !.episode = episode, !.answer = <<answer>>]]
    BY <1>2, <2>1, <2>2
  <2>4. [arena[a] EXCEPT !.command = <<>>, !.episode = episode, !.answer = <<answer>>] = after
    BY <1>2, ArenaRebuilt
  <2> QED
    BY <1>2, <2>3, <2>4
<1>6. drove \in SUBSET Drivers /\ Rightly(answer, Driver)
  <2>1. CASE scorer = <<>>
    BY <2>1 DEF Rightly
  <2>2. CASE scorer # <<>>
    <3>1. PICK t \in Teams : scorer = <<t>>
      BY <2>2 DEF Teams, Scorers
    <3>2. drove = {Driver[t]}
      BY <1>4, <2>2, <3>1
    <3> HIDE DEF drove
    <3>3. \A u \in Teams : answer.scorer = <<u>> => u = t
      BY <3>1
    <3> QED
      BY <1>3, <3>1, <3>2, <3>3 DEF Rightly
  <2> QED
    BY <2>1, <2>2
<1>7. /\ episode \in Episodes /\ OfPhase(episode, match.team, match.opponent)
      /\ \A t \in Teams : \A x, y \in episode.drivers[t] : x = y
  <2>1. CASE scorer = <<>>
    <3>1. episode = stepped
      BY <2>1
    <3> HIDE DEF stepped, episode
    <3> QED
      BY <1>4, <3>1
  <2>2. CASE scorer # <<>>
    BY <2>2, NewEpisodeFacts
  <2> QED
    BY <2>1, <2>2
<1> HIDE DEF drove, episode
<1>8. after \in ArenaTypes
  <2>1. <<answer>> \in Optional(Answers)
    BY <1>6 DEF Answers, Optional
  <2>2. <<>> \in Optional(Commands)
    BY DEF Optional
  <2> HIDE DEF answer
  <2> QED
    BY <1>2, <1>7, <2>1, <2>2 DEF ArenaTypes
<1>9. ArenaInv(a)'
  <2>1. arena'[a] = after
    BY <1>5
  <2>2. /\ arena'[a].command = <<>> /\ arena'[a].answer # <<>> /\ arena'[a].answer[1] = answer
        /\ arena'[a].episode = episode
    BY <2>1
  <2> HIDE DEF answer, after
  <2>3. Driver' = Driver /\ match' = match /\ resume' = resume
    BY <1>1 DEF matchVars, Driver
  <2>4. Rightly(arena'[a].answer[1], Driver')
    BY <1>6, <2>2, <2>3
  <2> QED
    BY <1>1, <1>7, <2>2, <2>3, <2>4 DEF ArenaInv, Answered
<1> HIDE DEF after
<1> QED
  BY <1>1, <1>5, <1>8, <1>9, OneArena

(* An arena that shuts down keeps its episode. *)
LEMMA ArenaEndsStep == ASSUME Inv, NEW a \in ArenaIds, ArenaEnds(a) PROVE Inv'
<1> DEFINE after == [arena[a] EXCEPT !.command = <<>>, !.alive = FALSE]
<1>1. match.at \in {"closing", "closed"} /\ UNCHANGED matchVars
  BY CommandFacts DEF ArenaEnds
<1>2. arena[a] \in ArenaTypes /\ DOMAIN arena = ArenaIds
  BY DEF Inv, TypeOK
<1>3. DOMAIN arena[a] = {"alive", "command", "episode", "answer"}
  BY <1>2 DEF ArenaTypes
<1>4. arena' = [arena EXCEPT ![a] = after]
  BY <1>2, <1>3 DEF ArenaEnds
<1>5. arena' = [b \in ArenaIds |-> IF b = a THEN after ELSE arena[b]]
  <2> HIDE DEF after
  <2> QED
    BY <1>2, <1>4
<1>6. after \in ArenaTypes /\ after.command = <<>> /\ after.episode = arena[a].episode
  <2>1. <<>> \in Optional(Commands)
    BY DEF Optional
  <2> QED
    BY <1>2, <2>1 DEF ArenaTypes
<1> HIDE DEF after
<1>7. ArenaInv(a)'
  <2>1. arena'[a].command = <<>> /\ arena'[a].episode = arena[a].episode
    BY <1>5, <1>6
  <2> QED
    BY <1>1, <2>1 DEF ArenaInv, Inv, matchVars
<1> QED
  BY <1>1, <1>5, <1>6, <1>7, OneArena

-----------------------------------------------------------------------------
(* The theorems. *)

(* Every step of the matches keeps the invariant. *)
LEMMA StepsKeepInv == Inv /\ [ArenasNext]_arenaVars => Inv'
<1> SUFFICES ASSUME Inv, [ArenasNext]_arenaVars PROVE Inv'
  OBVIOUS
<1>1. CASE UNCHANGED arenaVars
  <2>1. UNCHANGED <<match, goals, resume, credited, arena>>
    BY <1>1 DEF arenaVars, matchVars
  <2> QED
    BY <2>1 DEF Inv, TypeOK, ArenaInv, Asked, Answered, Driver
<1>2. CASE MatchStep
  BY <1>2, CollectResetsStep, SendStepsStep, CollectStepsStep, LeavePhaseStep, EndJobStep,
     JoinArenasStep, NextPhaseStep DEF MatchStep
<1>3. CASE ArenaStep
  BY <1>3, ArenaResetsStep, ArenaEndsStep, ArenaStepsStep DEF ArenaStep, Scorers
<1>4. CASE DropTracker
  BY <1>4, DropTrackerStep
<1>5. CASE \E job \in Seq(Opponents) \ {<<>>}, toss \in Teams : BeginJob(job, toss)
  BY <1>5, BeginJobStep
<1> QED
  BY <1>1, <1>2, <1>3, <1>4, <1>5 DEF ArenasNext

(* The invariant says that episodes are whole. *)
LEMMA InvIsEnough == Inv => EpisodesAreWhole
<1> SUFFICES ASSUME Inv PROVE EpisodesAreWhole
  OBVIOUS
<1>1. ASSUME NEW a \in ArenaIds, NEW team \in Teams
      PROVE  Cardinality(arena[a].episode.drivers[team]) <= 1
  <2> DEFINE who == arena[a].episode.drivers[team]
  <2>1. \A x, y \in who : x = y
    BY DEF Inv, ArenaInv
  <2>2. who = {} \/ \E x : who = {x}
    BY <2>1
  <2> HIDE DEF who
  <2>3. CASE who = {}
    <3>1. Cardinality(who) = 0
      BY <2>3, FS_EmptySet
    <3> QED
      BY <3>1 DEF who
  <2>4. ASSUME NEW x, who = {x} PROVE Cardinality(who) <= 1
    <3>1. Cardinality(who) = 1
      BY <2>4, FS_Singleton
    <3> QED
      BY <3>1
  <2> QED
    BY <2>2, <2>3, <2>4 DEF who
<1>2. \A goal \in credited : goal.drove = {goal.to}
  BY DEF Inv
<1>3. match.at = "play" /\ match.opponent = NextoPolicy =>
          \A a \in ArenaIds : \A team \in Teams :
              team # match.team => arena[a].episode.nexto[team] = arena[a].episode.steps
  BY DEF Inv, ArenaInv, OfPhase
<1> QED
  BY <1>1, <1>2, <1>3 DEF EpisodesAreWhole

(* The state of the matches keeps its types: whatever the jobs and the     *)
(* arenas do, an opponent is being played while a phase is under way, and  *)
(* only phases that were played are kept (run_matches).                    *)
THEOREM ArenasTyped == ArenasSpec => []TypeOK
<1>1. Inv => TypeOK
  BY DEF Inv
<1> QED
  BY <1>1, Initially, StepsKeepInv, PTL DEF ArenasSpec

(* For any number of arenas and any sequence of jobs an episode is played  *)
(* by one policy on each side, goals are credited to who drove the scorer, *)
(* and Nexto is shown its own last action (run_matches, send_skill_step).  *)
THEOREM EpisodesWhole == ArenasSpec => []EpisodesAreWhole
BY Initially, StepsKeepInv, InvIsEnough, PTL DEF ArenasSpec

-----------------------------------------------------------------------------
(* The matches keep their promise (Matches). *)

Promise == INSTANCE Matches WITH
    Jobs <- Seq(Opponents) \ {<<>>},
    job <- match.job,
    opponent <- IF match.job = <<>> THEN <<>> ELSE match.opponent,
    left <- IF resume = <<>> THEN <<>> ELSE resume[1].opponent

(* There is a job as long as its phases are under way. *)
JobInv == match.job # <<>> <=> match.at \in {"reset", "play", "collect"}

(* There is a job exactly while one is played. *)
LEMMA JobStays == Inv /\ JobInv /\ [ArenasNext]_arenaVars => JobInv'
<1> SUFFICES ASSUME Inv, JobInv, [ArenasNext]_arenaVars PROVE JobInv'
  OBVIOUS
<1> USE DEF JobInv
<1>1. match \in MatchTypes
  BY DEF Inv, TypeOK
<1>2. CASE UNCHANGED arenaVars
  BY <1>2 DEF arenaVars, matchVars
<1>3. CASE CollectResets \/ SendSteps \/ CollectSteps \/ LeavePhase \/ EndJob \/ JoinArenas
  BY <1>1, <1>3
  DEF CollectResets, SendSteps, CollectSteps, LeavePhase, EndJob, JoinArenas, MatchTypes
<1>4. ASSUME NEW toss \in Teams, NextPhase(toss) PROVE JobInv'
  BY <1>1, <1>4 DEF NextPhase, MatchTypes
<1>5. CASE ArenaStep
  BY <1>5 DEF ArenaStep, ArenaResets, ArenaSteps, ArenaEnds, matchVars
<1>6. CASE DropTracker
  BY <1>1, <1>6 DEF DropTracker, MatchTypes
<1>7. ASSUME NEW job \in Seq(Opponents) \ {<<>>}, NEW toss \in Teams, BeginJob(job, toss)
      PROVE  JobInv'
  BY <1>7 DEF BeginJob
<1> QED
  BY <1>2, <1>3, <1>4, <1>5, <1>6, <1>7 DEF ArenasNext, MatchStep

(* A step of the matches is one the promise allows, or none of its         *)
(* concern.                                                                *)
LEMMA StepsKeepPromise ==
    ASSUME <<>> \notin Opponents, Inv, JobInv, [ArenasNext]_arenaVars
    PROVE  [Promise!Next]_(Promise!vars)
<1> USE DEF JobInv
<1>1. match \in MatchTypes
  BY DEF Inv, TypeOK
<1>2. match.at \in {"reset", "play", "collect"} =>
          resume = <<>> /\ match.opponent \in Opponents /\ match.opponent # <<>>
  BY DEF Inv, TypeOK
<1>3. resume # <<>> => resume[1].opponent # <<>>
  BY MatchParts DEF Inv
<1>4. CASE UNCHANGED <<match, resume>>
  BY <1>4 DEF Promise!vars
<1>5. CASE CollectResets \/ SendSteps \/ CollectSteps \/ JoinArenas \/ DropTracker
  <2>1. match'.job = match.job /\ match'.opponent = match.opponent /\ resume' = resume
    BY <1>1, <1>5
    DEF CollectResets, SendSteps, CollectSteps, JoinArenas, DropTracker, MatchTypes
  <2> QED
    BY <2>1 DEF Promise!vars
<1>6. CASE LeavePhase
  <2>1. /\ match.job # <<>> /\ match'.job = <<>> /\ resume' # <<>>
        /\ resume'[1].opponent = match.opponent /\ match.opponent # <<>>
    BY <1>1, <1>2, <1>6 DEF LeavePhase, MatchTypes
  <2> QED
    BY <2>1 DEF Promise!Next, Promise!Plays, Promise!Stop, Promise!Nobody
<1>7. CASE EndJob
  <2>1. /\ match.job # <<>> /\ match'.job = <<>> /\ resume' = <<>>
        /\ match.opponent = Last(match.job)
    BY <1>1, <1>2, <1>7 DEF EndJob, MatchTypes
  <2> QED
    BY <2>1 DEF Promise!Next, Promise!Plays, Promise!Stop, Promise!Nobody, Promise!Last, Last
<1>8. ASSUME NEW toss \in Teams, NextPhase(toss) PROVE Promise!Next
  <2>1. PICK i \in 1..(Len(match.job) - 1) :
            /\ match.job[i] = match.opponent
            /\ match' = [match EXCEPT !.at = "reset", !.opponent = match.job[i + 1],
                                      !.team = toss, !.ticks = 0, !.slice = SliceEnd(0)]
    BY <1>8 DEF NextPhase
  <2>2. /\ match.job # <<>> /\ match'.job = match.job /\ match'.opponent = match.job[i + 1]
        /\ resume' = resume
    BY <1>1, <1>8, <2>1 DEF NextPhase, MatchTypes
  <2> QED
    BY <2>1, <2>2 DEF Promise!Next, Promise!Plays, Promise!Advance
<1>9. CASE ArenaStep
  BY <1>4, <1>9 DEF ArenaStep, ArenaResets, ArenaSteps, ArenaEnds, matchVars
<1>10. ASSUME NEW job \in Seq(Opponents) \ {<<>>}, NEW toss \in Teams, BeginJob(job, toss)
       PROVE  Promise!Next
  <2>1. match.job = <<>> /\ match'.job = job /\ job # <<>> /\ resume' = <<>>
    BY <1>10 DEF BeginJob
  <2>2. <<>> \notin ToSet(job)
    BY DEF ToSet
  <2>3. match'.opponent = IF resume # <<>> /\ resume[1].opponent \in ToSet(job)
                          THEN resume[1].opponent ELSE Head(job)
    BY <1>10 DEF BeginJob
  <2> QED
    BY <2>1, <2>2, <2>3
    DEF Promise!Next, Promise!Begin, Promise!First, Promise!Nobody, Promise!ToSet, ToSet
<1> QED
  BY <1>4, <1>5, <1>6, <1>7, <1>8, <1>9, <1>10 DEF ArenasNext, MatchStep, arenaVars, matchVars

(* The phases, slices and arenas implement the promise: opponents are      *)
(* played in the order of the job, from the one left unfinished, and the   *)
(* one that is left is the one that was played (run_matches).              *)
THEOREM MatchesKeepPromise ==
    ASSUME <<>> \notin Opponents
    PROVE  ArenasSpec => Promise!Init /\ [][Promise!Next]_(Promise!vars)
<1>1. ArenasInit => Promise!Init /\ JobInv
  BY DEF ArenasInit, Promise!Init, Promise!Nobody, JobInv
<1> QED
  BY <1>1, Initially, StepsKeepInv, JobStays, StepsKeepPromise, PTL DEF ArenasSpec

-----------------------------------------------------------------------------
(* Distillation alone: one memory after the other (in a session            *)
(* Learner::transfer_learn begins each of them).                           *)
DistillNext == DistillStep \/ \E n \in Nat : BeginDistill(n)

DistillSpec == DistillInit /\ [][DistillNext]_distillVars

ChunkGradients == [rows : SUBSET Int, taught : SUBSET Int]

(* The rows of chunk i, counted from 1. *)
Part(n, i) == Chunk(n, (i - 1) * MiniBatch)

(* The gradients of the first k chunks, each compared with its own scores. *)
Learned(g, n, k) ==
    /\ g \in Seq(ChunkGradients) /\ Len(g) = k
    /\ \A i \in 1..k : g[i] = [rows |-> Part(n, i), taught |-> Part(n, i)]

DistillTypes ==
    /\ distill \in [at : {"idle", "teacher", "student"}, rows : Nat,
                    teacher : Seq(SUBSET Int), epoch : Nat, chunk : Nat]
    /\ gradients \in Seq(ChunkGradients) /\ optimized \in Seq(Seq(ChunkGradients))

ScoredInv == \A i \in 1..Len(distill.teacher) : distill.teacher[i] = Part(distill.rows, i)

PlaceInv ==
    /\ distill.at = "teacher" =>
          /\ distill.rows > 0 /\ Len(distill.teacher) < Chunks(distill.rows)
          /\ gradients = <<>> /\ optimized = <<>> /\ distill.epoch = 0 /\ distill.chunk = 0
    /\ distill.at = "student" =>
          /\ distill.rows > 0 /\ Len(distill.teacher) = Chunks(distill.rows)
          /\ distill.chunk <= Chunks(distill.rows)
          /\ Learned(gradients, distill.rows, distill.chunk)
          /\ Len(optimized) = distill.epoch /\ distill.epoch < Epochs
    /\ distill.at = "idle" => IF distill.rows = 0 THEN optimized = <<>>
                              ELSE Len(optimized) = Epochs

SteppedInv ==
    \A step \in 1..Len(optimized) :
        Learned(optimized[step], distill.rows, Chunks(distill.rows))

DistillInv == DistillTypes /\ ScoredInv /\ PlaceInv /\ SteppedInv

(* A quotient is below another where a multiple tells so. *)
LEMMA ChunkOrder ==
    ASSUME NEW b \in Nat \ {0}, NEW i \in Nat, NEW j \in Nat, NEW r \in 0..(b - 1)
    PROVE  /\ i * b <= j * b + r => i <= j
           /\ j * b + r < i * b + b => j <= i
<1>1. i * b \in Nat /\ j * b \in Nat
  OBVIOUS
<1>2. CASE i > j
  <2>1. PICK x \in Nat : i = j + 1 + x
    <3>1. i - j - 1 \in Nat /\ i = j + 1 + (i - j - 1)
      BY <1>2
    <3> QED
      BY <3>1
  <2> DEFINE d == j * b
             e == x * b
  <2>2. i * b = d + b + e /\ d \in Nat /\ e \in Nat
    BY <2>1
  <2> HIDE DEF d, e
  <2>3. ~(d + b + e <= d + r)
    BY <2>2
  <2>4. ~(i * b <= j * b + r)
    BY <2>2, <2>3 DEF d
  <2> QED
    BY <1>2, <2>4
<1>3. CASE i < j
  <2>1. PICK x \in Nat : j = i + 1 + x
    <3>1. j - i - 1 \in Nat /\ j = i + 1 + (j - i - 1)
      BY <1>3
    <3> QED
      BY <3>1
  <2> DEFINE d == i * b
             e == x * b
  <2>2. j * b = d + b + e /\ d \in Nat /\ e \in Nat
    BY <2>1
  <2> HIDE DEF d, e
  <2>3. ~(d + b + e + r < d + b)
    BY <2>2
  <2>4. ~(j * b + r < i * b + b)
    BY <2>2, <2>3 DEF d
  <2> QED
    BY <1>3, <2>4
<1>4. CASE i = j
  BY <1>4
<1> QED
  BY <1>2, <1>3, <1>4

(* The chunks of a memory have each row once. *)
LEMMA OneChunkPerRow ==
    ASSUME NEW n \in Nat, NEW row \in 0..(n - 1)
    PROVE  /\ Chunks(n) \in Nat
           /\ \E k \in 1..Chunks(n) : \A i \in 1..Chunks(n) : row \in Part(n, i) <=> i = k
<1> DEFINE b == MiniBatch
           q == row \div b
           r == row % b
           K == Chunks(n)
           s == (n + b - 1) % b
<1>1. b \in Nat \ {0} /\ row \in Nat /\ n \in Nat /\ row < n
  BY DistillAssumption
<1>2. q \in Nat /\ r \in 0..(b - 1) /\ row = b * q + r
  BY <1>1
<1>3. K \in Nat /\ s \in 0..(b - 1) /\ n + b - 1 = b * K + s
  <2>1. n + b - 1 \in Nat
    BY <1>1
  <2> QED
    BY <1>1, <2>1 DEF Chunks
<1> HIDE DEF b, q, r, K, s
<1>4. b * q = q * b /\ b * K = K * b /\ q * b \in Nat /\ K * b \in Nat
  BY <1>1, <1>2, <1>3
<1>5. q + 1 <= K
  <2> DEFINE c == q * b
             d == K * b
  <2>1. (q + 1) * b = c + b
    BY <1>1, <1>2
  <2>2. c \in Nat /\ d \in Nat /\ row = c + r /\ n + b - 1 = d + s
    BY <1>2, <1>3, <1>4
  <2> HIDE DEF c, d
  <2>3. c + b <= d + s
    BY <1>1, <1>2, <1>3, <2>2
  <2>4. (q + 1) * b <= K * b + s
    BY <2>1, <2>3 DEF d
  <2> QED
    BY <1>1, <1>2, <1>3, <2>4, ChunkOrder
<1> DEFINE k == q + 1
<1>6. k \in 1..K
  BY <1>2, <1>3, <1>5
<1>7. ASSUME NEW i \in 1..K
      PROVE  row \in Part(n, i) <=> i = k
  <2> DEFINE j == i - 1
             c == j * b
             m == Min({c + b, n})
  <2>1. j \in Nat /\ i = j + 1
    BY <1>3
  <2>2. c \in Nat
    BY <1>1, <2>1
  <2>3. Part(n, i) = c..(m - 1)
    BY DEF Part, Chunk, b
  <2> HIDE DEF c, j
  <2>4. m = (IF c + b < n THEN c + b ELSE n)
    <3> DEFINE S == {c + b, n}
    <3>1. S \in SUBSET Nat /\ S # {}
      BY <1>1, <2>2
    <3> HIDE DEF S
    <3>2. Min(S) \in S /\ \A x \in S : Min(S) <= x
      BY <3>1, MinIsLeast
    <3>3. m \in {c + b, n} /\ m <= c + b /\ m <= n
      BY <3>2 DEF S
    <3> HIDE DEF m
    <3> QED
      BY <1>1, <2>2, <3>3
  <2> HIDE DEF m
  <2>5. row \in Part(n, i) <=> c <= row /\ row < c + b
    BY <1>1, <2>2, <2>3, <2>4
  <2>6. row = q * b + r
    BY <1>2, <1>4
  <2>7. c <= row /\ row < c + b => j = q
    <3> SUFFICES ASSUME c <= row, row < c + b PROVE j = q
      OBVIOUS
    <3>1. j * b <= q * b + r /\ q * b + r < j * b + b
      BY <2>6 DEF c
    <3>2. j <= q /\ q <= j
      BY <1>1, <1>2, <2>1, <3>1, ChunkOrder
    <3> QED
      BY <1>2, <2>1, <3>2
  <2>8. j = q => c <= row /\ row < c + b
    <3> SUFFICES ASSUME j = q PROVE c <= row /\ row < c + b
      OBVIOUS
    <3>1. row = c + r
      BY <2>6 DEF c
    <3> QED
      BY <1>1, <1>2, <2>2, <3>1
  <2> QED
    BY <1>2, <2>1, <2>5, <2>7, <2>8
<1> QED
  BY <1>3, <1>6, <1>7 DEF K

(* A chunk is a set of rows; a memory has at least one. *)
LEMMA PartFacts ==
    /\ \A n, start : Chunk(n, start) \in SUBSET Int
    /\ \A n \in Nat : Chunks(n) \in Nat
    /\ \A n \in Nat : n > 0 => Chunks(n) > 0
<1>1. \A n, start : Chunk(n, start) \in SUBSET Int
  BY DEF Chunk
<1> DEFINE b == MiniBatch
<1>2. b \in Nat \ {0}
  BY DistillAssumption
<1> SUFFICES ASSUME NEW n \in Nat
             PROVE  Chunks(n) \in Nat /\ (n > 0 => Chunks(n) > 0)
  BY <1>1
<1>3. Chunks(n) \in Nat
  <2>1. n + b - 1 \in Nat
    BY <1>2
  <2> QED
    BY <1>2, <2>1 DEF Chunks
<1>4. ASSUME n > 0 PROVE Chunks(n) > 0
  <2>1. 0 \in 0..(n - 1)
    BY <1>4
  <2> QED
    BY <1>3, <2>1, OneChunkPerRow
<1> QED
  BY <1>3, <1>4

(* Nothing has been distilled at first. *)
LEMMA InitDistill == DistillInit => DistillInv
BY DEF DistillInit, DistillInv, DistillTypes, ScoredInv, PlaceInv, SteppedInv

(* A new memory. *)
LEMMA BeginKeeps ==
    ASSUME DistillInv, NEW n \in Nat, BeginDistill(n)
    PROVE  DistillInv'
<1>1. /\ n > 0 /\ gradients' = <<>> /\ optimized' = <<>>
      /\ distill' = [at |-> "teacher", rows |-> n, teacher |-> <<>>, epoch |-> 0, chunk |-> 0]
  BY DEF BeginDistill
<1>2. Chunks(n) > 0 /\ Chunks(n) \in Nat
  BY <1>1, PartFacts
<1> QED
  BY <1>1, <1>2 DEF DistillInv, DistillTypes, ScoredInv, PlaceInv, SteppedInv

(* What an appended sequence is. *)
LEMMA AppendFacts ==
    ASSUME NEW S, NEW s \in Seq(S), NEW x \in S
    PROVE  /\ Append(s, x) \in Seq(S) /\ Len(Append(s, x)) = Len(s) + 1 /\ Len(s) \in Nat
           /\ \A i \in 1..(Len(s) + 1) :
                 Append(s, x)[i] = IF i = Len(s) + 1 THEN x ELSE s[i]
<1>1. Len(s) \in Nat
  BY LenProperties
<1>2. /\ Append(s, x) \in Seq(S) /\ Len(Append(s, x)) = Len(s) + 1
      /\ \A i \in 1..Len(s) : Append(s, x)[i] = s[i]
      /\ Append(s, x)[Len(s) + 1] = x
  BY AppendProperties
<1> DEFINE c == Append(s, x)
           k == Len(s)
<1> HIDE DEF c, k
<1>3. \A i \in 1..(k + 1) : i = k + 1 \/ (i \in 1..k /\ i # k + 1)
  BY <1>1 DEF k
<1> QED
  BY <1>1, <1>2, <1>3 DEF c, k

(* The teacher scores one more chunk. *)
LEMMA ScoresKeep ==
    ASSUME DistillInv, TeacherScores
    PROVE  DistillInv'
<1> DEFINE k == Len(distill.teacher)
           n == distill.rows
           scores == Append(distill.teacher, Chunk(n, k * MiniBatch))
           at == IF Len(scores) = Chunks(n) THEN "student" ELSE "teacher"
<1>1. /\ distill.at = "teacher" /\ gradients' = gradients /\ optimized' = optimized
      /\ distill' = [distill EXCEPT !.teacher = scores,
                                    !.at = IF Len(scores) = Chunks(n) THEN "student" ELSE @]
  BY DEF TeacherScores
<1>2. distill \in [at : {"idle", "teacher", "student"}, rows : Nat,
                   teacher : Seq(SUBSET Int), epoch : Nat, chunk : Nat]
  BY DEF DistillInv, DistillTypes
<1>3. Chunks(n) \in Nat /\ Chunk(n, k * MiniBatch) \in SUBSET Int
  BY <1>2, PartFacts
<1>4. /\ scores \in Seq(SUBSET Int) /\ Len(scores) = k + 1 /\ k \in Nat
      /\ \A i \in 1..(k + 1) :
            scores[i] = IF i = k + 1 THEN Chunk(n, k * MiniBatch) ELSE distill.teacher[i]
  BY <1>2, <1>3, AppendFacts
<1>5. /\ n > 0 /\ k < Chunks(n) /\ gradients = <<>> /\ optimized = <<>>
      /\ distill.epoch = 0 /\ distill.chunk = 0
      /\ \A i \in 1..k : distill.teacher[i] = Part(n, i)
  BY <1>1 DEF DistillInv, PlaceInv, ScoredInv
<1> HIDE DEF scores, k, n
<1>6. \A i \in 1..(k + 1) : scores[i] = Part(n, i)
  <2> SUFFICES ASSUME NEW i \in 1..(k + 1) PROVE scores[i] = Part(n, i)
    OBVIOUS
  <2>1. CASE i = k + 1
    <3>1. i - 1 = k
      BY <1>4, <2>1
    <3> QED
      BY <1>4, <2>1, <3>1 DEF Part
  <2>2. CASE i # k + 1
    <3>1. i \in 1..k
      BY <1>4, <2>2
    <3> QED
      BY <1>4, <1>5, <2>2, <3>1
  <2> QED
    BY <2>1, <2>2
<1>7. /\ distill'.at = at /\ distill'.rows = n /\ distill'.teacher = scores
      /\ distill'.epoch = 0 /\ distill'.chunk = 0
  BY <1>1, <1>2, <1>5 DEF n
<1>8. distill' \in [at : {"idle", "teacher", "student"}, rows : Nat,
                    teacher : Seq(SUBSET Int), epoch : Nat, chunk : Nat]
  BY <1>1, <1>2, <1>4
<1>9. DistillTypes' /\ ScoredInv' /\ SteppedInv'
  BY <1>1, <1>4, <1>5, <1>6, <1>7, <1>8 DEF DistillInv, DistillTypes, ScoredInv, SteppedInv
<1>10. PlaceInv'
  <2>1. CASE Len(scores) = Chunks(n)
    <3>1. distill'.at = "student"
      BY <1>7, <2>1
    <3>2. Learned(gradients', n, 0)
      BY <1>1, <1>5 DEF Learned
    <3>3. 0 <= Chunks(n) /\ 0 < Epochs /\ Len(optimized') = 0
      BY <1>1, <1>3, <1>5, DistillAssumption
    <3> QED
      BY <1>5, <1>7, <2>1, <3>1, <3>2, <3>3 DEF PlaceInv
  <2>2. CASE Len(scores) # Chunks(n)
    <3>1. distill'.at = "teacher" /\ Len(scores) < Chunks(n)
      BY <1>3, <1>4, <1>5, <1>7, <2>2
    <3> QED
      BY <1>1, <1>5, <1>7, <3>1 DEF PlaceInv
  <2> QED
    BY <2>1, <2>2
<1> QED
  BY <1>9, <1>10 DEF DistillInv

(* The student learns from one more chunk. *)
LEMMA LearnsKeep ==
    ASSUME DistillInv, StudentLearns
    PROVE  DistillInv'
<1> DEFINE k == distill.chunk
           n == distill.rows
           new == [rows |-> Chunk(n, k * MiniBatch), taught |-> distill.teacher[k + 1]]
           after == Append(gradients, new)
<1>1. /\ distill.at = "student" /\ k < Len(distill.teacher)
      /\ gradients' = after /\ optimized' = optimized
      /\ distill' = [distill EXCEPT !.chunk = @ + 1]
  BY DEF StudentLearns
<1>2. /\ distill \in [at : {"idle", "teacher", "student"}, rows : Nat,
                      teacher : Seq(SUBSET Int), epoch : Nat, chunk : Nat]
      /\ gradients \in Seq(ChunkGradients) /\ optimized \in Seq(Seq(ChunkGradients))
  BY DEF DistillInv, DistillTypes
<1>3. /\ n > 0 /\ Len(distill.teacher) = Chunks(n) /\ k <= Chunks(n)
      /\ Learned(gradients, n, k) /\ Len(optimized) = distill.epoch /\ distill.epoch < Epochs
      /\ \A i \in 1..Len(distill.teacher) : distill.teacher[i] = Part(n, i)
  BY <1>1 DEF DistillInv, PlaceInv, ScoredInv
<1>4. k \in Nat /\ Chunks(n) \in Nat /\ k + 1 \in 1..Chunks(n) /\ (k + 1) - 1 = k
  BY <1>1, <1>2, <1>3, PartFacts
<1>5. new = [rows |-> Part(n, k + 1), taught |-> Part(n, k + 1)]
  <2>1. distill.teacher[k + 1] = Part(n, k + 1)
    BY <1>3, <1>4
  <2>2. Part(n, k + 1) = Chunk(n, k * MiniBatch)
    BY <1>4 DEF Part
  <2> QED
    BY <2>1, <2>2
<1>6. new \in ChunkGradients
  <2>1. Part(n, k + 1) \in SUBSET Int
    BY PartFacts DEF Part
  <2> QED
    BY <1>5, <2>1 DEF ChunkGradients
<1> HIDE DEF new
<1>7. /\ after \in Seq(ChunkGradients) /\ Len(after) = Len(gradients) + 1
      /\ \A i \in 1..(Len(gradients) + 1) :
            after[i] = IF i = Len(gradients) + 1 THEN new ELSE gradients[i]
  BY <1>2, <1>6, AppendFacts
<1> HIDE DEF after, k, n
<1>8. Len(gradients) = k /\ \A i \in 1..k : gradients[i] = [rows |-> Part(n, i), taught |-> Part(n, i)]
  BY <1>3 DEF Learned
<1>9. Learned(after, n, k + 1)
  <2> SUFFICES ASSUME NEW i \in 1..(k + 1)
               PROVE  after[i] = [rows |-> Part(n, i), taught |-> Part(n, i)]
    BY <1>7, <1>8 DEF Learned
  <2>1. CASE i = k + 1
    BY <1>5, <1>7, <1>8, <2>1
  <2>2. CASE i # k + 1
    <3>1. i \in 1..k
      BY <1>4, <2>2
    <3> QED
      BY <1>7, <1>8, <2>2, <3>1
  <2> QED
    BY <2>1, <2>2
<1>10. /\ distill'.at = "student" /\ distill'.rows = n /\ distill'.teacher = distill.teacher
       /\ distill'.epoch = distill.epoch /\ distill'.chunk = k + 1
       /\ distill' \in [at : {"idle", "teacher", "student"}, rows : Nat,
                        teacher : Seq(SUBSET Int), epoch : Nat, chunk : Nat]
  <2> DEFINE S == Seq(SUBSET Int)
             next == distill.chunk + 1
  <2>1. distill \in [at : {"idle", "teacher", "student"}, rows : Nat,
                    teacher : S, epoch : Nat, chunk : Nat] /\ next \in Nat
    BY <1>2
  <2>2. distill' = [distill EXCEPT !.chunk = next]
    BY <1>1
  <2> HIDE DEF S, next
  <2>3. /\ distill'.at = distill.at /\ distill'.rows = distill.rows
        /\ distill'.teacher = distill.teacher
        /\ distill'.epoch = distill.epoch /\ distill'.chunk = next
        /\ distill' \in [at : {"idle", "teacher", "student"}, rows : Nat,
                         teacher : S, epoch : Nat, chunk : Nat]
    BY <2>1, <2>2
  <2> QED
    BY <1>1, <2>3 DEF k, n, S, next
<1>11. DistillTypes' /\ ScoredInv' /\ SteppedInv'
  BY <1>1, <1>2, <1>7, <1>10 DEF DistillInv, DistillTypes, ScoredInv, SteppedInv, n
<1>12. PlaceInv'
  BY <1>1, <1>3, <1>4, <1>9, <1>10 DEF PlaceInv
<1> QED
  BY <1>11, <1>12 DEF DistillInv

(* The optimizer takes the gradients of all chunks. *)
LEMMA StepsKeep ==
    ASSUME DistillInv, OptimizerSteps
    PROVE  DistillInv'
<1> DEFINE n == distill.rows
           after == Append(optimized, gradients)
           at == IF distill.epoch + 1 = Epochs THEN "idle" ELSE "student"
<1>1. /\ distill.at = "student" /\ distill.chunk = Len(distill.teacher)
      /\ optimized' = after /\ gradients' = <<>>
      /\ distill' = [distill EXCEPT !.epoch = @ + 1, !.chunk = 0,
                        !.at = IF distill.epoch + 1 = Epochs THEN "idle" ELSE @]
  BY DEF OptimizerSteps, LeftOver
<1>2. /\ distill \in [at : {"idle", "teacher", "student"}, rows : Nat,
                      teacher : Seq(SUBSET Int), epoch : Nat, chunk : Nat]
      /\ gradients \in Seq(ChunkGradients) /\ optimized \in Seq(Seq(ChunkGradients))
  BY DEF DistillInv, DistillTypes
<1>3. /\ n > 0 /\ Len(distill.teacher) = Chunks(n)
      /\ Learned(gradients, n, Chunks(n)) /\ Len(optimized) = distill.epoch
      /\ distill.epoch < Epochs
      /\ \A step \in 1..Len(optimized) : Learned(optimized[step], n, Chunks(n))
  BY <1>1 DEF DistillInv, PlaceInv, SteppedInv
<1>4. /\ after \in Seq(Seq(ChunkGradients)) /\ Len(after) = Len(optimized) + 1
      /\ Len(optimized) \in Nat
      /\ \A i \in 1..(Len(optimized) + 1) :
            after[i] = IF i = Len(optimized) + 1 THEN gradients ELSE optimized[i]
  <2> DEFINE S == Seq(ChunkGradients)
  <2>1. optimized \in Seq(S) /\ gradients \in S
    BY <1>2
  <2> HIDE DEF S
  <2>2. /\ after \in Seq(S) /\ Len(after) = Len(optimized) + 1
        /\ Len(optimized) \in Nat
        /\ \A i \in 1..(Len(optimized) + 1) :
              after[i] = IF i = Len(optimized) + 1 THEN gradients ELSE optimized[i]
    BY <2>1, AppendFacts
  <2> QED
    BY <2>2 DEF S
<1> HIDE DEF after
<1>5. \A step \in 1..Len(after) : Learned(after[step], n, Chunks(n))
  <2> DEFINE k == Len(optimized)
  <2> SUFFICES ASSUME NEW i \in 1..(k + 1) PROVE Learned(after[i], n, Chunks(n))
    BY <1>4
  <2>1. CASE i = k + 1
    BY <1>3, <1>4, <2>1
  <2>2. CASE i # k + 1
    <3>1. i \in 1..k
      BY <1>4, <2>2
    <3>2. after[i] = optimized[i]
      BY <1>4, <2>2
    <3> QED
      BY <1>3, <3>1, <3>2
  <2> QED
    BY <2>1, <2>2
<1>6. /\ distill'.at = at /\ distill'.rows = n /\ distill'.teacher = distill.teacher
      /\ distill'.epoch = distill.epoch + 1 /\ distill'.chunk = 0
      /\ distill' \in [at : {"idle", "teacher", "student"}, rows : Nat,
                       teacher : Seq(SUBSET Int), epoch : Nat, chunk : Nat]
  <2> DEFINE S == Seq(SUBSET Int)
             next == distill.epoch + 1
  <2>1. distill \in [at : {"idle", "teacher", "student"}, rows : Nat,
                    teacher : S, epoch : Nat, chunk : Nat] /\ next \in Nat
    BY <1>2
  <2>2. distill' = [distill EXCEPT !.epoch = next, !.chunk = 0, !.at = at]
    BY <1>1, <1>2
  <2>3. at \in {"idle", "teacher", "student"}
    OBVIOUS
  <2> HIDE DEF S, next, at
  <2>4. /\ distill'.at = at /\ distill'.rows = distill.rows
        /\ distill'.teacher = distill.teacher
        /\ distill'.epoch = next /\ distill'.chunk = 0
        /\ distill' \in [at : {"idle", "teacher", "student"}, rows : Nat,
                         teacher : S, epoch : Nat, chunk : Nat]
    BY <2>1, <2>2, <2>3
  <2> QED
    BY <2>4 DEF S, next
<1>7. <<>> \in Seq(ChunkGradients) /\ Learned(<<>>, n, 0)
  BY DEF Learned
<1>8. DistillTypes' /\ ScoredInv' /\ SteppedInv'
  BY <1>1, <1>2, <1>4, <1>5, <1>6, <1>7 DEF DistillInv, DistillTypes, ScoredInv, SteppedInv
<1>9. PlaceInv'
  <2>1. Chunks(n) \in Nat /\ distill.epoch \in Nat /\ n \in Nat
    BY <1>2, PartFacts
  <2>2. CASE distill.epoch + 1 = Epochs
    <3>1. distill'.at = "idle" /\ Len(optimized') = Epochs
      BY <1>1, <1>3, <1>4, <1>6, <2>2
    <3> QED
      BY <1>3, <1>6, <3>1 DEF PlaceInv
  <2>3. CASE distill.epoch + 1 # Epochs
    <3>1. distill'.at = "student" /\ distill.epoch + 1 < Epochs /\ 0 <= Chunks(n)
      BY <1>3, <1>6, <2>1, <2>3, DistillAssumption
    <3>2. Len(optimized') = distill.epoch + 1 /\ Learned(gradients', n, 0)
      BY <1>1, <1>3, <1>4, <1>7
    <3> QED
      BY <1>3, <1>6, <3>1, <3>2 DEF PlaceInv
  <2> QED
    BY <2>2, <2>3
<1> QED
  BY <1>8, <1>9 DEF DistillInv

(* Every step keeps the invariant. *)
LEMMA DistillNextKeeps == DistillInv /\ [DistillNext]_distillVars => DistillInv'
<1> SUFFICES ASSUME DistillInv, [DistillNext]_distillVars PROVE DistillInv'
  OBVIOUS
<1>1. CASE DistillStep
  BY <1>1, ScoresKeep, LearnsKeep, StepsKeep DEF DistillStep
<1>2. CASE \E n \in Nat : BeginDistill(n)
  BY <1>2, BeginKeeps
<1>3. CASE UNCHANGED distillVars
  BY <1>3 DEF distillVars, DistillInv, DistillTypes, ScoredInv, PlaceInv, SteppedInv
<1> QED
  BY <1>1, <1>2, <1>3 DEF DistillNext

(* For every memory, size of chunks and number of epochs each optimizer    *)
(* step learns from each row once, against the teacher's scores of that    *)
(* row, and there is one step per epoch (Ppo::transfer_learn).             *)
THEOREM DistillsAll == DistillSpec => []DistillsEachRow
<1>1. DistillInv => DistillsEachRow
  <2> SUFFICES ASSUME DistillInv PROVE DistillsEachRow
    OBVIOUS
  <2> DEFINE n == distill.rows
  <2>1. /\ n \in Nat /\ optimized \in Seq(Seq(ChunkGradients))
        /\ DOMAIN optimized = 1..Len(optimized)
    <3>1. optimized \in Seq(Seq(ChunkGradients)) /\ n \in Nat
      BY DEF DistillInv, DistillTypes
    <3> QED
      BY <3>1, LenProperties
  <2>2. ASSUME NEW step \in DOMAIN optimized, NEW row \in 0..(n - 1)
        PROVE  LET with == {i \in DOMAIN optimized[step] : row \in optimized[step][i].rows}
               IN  Cardinality(with) = 1 /\ \A i \in with : row \in optimized[step][i].taught
    <3> DEFINE g == optimized[step]
               with == {i \in DOMAIN g : row \in g[i].rows}
               K == Chunks(n)
    <3>1. Learned(g, n, K)
      BY <2>1, <2>2 DEF DistillInv, SteppedInv
    <3>2. /\ K \in Nat
          /\ \E k \in 1..K : \A i \in 1..K : row \in Part(n, i) <=> i = k
      BY <2>1, OneChunkPerRow
    <3> HIDE DEF g, n
    <3>3. DOMAIN g = 1..K /\ \A i \in 1..K : g[i].rows = Part(n, i) /\ g[i].taught = Part(n, i)
      <4>1. g \in Seq(ChunkGradients) /\ Len(g) = K
        BY <3>1 DEF Learned
      <4>2. DOMAIN g = 1..K
        BY <4>1, LenProperties
      <4> QED
        BY <3>1, <4>2 DEF Learned
    <3>4. PICK k \in 1..K : \A i \in 1..K : row \in Part(n, i) <=> i = k
      BY <3>2
    <3>5. with = {k}
      BY <3>3, <3>4
    <3>6. Cardinality(with) = 1
      BY <3>5, FS_Singleton
    <3>7. \A i \in with : row \in g[i].taught
      BY <3>3, <3>4, <3>5
    <3> QED
      BY <3>6, <3>7 DEF g
  <2>3. distill.at = "idle" /\ distill.rows > 0 => Len(optimized) = Epochs
    BY <2>1 DEF DistillInv, PlaceInv
  <2> QED
    BY <2>2, <2>3 DEF DistillsEachRow
<1> QED
  BY InitDistill, DistillNextKeeps, <1>1, PTL DEF DistillSpec
=============================================================================
