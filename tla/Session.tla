------------------------------- MODULE Session -------------------------------
(***************************************************************************)
(* The threads of a run and how they talk to each other: the learner's     *)
(* loop (Learner::learn, ::transfer_learn, ::render), the stdin thread,    *)
(* the metrics actor, the render thread, the dashboard, the evaluation     *)
(* arenas, and apart from them the RLBot agent.                            *)
(*                                                                         *)
(* What other modules have in detail is one step here: the rollout         *)
(* (ThreadSim), PPO's update (Learn), saving (Checkpoint, Versions), and   *)
(* an asynchronous evaluation with the actor's bookkeeping (MetricsActor). *)
(***************************************************************************)
EXTENDS Renderer, Dashboard, Wandb, Arenas, Distill, Bot

CONSTANTS
    Sessions,   \* choices of program, dashboard, wandb, render, keys, presses, screens,
                \* evaluates, iterations, limited and fails (the terminal may)
    Versions,   \* saved versions an evaluation may bring
    Rollouts    \* how many rows a distillation may have

VARIABLES
    session,    \* the choice made
    learner,    \* at; iteration; fresh: evaluations it has waited for; keep_running;
                \* told: handled inputs still to be told of
    inputs,     \* the channel of HumanInput
    stdin,      \* what the stdin thread does for the last key; keys still to come; alive
    reports,    \* on their way through the metrics actor; n = 0 is Shutdown
    actor       \* "starts", "runs", "closes", "finishes" or "gone"

learnerVars == <<session, learner, inputs, reports>>
actorVars == <<actor, wandb>>
threadVars == <<learnerVars, stdin, actorVars>>
shownVars == <<rendererVars, dashboardVars>>
playedVars == <<arenaVars, distillVars, botVars>>
vars == <<threadVars, shownVars, playedVars>>

Init ==
    /\ session \in Sessions
    /\ learner = [at |-> IF session.program = "transfer" THEN "stop tracker" ELSE "loop",
                  iteration |-> 0, fresh |-> {}, keepRunning |-> TRUE, told |-> 0]
    /\ inputs = <<>> /\ reports = <<>>
    /\ actor = (IF session.wandb THEN "starts" ELSE "runs") /\ WandbInit(session.wandb)
    /\ stdin = [todo |-> <<>>, presses |-> session.presses, alive |-> TRUE]
    /\ RendererInit(session.render)
    /\ \E screen \in session.screens : DashboardInit(session.dashboard, screen)
    /\ ArenasInit /\ DistillInit /\ BotInit

Runs(program) == session.program = program
Trains == Runs("learn") \/ Runs("transfer")

-----------------------------------------------------------------------------
(* The stdin thread. *)

(* handle_input_char *)
DoneFor(key) ==
    CASE key = "q" -> <<"mouse off", "notice", "quit">>
      [] key = "s" -> <<"notice", "save">>
      [] key = "r" -> <<"flip render", "notify", "notice", "toggled">>
      [] key = "d" -> <<"flip deterministic", "notify", "notice", "toggled">>
      [] key = "p" -> <<"sparklines">>
      [] OTHER -> <<key>>

Presses(key) ==
    /\ stdin.alive /\ stdin.todo = <<>> /\ stdin.presses > 0
    /\ stdin' = [stdin EXCEPT !.todo = DoneFor(key), !.presses = @ - 1]
    /\ UNCHANGED <<learnerVars, actorVars, shownVars, playedVars>>

(* The terminal's events, or the input, come to an end. *)
InputEnds ==
    /\ stdin.alive /\ stdin.todo = <<>>
    /\ stdin' = [stdin EXCEPT !.alive = FALSE]
    /\ UNCHANGED <<learnerVars, actorVars, shownVars, playedVars>>

Does(thing) ==
    /\ stdin.todo # <<>> /\ Head(stdin.todo) = thing
    /\ stdin' = [stdin EXCEPT !.todo = Tail(@), !.alive = @ /\ thing # "quit"]
    /\ UNCHANGED <<session, learner, reports, actorVars, displayVars, playedVars>>

TellsLearner(input) ==
    Does(input) /\ inputs' = Append(inputs, input) /\ UNCHANGED <<rendererVars, tuiRx>>

FlipsRender == Does("flip render") /\ FlipRender /\ UNCHANGED <<inputs, renderer, tuiRx>>

FlipsDeterministic ==
    Does("flip deterministic") /\ FlipDeterministic /\ UNCHANGED <<inputs, renderer, tuiRx>>

NotifiesRenderer == Does("notify") /\ NotifyAll /\ UNCHANGED <<inputs, controls, tuiRx>>

TellsDashboard(command) ==
    Does(command) /\ Send(command) /\ UNCHANGED <<inputs, rendererVars>>

StdinStep ==
    \/ \E input \in {"quit", "save", "toggled"} : TellsLearner(input)
    \/ FlipsRender \/ FlipsDeterministic \/ NotifiesRenderer
    \/ \E command \in {"mouse off", "notice", "sparklines"} \cup ScrollCommands :
          TellsDashboard(command)

-----------------------------------------------------------------------------
(* The learner. *)
Learns(from, to) == learner.at = from /\ learner' = [learner EXCEPT !.at = to]

(* The model goes to the renderer, which is notified after that. *)
BeginIteration ==
    /\ learner.at = "loop" /\ learner.iteration < session.iterations
    /\ learner' = [learner EXCEPT !.at = "notify", !.iteration = @ + 1, !.fresh = {}]
    /\ HandOver(learner.iteration + 1)
    /\ UNCHANGED <<session, inputs, stdin, reports, actorVars, renderer, dashboardVars, playedVars>>

NotifyOfModel ==
    /\ Learns("notify", IF Trains THEN "collect" ELSE "listen")
    /\ NotifyAll
    /\ UNCHANGED <<session, inputs, stdin, reports, actorVars, controls, dashboardVars, playedVars>>

(* num_additional_iterations are done. *)
EndTraining ==
    /\ learner.iteration = session.iterations /\ Learns("loop", "quit")
    /\ UNCHANGED <<session, inputs, stdin, reports, actorVars, shownVars, playedVars>>

(* The rollout.  Without a limit of its own a session is cut at its last   *)
(* iteration: that one waits until the user has quit.                      *)
Collect ==
    /\ session.limited \/ learner.iteration < session.iterations \/ "quit" \in ToSet(inputs)
    /\ Learns("collect", IF Runs("learn") THEN "evaluate" ELSE "distill")
    /\ IF Runs("learn") THEN UNCHANGED distillVars ELSE \E n \in Rollouts : BeginDistill(n)
    /\ UNCHANGED <<session, inputs, stdin, reports, actorVars, shownVars, arenaVars, botVars>>

Distilled ==
    /\ distill.at = "idle" /\ Learns("distill", "report")
    /\ UNCHANGED <<session, inputs, stdin, reports, actorVars, shownVars, playedVars>>

(* PPO's update, and no evaluation now. *)
EvaluatesNothing ==
    /\ session.evaluates # "waits" /\ Learns("evaluate", "report")
    /\ UNCHANGED <<session, inputs, stdin, reports, actorVars, shownVars, playedVars>>

(* The opponents of a job: a saved version, the one to be continued with,  *)
(* and Nexto, which is continued alone (eval_opponents and on_iteration).  *)
JobsNow ==
    LET left == IF resume = <<>> THEN <<>> ELSE resume[1].opponent
    IN  IF left = NextoPolicy THEN {<<left>>}
        ELSE {<<version, NextoPolicy>> :
                 version \in IF left = <<>> THEN Versions ELSE {left}}

(* Without async_eval the learner waits for the evaluation it asks for. *)
Evaluates ==
    /\ session.evaluates = "waits" /\ Learns("evaluate", "await")
    /\ \E job \in JobsNow, toss \in Teams : BeginJob(job, toss)
    /\ UNCHANGED <<session, inputs, stdin, reports, actorVars, shownVars, distillVars, botVars>>

Evaluated ==
    /\ learner.at = "await" /\ match.at = "idle"
    /\ learner' = [learner EXCEPT !.at = "report", !.fresh = {learner.iteration}]
    /\ UNCHANGED <<session, inputs, stdin, reports, actorVars, shownVars, playedVars>>

(* With async_eval the report waits for an evaluation if none is under way. *)
Waits == /\ Runs("learn") /\ session.evaluates = "later"
         /\ \A i \in DOMAIN reports : ~reports[i].waits

SendReport ==
    /\ Learns("report", "drain")
    /\ reports' = Append(reports, [n |-> learner.iteration, waits |-> Waits,
                                   marks |-> learner.fresh])
    /\ UNCHANGED <<session, inputs, stdin, actorVars, shownVars, playedVars>>

(* The asynchronous evaluation is over; its report is marked. *)
EvaluationEnds ==
    /\ \E i \in DOMAIN reports : reports[i].waits
    /\ reports' = [i \in DOMAIN reports |->
                      IF reports[i].waits
                      THEN [reports[i] EXCEPT !.waits = FALSE, !.marks = {reports[i].n}]
                      ELSE reports[i]]
    /\ UNCHANGED <<session, learner, inputs, stdin, actorVars, shownVars, playedVars>>

(* drain_input and handle_input: a checkpoint is saved for every "save",   *)
(* and the inputs after "quit" are left.                                   *)
HandlesInput ==
    /\ learner.at \in {"drain", "listen"} /\ inputs # <<>>
    /\ inputs' = Tail(inputs)
    /\ learner' = [learner EXCEPT
           !.at = IF Head(inputs) # "quit" THEN @ ELSE IF Trains THEN "tell" ELSE "quit",
           !.keepRunning = Head(inputs) # "quit",
           !.told = IF Trains /\ Head(inputs) = "save" THEN @ + 1 ELSE @]
    /\ UNCHANGED <<session, stdin, reports, actorVars, shownVars, playedVars>>

DrainsInput ==
    /\ inputs = <<>> /\ Learns("drain", "tell")
    /\ UNCHANGED <<session, inputs, stdin, reports, actorVars, shownVars, playedVars>>

(* notify_input *)
TellsSaved ==
    /\ learner.at = "tell" /\ learner.told > 0
    /\ learner' = [learner EXCEPT !.told = @ - 1]
    /\ Send("notice")
    /\ UNCHANGED <<session, inputs, stdin, reports, actorVars, rendererVars, displayVars, playedVars>>

(* The loop is left, or goes on with an automatic save if one is due. *)
LeavesLoop ==
    /\ learner.told = 0 /\ ~learner.keepRunning /\ Learns("tell", "quit")
    /\ UNCHANGED <<session, inputs, stdin, reports, actorVars, shownVars, playedVars>>

GoesOn(saves) ==
    /\ learner.told = 0 /\ learner.keepRunning /\ Learns("tell", "loop")
    /\ IF saves THEN Send("notice") ELSE UNCHANGED tuiRx
    /\ UNCHANGED <<session, inputs, stdin, reports, actorVars, rendererVars, displayVars, playedVars>>

(* Without a stdin thread there is nothing to listen for (render). *)
ListensNoMore ==
    /\ inputs = <<>> /\ ~stdin.alive /\ stdin.todo = <<>> /\ Learns("listen", "quit")
    /\ UNCHANGED <<session, inputs, stdin, reports, actorVars, shownVars, playedVars>>

AsksRendererToQuit ==
    /\ Learns("quit", "wake")
    /\ AskToQuit
    /\ UNCHANGED <<session, inputs, stdin, reports, actorVars, renderer, dashboardVars, playedVars>>

WakesRenderer ==
    /\ Learns("wake", IF Runs("learn") THEN "stop tracker"
                      ELSE IF Trains THEN "stop actor" ELSE "join renderer")
    /\ NotifyAll
    /\ UNCHANGED <<session, inputs, stdin, reports, actorVars, controls, dashboardVars, playedVars>>

(* The evaluation under way is waited for, and the tracker is dropped.     *)
(* Distillation has no use for it and does this before its first rollout.  *)
StopsTracker ==
    /\ \A i \in DOMAIN reports : ~reports[i].waits
    /\ Learns("stop tracker", "join tracker")
    /\ DropTracker
    /\ UNCHANGED <<session, inputs, stdin, reports, actorVars, shownVars, distillVars, botVars>>

JoinsTracker ==
    /\ match.at = "closed"
    /\ Learns("join tracker", IF Runs("learn") THEN "stop actor" ELSE "loop")
    /\ UNCHANGED <<session, inputs, stdin, reports, actorVars, shownVars, playedVars>>

(* The last checkpoint is saved, and Shutdown is the last report. *)
StopsActor ==
    /\ Learns("stop actor", "join actor")
    /\ reports' = Append(reports, [n |-> 0, waits |-> FALSE, marks |-> {}])
    /\ UNCHANGED <<session, inputs, stdin, actorVars, shownVars, playedVars>>

JoinsActor ==
    /\ actor = "gone" /\ Learns("join actor", "join renderer")
    /\ UNCHANGED <<session, inputs, stdin, reports, actorVars, shownVars, playedVars>>

LeavesProgram ==
    /\ renderer.at = "gone" /\ Learns("join renderer", "returned")
    /\ UNCHANGED <<session, inputs, stdin, reports, actorVars, shownVars, playedVars>>

LearnerStep ==
    \/ BeginIteration \/ NotifyOfModel \/ EndTraining \/ Collect \/ Distilled
    \/ EvaluatesNothing \/ Evaluates \/ Evaluated \/ SendReport \/ HandlesInput \/ DrainsInput
    \/ TellsSaved \/ LeavesLoop \/ ListensNoMore \/ \E saves \in BOOLEAN : GoesOn(saves)
    \/ AsksRendererToQuit \/ WakesRenderer \/ StopsTracker \/ JoinsTracker
    \/ StopsActor \/ JoinsActor \/ LeavesProgram

-----------------------------------------------------------------------------
(* The metrics actor. *)

(* The dashboard is told of a run that is logged. *)
ActorStarts ==
    /\ actor = "starts" /\ actor' = "runs"
    /\ Send("notice")
    /\ UNCHANGED <<learnerVars, stdin, wandb, rendererVars, displayVars, playedVars>>

(* A report goes to the sinks once it does not wait, in its turn. *)
EmitsReport ==
    /\ actor = "runs" /\ reports # <<>> /\ Head(reports).n # 0 /\ ~Head(reports).waits
    /\ reports' = Tail(reports)
    /\ Offer(Head(reports).n) /\ Update(Head(reports).n, Head(reports).marks)
    /\ UNCHANGED <<session, learner, inputs, stdin, actor, rendererVars, playedVars,
                   tui, latest, overtaken, drawingVars>>

(* TuiHandle::close asks the dashboard to go, and joins it. *)
ClosesDashboard ==
    /\ actor = "runs" /\ reports # <<>> /\ Head(reports).n = 0
    /\ reports' = Tail(reports) /\ actor' = "closes"
    /\ Send("close")
    /\ UNCHANGED <<session, learner, inputs, stdin, wandb, rendererVars, displayVars, playedVars>>

JoinsDashboard ==
    /\ actor = "closes" /\ ~Listens /\ actor' = "finishes"
    /\ HangsUp
    /\ UNCHANGED <<learnerVars, stdin, shownVars, playedVars>>

JoinsWandb ==
    /\ actor = "finishes" /\ WandbIsGone /\ actor' = "gone"
    /\ UNCHANGED <<learnerVars, stdin, wandb, shownVars, playedVars>>

ActorStep == ActorStarts \/ EmitsReport \/ ClosesDashboard \/ JoinsDashboard \/ JoinsWandb

-----------------------------------------------------------------------------
(* The other threads. *)
RendererThread == RendererStep /\ UNCHANGED <<threadVars, dashboardVars, playedVars>>
RendererFails == MessagesFail /\ UNCHANGED <<threadVars, dashboardVars, playedVars>>
WandbThread == WandbStep /\ UNCHANGED <<learnerVars, stdin, actor, shownVars, playedVars>>
TuiThread == TuiStep(session.screens) /\ UNCHANGED <<threadVars, rendererVars, playedVars>>
TuiFailure == session.fails /\ TuiFails /\ UNCHANGED <<threadVars, rendererVars, playedVars>>
TrackerThread == MatchStep /\ UNCHANGED <<threadVars, shownVars, distillVars, botVars>>
ArenaThreads == ArenaStep /\ UNCHANGED <<threadVars, shownVars, distillVars, botVars>>
Distilling == DistillStep /\ UNCHANGED <<threadVars, shownVars, arenaVars, botVars>>
BotPackets == /\ Runs("bot") /\ NextPacket
              /\ UNCHANGED <<threadVars, shownVars, arenaVars, distillVars>>
BotMatches == /\ Runs("bot") /\ MatchStartsAgain
              /\ UNCHANGED <<threadVars, shownVars, arenaVars, distillVars>>
LearnerThread == ~Runs("bot") /\ LearnerStep
StdinThread == ~Runs("bot") /\ StdinStep
Keyboard == session.keys # {} /\ (InputEnds \/ \E key \in session.keys : Presses(key))

(* The threads that work their way to an end, and the packets of a match.  *)
Work ==
    \/ LearnerThread \/ StdinThread \/ ActorStep \/ WandbThread \/ EvaluationEnds
    \/ TrackerThread \/ ArenaThreads \/ Distilling \/ BotPackets

Next == \/ Work \/ RendererThread \/ TuiThread \/ Keyboard \/ RendererFails \/ TuiFailure
        \/ BotMatches

(* The threads are scheduled: one that has work to do gets on, and so do   *)
(* the two that run in a loop of their own.  The user, the terminal and    *)
(* RLViser need do nothing.                                                *)
Fairness == WF_vars(Work) /\ WF_vars(RendererThread) /\ WF_vars(TuiThread)

Spec == Init /\ [][Next]_vars /\ Fairness

-----------------------------------------------------------------------------
(* Once the user has quit, or there is a limit of iterations, the program  *)
(* returns, whatever the renderer is doing, whether the dashboard keeps    *)
(* up, has failed or has its channel full, and with an evaluation under    *)
(* way (handle_input_char, the end of learn, Renderer::run,                *)
(* TuiHandle::close, run_matches).                                         *)
Returns == (Trains /\ session.limited) \/ "quit" \in ToSet(stdin.todo) ~> learner.at = "returned"

(* A rating that was sent as fresh enters the history the dashboard draws, *)
(* although updates share a slot and a wake-up may be dropped; unless the  *)
(* dashboard ends, or takes another update in the same turn.               *)
FreshRatingShown ==
    ~(marked \subseteq shown) ~> (marked \subseteq shown \cup overtaken \/ ~Listens)

(* What is drawn is the best way to put the groups into columns there is,  *)
(* whatever the planner pruned and even if it is a layout it had kept      *)
(* (LayoutPlanCache, ColumnSearch).                                        *)
LayoutIsBest ==
    [][drawn' # drawn /\ drawn' # <<>> =>
          IsBest(drawn'[1].groups, drawn'[1].grid, drawn'[1].columns)]_vars

(* The matches keep their promise, over slices and arenas that answer in   *)
(* any order, and an evaluation comes to an end (run_matches).             *)
Promise == INSTANCE Matches WITH
    Jobs <- {<<version, NextoPolicy>> : version \in Versions} \cup {<<NextoPolicy>>},
    job <- match.job,
    opponent <- IF match.job = <<>> THEN <<>> ELSE match.opponent,
    left <- IF resume = <<>> THEN <<>> ELSE resume[1].opponent

ImplementsMatches == Promise!Spec
=============================================================================
