---------------------------- MODULE MetricsActor ----------------------------
(***************************************************************************)
(* The metrics actor (spawn_metrics_actor, lib.rs) together with the skill *)
(* tracker and the learner's loop it serves.  A report that waits for an   *)
(* evaluation holds back the ones behind it until the update arrives or    *)
(* the learner shuts down.                                                 *)
(***************************************************************************)
EXTENDS SkillTracker, FiniteSets

VARIABLES
    at,         \* the actor's place in its loop
    pending,    \* pending_reports
    completed,  \* completed_skill_updates
    stopping,   \* shutting_down
    emitted     \* history: what went to the sinks

actorVars == <<at, pending, completed, stopping, emitted>>
vars == <<trackerVars, actorVars>>

Init ==
    /\ TrackerInit
    /\ at = "drain" /\ pending = <<>> /\ completed = {} /\ stopping = FALSE
    /\ emitted = <<>>

(* Faulty: a report waits for the next update, whichever it is. *)
FaultyMatches(report, update) == report.waits # <<>>

Matches(report, update) == report.waits = <<update.id>>

(* A report is settled when it does not wait; "fresh" marks one an update  *)
(* has settled, "cut" one that the shutdown has.                           *)
Settled(report, update) ==
    IF Matches(report, update)
    THEN [report EXCEPT !.waits = <<>>, !.shown = update.cur, !.fresh = <<update.id>>]
    ELSE [report EXCEPT !.shown = update.cur]

Kept(update) ==
    IF \E i \in DOMAIN pending : Matches(pending[i], update) THEN {} ELSE {update}

DrainUpdate ==
    /\ at = "drain" /\ skillRx # <<>>
    /\ LET update == Head(skillRx)
       IN  /\ pending' = [i \in DOMAIN pending |-> Settled(pending[i], update)]
           /\ completed' = completed \cup Kept(update)
    /\ skillRx' = Tail(skillRx)
    /\ UNCHANGED <<learnerVars, jobs, results, metricRx, workerVars, at, stopping, emitted>>

(* How many reports at the front can go out. *)
Ready == Cardinality({i \in DOMAIN pending : \A j \in 1..i : pending[j].waits = <<>>})

(* Faulty: every report that waits for nothing goes out. *)
FaultyOutgoing == SelectSeq(pending, LAMBDA report : report.waits = <<>>)

Outgoing == SubSeq(pending, 1, Ready)

Emit ==
    /\ at = "drain" /\ skillRx = <<>>
    /\ emitted' = emitted \o Outgoing
    /\ pending' = SubSeq(pending, Ready + 1, Len(pending))
    /\ at' = IF stopping /\ pending' = <<>> THEN "done" ELSE "receive"
    /\ UNCHANGED <<trackerVars, completed, stopping>>

(* Faulty: a report does not look for an update that came before it. *)
FaultyAnswering(message) == {}

Answering(message) == {update \in completed : message.waits = <<update.id>>}

ReceiveReport ==
    /\ at = "receive" /\ metricRx # <<>> /\ Head(metricRx).n # 0
    /\ LET message == Head(metricRx)
           report == [n |-> message.n, waits |-> message.waits, asked |-> message.waits,
                      shown |-> message.shown, fresh |-> <<>>, cut |-> FALSE]
           known == Answering(message)
       IN  /\ pending' = Append(pending,
                  IF known = {} THEN report
                  ELSE Settled(report, CHOOSE update \in known : TRUE))
           /\ completed' = completed \ known
    /\ metricRx' = Tail(metricRx) /\ at' = "drain"
    /\ UNCHANGED <<learnerVars, jobs, results, skillRx, workerVars, stopping, emitted>>

(* Faulty: the shutdown leaves the reports waiting. *)
FaultyReleased(report) == report

Released(report) == [report EXCEPT !.waits = <<>>, !.cut = report.waits # <<>>]

ReceiveShutdown ==
    /\ at = "receive" /\ metricRx # <<>> /\ Head(metricRx).n = 0
    /\ stopping' = TRUE
    /\ pending' = [i \in DOMAIN pending |-> Released(pending[i])]
    /\ metricRx' = Tail(metricRx) /\ at' = "drain"
    /\ UNCHANGED <<learnerVars, jobs, results, skillRx, workerVars, completed, emitted>>

(* recv_timeout gives up after 50 ms. *)
ReceiveNothing ==
    /\ at = "receive" /\ metricRx = <<>>
    /\ at' = "drain"
    /\ UNCHANGED <<trackerVars, pending, completed, stopping, emitted>>

(* learn returns when the actor has ended. *)
Return ==
    /\ step = "stopped" /\ at = "done"
    /\ step' = "returned"
    /\ UNCHANGED <<mode, iteration, managerVars, evalId, jobs, results, skillRx, metricRx,
                   workerVars, actorVars>>

ActorStep == DrainUpdate \/ Emit \/ ReceiveReport \/ ReceiveShutdown \/ ReceiveNothing

TrackerStep == (WorkerStep \/ LearnerStep \/ WorkerDies) /\ UNCHANGED actorVars

Next == TrackerStep \/ ActorStep \/ Return

Fairness ==
    /\ WF_vars(WorkerStep /\ UNCHANGED actorVars)
    /\ WF_vars(LearnerStep /\ UNCHANGED actorVars)
    /\ WF_vars(ActorStep) /\ WF_vars(Return)

Spec == Init /\ [][Next]_vars /\ Fairness

-----------------------------------------------------------------------------
(* The ratings of evaluations played so far, which the learner or a job    *)
(* under way has, once they are not on their way to the learner.           *)
InFlight == worker.at \in {"tell", "answer"} \/ results # <<>>

(* No evaluation's result is overwritten by a later one: a job starts from *)
(* the ratings of every evaluation before it, and so does the learner when *)
(* none is out; what is saved at the end has them all (apply_result, join).*)
RatingsAccumulate ==
    /\ \A i \in DOMAIN jobs : jobs[i] # <<>> => done \subseteq jobs[i][1].cur
    /\ worker.at = "running" => done \subseteq worker.job[1].cur
    /\ (~InFlight \/ step \in {"stopped", "returned"}) => done \subseteq cur

(* A saved version's rating holds every evaluation played against it: the  *)
(* live copy's when none is out, and that of the copy a job carries, even  *)
(* when the window has dropped the version since the job before.           *)
OpponentRatingsAccumulate ==
    LET duelsOf(t) == {duel[2] : duel \in {d \in duels : d[1] = t}}
        Carries(job) == \A i \in DOMAIN job.version :
                            duelsOf(job.version[i].t) \subseteq job.version[i].ratings
    IN  /\ \A i \in DOMAIN jobs : jobs[i] # <<>> => Carries(jobs[i][1])
        /\ worker.at = "running" => Carries(worker.job[1])
        /\ ~InFlight => \A i \in DOMAIN versions :
                            duelsOf(versions[i].t) \subseteq versions[i].ratings

(* A phase that was interrupted is continued: the next job brings the same *)
(* opponent, whatever the window dropped in between (on_iteration's        *)
(* choice of a version and run_matches' resumption).                       *)
PhasesAreContinued ==
    (worker.at = "running" /\ worker.cont # NoOpponent) => StartOf(worker.job[1]) = worker.cont

(* A report that waited for an evaluation shows that evaluation's ratings  *)
(* when it goes out, unless the shutdown cut it short.                     *)
ShowsItsEvaluation ==
    \A i \in DOMAIN emitted :
        LET report == emitted[i]
        IN  (report.asked # <<>> /\ ~report.cut) =>
                report.asked[1] \in report.shown /\ report.fresh = report.asked

(* The actor keeps an update only for a report that is still to come.      *)
KeepsOnlyAwaited ==
    ~stopping => \A update \in completed :
        \/ \E i \in DOMAIN metricRx : metricRx[i].n # 0 /\ metricRx[i].waits = <<update.id>>
        \/ step = "report" /\ evalId = <<update.id>>
        \/ step = "wait" /\ nextId = update.id

(* What goes out is every report in its order; when the learner returns,   *)
(* all of them have, even if the worker died with a report waiting for it. *)
ReportsInOrder ==
    /\ \A i \in DOMAIN emitted : emitted[i].n = i
    /\ step = "returned" => Len(emitted) = iteration

(* Once the loop ends, learn returns: neither the worker nor a report that *)
(* waits for an evaluation that never ends holds it up.                    *)
LearnReturns == step = "quit" ~> step = "returned"
=============================================================================
