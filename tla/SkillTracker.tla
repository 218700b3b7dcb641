---------------------------- MODULE SkillTracker ----------------------------
(***************************************************************************)
(* The asynchronous skill tracker (agent/skill_tracker.rs): the learner's  *)
(* side, AsyncSkillTracker, and its worker thread, which plays the current *)
(* policy against a saved version and against Nexto and may stop in the    *)
(* middle of a phase, to be continued by the next job.  The learner's loop *)
(* (Learner::learn) drives it and manages the window of saved versions.    *)
(*                                                                         *)
(* A rating is the set of the evaluations folded into it.  A version is    *)
(* named after the iteration that saved it.                                *)
(***************************************************************************)
EXTENDS Naturals, Sequences, SequencesExt

CONSTANTS
    Modes,       \* choices of async_eval, nexto (whether nexto_mmr is set),
                 \* interval (update_interval) and window (max_old_versions)
    MaxIteration \* bound: learner iterations

ASSUME SkillTrackerAssumption ==
    /\ Modes \subseteq [async : BOOLEAN, nexto : BOOLEAN, interval : Nat, window : Nat]
    /\ MaxIteration \in Nat \ {0}

NoOpponent == <<>>
Nexto == <<"nexto">>
Previous(t) == <<"previous", t>>

VARIABLES
    mode,      \* the tracker's configuration
    step,      \* of the learner's loop
    iteration,
    versions,  \* VersionManager's window, oldest first
    cur,       \* cur_ratings
    since,     \* iterations_since_ran
    nextId,    \* next_eval_id
    running,   \* running_eval_id: <<>> or <<id>>
    cont,      \* continuation
    retained,  \* pending_old_version: <<>> or <<version>>
    evalId,    \* what on_iteration returned: <<>> or <<id>>
    jobs, results, skillRx, metricRx,   \* the channels
    worker,    \* the worker thread
    done,      \* history: the evaluations played to their end
    duels      \* history: which versions they were played against

managerVars == <<versions, cur, since, nextId, running, cont, retained>>
learnerVars == <<mode, step, iteration, managerVars, evalId>>
workerVars == <<worker, done, duels>>
trackerVars == <<learnerVars, jobs, results, skillRx, metricRx, workerVars>>

TrackerInit ==
    /\ mode \in Modes
    /\ step = "poll" /\ iteration = 1
    /\ versions = <<>> /\ cur = {} /\ since = 0 /\ nextId = 0
    /\ running = <<>> /\ cont = NoOpponent /\ retained = <<>> /\ evalId = <<>>
    /\ jobs = <<>> /\ results = <<>> /\ skillRx = <<>> /\ metricRx = <<>>
    /\ worker = [at |-> "idle", cont |-> NoOpponent, job |-> <<>>]
    /\ done = {} /\ duels = {}

-----------------------------------------------------------------------------
(* The worker thread. *)

(* eval_opponents *)
OpponentsOf(job) ==
    (IF job.version = <<>> THEN <<>> ELSE <<Previous(job.version[1].t)>>)
    \o (IF mode.nexto THEN <<Nexto>> ELSE <<>>)

(* run_matches resumes the phase the last job left, if it can. *)
StartOf(job) ==
    IF worker.cont \in ToSet(OpponentsOf(job)) THEN worker.cont ELSE OpponentsOf(job)[1]

Folded(job) ==
    IF job.version # <<>> /\ StartOf(job) = Previous(job.version[1].t)
    THEN <<[job.version[1] EXCEPT !.ratings = @ \cup {job.id}]>>
    ELSE job.version

TakeJob ==
    /\ worker.at = "idle" /\ jobs # <<>>
    /\ jobs' = Tail(jobs)
    /\ worker' = IF Head(jobs) = <<>>    \* Shutdown
                 THEN [worker EXCEPT !.at = "gone"]
                 ELSE [worker EXCEPT !.at = "running", !.job = Head(jobs)]
    /\ UNCHANGED <<learnerVars, results, skillRx, metricRx, done, duels>>

(* The matches stop in a phase, or after the last. *)
RunMatches(stop) ==
    /\ worker.at = "running"
    /\ LET job == worker.job[1]
           opponents == OpponentsOf(job)
           start == StartOf(job)
       IN  /\ stop # NoOpponent =>
                \E i, j \in DOMAIN opponents :
                    i <= j /\ opponents[i] = start /\ opponents[j] = stop
           /\ worker' = [at |-> "tell", cont |-> stop,
                         job |-> <<[job EXCEPT !.cur = @ \cup {job.id},
                                               !.version = Folded(job)]>>]
           /\ done' = done \cup {job.id}
           /\ duels' = IF Folded(job) = job.version THEN duels
                       ELSE duels \cup {<<job.version[1].t, job.id>>}
    /\ UNCHANGED <<learnerVars, jobs, results, skillRx, metricRx>>

(* The metrics actor hears of the update before the learner does. *)
TellMetrics ==
    /\ worker.at = "tell"
    /\ skillRx' = Append(skillRx, [id |-> worker.job[1].id, cur |-> worker.job[1].cur])
    /\ worker' = [worker EXCEPT !.at = "answer"]
    /\ UNCHANGED <<learnerVars, jobs, results, metricRx, done, duels>>

Answer ==
    /\ worker.at = "answer"
    /\ results' = Append(results, [job |-> worker.job[1], cont |-> worker.cont])
    /\ worker' = [worker EXCEPT !.at = "idle", !.job = <<>>]
    /\ UNCHANGED <<learnerVars, jobs, skillRx, metricRx, done, duels>>

(* A panic in the matches ends the thread. *)
WorkerDies ==
    /\ worker.at = "running"
    /\ worker' = [worker EXCEPT !.at = "gone", !.job = <<>>]
    /\ jobs' = <<>>
    /\ UNCHANGED <<learnerVars, results, skillRx, metricRx, done, duels>>

-----------------------------------------------------------------------------
(* The learner's side. *)

(* Faulty: the snapshot keeps the ratings it was dispatched with. *)
FaultyRetainedAfter(result) ==
    IF /\ result.cont # NoOpponent /\ result.cont # Nexto
       /\ retained # <<>> /\ result.cont = Previous(retained[1].t)
    THEN retained ELSE <<>>

(* Faulty: the snapshot is dropped with the result. *)
FaultyRetainedDropped(result) == <<>>

RetainedAfter(result) ==
    IF retained # <<>> /\ result.cont = Previous(retained[1].t)
    THEN IF result.job.version # <<>> /\ result.job.version[1].t = retained[1].t
         THEN result.job.version ELSE retained
    ELSE <<>>

(* apply_result *)
Apply(result) ==
    /\ cur' = result.job.cur
    /\ cont' = result.cont
    /\ running' = IF running = <<result.job.id>> THEN <<>> ELSE running
    /\ versions' = [i \in DOMAIN versions |->
            IF result.job.version # <<>> /\ versions[i].t = result.job.version[1].t
            THEN result.job.version[1] ELSE versions[i]]
    /\ retained' = RetainedAfter(result)

(* poll_updates; no more than one evaluation is ever out. *)
PollUpdates ==
    /\ step = "poll"
    /\ step' = "versions"
    /\ IF results = <<>> THEN UNCHANGED <<managerVars, results>>
       ELSE Apply(Head(results)) /\ results' = Tail(results) /\ UNCHANGED <<since, nextId>>
    /\ UNCHANGED <<mode, iteration, evalId, jobs, skillRx, metricRx, workerVars>>

(* The newest versions, as many as the window holds. *)
Newest(seq) ==
    LET n == Len(seq)
    IN  SubSeq(seq, IF n > mode.window THEN n - mode.window + 1 ELSE 1, n)

(* VersionManager::on_iteration; the first iteration always saves one. *)
SaveVersion(crossed) ==
    /\ step = "versions"
    /\ crossed \/ iteration > 1
    /\ versions' = IF crossed THEN Newest(Append(versions, [t |-> iteration, ratings |-> cur]))
                   ELSE versions
    /\ step' = "evaluate"
    /\ UNCHANGED <<mode, iteration, cur, since, nextId, running, cont, retained, evalId,
                   jobs, results, skillRx, metricRx, workerVars>>

Idle == running = <<>>

HasOpponent == versions # <<>> \/ mode.nexto

(* AsyncSkillTracker::on_iteration returns early. *)
NoEvaluation ==
    /\ step = "evaluate"
    /\ \/ ~Idle \/ ~HasOpponent
       \/ since + 1 < mode.interval
    /\ since' = IF Idle /\ HasOpponent THEN since + 1 ELSE since
    /\ evalId' = <<>> /\ step' = "report"
    /\ UNCHANGED <<mode, iteration, versions, cur, nextId, running, cont, retained,
                   jobs, results, skillRx, metricRx, workerVars>>

(* The versions a job may carry: the one to be continued with, live or     *)
(* retained, or else any.                                                  *)
Chosen ==
    LET live == {i \in DOMAIN versions : cont = Previous(versions[i].t)}
        any == IF versions = <<>> THEN {<<>>} ELSE {<<versions[i]>> : i \in DOMAIN versions}
    IN  IF cont = Nexto THEN {<<>>}
        ELSE IF cont = NoOpponent THEN any
        ELSE IF live # {} THEN {<<versions[i]>> : i \in live}
        ELSE IF retained # <<>> /\ cont = Previous(retained[1].t) THEN {retained}
        ELSE any

(* The channel takes one job, and none once the worker is gone. *)
Accepted == worker.at # "gone" /\ jobs = <<>>

Dispatch(version) ==
    /\ step = "evaluate" /\ Idle /\ HasOpponent /\ since + 1 >= mode.interval
    /\ version \in Chosen
    /\ retained' = version
    /\ IF Accepted
       THEN jobs' = <<(<<[id |-> nextId, version |-> version, cur |-> cur]>>)>>
       ELSE UNCHANGED jobs
    /\ IF Accepted /\ mode.async
       THEN /\ since' = 0 /\ nextId' = nextId + 1
            /\ running' = <<nextId>> /\ evalId' = <<nextId>>
       ELSE /\ since' = IF since < mode.interval THEN since + 1 ELSE since
            /\ evalId' = <<>> /\ UNCHANGED <<nextId, running>>
    /\ step' = IF Accepted /\ ~mode.async THEN "wait" ELSE "report"
    /\ UNCHANGED <<mode, iteration, versions, cur, cont, results, skillRx, metricRx, workerVars>>

(* Without async_eval the learner waits for the answer. *)
Answered ==
    /\ step = "wait" /\ results # <<>>
    /\ Apply(Head(results)) /\ results' = Tail(results)
    /\ since' = 0 /\ nextId' = nextId + 1 /\ evalId' = <<nextId>>
    /\ step' = "report"
    /\ UNCHANGED <<mode, iteration, jobs, skillRx, metricRx, workerVars>>

NoAnswer ==
    /\ step = "wait" /\ results = <<>> /\ worker.at = "gone"
    /\ evalId' = <<>> /\ step' = "report"
    /\ UNCHANGED <<mode, iteration, managerVars, jobs, results, skillRx, metricRx, workerVars>>

(* The report waits for the evaluation just sent, or carries the ratings   *)
(* there are.  Then the loop goes on, or the user quits.                   *)
SendReport(quit) ==
    /\ step = "report"
    /\ quit \/ iteration < MaxIteration
    /\ metricRx' = Append(metricRx, [n |-> iteration, waits |-> evalId,
                                     shown |-> IF evalId = <<>> THEN cur ELSE {}])
    /\ step' = IF quit THEN "quit" ELSE "poll"
    /\ iteration' = IF quit THEN iteration ELSE iteration + 1
    /\ UNCHANGED <<mode, managerVars, evalId, jobs, results, skillRx, workerVars>>

(* join: ask the worker to stop... *)
AskWorkerToStop ==
    /\ step = "quit" /\ (jobs = <<>> \/ worker.at = "gone")
    /\ jobs' = IF worker.at = "gone" THEN jobs ELSE <<(<<>>)>>
    /\ step' = "join"
    /\ UNCHANGED <<mode, iteration, managerVars, evalId, results, skillRx, metricRx, workerVars>>

(* Faulty: the result of the last evaluation is left in the channel. *)
FaultyLeftover == <<>>

Leftover == results

(* ... wait for it, and take what it has left.  The metrics actor is told  *)
(* to stop after that.                                                     *)
JoinWorker ==
    /\ step = "join" /\ worker.at = "gone"
    /\ IF Leftover = <<>> THEN UNCHANGED <<managerVars, results>>
       ELSE Apply(Head(Leftover)) /\ results' = Tail(results) /\ UNCHANGED <<since, nextId>>
    /\ metricRx' = Append(metricRx, [n |-> 0])
    /\ step' = "stopped"
    /\ UNCHANGED <<mode, iteration, evalId, jobs, skillRx, workerVars>>

WorkerStep == TakeJob \/ TellMetrics \/ Answer
              \/ \E stop \in {NoOpponent, Nexto} \cup {Previous(t) : t \in 1..MaxIteration} :
                    RunMatches(stop)

LearnerStep == \/ PollUpdates \/ NoEvaluation \/ Answered \/ NoAnswer
               \/ \E b \in BOOLEAN : SaveVersion(b) \/ SendReport(b)
               \/ \E version \in Chosen : Dispatch(version)
               \/ AskWorkerToStop \/ JoinWorker
=============================================================================
