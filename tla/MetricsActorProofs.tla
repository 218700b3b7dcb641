------------------------- MODULE MetricsActorProofs -------------------------
(***************************************************************************)
(* Proofs about MetricsActor: the evaluation that is out carries every     *)
(* rating there is, and every report that waits for one gets it.           *)
(***************************************************************************)
EXTENDS MetricsActor, Ranks, SequenceTheorems, TLAPS

Opt(S) == {<<>>} \cup {<<x>> : x \in S}
Version == [t : Nat, ratings : SUBSET Nat]
Job == [id : Nat, version : Opt(Version), cur : SUBSET Nat]
Opponents == {NoOpponent, Nexto} \cup {Previous(t) : t \in Nat}
Update == [id : Nat, cur : SUBSET Nat]
Message == [n : Nat \ {0}, waits : Opt(Nat), shown : SUBSET Nat] \cup [n : {0}]
Report == [n : Nat, waits : Opt(Nat), asked : Opt(Nat), shown : SUBSET Nat,
           fresh : Opt(Nat), cut : BOOLEAN]
Busy == {"running", "tell", "answer"}
Ended == {"stopped", "returned"}
Steps == {"poll", "versions", "evaluate", "wait", "report", "quit", "join"} \cup Ended

TypeInv ==
    /\ mode \in Modes /\ step \in Steps /\ iteration \in Nat
    /\ versions \in Seq(Version) /\ cur \in SUBSET Nat /\ since \in Nat /\ nextId \in Nat
    /\ running \in Opt(Nat) /\ cont \in Opponents /\ retained \in Opt(Version)
    /\ evalId \in Opt(Nat)
    /\ jobs \in Opt(Opt(Job)) /\ results \in Opt([job : Job, cont : Opponents])
    /\ worker \in [at : {"idle", "gone"} \cup Busy, cont : Opponents, job : Opt(Job)]
    /\ done \in SUBSET Nat /\ duels \in SUBSET (Nat \X Nat)

(* The job that is out: in the channel, with the worker, or its result.    *)
Queued == jobs # <<>> /\ jobs[1] # <<>>
Out == Queued \/ worker.at \in Busy \/ results # <<>>
Carried == IF results # <<>> THEN results[1].job
           ELSE IF worker.at \in Busy THEN worker.job[1] ELSE jobs[1][1]

OneInv ==
    /\ Queued => worker.at = "idle" /\ results = <<>>
    /\ worker.at \in Busy => results = <<>> /\ worker.job # <<>>
    /\ worker.at = "gone" => jobs = <<>>
    /\ (jobs # <<>> /\ jobs[1] = <<>>) => step = "join"
    /\ step \in Ended => worker.at = "gone" /\ ~Out
    /\ (Out /\ mode.async) => running = <<Carried.id>> /\ Carried.id < nextId
    /\ (Out /\ ~mode.async) => step = "wait" /\ Carried.id = nextId
    /\ step = "wait" => ~mode.async

FoldInv ==
    /\ Out => done \subseteq Carried.cur
    /\ ~InFlight => done \subseteq cur
    /\ \A x \in done : x < nextId \/ (InFlight /\ x = Carried.id)
    /\ (Out /\ ~InFlight) => Carried.id \notin done
    /\ InFlight => Carried.id \in done

DuelsOf(t) == {duel[2] : duel \in {d \in duels : d[1] = t}}
Past(t) == t < iteration \/ (t = iteration /\ step \notin {"poll", "versions"})
Stale(t) == InFlight /\ Carried.version # <<>> /\ Carried.version[1].t = t
Rated(version) == DuelsOf(version.t) \subseteq version.ratings

DuelInv ==
    /\ (Out /\ Carried.version # <<>>) => Rated(Carried.version[1])
    /\ \A i \in DOMAIN versions : Rated(versions[i]) \/ Stale(versions[i].t)
    /\ retained # <<>> => Rated(retained[1]) \/ Stale(retained[1].t)

PastInv ==
    /\ \A d \in duels : Past(d[1])
    /\ \A i \in DOMAIN versions : Past(versions[i].t)
    /\ retained # <<>> => Past(retained[1].t)
    /\ (Out /\ Carried.version # <<>>) => retained # <<>> /\ retained[1].t = Carried.version[1].t
    /\ (Out /\ Carried.version = <<>>) => retained = <<>>

ContInv ==
    /\ ~InFlight => cont = worker.cont
    /\ results # <<>> => results[1].cont = worker.cont
    /\ worker.cont = Nexto => mode.nexto
    /\ InFlight => worker.cont \in {NoOpponent} \cup ToSet(OpponentsOf(Carried))
    /\ (Out /\ ~InFlight /\ worker.cont # NoOpponent) => worker.cont \in ToSet(OpponentsOf(Carried))
    /\ (~Out /\ worker.at # "gone" /\ worker.cont \notin {NoOpponent, Nexto}) =>
          retained # <<>> /\ worker.cont = Previous(retained[1].t)

TrackerInv == TypeInv /\ OneInv /\ FoldInv /\ DuelInv /\ PastInv /\ ContInv

-----------------------------------------------------------------------------
(* A value there may be.                                                   *)
LEMMA OptFacts ==
    ASSUME NEW S
    PROVE  /\ <<>> \in Opt(S)
           /\ \A x \in S : <<x>> \in Opt(S)
           /\ \A v \in Opt(S) : v # <<>> => v[1] \in S /\ v = <<v[1]>>
<1>1. \A v \in Opt(S) : v # <<>> => \E x \in S : v = <<x>>
  BY DEF Opt
<1>2. \A x \in S : <<x>> \in Opt(S) /\ <<x>>[1] = x
  BY DEF Opt
<1> QED
  BY <1>1, <1>2 DEF Opt

(* An optional value that is there. *)
LEMMA OptHasOne == \A x : <<x>> # <<>> /\ <<x>>[1] = x /\ Head(<<x>>) = x /\ Tail(<<x>>) = <<>>
OBVIOUS

(* The opponents are all different.                                        *)
LEMMA OpponentsDiffer ==
    /\ Nexto # NoOpponent
    /\ \A t \in Nat : Previous(t) # Nexto /\ Previous(t) # NoOpponent
    /\ \A t, u \in Nat : Previous(t) = Previous(u) => t = u
BY DEF Nexto, NoOpponent, Previous

(* Two sequences of one element.                                           *)
LEMMA PairConcat == \A a, b : <<a>> \o <<b>> = <<a, b>>
<1> TAKE a, b
<1> DEFINE S == {a, b}
           x == <<a>>
           y == <<b>>
           z == <<a, b>>
<1>1. /\ x \in Seq(S) /\ y \in Seq(S) /\ z \in Seq(S)
      /\ Len(x) = 1 /\ Len(y) = 1 /\ Len(z) = 2
      /\ x[1] = a /\ y[1] = b /\ z[1] = a /\ z[2] = b
  OBVIOUS
<1> HIDE DEF S, x, y, z
<1>2. /\ x \o y \in Seq(S) /\ Len(x \o y) = 2
      /\ \A i \in 1..2 : (x \o y)[i] = IF i <= 1 THEN x[i] ELSE y[i - 1]
  BY <1>1, ConcatProperties
<1>3. (x \o y)[1] = a /\ (x \o y)[2] = b
  BY <1>1, <1>2
<1>4. \A i \in 1..2 : i = 1 \/ i = 2
  OBVIOUS
<1>5. x \o y = z
  BY <1>1, <1>2, <1>3, <1>4, SeqEqual
<1> QED
  BY <1>5 DEF x, y, z

(* The opponents of a job: its version and Nexto, if there are any.        *)
LEMMA OpponentsAre ==
    ASSUME NEW job
    PROVE  ToSet(OpponentsOf(job)) =
              (IF job.version = <<>> THEN {} ELSE {Previous(job.version[1].t)})
              \cup (IF mode.nexto THEN {Nexto} ELSE {})
<1> DEFINE p == Previous(job.version[1].t)
<1> HIDE DEF p
<1>1. \A a, b : /\ ToSet(<<a>> \o <<b>>) = {a, b}
                /\ ToSet(<<a>> \o <<>>) = {a} /\ ToSet(<<>> \o <<a>>) = {a}
  <2> TAKE a, b
  <2>1. <<a>> \o <<b>> = <<a, b>>
    BY PairConcat
  <2>2. <<a>> \o <<>> = <<a>> /\ <<>> \o <<a>> = <<a>>
    OBVIOUS
  <2>3. ToSet(<<a, b>>) = {a, b} /\ ToSet(<<a>>) = {a}
    BY DEF ToSet
  <2> QED
    BY <2>1, <2>2, <2>3
<1>2. ToSet(<<>> \o <<>>) = {}
  <2>1. <<>> \o <<>> = <<>>
    OBVIOUS
  <2>2. ToSet(<<>>) = {}
    BY DEF ToSet
  <2> QED
    BY <2>1, <2>2
<1>3. OpponentsOf(job) = (IF job.version = <<>> THEN <<>> ELSE <<p>>)
                         \o (IF mode.nexto THEN <<Nexto>> ELSE <<>>)
  BY DEF OpponentsOf, p
<1>4. CASE job.version = <<>> /\ mode.nexto
  BY <1>1, <1>3, <1>4
<1>5. CASE job.version = <<>> /\ ~mode.nexto
  BY <1>2, <1>3, <1>5
<1>6. CASE job.version # <<>> /\ mode.nexto
  <2>1. OpponentsOf(job) = <<p>> \o <<Nexto>>
    BY <1>3, <1>6
  <2> QED
    BY <1>1, <1>6, <2>1 DEF p
<1>7. CASE job.version # <<>> /\ ~mode.nexto
  <2>1. OpponentsOf(job) = <<p>> \o <<>>
    BY <1>3, <1>7
  <2> QED
    BY <1>1, <1>7, <2>1 DEF p
<1> QED
  BY <1>4, <1>5, <1>6, <1>7

(* The job that is out is a job; it is in flight once it has been played.  *)
LEMMA CarriedIs ==
    ASSUME TypeInv, OneInv
    PROVE  /\ InFlight => Out
           /\ (Out /\ ~InFlight) => Queued \/ worker.at = "running"
           /\ Out => /\ Carried \in Job /\ Carried.id \in Nat /\ Carried.version \in Opt(Version)
                     /\ Carried.cur \in SUBSET Nat
                     /\ Carried.version # <<>> =>
                          /\ Carried.version[1] \in Version /\ Carried.version[1].t \in Nat
                          /\ Carried.version = <<(Carried.version[1])>>
<1>1. InFlight => Out
  BY DEF InFlight, Out, Busy
<1>2. (Out /\ ~InFlight) => Queued \/ worker.at = "running"
  BY DEF InFlight, Out, Busy
<1>3. /\ Queued => jobs[1][1] \in Job
      /\ worker.at \in Busy => worker.job[1] \in Job
      /\ results # <<>> => results[1].job \in Job
  <2>1. Queued => jobs[1] \in Opt(Job) /\ jobs[1] # <<>>
    BY OptFacts DEF TypeInv, Queued
  <2>2. worker.at \in Busy => worker.job \in Opt(Job) /\ worker.job # <<>>
    BY DEF TypeInv, OneInv
  <2>3. results # <<>> => results[1] \in [job : Job, cont : Opponents]
    BY OptFacts DEF TypeInv
  <2> QED
    BY <2>1, <2>2, <2>3, OptFacts
<1>4. Out => Carried \in Job
  BY <1>3 DEF Out, Carried
<1>5. \A job \in Job : /\ job.id \in Nat /\ job.version \in Opt(Version)
                       /\ job.cur \in SUBSET Nat
  BY DEF Job
<1>6. \A v \in Opt(Version) : v # <<>> => v[1] \in Version /\ v = <<v[1]>>
  BY OptFacts
<1>7. \A v \in Version : v.t \in Nat
  BY DEF Version
<1> QED
  BY <1>1, <1>2, <1>4, <1>5, <1>6, <1>7

TokenSame ==
    /\ (Out' <=> Out) /\ (InFlight' <=> InFlight)
    /\ Out => Carried' = Carried

(* Steps that leave the channels and the worker alone. *)
LEMMA TokenFrame ==
    ASSUME UNCHANGED <<jobs, results, worker>>
    PROVE  TokenSame /\ (Queued' <=> Queued)
BY DEF TokenSame, Out, InFlight, Carried, Queued

(* Steps that leave the job that is out alone. *)
LEMMA FoldFrame ==
    ASSUME TypeInv, OneInv, FoldInv, TokenSame, UNCHANGED <<nextId, cur, done>>
    PROVE  FoldInv'
BY CarriedIs DEF FoldInv, TokenSame

(* Steps that rate nobody. *)
LEMMA DuelFrame ==
    ASSUME TypeInv, OneInv, DuelInv, TokenSame, UNCHANGED <<versions, retained, duels>>
    PROVE  DuelInv'
BY CarriedIs DEF DuelInv, TokenSame, Rated, Stale, DuelsOf

(* Facts about the versions that are in the window. *)
LEMMA VersionFacts ==
    ASSUME TypeInv
    PROVE  /\ \A i \in DOMAIN versions : versions[i] \in Version /\ versions[i].t \in Nat
           /\ Len(versions) \in Nat /\ DOMAIN versions = 1..Len(versions)
           /\ retained # <<>> => /\ retained[1] \in Version /\ retained[1].t \in Nat
                                 /\ retained = <<(retained[1])>>
           /\ \A d \in duels : d[1] \in Nat
           /\ iteration \in Nat /\ nextId \in Nat
<1>1. \A v \in Version : v.t \in Nat
  BY DEF Version
<1>2. \A i \in DOMAIN versions : versions[i] \in Version
  BY LenProperties, ElementOfSeq DEF TypeInv
<1>3. Len(versions) \in Nat /\ DOMAIN versions = 1..Len(versions)
  BY LenProperties DEF TypeInv
<1>4. retained # <<>> => retained[1] \in Version /\ retained = <<(retained[1])>>
  BY OptFacts DEF TypeInv
<1>5. \A d \in duels : d[1] \in Nat
  BY DEF TypeInv
<1> QED
  BY <1>1, <1>2, <1>3, <1>4, <1>5 DEF TypeInv

(* Steps that leave the past alone. *)
LEMMA PastFrame ==
    ASSUME TypeInv, OneInv, PastInv, TokenSame, UNCHANGED <<versions, retained, duels>>,
           \A t \in Nat : Past(t) => Past(t)'
    PROVE  PastInv'
BY CarriedIs, VersionFacts DEF PastInv, TokenSame

(* Steps that leave the continuation alone. *)
LEMMA ContFrame ==
    ASSUME TypeInv, OneInv, ContInv, TokenSame, UNCHANGED <<cont, mode, retained, results>>,
           worker'.cont = worker.cont, worker'.at = "gone" <=> worker.at = "gone"
    PROVE  ContInv'
<1>1. Out => OpponentsOf(Carried)' = OpponentsOf(Carried)
  BY DEF TokenSame, OpponentsOf
<1> QED
  BY <1>1, CarriedIs DEF ContInv, TokenSame

(* The tracker's invariant holds at first. *)
LEMMA InitTracker == Init => TrackerInv
<1> SUFFICES ASSUME Init PROVE TrackerInv
  OBVIOUS
<1> USE SkillTrackerAssumption DEF Init, TrackerInit
<1>1. ~Out /\ ~InFlight /\ ~Queued
  BY DEF Out, InFlight, Queued, Busy
<1>2. TypeInv
  <2>1. <<>> \in Opt(Version) /\ <<>> \in Opt(Nat) /\ <<>> \in Opt(Job) /\ <<>> \in Opt(Opt(Job))
        /\ <<>> \in Opt([job : Job, cont : Opponents]) /\ <<>> \in Seq(Version)
    BY OptFacts
  <2>2. NoOpponent \in Opponents /\ step \in Steps
    BY DEF Opponents, Steps
  <2>3. worker \in [at : {"idle", "gone"} \cup Busy, cont : Opponents, job : Opt(Job)]
    BY <2>1, <2>2
  <2>4. /\ mode \in Modes /\ step \in Steps /\ iteration \in Nat
        /\ versions \in Seq(Version) /\ cur \in SUBSET Nat /\ since \in Nat /\ nextId \in Nat
        /\ running \in Opt(Nat) /\ cont \in Opponents /\ retained \in Opt(Version)
        /\ evalId \in Opt(Nat)
    BY <2>1, <2>2
  <2>5. jobs \in Opt(Opt(Job)) /\ results \in Opt([job : Job, cont : Opponents])
    BY <2>1
  <2> QED
    BY <2>3, <2>4, <2>5 DEF TypeInv
<1>3. OneInv
  BY <1>1 DEF OneInv, Busy, Ended
<1>4. FoldInv
  BY <1>1 DEF FoldInv
<1>5. DuelInv
  BY <1>1 DEF DuelInv
<1>6. PastInv
  BY <1>1 DEF PastInv
<1>7. ContInv
  BY <1>1, OpponentsDiffer DEF ContInv
<1> QED
  BY <1>2, <1>3, <1>4, <1>5, <1>6, <1>7 DEF TrackerInv

(* The tracker asks for no evaluation. *)
LEMMA NoEvaluationKeeps ==
    ASSUME TrackerInv, NoEvaluation
    PROVE  TrackerInv'
<1>1. TypeInv /\ OneInv /\ FoldInv /\ DuelInv /\ PastInv /\ ContInv
  BY DEF TrackerInv
<1>2. /\ step = "evaluate" /\ step' = "report" /\ evalId' = <<>> /\ since' \in {since, since + 1}
      /\ UNCHANGED <<mode, iteration, versions, cur, nextId, running, cont, retained,
                     jobs, results, worker, done, duels>>
  BY DEF NoEvaluation, workerVars
<1>3. TokenSame /\ (Queued' <=> Queued)
  BY <1>2, TokenFrame
<1>4. TypeInv'
  <2>1. <<>> \in Opt(Nat)
    BY OptFacts
  <2>2. since' \in Nat /\ step' \in Steps /\ evalId' \in Opt(Nat)
    BY <1>1, <1>2, <2>1 DEF TypeInv, Steps
  <2> QED
    BY <1>1, <1>2, <2>2 DEF TypeInv
<1>5. OneInv'
  BY <1>1, <1>2, <1>3, CarriedIs DEF OneInv, TokenSame, Ended
<1>6. FoldInv' /\ DuelInv' /\ ContInv'
  BY <1>1, <1>2, <1>3, FoldFrame, DuelFrame, ContFrame
<1>7. \A t \in Nat : Past(t) => Past(t)'
  BY <1>2 DEF Past
<1> QED
  BY <1>1, <1>2, <1>3, <1>4, <1>5, <1>6, <1>7, PastFrame DEF TrackerInv

(* The learner sends a report. *)
LEMMA SendReportKeeps ==
    ASSUME TrackerInv, NEW quit \in BOOLEAN, SendReport(quit)
    PROVE  TrackerInv'
<1>1. TypeInv /\ OneInv /\ FoldInv /\ DuelInv /\ PastInv /\ ContInv
  BY DEF TrackerInv
<1>2. /\ step = "report" /\ step' \in {"quit", "poll"}
      /\ iteration' = IF step' = "quit" THEN iteration ELSE iteration + 1
      /\ UNCHANGED <<mode, versions, cur, since, nextId, running, cont, retained, evalId,
                     jobs, results, worker, done, duels>>
  BY DEF SendReport, workerVars, managerVars
<1>3. TokenSame /\ (Queued' <=> Queued)
  BY <1>2, TokenFrame
<1>4. TypeInv'
  <2>1. iteration' \in Nat /\ step' \in Steps
    BY <1>1, <1>2 DEF TypeInv, Steps
  <2> QED
    BY <1>1, <1>2, <2>1 DEF TypeInv
<1>5. OneInv'
  BY <1>1, <1>2, <1>3, CarriedIs DEF OneInv, TokenSame, Ended
<1>6. FoldInv' /\ DuelInv' /\ ContInv'
  BY <1>1, <1>2, <1>3, FoldFrame, DuelFrame, ContFrame
<1>7. \A t \in Nat : Past(t) => Past(t)'
  BY <1>1, <1>2 DEF Past, TypeInv
<1> QED
  BY <1>1, <1>2, <1>3, <1>4, <1>5, <1>6, <1>7, PastFrame DEF TrackerInv

(* The tracker finds no answer. *)
LEMMA NoAnswerKeeps ==
    ASSUME TrackerInv, NoAnswer
    PROVE  TrackerInv'
<1>1. TypeInv /\ OneInv /\ FoldInv /\ DuelInv /\ PastInv /\ ContInv
  BY DEF TrackerInv
<1>2. /\ step = "wait" /\ step' = "report" /\ evalId' = <<>>
      /\ results = <<>> /\ worker.at = "gone"
      /\ UNCHANGED <<mode, iteration, versions, cur, since, nextId, running, cont, retained,
                     jobs, results, worker, done, duels>>
  BY DEF NoAnswer, workerVars, managerVars
<1>3. TokenSame /\ (Queued' <=> Queued)
  BY <1>2, TokenFrame
<1>4. TypeInv'
  <2>1. <<>> \in Opt(Nat)
    BY OptFacts
  <2>2. step' \in Steps /\ evalId' \in Opt(Nat)
    BY <1>2, <2>1 DEF Steps
  <2> QED
    BY <1>1, <1>2, <2>2 DEF TypeInv
<1>5. OneInv'
  <2>1. ~Out
    BY <1>1, <1>2 DEF OneInv, Out, Queued, Busy
  <2> QED
    BY <1>1, <1>2, <1>3, <2>1 DEF OneInv, TokenSame, Ended
<1>6. FoldInv' /\ DuelInv' /\ ContInv'
  BY <1>1, <1>2, <1>3, FoldFrame, DuelFrame, ContFrame
<1>7. \A t \in Nat : Past(t) => Past(t)'
  BY <1>2 DEF Past
<1> QED
  BY <1>1, <1>2, <1>3, <1>4, <1>5, <1>6, <1>7, PastFrame DEF TrackerInv

(* The learner quits and tells the worker. *)
LEMMA AskWorkerToStopKeeps ==
    ASSUME TrackerInv, AskWorkerToStop
    PROVE  TrackerInv'
<1>1. TypeInv /\ OneInv /\ FoldInv /\ DuelInv /\ PastInv /\ ContInv
  BY DEF TrackerInv
<1>2. /\ step = "quit" /\ step' = "join"
      /\ jobs = <<>> \/ worker.at = "gone"
      /\ jobs' = IF worker.at = "gone" THEN jobs ELSE <<(<<>>)>>
      /\ UNCHANGED <<mode, iteration, versions, cur, since, nextId, running, cont, retained,
                     evalId, results, worker, done, duels>>
  BY DEF AskWorkerToStop, workerVars, managerVars
<1>3. jobs = <<>> /\ jobs' \in {<<>>, <<(<<>>)>>} /\ (worker.at = "gone" => jobs' = <<>>)
  BY <1>1, <1>2 DEF OneInv
<1>4. ~Queued /\ ~Queued'
  BY <1>3, OptHasOne DEF Queued
<1>5. TokenSame
  BY <1>2, <1>4 DEF TokenSame, Out, InFlight, Carried
<1>6. TypeInv'
  <2>1. jobs' \in Opt(Opt(Job))
    BY <1>3, OptFacts
  <2>2. step' \in Steps
    BY <1>2 DEF Steps
  <2> QED
    BY <1>1, <1>2, <2>1, <2>2 DEF TypeInv
<1>7. OneInv'
  BY <1>1, <1>2, <1>3, <1>4, <1>5, CarriedIs DEF OneInv, TokenSame, Ended
<1>8. FoldInv' /\ DuelInv' /\ ContInv'
  BY <1>1, <1>2, <1>5, FoldFrame, DuelFrame, ContFrame
<1>9. \A t \in Nat : Past(t) => Past(t)'
  BY <1>2 DEF Past
<1> QED
  BY <1>1, <1>2, <1>5, <1>6, <1>7, <1>8, <1>9, PastFrame DEF TrackerInv

(* The new version is later than every evaluation so far. *)
LEMMA SaveVersionKeeps ==
    ASSUME TrackerInv, NEW crossed \in BOOLEAN, SaveVersion(crossed)
    PROVE  TrackerInv'
<1> DEFINE v == [t |-> iteration, ratings |-> cur]
           seq == Append(versions, v)
<1>1. TypeInv /\ OneInv /\ FoldInv /\ DuelInv /\ PastInv /\ ContInv
  BY DEF TrackerInv
<1>2. /\ step = "versions" /\ step' = "evaluate"
      /\ versions' = IF crossed THEN Newest(seq) ELSE versions
      /\ UNCHANGED <<mode, iteration, cur, since, nextId, running, cont, retained,
                     evalId, jobs, results, worker, done, duels>>
  BY DEF SaveVersion, workerVars
<1>3. TokenSame /\ (Queued' <=> Queued)
  BY <1>2, TokenFrame
<1>4. v \in Version /\ v.t = iteration
  BY <1>1 DEF TypeInv, Version
<1>5. DuelsOf(iteration) = {}
  <2>1. \A d \in duels : d[1] # iteration
    <3>1. \A d \in duels : d[1] \in Nat /\ iteration \in Nat /\ Past(d[1])
      BY <1>1, VersionFacts DEF PastInv
    <3> QED
      BY <1>2, <3>1 DEF Past
  <2> QED
    BY <2>1 DEF DuelsOf
<1>6. Rated(v)
  BY <1>4, <1>5 DEF Rated
<1>7. /\ versions' \in Seq(Version)
      /\ \A i \in DOMAIN versions' : \/ versions'[i] = v
                                     \/ \E j \in DOMAIN versions : versions'[i] = versions[j]
  <2>1. /\ seq \in Seq(Version) /\ Len(seq) = Len(versions) + 1
        /\ \A i \in 1..Len(seq) : seq[i] = IF i <= Len(versions) THEN versions[i] ELSE v
    <3>1. \A s \in Seq(Version) : \A w \in Version :
             /\ Append(s, w) \in Seq(Version) /\ Len(Append(s, w)) = Len(s) + 1
             /\ \A i \in 1..Len(s) + 1 :
                   Append(s, w)[i] = IF i <= Len(s) THEN s[i] ELSE w
      BY AppendProperties
    <3> QED
      BY <1>1, <1>4, <3>1 DEF TypeInv
  <2>2. Len(versions) \in Nat /\ DOMAIN versions = 1..Len(versions)
    BY <1>1, VersionFacts
  <2> HIDE DEF v, seq
  <2>3. \A i \in 1..Len(seq) : seq[i] = v \/ \E j \in DOMAIN versions : seq[i] = versions[j]
    BY <2>1, <2>2
  <2>4. mode.window \in Nat
    BY <1>1, SkillTrackerAssumption DEF TypeInv
  <2> DEFINE m == IF Len(seq) > mode.window THEN Len(seq) - mode.window + 1 ELSE 1
  <2>5. m \in Nat /\ 1 <= m /\ m <= Len(seq) + 1 /\ Len(seq) \in Nat
    BY <2>1, <2>2, <2>4
  <2> HIDE DEF m
  <2>6. Newest(seq) = SubSeq(seq, m, Len(seq))
    BY DEF Newest, m
  <2>7. \A s \in Seq(Version) : \A a, b \in Nat :
            (a >= 1 /\ b <= Len(s) /\ a <= b + 1) =>
               /\ SubSeq(s, a, b) \in Seq(Version)
               /\ Len(SubSeq(s, a, b)) = b - a + 1
               /\ \A i \in 1..b - a + 1 : SubSeq(s, a, b)[i] = s[a + i - 1]
    OBVIOUS
  <2>8. /\ Newest(seq) \in Seq(Version)
        /\ Len(Newest(seq)) = Len(seq) - m + 1
        /\ \A i \in 1..Len(seq) - m + 1 : Newest(seq)[i] = seq[m + i - 1]
    BY <2>1, <2>5, <2>6, <2>7
  <2>9. \A i \in 1..Len(seq) - m + 1 : m + i - 1 \in 1..Len(seq)
    BY <2>5
  <2>10. DOMAIN Newest(seq) = 1..Len(seq) - m + 1
    BY <2>8, LenProperties
  <2>11. \A i \in DOMAIN Newest(seq) : \/ Newest(seq)[i] = v
                                       \/ \E j \in DOMAIN versions : Newest(seq)[i] = versions[j]
    BY <2>3, <2>8, <2>9, <2>10
  <2> QED
    BY <1>1, <1>2, <2>8, <2>11 DEF TypeInv
<1> HIDE DEF v, seq
<1>8. TypeInv'
  <2>1. step' \in Steps
    BY <1>2 DEF Steps
  <2> QED
    BY <1>1, <1>2, <1>7, <2>1 DEF TypeInv
<1>9. OneInv'
  BY <1>1, <1>2, <1>3, CarriedIs DEF OneInv, TokenSame, Ended
<1>10. FoldInv' /\ ContInv'
  BY <1>1, <1>2, <1>3, FoldFrame, ContFrame
<1>11. DuelInv'
  <2>1. \A w : (Rated(w) => Rated(w)') /\ (Stale(w.t) => Stale(w.t)')
    BY <1>1, <1>2, <1>3, CarriedIs DEF Rated, DuelsOf, Stale, TokenSame
  <2>2. \A i \in DOMAIN versions' : Rated(versions'[i]) \/ Stale(versions'[i].t)
    BY <1>1, <1>6, <1>7 DEF DuelInv
  <2>3. \A i \in DOMAIN versions' : (Rated(versions[i]) \/ Stale(versions[i].t))'
    BY <1>2, <1>3, <2>2, <1>1, CarriedIs DEF Rated, DuelsOf, Stale, TokenSame
  <2>4. retained' # <<>> => (Rated(retained[1]) \/ Stale(retained[1].t))'
    BY <1>1, <1>2, <2>1 DEF DuelInv
  <2>5. (Out' /\ Carried'.version # <<>>) => Rated(Carried.version[1])'
    BY <1>1, <1>2, <1>3 DEF DuelInv, Rated, DuelsOf, TokenSame
  <2> QED
    BY <2>3, <2>4, <2>5 DEF DuelInv
<1>12. PastInv'
  <2>1. \A t \in Nat : Past(t) => Past(t)'
    BY <1>2 DEF Past
  <2>2. Past(iteration)'
    BY <1>2 DEF Past
  <2>3. \A i \in DOMAIN versions' : Past(versions[i].t)'
    <3> TAKE i \in DOMAIN versions'
    <3>1. CASE versions'[i] = v
      <4>1. versions'[i].t = iteration
        BY <1>4, <3>1
      <4> QED
        BY <1>2, <4>1 DEF Past
    <3>2. CASE \E j \in DOMAIN versions : versions'[i] = versions[j]
      <4>1. PICK j \in DOMAIN versions : versions'[i] = versions[j]
        BY <3>2
      <4>2. Past(versions[j].t)
        BY <1>1 DEF PastInv
      <4> QED
        BY <1>2, <4>1, <4>2 DEF Past
    <3> QED
      BY <1>7, <3>1, <3>2
  <2>4. \A d \in duels' : Past(d[1])'
    BY <1>1, <1>2, <2>1, VersionFacts DEF PastInv
  <2>5. retained' # <<>> => Past(retained[1].t)'
    <3>1. retained # <<>> => Past(retained[1].t)
      BY <1>1 DEF PastInv
    <3> QED
      BY <1>2, <3>1 DEF Past
  <2> QED
    BY <1>1, <1>2, <1>3, <2>3, <2>4, <2>5, CarriedIs DEF PastInv, TokenSame
<1> QED
  BY <1>8, <1>9, <1>10, <1>11, <1>12 DEF TrackerInv

Worker == [at : {"idle", "gone"} \cup Busy, cont : Opponents, job : Opt(Job)]

(* The fields of the worker's state after an assignment.                   *)
LEMMA WorkerFacts ==
    \A w \in Worker, p \in {"idle", "gone"} \cup Busy, j \in Opt(Job) :
        /\ w.at \in {"idle", "gone"} \cup Busy /\ w.cont \in Opponents /\ w.job \in Opt(Job)
        /\ [w EXCEPT !.at = p] \in Worker
        /\ [w EXCEPT !.at = p].at = p /\ [w EXCEPT !.at = p].cont = w.cont
        /\ [w EXCEPT !.at = p].job = w.job
        /\ [w EXCEPT !.at = p, !.job = j] \in Worker
        /\ [w EXCEPT !.at = p, !.job = j].at = p /\ [w EXCEPT !.at = p, !.job = j].cont = w.cont
        /\ [w EXCEPT !.at = p, !.job = j].job = j
BY DEF Worker

(* A job taken is still out; a shutdown is no job.                         *)
LEMMA TakeJobKeeps ==
    ASSUME TrackerInv, TakeJob
    PROVE  TrackerInv'
<1>1. TypeInv /\ OneInv /\ FoldInv /\ DuelInv /\ PastInv /\ ContInv
  BY DEF TrackerInv
<1> DEFINE j == jobs[1]
<1>2. /\ worker.at = "idle" /\ jobs # <<>> /\ jobs' = Tail(jobs)
      /\ worker' = IF Head(jobs) = <<>> THEN [worker EXCEPT !.at = "gone"]
                   ELSE [worker EXCEPT !.at = "running", !.job = Head(jobs)]
      /\ UNCHANGED <<mode, step, iteration, versions, cur, since, nextId, running, cont, retained,
                     evalId, results, done, duels>>
  BY DEF TakeJob, learnerVars, managerVars
<1>3. j \in Opt(Job) /\ jobs = <<j>> /\ jobs' = <<>> /\ Head(jobs) = j
  <2>1. jobs[1] \in Opt(Job) /\ jobs = <<(jobs[1])>>
    BY <1>1, <1>2, OptFacts DEF TypeInv
  <2>2. Head(<<j>>) = j /\ Tail(<<j>>) = <<>>
    BY OptHasOne
  <2> QED
    BY <1>2, <2>1, <2>2
<1>4. /\ worker \in Worker /\ worker' \in Worker /\ worker'.cont = worker.cont
      /\ j = <<>> => worker'.at = "gone"
      /\ j # <<>> => worker'.at = "running" /\ worker'.job = j
  BY <1>1, <1>2, <1>3, WorkerFacts DEF TypeInv, Worker, Busy
<1>5. Queued <=> j # <<>>
  BY <1>2 DEF Queued
<1>6. ~Queued'
  BY <1>3 DEF Queued
<1>7. j # <<>> => results = <<>>
  BY <1>1, <1>5 DEF OneInv
<1> HIDE DEF j
<1>8. TokenSame
  <2>1. j # <<>> => Carried = j[1] /\ Carried' = j[1]
    BY <1>2, <1>4, <1>7 DEF Carried, Busy, j
  <2>2. (Out' <=> Out) /\ (InFlight' <=> InFlight)
    BY <1>2, <1>4, <1>5, <1>6 DEF Out, InFlight, Busy
  <2>3. j = <<>> => (Out => Carried' = Carried)
    BY <1>2, <1>4, <1>5 DEF Out, Carried, Busy
  <2> QED
    BY <2>1, <2>2, <2>3 DEF TokenSame
<1>9. TypeInv'
  <2>1. jobs' \in Opt(Opt(Job))
    BY <1>3, OptFacts
  <2> QED
    BY <1>1, <1>2, <1>4, <2>1 DEF TypeInv, Worker
<1>10. OneInv'
  <2>1. j = <<>> => step = "join"
    BY <1>1, <1>2 DEF OneInv, j
  <2>2. worker'.at \in Busy => results' = <<>> /\ worker'.job # <<>>
    BY <1>2, <1>4, <1>7 DEF Busy
  <2>3. step' \in Ended => worker'.at = "gone" /\ ~Out'
    BY <1>1, <1>2 DEF OneInv
  <2>4. /\ (Out' /\ mode'.async) => running' = <<Carried'.id>> /\ Carried'.id < nextId'
        /\ (Out' /\ ~mode'.async) => step' = "wait" /\ Carried'.id = nextId'
        /\ step' = "wait" => ~mode'.async
    BY <1>1, <1>2, <1>8 DEF OneInv, TokenSame
  <2> QED
    BY <1>3, <1>6, <2>2, <2>3, <2>4 DEF OneInv
<1>11. FoldInv' /\ DuelInv'
  BY <1>1, <1>2, <1>8, FoldFrame, DuelFrame
<1>12. PastInv'
  <2>1. \A t \in Nat : Past(t) => Past(t)'
    BY <1>2 DEF Past
  <2> QED
    BY <1>1, <1>2, <1>8, <2>1, PastFrame
<1>13. ContInv'
  <2>1. CASE j # <<>>
    <3>1. worker'.at # "gone" /\ worker.at # "gone"
      BY <1>2, <1>4, <2>1
    <3> QED
      BY <1>1, <1>2, <1>4, <1>8, <3>1, ContFrame
  <2>2. CASE j = <<>>
    <3>1. Out => OpponentsOf(Carried)' = OpponentsOf(Carried)
      BY <1>2, <1>8 DEF TokenSame, OpponentsOf
    <3> QED
      BY <1>1, <1>2, <1>4, <1>8, <2>2, <3>1, CarriedIs DEF ContInv, TokenSame
  <2> QED
    BY <2>1, <2>2
<1> QED
  BY <1>9, <1>10, <1>11, <1>12, <1>13 DEF TrackerInv

(* The worker tells the actor. *)
LEMMA TellMetricsKeeps ==
    ASSUME TrackerInv, TellMetrics
    PROVE  TrackerInv'
<1>1. TypeInv /\ OneInv /\ FoldInv /\ DuelInv /\ PastInv /\ ContInv
  BY DEF TrackerInv
<1>2. /\ worker.at = "tell" /\ worker' = [worker EXCEPT !.at = "answer"]
      /\ UNCHANGED <<mode, step, iteration, versions, cur, since, nextId, running, cont, retained,
                     evalId, jobs, results, done, duels>>
  BY DEF TellMetrics, learnerVars, managerVars
<1>3. worker' \in Worker /\ worker'.cont = worker.cont /\ worker'.at = "answer"
      /\ worker'.job = worker.job
  BY <1>1, <1>2, WorkerFacts DEF TypeInv, Worker, Busy
<1>4. TokenSame /\ (Queued' <=> Queued)
  BY <1>2, <1>3 DEF TokenSame, Out, InFlight, Carried, Queued, Busy
<1>5. TypeInv'
  BY <1>1, <1>2, <1>3 DEF TypeInv, Worker
<1>6. OneInv'
  <2>1. worker'.at \in Busy => results' = <<>> /\ worker'.job # <<>>
    BY <1>1, <1>2, <1>3 DEF OneInv, Busy
  <2>2. Queued' => worker'.at = "idle" /\ results' = <<>>
    BY <1>1, <1>2, <1>4 DEF OneInv
  <2>3. step' \in Ended => worker'.at = "gone" /\ ~Out'
    BY <1>1, <1>2 DEF OneInv
  <2>4. (jobs' # <<>> /\ jobs'[1] = <<>>) => step' = "join"
    BY <1>1, <1>2 DEF OneInv
  <2>5. /\ (Out' /\ mode'.async) => running' = <<Carried'.id>> /\ Carried'.id < nextId'
        /\ (Out' /\ ~mode'.async) => step' = "wait" /\ Carried'.id = nextId'
        /\ step' = "wait" => ~mode'.async
    BY <1>1, <1>2, <1>4 DEF OneInv, TokenSame
  <2> QED
    BY <1>3, <2>1, <2>2, <2>3, <2>4, <2>5 DEF OneInv
<1>7. FoldInv' /\ DuelInv' /\ ContInv'
  BY <1>1, <1>2, <1>3, <1>4, FoldFrame, DuelFrame, ContFrame
<1>8. \A t \in Nat : Past(t) => Past(t)'
  BY <1>2 DEF Past
<1> QED
  BY <1>1, <1>2, <1>4, <1>5, <1>6, <1>7, <1>8, PastFrame DEF TrackerInv

(* The worker answers the learner. *)
LEMMA AnswerKeeps ==
    ASSUME TrackerInv, Answer
    PROVE  TrackerInv'
<1> DEFINE r == [job |-> worker.job[1], cont |-> worker.cont]
<1>1. TypeInv /\ OneInv /\ FoldInv /\ DuelInv /\ PastInv /\ ContInv
  BY DEF TrackerInv
<1>2. /\ worker.at = "answer" /\ worker' = [worker EXCEPT !.at = "idle", !.job = <<>>]
      /\ results' = Append(results, r)
      /\ UNCHANGED <<mode, step, iteration, versions, cur, since, nextId, running, cont, retained,
                     evalId, jobs, done, duels>>
  BY DEF Answer, learnerVars, managerVars
<1>3. worker' \in Worker /\ worker'.cont = worker.cont /\ worker'.at = "idle"
      /\ worker'.job = <<>>
  BY <1>1, <1>2, WorkerFacts, OptFacts DEF TypeInv, Worker, Busy
<1>4. results = <<>> /\ worker.job # <<>> /\ ~Queued
  BY <1>1, <1>2 DEF OneInv, Busy
<1>5. r.job = worker.job[1] /\ r.cont = worker.cont
      /\ r \in [job : Job, cont : Opponents]
  <2>1. worker.job[1] \in Job /\ worker.cont \in Opponents
    BY <1>1, <1>4, OptFacts, WorkerFacts DEF TypeInv, Worker
  <2> QED
    BY <2>1
<1> HIDE DEF r
<1>6. results' = <<r>> /\ results'[1] = r /\ results' # <<>>
  <2>1. Append(<<>>, r) = <<r>>
    OBVIOUS
  <2> QED
    BY <1>2, <1>4, <2>1, OptHasOne
<1>7. ~Queued'
  BY <1>2, <1>4 DEF Queued
<1>8. TokenSame
  BY <1>2, <1>3, <1>4, <1>5, <1>6 DEF TokenSame, Out, InFlight, Carried, Busy
<1>9. TypeInv'
  <2>1. results' \in Opt([job : Job, cont : Opponents])
    BY <1>5, <1>6, OptFacts
  <2> QED
    BY <1>1, <1>2, <1>3, <2>1 DEF TypeInv, Worker
<1>10. OneInv'
  <2>1. worker'.at \in Busy => results' = <<>> /\ worker'.job # <<>>
    BY <1>3 DEF Busy
  <2>2. step' \in Ended => worker'.at = "gone" /\ ~Out'
    BY <1>1, <1>2 DEF OneInv
  <2>3. (jobs' # <<>> /\ jobs'[1] = <<>>) => step' = "join"
    BY <1>1, <1>2 DEF OneInv
  <2>4. /\ (Out' /\ mode'.async) => running' = <<Carried'.id>> /\ Carried'.id < nextId'
        /\ (Out' /\ ~mode'.async) => step' = "wait" /\ Carried'.id = nextId'
        /\ step' = "wait" => ~mode'.async
    BY <1>1, <1>2, <1>8, CarriedIs DEF OneInv, TokenSame
  <2> QED
    BY <1>3, <1>7, <2>1, <2>2, <2>3, <2>4 DEF OneInv
<1>11. FoldInv' /\ DuelInv'
  BY <1>1, <1>2, <1>8, FoldFrame, DuelFrame
<1>12. PastInv'
  <2>1. \A t \in Nat : Past(t) => Past(t)'
    BY <1>2 DEF Past
  <2> QED
    BY <1>1, <1>2, <1>8, <2>1, PastFrame
<1>13. ContInv'
  <2>1. Out => OpponentsOf(Carried)' = OpponentsOf(Carried)
    BY <1>2, <1>8 DEF TokenSame, OpponentsOf
  <2>2. InFlight /\ Out
    BY <1>2 DEF InFlight, Out, Busy
  <2> QED
    BY <1>1, <1>2, <1>3, <1>5, <1>6, <1>8, <2>1, <2>2 DEF ContInv, TokenSame
<1> QED
  BY <1>9, <1>10, <1>11, <1>12, <1>13 DEF TrackerInv

(* What a worker that dies had begun is not in the ratings.                *)
LEMMA WorkerDiesKeeps ==
    ASSUME TrackerInv, WorkerDies
    PROVE  TrackerInv'
<1>1. TypeInv /\ OneInv /\ FoldInv /\ DuelInv /\ PastInv /\ ContInv
  BY DEF TrackerInv
<1>2. /\ worker.at = "running" /\ worker' = [worker EXCEPT !.at = "gone", !.job = <<>>]
      /\ jobs' = <<>>
      /\ UNCHANGED <<mode, step, iteration, versions, cur, since, nextId, running, cont, retained,
                     evalId, results, done, duels>>
  BY DEF WorkerDies, learnerVars, managerVars
<1>3. worker' \in Worker /\ worker'.cont = worker.cont /\ worker'.at = "gone"
      /\ worker'.job = <<>>
  BY <1>1, <1>2, WorkerFacts, OptFacts DEF TypeInv, Worker, Busy
<1>4. results = <<>>
  BY <1>1, <1>2 DEF OneInv, Busy
<1>5. ~InFlight /\ Out /\ ~Out' /\ ~InFlight' /\ ~Queued'
  BY <1>2, <1>3, <1>4 DEF InFlight, Out, Queued, Busy
<1>6. TypeInv'
  <2>1. jobs' \in Opt(Opt(Job))
    BY <1>2, OptFacts
  <2> QED
    BY <1>1, <1>2, <1>3, <2>1 DEF TypeInv, Worker
<1>7. OneInv'
  <2>1. step' \in Ended => worker'.at = "gone" /\ ~Out'
    BY <1>3, <1>5
  <2>2. worker'.at \notin Busy
    BY <1>3 DEF Busy
  <2>3. step' = "wait" => ~mode'.async
    BY <1>1, <1>2 DEF OneInv
  <2> QED
    BY <1>2, <1>5, <2>1, <2>2, <2>3 DEF OneInv
<1>8. FoldInv'
  BY <1>1, <1>2, <1>5 DEF FoldInv
<1>9. DuelInv'
  BY <1>1, <1>2, <1>5 DEF DuelInv, Stale, Rated, DuelsOf
<1>10. PastInv'
  <2>1. \A t : Past(t)' <=> Past(t)
    BY <1>2 DEF Past
  <2> QED
    BY <1>1, <1>2, <1>5, <2>1 DEF PastInv, Past
<1>11. ContInv'
  BY <1>1, <1>2, <1>3, <1>4, <1>5 DEF ContInv
<1> QED
  BY <1>6, <1>7, <1>8, <1>9, <1>10, <1>11 DEF TrackerInv

(* What an evaluation does to the version it was played against.           *)
LEMMA FoldedFacts ==
    ASSUME NEW job \in Job
    PROVE  /\ Folded(job) \in Opt(Version)
           /\ Folded(job) = <<>> <=> job.version = <<>>
           /\ job.version # <<>> =>
                 /\ Folded(job)[1].t = job.version[1].t
                 /\ job.version[1].ratings \subseteq Folded(job)[1].ratings
           /\ Folded(job) # job.version => job.version # <<>> /\ job.id \in Folded(job)[1].ratings
<1>1. job.version \in Opt(Version) /\ job.id \in Nat
  BY DEF Job
<1>2. CASE job.version # <<>> /\ StartOf(job) = Previous(job.version[1].t)
  <2> DEFINE v == job.version[1]
             w == [v EXCEPT !.ratings = @ \cup {job.id}]
  <2>1. v \in Version
    BY <1>1, <1>2, OptFacts
  <2>2. w \in Version /\ w.t = v.t /\ w.ratings = v.ratings \cup {job.id}
    BY <1>1, <2>1 DEF Version
  <2>3. Folded(job) = <<w>>
    BY <1>2 DEF Folded
  <2> HIDE DEF v, w
  <2>4. Folded(job) \in Opt(Version) /\ Folded(job) # <<>> /\ Folded(job)[1] = w
    BY <2>2, <2>3, OptFacts, OptHasOne
  <2> QED
    BY <1>2, <2>2, <2>4 DEF v
<1>3. CASE ~(job.version # <<>> /\ StartOf(job) = Previous(job.version[1].t))
  BY <1>1, <1>3 DEF Folded
<1> QED
  BY <1>2, <1>3

(* The evaluation is in the ratings of its job, and in those of the        *)
(* version it was played against.                                          *)
LEMMA RunMatchesKeeps ==
    ASSUME TrackerInv, NEW stop \in {NoOpponent, Nexto} \cup {Previous(t) : t \in 1..MaxIteration},
           RunMatches(stop)
    PROVE  TrackerInv'
<1> DEFINE job == worker.job[1]
           new == [job EXCEPT !.cur = @ \cup {job.id}, !.version = Folded(job)]
<1>1. TypeInv /\ OneInv /\ FoldInv /\ DuelInv /\ PastInv /\ ContInv
  BY DEF TrackerInv
<1>2. /\ worker.at = "running"
      /\ stop # NoOpponent => \E i, j \in DOMAIN OpponentsOf(job) :
             i <= j /\ OpponentsOf(job)[i] = StartOf(job) /\ OpponentsOf(job)[j] = stop
      /\ worker' = [at |-> "tell", cont |-> stop, job |-> <<new>>]
      /\ done' = done \cup {job.id}
      /\ duels' = IF Folded(job) = job.version THEN duels
                  ELSE duels \cup {<<job.version[1].t, job.id>>}
      /\ UNCHANGED <<mode, step, iteration, versions, cur, since, nextId, running, cont, retained,
                     evalId, jobs, results>>
  BY DEF RunMatches, learnerVars, managerVars
<1>3. results = <<>> /\ ~Queued /\ Out /\ ~InFlight /\ Carried = job /\ job \in Job
  <2>1. results = <<>> /\ ~Queued
    BY <1>1, <1>2 DEF OneInv, Busy
  <2>2. Out /\ ~InFlight /\ Carried = job
    BY <1>2, <2>1 DEF Out, InFlight, Carried, Busy
  <2> QED
    BY <1>1, <2>1, <2>2, CarriedIs
<1>4. /\ job.id \in Nat /\ job.version \in Opt(Version) /\ job.cur \in SUBSET Nat
      /\ Folded(job) \in Opt(Version)
      /\ Folded(job) = <<>> <=> job.version = <<>>
      /\ job.version # <<>> => /\ Folded(job)[1].t = job.version[1].t
                               /\ job.version[1].ratings \subseteq Folded(job)[1].ratings
                               /\ job.version[1].t \in Nat
      /\ Folded(job) # job.version => job.version # <<>> /\ job.id \in Folded(job)[1].ratings
  BY <1>1, <1>3, CarriedIs, FoldedFacts
<1>5. /\ new \in Job /\ new.id = job.id /\ new.cur = job.cur \cup {job.id}
      /\ new.version = Folded(job)
  BY <1>3, <1>4 DEF Job
<1> HIDE DEF new
<1>6. /\ worker'.at = "tell" /\ worker'.cont = stop /\ worker'.job = <<new>>
      /\ worker'.job # <<>> /\ worker'.job[1] = new
  BY <1>2, OptHasOne
<1>7. results' = <<>> /\ ~Queued' /\ Out' /\ InFlight' /\ Carried' = new
  BY <1>2, <1>3, <1>6 DEF Queued, Out, InFlight, Carried, Busy
<1>8. stop \in Opponents
  BY SkillTrackerAssumption DEF Opponents
<1>9. stop # NoOpponent => stop \in ToSet(OpponentsOf(job))
  BY <1>2 DEF ToSet
<1> HIDE DEF job
<1>10. TypeInv'
  <2>1. worker' \in Worker
    <3>1. <<new>> \in Opt(Job)
      BY <1>5, OptFacts
    <3> QED
      BY <1>2, <1>8, <3>1 DEF Worker, Busy
  <2>2. done' \in SUBSET Nat
    BY <1>1, <1>2, <1>4 DEF TypeInv
  <2>3. duels' \in SUBSET (Nat \X Nat)
    BY <1>1, <1>2, <1>4 DEF TypeInv
  <2> QED
    BY <1>1, <1>2, <2>1, <2>2, <2>3 DEF TypeInv, Worker
<1>11. OneInv'
  <2>1. (jobs' # <<>> /\ jobs'[1] = <<>>) => step' = "join"
    BY <1>1, <1>2 DEF OneInv
  <2>2. step' \in Ended => worker'.at = "gone" /\ ~Out'
    BY <1>1, <1>2, <1>3 DEF OneInv
  <2>3. /\ mode'.async => running' = <<new.id>> /\ new.id < nextId'
        /\ ~mode'.async => step' = "wait" /\ new.id = nextId'
        /\ step' = "wait" => ~mode'.async
    BY <1>1, <1>2, <1>3, <1>5 DEF OneInv
  <2> QED
    BY <1>6, <1>7, <2>1, <2>2, <2>3 DEF OneInv
<1>12. FoldInv'
  BY <1>1, <1>2, <1>3, <1>5, <1>7 DEF FoldInv
<1>13. DuelInv'
  <2>1. \A t : DuelsOf(t)' \subseteq DuelsOf(t) \cup {job.id}
    <3> TAKE t
    <3>1. \A d \in duels' : d \in duels \/ d = <<job.version[1].t, job.id>>
      BY <1>2
    <3>2. \A d \in duels' : d[1] = t => d[2] \in DuelsOf(t) \cup {job.id}
      BY <3>1 DEF DuelsOf
    <3> QED
      BY <3>2 DEF DuelsOf
  <2>2. \A t : ~(job.version # <<>> /\ job.version[1].t = t) => DuelsOf(t)' = DuelsOf(t)
    <3> SUFFICES ASSUME NEW t, ~(job.version # <<>> /\ job.version[1].t = t)
                 PROVE  DuelsOf(t)' = DuelsOf(t)
      OBVIOUS
    <3>1. {d \in duels' : d[1] = t} = {d \in duels : d[1] = t}
      BY <1>2, <1>4
    <3> QED
      BY <3>1 DEF DuelsOf
  <2>3. Folded(job) = job.version => \A t : DuelsOf(t)' = DuelsOf(t)
    BY <1>2 DEF DuelsOf
  <2>4. \A t, r : (new.version # <<>> /\ t = new.version[1].t /\ r = new.version[1].ratings) =>
                     DuelsOf(t)' \subseteq r
    <3> SUFFICES ASSUME NEW t, NEW r, new.version # <<>>, t = new.version[1].t,
                        r = new.version[1].ratings
                 PROVE  DuelsOf(t)' \subseteq r
      OBVIOUS
    <3>1. DuelsOf(job.version[1].t) \subseteq job.version[1].ratings
      BY <1>1, <1>3, <1>4, <1>5 DEF DuelInv, Rated
    <3>2. t = job.version[1].t /\ job.version[1].ratings \subseteq r
      BY <1>4, <1>5
    <3>3. DuelsOf(t) \subseteq r
      BY <3>1, <3>2
    <3>4. CASE Folded(job) = job.version
      BY <2>3, <3>3, <3>4
    <3>5. CASE Folded(job) # job.version
      <4>1. job.id \in r
        BY <1>4, <1>5, <3>5
      <4> QED
        BY <2>1, <3>3, <4>1
    <3> QED
      BY <3>4, <3>5
  <2>5. \A v : ~Stale(v.t) /\ (Rated(v) => Rated(v)' \/ Stale(v.t)')
    <3> TAKE v
    <3>1. ~Stale(v.t)
      BY <1>3 DEF Stale
    <3>2. Stale(v.t)' <=> (job.version # <<>> /\ job.version[1].t = v.t)
      BY <1>4, <1>5, <1>7 DEF Stale
    <3> QED
      BY <2>2, <3>1, <3>2 DEF Rated
  <2>6. /\ \A i \in DOMAIN versions' : (Rated(versions[i]) \/ Stale(versions[i].t))'
        /\ retained' # <<>> => (Rated(retained[1]) \/ Stale(retained[1].t))'
    <3>1. \A i \in DOMAIN versions : Rated(versions[i])
      BY <1>1, <2>5 DEF DuelInv
    <3>2. retained # <<>> => Rated(retained[1])
      BY <1>1, <2>5 DEF DuelInv
    <3>3. \A v : Stale(v.t)' <=> (job.version # <<>> /\ job.version[1].t = v.t)
      BY <1>4, <1>5, <1>7 DEF Stale
    <3> QED
      BY <1>2, <1>4, <1>5, <1>7, <2>2, <3>1, <3>2 DEF Rated, Stale
  <2>7. (Out' /\ Carried'.version # <<>>) => Rated(Carried.version[1])'
    <3> SUFFICES ASSUME Carried'.version # <<>> PROVE Rated(Carried.version[1])'
      OBVIOUS
    <3>1. PICK t, r : t = Carried'.version[1].t /\ r = Carried'.version[1].ratings
      OBVIOUS
    <3>2. DuelsOf(t)' \subseteq r
      BY <1>7, <2>4, <3>1
    <3> QED
      BY <3>1, <3>2 DEF Rated, DuelsOf
  <2> QED
    BY <2>6, <2>7 DEF DuelInv
<1>14. PastInv'
  <2>1. \A t : Past(t)' <=> Past(t)
    BY <1>2 DEF Past
  <2>2. \A d \in duels' : d \in duels \/ (job.version # <<>> /\ d = <<job.version[1].t, job.id>>)
    BY <1>2, <1>4
  <2>3. job.version # <<>> => Past(job.version[1].t)
    <3>1. job.version # <<>> => retained # <<>> /\ retained[1].t = job.version[1].t
      BY <1>1, <1>3 DEF PastInv
    <3> QED
      BY <1>1, <3>1 DEF PastInv
  <2>4. \A d \in duels' : Past(d[1])
    BY <1>1, <2>2, <2>3 DEF PastInv
  <2>5. \A d \in duels' : Past(d[1])'
    BY <1>2, <2>4 DEF Past
  <2>6. /\ \A i \in DOMAIN versions' : Past(versions[i].t)'
        /\ retained' # <<>> => Past(retained[1].t)'
    BY <1>1, <1>2 DEF PastInv, Past
  <2>7. /\ (Out' /\ Carried'.version # <<>>) =>
              retained' # <<>> /\ retained'[1].t = Carried'.version[1].t
        /\ (Out' /\ Carried'.version = <<>>) => retained' = <<>>
    BY <1>1, <1>2, <1>3, <1>4, <1>5, <1>7 DEF PastInv
  <2> QED
    BY <2>5, <2>6, <2>7 DEF PastInv
<1>15. ContInv'
  <2>1. ToSet(OpponentsOf(job)) = (IF job.version = <<>> THEN {} ELSE {Previous(job.version[1].t)})
              \cup (IF mode.nexto THEN {Nexto} ELSE {})
    BY OpponentsAre
  <2>2. ToSet(OpponentsOf(new)) = (IF new.version = <<>> THEN {} ELSE {Previous(new.version[1].t)})
              \cup (IF mode.nexto THEN {Nexto} ELSE {})
    BY OpponentsAre
  <2>3. ToSet(OpponentsOf(new)) = ToSet(OpponentsOf(job))
    BY <1>4, <1>5, <2>1, <2>2
  <2>4. stop = Nexto => mode.nexto
    BY <1>4, <1>9, <2>1, OpponentsDiffer
  <2>5. ToSet(OpponentsOf(Carried))' = ToSet(OpponentsOf(new))
    BY <1>2, <1>7 DEF OpponentsOf
  <2> QED
    BY <1>2, <1>6, <1>7, <1>9, <2>3, <2>4, <2>5 DEF ContInv
<1> QED
  BY <1>10, <1>11, <1>12, <1>13, <1>14, <1>15 DEF TrackerInv

(* A version that may be chosen is one of the window or the retained one,  *)
(* and it is the one to be continued with, when there is one.              *)
LEMMA ChosenFacts ==
    ASSUME TypeInv, NEW version \in Chosen
    PROVE  /\ version \in Opt(Version)
           /\ \/ version = <<>>
              \/ \E i \in DOMAIN versions : version = <<(versions[i])>>
              \/ version = retained /\ retained # <<>>
           /\ (retained # <<>> /\ cont = Previous(retained[1].t)) =>
                  version # <<>> /\ cont = Previous(version[1].t)
<1> DEFINE live == {i \in DOMAIN versions : cont = Previous(versions[i].t)}
           any == IF versions = <<>> THEN {<<>>} ELSE {<<(versions[i])>> : i \in DOMAIN versions}
<1>1. /\ \A i \in DOMAIN versions : versions[i] \in Version /\ <<(versions[i])>> \in Opt(Version)
      /\ <<>> \in Opt(Version) /\ retained \in Opt(Version)
      /\ retained # <<>> => retained[1].t \in Nat
  BY VersionFacts, OptFacts DEF TypeInv
<1>2. version \in any => \/ version = <<>>
                         \/ \E i \in DOMAIN versions : version = <<(versions[i])>>
  OBVIOUS
<1>3. \A i \in live : i \in DOMAIN versions /\ cont = Previous(versions[i].t)
  OBVIOUS
<1> HIDE DEF any
<1>4. version \in IF cont = Nexto THEN {<<>>}
                  ELSE IF cont = NoOpponent THEN any
                  ELSE IF live # {} THEN {<<(versions[i])>> : i \in live}
                  ELSE IF retained # <<>> /\ cont = Previous(retained[1].t) THEN {retained}
                  ELSE any
  BY DEF Chosen, any
<1> HIDE DEF live
<1>5. \/ version = <<>> \/ \E i \in DOMAIN versions : version = <<(versions[i])>>
      \/ version = retained /\ retained # <<>>
  BY <1>2, <1>3, <1>4
<1>6. version \in Opt(Version)
  BY <1>1, <1>5
<1>7. (retained # <<>> /\ cont = Previous(retained[1].t)) =>
          version # <<>> /\ cont = Previous(version[1].t)
  <2> SUFFICES ASSUME retained # <<>>, cont = Previous(retained[1].t)
               PROVE  version # <<>> /\ cont = Previous(version[1].t)
    OBVIOUS
  <2>1. cont # Nexto /\ cont # NoOpponent
    BY <1>1, OpponentsDiffer
  <2>2. CASE live # {}
    <3>1. PICK i \in live : version = <<(versions[i])>>
      BY <1>4, <2>1, <2>2
    <3>2. version # <<>> /\ version[1] = versions[i]
      BY <3>1, OptHasOne
    <3> QED
      BY <1>3, <3>2
  <2>3. CASE live = {}
    BY <1>4, <2>1, <2>3
  <2> QED
    BY <2>2, <2>3
<1> QED
  BY <1>5, <1>6, <1>7

(* A job is sent only when none is out, with all the ratings there are.    *)
LEMMA DispatchKeeps ==
    ASSUME TrackerInv, NEW version \in Chosen, Dispatch(version)
    PROVE  TrackerInv'
<1> DEFINE job == [id |-> nextId, version |-> version, cur |-> cur]
<1>1. TypeInv /\ OneInv /\ FoldInv /\ DuelInv /\ PastInv /\ ContInv
  BY DEF TrackerInv
<1>2. /\ step = "evaluate" /\ running = <<>> /\ retained' = version
      /\ jobs' = IF Accepted THEN <<(<<job>>)>> ELSE jobs
      /\ IF Accepted /\ mode.async
         THEN since' = 0 /\ nextId' = nextId + 1 /\ running' = <<nextId>> /\ evalId' = <<nextId>>
         ELSE since' \in {since, since + 1} /\ evalId' = <<>> /\ nextId' = nextId
              /\ running' = running
      /\ step' = IF Accepted /\ ~mode.async THEN "wait" ELSE "report"
      /\ UNCHANGED <<mode, iteration, versions, cur, cont, results, worker, done, duels>>
  BY DEF Dispatch, Idle, workerVars
<1>3. ~Out /\ ~InFlight /\ ~Queued /\ results = <<>> /\ worker.at \notin Busy
  <2>1. ~Out
    BY <1>1, <1>2, OptHasOne DEF OneInv
  <2> QED
    BY <1>1, <2>1, CarriedIs DEF Out
<1>4. jobs = <<>>
  BY <1>1, <1>2, <1>3 DEF OneInv, Queued
<1>5. /\ Accepted <=> worker.at = "idle"
      /\ ~Accepted <=> worker.at = "gone"
  BY <1>1, <1>3, <1>4 DEF TypeInv, Accepted
<1>6. /\ version \in Opt(Version)
      /\ version # <<>> => version[1].t \in Nat /\ Rated(version[1]) /\ Past(version[1].t)
  <2>1. \A t : ~Stale(t)
    BY <1>3 DEF Stale
  <2>2. CASE version = <<>>
    BY <1>1, <2>2, ChosenFacts
  <2>3. CASE \E i \in DOMAIN versions : version = <<(versions[i])>>
    <3>1. PICK i \in DOMAIN versions : version = <<(versions[i])>>
      BY <2>3
    <3>2. version[1] = versions[i]
      BY <3>1, OptHasOne
    <3>3. Rated(versions[i]) /\ Past(versions[i].t)
      BY <1>1, <2>1 DEF DuelInv, PastInv
    <3> QED
      BY <1>1, <3>2, <3>3, VersionFacts, ChosenFacts
  <2>4. CASE version = retained /\ retained # <<>>
    BY <1>1, <2>1, <2>4, VersionFacts, ChosenFacts DEF DuelInv, PastInv
  <2> QED
    BY <1>1, <2>2, <2>3, <2>4, ChosenFacts
<1>7. job \in Job /\ job.id = nextId /\ job.version = version /\ job.cur = cur /\ nextId \in Nat
  BY <1>1, <1>6 DEF TypeInv, Job
<1> HIDE DEF job
<1>8. /\ Accepted => jobs' = <<(<<job>>)>> /\ jobs' # <<>> /\ jobs'[1] = <<job>>
                     /\ jobs'[1] # <<>> /\ jobs'[1][1] = job
      /\ ~Accepted => jobs' = <<>>
  BY <1>2, <1>4, OptHasOne
<1>9. /\ Queued' <=> Accepted
      /\ Out' <=> Accepted
      /\ ~InFlight'
      /\ Accepted => Carried' = job
  <2>1. Queued' <=> Accepted
    BY <1>8 DEF Queued
  <2>2. (Out' <=> Queued') /\ ~InFlight'
    BY <1>2, <1>3 DEF Out, InFlight
  <2>3. Accepted => Carried' = job
    BY <1>2, <1>3, <1>8 DEF Carried
  <2> QED
    BY <2>1, <2>2, <2>3
<1>10. TypeInv'
  <2>1. jobs' \in Opt(Opt(Job))
    BY <1>7, <1>8, OptFacts
  <2>2. since' \in Nat /\ nextId' \in Nat /\ step' \in Steps
    BY <1>1, <1>2 DEF TypeInv, Steps
  <2>3. running' \in Opt(Nat) /\ evalId' \in Opt(Nat)
    BY <1>1, <1>2, <1>7, OptFacts DEF TypeInv
  <2>4. retained' \in Opt(Version)
    BY <1>2, <1>6
  <2> QED
    BY <1>1, <1>2, <2>1, <2>2, <2>3, <2>4 DEF TypeInv
<1>11. OneInv'
  <2>1. worker'.at = "gone" => jobs' = <<>>
    BY <1>2, <1>5, <1>8
  <2>2. Queued' => worker'.at = "idle" /\ results' = <<>>
    BY <1>2, <1>3, <1>5, <1>9
  <2>3. ~(jobs' # <<>> /\ jobs'[1] = <<>>)
    BY <1>8
  <2>4. step' \notin Ended
    BY <1>2 DEF Ended
  <2>5. /\ (Out' /\ mode'.async) => running' = <<Carried'.id>> /\ Carried'.id < nextId'
        /\ (Out' /\ ~mode'.async) => step' = "wait" /\ Carried'.id = nextId'
        /\ step' = "wait" => ~mode'.async
    BY <1>2, <1>7, <1>9
  <2>6. worker'.at \notin Busy
    BY <1>2, <1>3
  <2> QED
    BY <2>1, <2>2, <2>3, <2>4, <2>5, <2>6 DEF OneInv
<1>12. FoldInv'
  <2>1. nextId' \in Nat /\ nextId <= nextId' /\ done \subseteq Nat
    BY <1>1, <1>2, <1>7 DEF TypeInv
  <2>2. done \subseteq cur /\ \A x \in done : x < nextId
    BY <1>1, <1>3 DEF FoldInv
  <2>3. \A x \in done : x < nextId'
    BY <1>7, <2>1, <2>2
  <2>4. nextId \notin done
    BY <1>7, <2>2
  <2> QED
    BY <1>2, <1>7, <1>9, <2>2, <2>3, <2>4 DEF FoldInv
<1>13. DuelInv'
  <2>1. \A v : Rated(v)' <=> Rated(v)
    BY <1>2 DEF Rated, DuelsOf
  <2>2. \A i \in DOMAIN versions : Rated(versions[i])
    BY <1>1, <1>3 DEF DuelInv, Stale
  <2>3. /\ \A i \in DOMAIN versions' : Rated(versions[i])'
        /\ retained' # <<>> => Rated(retained[1])'
        /\ (Out' /\ Carried'.version # <<>>) => Rated(Carried.version[1])'
    BY <1>2, <1>6, <1>7, <1>9, <2>2 DEF Rated, DuelsOf
  <2> QED
    BY <2>3 DEF DuelInv
<1>14. PastInv'
  <2>1. \A t : Past(t)' <=> Past(t)
    BY <1>2 DEF Past
  <2>2. /\ \A d \in duels' : Past(d[1])'
        /\ \A i \in DOMAIN versions' : Past(versions[i].t)'
        /\ retained' # <<>> => Past(retained[1].t)'
    BY <1>1, <1>2, <1>6 DEF PastInv, Past
  <2> QED
    BY <1>2, <1>7, <1>9, <2>2 DEF PastInv
<1>15. ContInv'
  <2>1. cont = worker.cont /\ (worker.cont = Nexto => mode.nexto)
    BY <1>1, <1>3 DEF ContInv
  <2>2. (Accepted /\ worker.cont # NoOpponent) => worker.cont \in ToSet(OpponentsOf(job))
    <3> SUFFICES ASSUME Accepted, worker.cont # NoOpponent
                 PROVE  worker.cont \in ToSet(OpponentsOf(job))
      OBVIOUS
    <3>1. ToSet(OpponentsOf(job)) = (IF job.version = <<>> THEN {} ELSE {Previous(job.version[1].t)})
              \cup (IF mode.nexto THEN {Nexto} ELSE {})
      BY OpponentsAre
    <3>2. CASE worker.cont = Nexto
      BY <2>1, <3>1, <3>2
    <3>3. CASE worker.cont # Nexto
      <4>1. retained # <<>> /\ worker.cont = Previous(retained[1].t)
        BY <1>1, <1>3, <1>5, <3>3 DEF ContInv
      <4>2. version # <<>> /\ cont = Previous(version[1].t)
        BY <1>1, <2>1, <4>1, ChosenFacts
      <4> QED
        BY <1>7, <2>1, <3>1, <4>2
    <3> QED
      BY <3>2, <3>3
  <2>3. Accepted => ToSet(OpponentsOf(Carried))' = ToSet(OpponentsOf(job))
    BY <1>2, <1>9 DEF OpponentsOf
  <2>4. results' = <<>> /\ cont' = worker'.cont /\ (worker'.cont = Nexto => mode'.nexto)
    BY <1>2, <1>3, <2>1
  <2> QED
    BY <1>2, <1>5, <1>9, <2>2, <2>3, <2>4 DEF ContInv
<1> QED
  BY <1>10, <1>11, <1>12, <1>13, <1>14, <1>15 DEF TrackerInv

(* The result brings the learner the ratings of the job that was out, and  *)
(* the version it was played against if it is to be continued.             *)
LEMMA ApplyKeeps ==
    ASSUME TrackerInv, results # <<>>, Apply(Head(results)), results' = Tail(results), jobs = <<>>,
           UNCHANGED <<mode, iteration, jobs, worker, done, duels>>,
           nextId' \in Nat, nextId <= nextId', Carried.id < nextId',
           since' \in Nat, evalId' \in Opt(Nat), step' \in Steps \ {"wait"},
           step' \in Ended => worker.at = "gone",
           \A t \in Nat : Past(t) => Past(t)'
    PROVE  TrackerInv'
<1> DEFINE r == results[1]
           v == r.job.version
<1>1. TypeInv /\ OneInv /\ FoldInv /\ DuelInv /\ PastInv /\ ContInv
  BY DEF TrackerInv
<1>2. r \in [job : Job, cont : Opponents] /\ results = <<r>> /\ Head(results) = r /\ results' = <<>>
  <2>1. r \in [job : Job, cont : Opponents] /\ results = <<r>>
    <3>1. \A x \in Opt([job : Job, cont : Opponents]) : x # <<>> =>
              x[1] \in [job : Job, cont : Opponents] /\ x = <<(x[1])>>
      BY OptFacts
    <3> QED
      BY <1>1, <3>1 DEF TypeInv
  <2> HIDE DEF r
  <2>2. Head(<<r>>) = r /\ Tail(<<r>>) = <<>>
    BY OptHasOne
  <2> QED
    BY <2>1, <2>2
<1>3. InFlight /\ Out /\ ~Queued /\ worker.at \notin Busy /\ Carried = r.job
  BY <1>1 DEF OneInv, InFlight, Out, Queued, Carried, Busy
<1>4. ~Out' /\ ~InFlight' /\ ~Queued'
  BY <1>2, <1>3 DEF InFlight, Out, Queued, Busy
<1>5. /\ r.job.id \in Nat /\ r.job.cur \in SUBSET Nat /\ v \in Opt(Version)
      /\ v # <<>> => v[1] \in Version /\ v[1].t \in Nat /\ v = <<(v[1])>>
      /\ r.cont \in Opponents /\ r.cont = worker.cont
  BY <1>1, <1>2, <1>3, CarriedIs DEF ContInv
<1>6. /\ cur' = r.job.cur /\ cont' = r.cont
      /\ running' = IF running = <<(r.job.id)>> THEN <<>> ELSE running
      /\ versions' = [i \in DOMAIN versions |->
            IF v # <<>> /\ versions[i].t = v[1].t THEN v[1] ELSE versions[i]]
      /\ retained' = IF retained # <<>> /\ r.cont = Previous(retained[1].t)
                     THEN IF v # <<>> /\ v[1].t = retained[1].t THEN v ELSE retained
                     ELSE <<>>
  BY <1>2 DEF Apply, RetainedAfter
<1>7. /\ v # <<>> => Rated(v[1])
      /\ v # <<>> => retained # <<>> /\ retained[1].t = v[1].t
      /\ v = <<>> => retained = <<>>
  BY <1>1, <1>3 DEF DuelInv, PastInv
<1> HIDE DEF r, v
<1>8. /\ retained' \in {<<>>, v}
      /\ (v # <<>> /\ r.cont = Previous(v[1].t)) => retained' = v
  BY <1>6, <1>7
<1>9. /\ DOMAIN versions' = DOMAIN versions
      /\ \A i \in DOMAIN versions : /\ versions'[i].t = versions[i].t
                                    /\ \/ v # <<>> /\ versions'[i] = v[1]
                                       \/ /\ versions'[i] = versions[i]
                                          /\ ~(v # <<>> /\ v[1].t = versions[i].t)
  BY <1>6
<1>10. \A i \in DOMAIN versions' : versions'[i] \in Version /\ versions'[i].t \in Nat
                                   /\ Rated(versions'[i])
  <2> TAKE i \in DOMAIN versions'
  <2>1. CASE v # <<>> /\ versions'[i] = v[1]
    BY <1>5, <1>7, <2>1
  <2>2. CASE versions'[i] = versions[i] /\ ~(v # <<>> /\ v[1].t = versions[i].t)
    <3>1. ~Stale(versions[i].t)
      BY <1>3, <2>2 DEF Stale, v
    <3> QED
      BY <1>1, <1>9, <2>2, <3>1, VersionFacts DEF DuelInv
  <2> QED
    BY <1>9, <2>1, <2>2
<1>11. \A w : Rated(w)' <=> Rated(w)
  BY DEF Rated, DuelsOf
<1>12. TypeInv'
  <2>1. versions' \in Seq(Version)
    <3>1. Len(versions) \in Nat /\ DOMAIN versions = 1..Len(versions)
      BY <1>1, VersionFacts
    <3>2. versions' \in [1..Len(versions) -> Version]
      BY <1>6, <1>9, <1>10, <3>1
    <3> QED
      BY <3>1, <3>2
  <2>2. running' \in Opt(Nat) /\ retained' \in Opt(Version)
    BY <1>1, <1>5, <1>6, <1>8, OptFacts DEF TypeInv
  <2>3. results' \in Opt([job : Job, cont : Opponents])
    BY <1>2, OptFacts
  <2> QED
    BY <1>1, <1>5, <1>6, <2>1, <2>2, <2>3 DEF TypeInv
<1>13. OneInv'
  BY <1>1, <1>3, <1>4 DEF OneInv
<1>14. FoldInv'
  <2>1. done \subseteq cur'
    BY <1>1, <1>3, <1>6 DEF FoldInv
  <2>2. \A x \in done : x < nextId'
    <3> TAKE x \in done
    <3>1. x \in Nat /\ nextId \in Nat
      BY <1>1 DEF TypeInv
    <3>2. x < nextId \/ x = Carried.id
      BY <1>1 DEF FoldInv
    <3> QED
      BY <3>1, <3>2
  <2> QED
    BY <1>4, <2>1, <2>2 DEF FoldInv
<1>15. DuelInv'
  <2>1. \A i \in DOMAIN versions' : Rated(versions[i])'
    BY <1>10 DEF Rated, DuelsOf
  <2>2. retained' # <<>> => Rated(retained[1])'
    BY <1>7, <1>8 DEF Rated, DuelsOf
  <2> QED
    BY <1>4, <2>1, <2>2 DEF DuelInv
<1>16. PastInv'
  <2>1. \A i \in DOMAIN versions' : Past(versions[i].t)'
    <3> TAKE i \in DOMAIN versions'
    <3>1. Past(versions[i].t) /\ versions[i].t \in Nat /\ versions'[i].t = versions[i].t
      BY <1>1, <1>9, VersionFacts DEF PastInv
    <3>2. PICK t \in Nat : t = versions[i].t
      BY <3>1
    <3>3. Past(t)'
      BY <3>1, <3>2
    <3> QED
      BY <3>1, <3>2, <3>3 DEF Past
  <2>2. retained' # <<>> => Past(retained[1].t)'
    <3> SUFFICES ASSUME retained' # <<>> PROVE Past(retained[1].t)'
      OBVIOUS
    <3>1. retained' = v /\ v # <<>> /\ retained # <<>> /\ retained[1].t = v[1].t
      BY <1>7, <1>8
    <3>2. PICK t \in Nat : t = v[1].t
      BY <1>5, <3>1
    <3>3. Past(t)'
      BY <1>1, <3>1, <3>2 DEF PastInv
    <3> QED
      BY <3>1, <3>2, <3>3 DEF Past
  <2>3. \A d \in duels' : Past(d[1])'
    BY <1>1, VersionFacts DEF PastInv
  <2> QED
    BY <1>4, <2>1, <2>2, <2>3 DEF PastInv
<1>17. ContInv'
  <2>1. worker.cont \notin {NoOpponent, Nexto} => v # <<>> /\ worker.cont = Previous(v[1].t)
    <3>1. worker.cont \in {NoOpponent} \cup ToSet(OpponentsOf(r.job))
      BY <1>1, <1>3 DEF ContInv
    <3>2. ToSet(OpponentsOf(r.job)) = (IF v = <<>> THEN {} ELSE {Previous(v[1].t)})
              \cup (IF mode.nexto THEN {Nexto} ELSE {})
      BY OpponentsAre DEF v
    <3> QED
      BY <3>1, <3>2
  <2>2. worker.cont \notin {NoOpponent, Nexto} =>
            retained' # <<>> /\ worker.cont = Previous(retained'[1].t)
    BY <1>5, <1>8, <2>1
  <2>3. worker.cont = Nexto => mode.nexto
    BY <1>1 DEF ContInv
  <2> QED
    BY <1>2, <1>4, <1>5, <1>6, <2>2, <2>3 DEF ContInv
<1> QED
  BY <1>12, <1>13, <1>14, <1>15, <1>16, <1>17 DEF TrackerInv

(* Steps that leave the tracker's state alone, but for the learner's place. *)
LEMMA PlaceKeeps ==
    ASSUME TrackerInv, step' \in Steps \ {"wait"}, ~Queued => (jobs = <<>> \/ step' = "join"),
           step' \in Ended => worker.at = "gone" /\ results = <<>>,
           UNCHANGED <<mode, iteration, versions, cur, since, nextId, running, cont, retained,
                       evalId, jobs, results, worker, done, duels>>,
           Out => step # "wait", \A t \in Nat : Past(t) => Past(t)'
    PROVE  TrackerInv'
<1>1. TypeInv /\ OneInv /\ FoldInv /\ DuelInv /\ PastInv /\ ContInv
  BY DEF TrackerInv
<1>2. TokenSame /\ (Queued' <=> Queued)
  BY TokenFrame
<1>3. TypeInv'
  BY <1>1 DEF TypeInv
<1>4. OneInv'
  <2>1. (worker.at = "gone" /\ results = <<>>) => ~Out
    BY <1>1 DEF OneInv, Out, Queued, Busy
  <2>2. (jobs' # <<>> /\ jobs'[1] = <<>>) => step' = "join"
    BY DEF Queued
  <2> QED
    BY <1>1, <1>2, <2>1, <2>2, CarriedIs DEF OneInv, TokenSame
<1>5. FoldInv' /\ DuelInv' /\ ContInv'
  BY <1>1, <1>2, FoldFrame, DuelFrame, ContFrame
<1> QED
  BY <1>1, <1>2, <1>3, <1>4, <1>5, PastFrame DEF TrackerInv

(* The tracker takes an answer. *)
LEMMA PollUpdatesKeeps ==
    ASSUME TrackerInv, PollUpdates
    PROVE  TrackerInv'
<1>1. TypeInv /\ OneInv
  BY DEF TrackerInv
<1>2. step = "poll" /\ step' = "versions"
      /\ UNCHANGED <<mode, iteration, evalId, jobs, worker, done, duels>>
  BY DEF PollUpdates, workerVars
<1>3. step' \in Steps \ {"wait"} /\ step' \notin Ended /\ step' # "join"
  BY <1>2 DEF Steps, Ended
<1>4. ~Queued => jobs = <<>>
  BY <1>1, <1>2 DEF OneInv, Queued
<1>5. \A t \in Nat : Past(t) => Past(t)'
  BY <1>2 DEF Past
<1>6. CASE results = <<>>
  <2>1. UNCHANGED <<managerVars, results>>
    BY <1>6 DEF PollUpdates
  <2>2. UNCHANGED <<versions, cur, since, nextId, running, cont, retained, results>>
    BY <2>1 DEF managerVars
  <2> QED
    BY <1>2, <1>3, <1>4, <1>5, <2>2, PlaceKeeps
<1>7. CASE results # <<>>
  <2>1. Apply(Head(results)) /\ results' = Tail(results) /\ UNCHANGED <<since, nextId>>
    BY <1>7 DEF PollUpdates
  <2>2. Out /\ ~Queued
    BY <1>1, <1>7 DEF Out, OneInv
  <2>3. Carried.id < nextId
    BY <1>1, <1>2, <2>2 DEF OneInv
  <2>4. nextId' \in Nat /\ nextId <= nextId' /\ Carried.id < nextId' /\ since' \in Nat
        /\ evalId' \in Opt(Nat)
    BY <1>1, <1>2, <2>1, <2>3 DEF TypeInv
  <2> QED
    BY <1>2, <1>3, <1>4, <1>5, <1>7, <2>1, <2>2, <2>4, ApplyKeeps
<1> QED
  BY <1>6, <1>7

(* The learner has waited for an answer. *)
LEMMA AnsweredKeeps ==
    ASSUME TrackerInv, Answered
    PROVE  TrackerInv'
<1>1. TypeInv /\ OneInv
  BY DEF TrackerInv
<1>2. /\ step = "wait" /\ results # <<>> /\ Apply(Head(results)) /\ results' = Tail(results)
      /\ since' = 0 /\ nextId' = nextId + 1 /\ evalId' = <<nextId>> /\ step' = "report"
      /\ UNCHANGED <<mode, iteration, jobs, worker, done, duels>>
  BY DEF Answered, workerVars
<1>3. step' \in Steps \ {"wait"} /\ step' \notin Ended
  BY <1>2 DEF Steps, Ended
<1>4. Out /\ jobs = <<>>
  BY <1>1, <1>2 DEF OneInv, Queued, Out
<1>5. Carried.id = nextId
  BY <1>1, <1>2, <1>4 DEF OneInv
<1>6. nextId' \in Nat /\ nextId <= nextId' /\ Carried.id < nextId' /\ since' \in Nat
  BY <1>1, <1>2, <1>5 DEF TypeInv
<1>7. evalId' \in Opt(Nat)
  BY <1>1, <1>2, OptFacts DEF TypeInv
<1>8. \A t \in Nat : Past(t) => Past(t)'
  BY <1>2 DEF Past
<1> QED
  BY <1>2, <1>3, <1>4, <1>6, <1>7, <1>8, ApplyKeeps

(* The learner joins the worker and takes what it answered. *)
LEMMA JoinWorkerKeeps ==
    ASSUME TrackerInv, JoinWorker
    PROVE  TrackerInv'
<1>1. TypeInv /\ OneInv
  BY DEF TrackerInv
<1>2. step = "join" /\ step' = "stopped" /\ worker.at = "gone"
      /\ UNCHANGED <<mode, iteration, evalId, jobs, worker, done, duels>>
  BY DEF JoinWorker, workerVars
<1>3. step' \in Steps \ {"wait"}
  BY <1>2 DEF Steps, Ended
<1>4. jobs = <<>>
  BY <1>1, <1>2 DEF OneInv
<1>5. \A t \in Nat : Past(t) => Past(t)'
  BY <1>2 DEF Past
<1>6. CASE results = <<>>
  <2>1. UNCHANGED <<managerVars, results>>
    BY <1>6 DEF JoinWorker, Leftover
  <2>2. UNCHANGED <<versions, cur, since, nextId, running, cont, retained, results>>
    BY <2>1 DEF managerVars
  <2> QED
    BY <1>2, <1>3, <1>4, <1>5, <1>6, <2>2, PlaceKeeps
<1>7. CASE results # <<>>
  <2>1. Apply(Head(results)) /\ results' = Tail(results) /\ UNCHANGED <<since, nextId>>
    BY <1>7 DEF JoinWorker, Leftover
  <2>2. Out
    BY <1>7 DEF Out
  <2>3. Carried.id < nextId
    BY <1>1, <1>2, <2>2 DEF OneInv
  <2>4. nextId' \in Nat /\ nextId <= nextId' /\ Carried.id < nextId' /\ since' \in Nat
        /\ evalId' \in Opt(Nat)
    BY <1>1, <1>2, <2>1, <2>3 DEF TypeInv
  <2> QED
    BY <1>2, <1>3, <1>4, <1>5, <1>7, <2>1, <2>4, ApplyKeeps
<1> QED
  BY <1>6, <1>7

(* The metrics actor leaves the tracker alone, and so does learn's return. *)
LEMMA ActorKeeps ==
    ASSUME TrackerInv, ActorStep \/ Return \/ UNCHANGED vars
    PROVE  TrackerInv'
<1>1. TypeInv /\ OneInv
  BY DEF TrackerInv
<1>2. /\ UNCHANGED <<mode, iteration, versions, cur, since, nextId, running, cont, retained,
                     evalId, jobs, results, worker, done, duels>>
      /\ step' = step \/ (step = "stopped" /\ step' = "returned")
  BY DEF ActorStep, DrainUpdate, Emit, ReceiveReport, ReceiveShutdown, ReceiveNothing, Return,
         vars, trackerVars, learnerVars, managerVars, workerVars
<1>3. CASE step' = step
  <2>1. TokenSame /\ (Queued' <=> Queued)
    BY <1>2, TokenFrame
  <2>2. TypeInv /\ OneInv /\ FoldInv /\ DuelInv /\ PastInv /\ ContInv
    BY DEF TrackerInv
  <2>3. TypeInv'
    BY <1>2, <1>3, <2>2 DEF TypeInv
  <2>4. OneInv'
    BY <1>2, <1>3, <2>1, <2>2, CarriedIs DEF OneInv, TokenSame
  <2>5. FoldInv' /\ DuelInv' /\ ContInv'
    BY <1>2, <2>1, <2>2, FoldFrame, DuelFrame, ContFrame
  <2>6. \A t \in Nat : Past(t) => Past(t)'
    BY <1>2, <1>3 DEF Past
  <2> QED
    BY <1>2, <2>1, <2>2, <2>3, <2>4, <2>5, <2>6, PastFrame DEF TrackerInv
<1>4. CASE step = "stopped" /\ step' = "returned"
  <2>1. worker.at = "gone" /\ ~Out /\ jobs = <<>> /\ results = <<>>
    BY <1>1, <1>4 DEF OneInv, Ended, Out
  <2>2. step' \in Steps \ {"wait"}
    BY <1>4 DEF Steps, Ended
  <2>3. \A t \in Nat : Past(t) => Past(t)'
    BY <1>2, <1>4 DEF Past
  <2> QED
    BY <1>2, <2>1, <2>2, <2>3, PlaceKeeps
<1> QED
  BY <1>2, <1>3, <1>4

(* Every step keeps the tracker's invariant. *)
LEMMA NextTracker ==
    ASSUME TrackerInv, [Next]_vars
    PROVE  TrackerInv'
<1>1. CASE WorkerStep
  BY <1>1, TakeJobKeeps, TellMetricsKeeps, AnswerKeeps, RunMatchesKeeps DEF WorkerStep
<1>2. CASE LearnerStep
  BY <1>2, PollUpdatesKeeps, NoEvaluationKeeps, AnsweredKeeps, NoAnswerKeeps, SaveVersionKeeps,
     SendReportKeeps, DispatchKeeps, AskWorkerToStopKeeps, JoinWorkerKeeps DEF LearnerStep
<1>3. CASE WorkerDies
  BY <1>3, WorkerDiesKeeps
<1>4. CASE ActorStep \/ Return \/ UNCHANGED vars
  BY <1>4, ActorKeeps
<1> QED
  BY <1>1, <1>2, <1>3, <1>4 DEF Next, TrackerStep

(* The tracker's invariant holds in every reachable state. *)
LEMMA TrackerInvHolds == Spec => []TrackerInv
<1>1. TrackerInv /\ [Next]_vars => TrackerInv'
  BY NextTracker
<1> QED
  BY InitTracker, <1>1, PTL DEF Spec

(* A job starts from the ratings of every evaluation before it, and so     *)
(* does the learner when none is out: no result overwrites a later one,    *)
(* and what is saved at the end has them all.                              *)
THEOREM NoRatingLost == Spec => []RatingsAccumulate
<1>1. TrackerInv => RatingsAccumulate
  <2> SUFFICES ASSUME TrackerInv PROVE RatingsAccumulate
    OBVIOUS
  <2>1. TypeInv /\ OneInv /\ FoldInv
    BY DEF TrackerInv
  <2>2. \A i \in DOMAIN jobs : jobs[i] # <<>> => done \subseteq jobs[i][1].cur
    <3> SUFFICES ASSUME NEW i \in DOMAIN jobs, jobs[i] # <<>>
                 PROVE  done \subseteq jobs[i][1].cur
      OBVIOUS
    <3>1. i = 1
      <4>1. jobs = <<>> \/ \E x \in Opt(Job) : jobs = <<x>>
        BY <2>1 DEF TypeInv, Opt
      <4> QED
        BY <4>1
    <3>2. Queued
      BY <3>1 DEF Queued
    <3>3. Out /\ Carried = jobs[1][1]
      BY <2>1, <3>2 DEF OneInv, Out, Carried, Busy
    <3> QED
      BY <2>1, <3>1, <3>3 DEF FoldInv
  <2>3. worker.at = "running" => done \subseteq worker.job[1].cur
    <3> SUFFICES ASSUME worker.at = "running" PROVE done \subseteq worker.job[1].cur
      OBVIOUS
    <3>1. Out /\ Carried = worker.job[1]
      BY <2>1 DEF OneInv, Out, Carried, Busy
    <3> QED
      BY <2>1, <3>1 DEF FoldInv
  <2>4. (~InFlight \/ step \in {"stopped", "returned"}) => done \subseteq cur
    <3>1. step \in {"stopped", "returned"} => ~InFlight
      BY <2>1, CarriedIs DEF OneInv, Ended
    <3> QED
      BY <2>1, <3>1 DEF FoldInv
  <2> QED
    BY <2>2, <2>3, <2>4 DEF RatingsAccumulate
<1> QED
  BY <1>1, TrackerInvHolds, PTL

(* A saved version's rating holds every evaluation played against it, when *)
(* none is out, and so does that of the copy a job carries, even when the  *)
(* window has dropped the version since the job before.                    *)
THEOREM NoDuelLost == Spec => []OpponentRatingsAccumulate
<1>1. TrackerInv => OpponentRatingsAccumulate
  <2> SUFFICES ASSUME TrackerInv PROVE OpponentRatingsAccumulate
    OBVIOUS
  <2> DEFINE Carries(job) == \A i \in DOMAIN job.version : Rated(job.version[i])
  <2>1. TypeInv /\ OneInv /\ DuelInv
    BY DEF TrackerInv
  <2>2. Out => Carries(Carried)
    <3> SUFFICES ASSUME Out, NEW i \in DOMAIN Carried.version PROVE Rated(Carried.version[i])
      OBVIOUS
    <3>1. Carried.version = <<>> \/ \E x \in Version : Carried.version = <<x>>
      BY <2>1, CarriedIs DEF Opt
    <3>2. i = 1 /\ Carried.version # <<>>
      BY <3>1
    <3> QED
      BY <2>1, <3>2 DEF DuelInv
  <2>3. \A i \in DOMAIN jobs : jobs[i] # <<>> => Carries(jobs[i][1])
    <3> SUFFICES ASSUME NEW i \in DOMAIN jobs, jobs[i] # <<>>
                 PROVE  Carries(jobs[i][1])
      OBVIOUS
    <3>1. i = 1
      <4>1. jobs = <<>> \/ \E x \in Opt(Job) : jobs = <<x>>
        BY <2>1 DEF TypeInv, Opt
      <4> QED
        BY <4>1
    <3>2. Out /\ Carried = jobs[1][1]
      BY <2>1, <3>1 DEF OneInv, Out, Carried, Queued, Busy
    <3> QED
      BY <2>2, <3>1, <3>2
  <2>4. worker.at = "running" => Carries(worker.job[1])
    <3> SUFFICES ASSUME worker.at = "running" PROVE Carries(worker.job[1])
      OBVIOUS
    <3>1. Out /\ Carried = worker.job[1]
      BY <2>1 DEF OneInv, Out, Carried, Busy
    <3> QED
      BY <2>2, <3>1
  <2>5. ~InFlight => \A i \in DOMAIN versions : Rated(versions[i])
    BY <2>1 DEF DuelInv, Stale
  <2> QED
    BY <2>3, <2>4, <2>5 DEF OpponentRatingsAccumulate, Rated, DuelsOf
<1> QED
  BY <1>1, TrackerInvHolds, PTL

(* The job after an interrupted one brings the opponent it was interrupted *)
(* against, whatever the window dropped in between.                        *)
THEOREM PhasesContinue == Spec => []PhasesAreContinued
<1>1. TrackerInv => PhasesAreContinued
  <2> SUFFICES ASSUME TrackerInv, worker.at = "running", worker.cont # NoOpponent
               PROVE  StartOf(worker.job[1]) = worker.cont
    BY DEF PhasesAreContinued
  <2>1. OneInv /\ ContInv
    BY DEF TrackerInv
  <2>2. Out /\ ~InFlight /\ Carried = worker.job[1]
    BY <2>1 DEF OneInv, Out, InFlight, Carried, Busy
  <2>3. worker.cont \in ToSet(OpponentsOf(worker.job[1]))
    BY <2>1, <2>2 DEF ContInv
  <2> QED
    BY <2>3 DEF StartOf
<1> QED
  BY <1>1, TrackerInvHolds, PTL

-----------------------------------------------------------------------------
(* The metrics actor's state. *)
ActorTypeInv ==
    /\ skillRx \in Seq(Update) /\ metricRx \in Seq(Message)
    /\ at \in {"drain", "receive", "done"} /\ stopping \in BOOLEAN
    /\ pending \in Seq(Report) /\ emitted \in Seq(Report) /\ completed \in SUBSET Update

(* An update on its way to the actor, or kept by it; an evaluation whose   *)
(* update is still to come.                                                *)
Queues(x) == \E k \in DOMAIN skillRx : skillRx[k].id = x
Keeps(x) == \E u \in completed : u.id = x
Due(x) == (Queued \/ worker.at \in {"running", "tell"}) /\ x = Carried.id
Coming(x) == Queues(x) \/ Due(x)

UpdateInv ==
    /\ \A x : Queues(x) \/ Keeps(x) => x \in done
    /\ \A i, j \in DOMAIN skillRx : i <= j => skillRx[i].id \in skillRx[j].cur
    /\ \A i, j \in DOMAIN skillRx : i < j => skillRx[i].id # skillRx[j].id
    /\ \A u \in completed : u.id \in u.cur
    /\ \A u \in completed, k \in DOMAIN skillRx : u.id \in skillRx[k].cur /\ u.id # skillRx[k].id
    /\ \A x : (worker.at = "tell" /\ Due(x)) => ~Queues(x) /\ ~Keeps(x)

(* A report that waits for the evaluation is still to come, or is here.    *)
Awaited(x) ==
    \/ \E i \in DOMAIN metricRx : metricRx[i].n # 0 /\ metricRx[i].waits = <<x>>
    \/ step = "report" /\ evalId = <<x>>
    \/ step = "wait" /\ nextId = x
Waits(x) == \E i \in DOMAIN pending : pending[i].waits = <<x>>

AwaitInv ==
    ~stopping =>
        /\ \A u \in completed : Awaited(u.id)
        /\ \A x : Coming(x) => Awaited(x) \/ Waits(x)
        /\ \A u \in completed : ~Waits(u.id)

Shown(report) ==
    (report.asked # <<>> /\ ~report.cut) =>
        report.asked[1] \in report.shown /\ report.fresh = report.asked

(* The updates behind the one a report has been settled by hold it as well. *)
Settling(report) ==
    /\ report.waits = <<>> \/ report.waits = report.asked
    /\ report.waits = <<>> => Shown(report)
    /\ (report.waits = <<>> /\ report.asked # <<>> /\ ~report.cut) =>
          /\ report.asked[1] \in done
          /\ \A k \in DOMAIN skillRx : report.asked[1] \in skillRx[k].cur

ReportInv ==
    /\ \A i \in DOMAIN pending : Settling(pending[i])
    /\ ~stopping => \A i \in DOMAIN pending : ~pending[i].cut
    /\ \A i \in DOMAIN emitted : Shown(emitted[i])

(* The reports that the learner has sent. *)
Sent == IF step \in {"quit", "join"} \cup Ended THEN iteration ELSE iteration - 1
Held == Len(emitted) + Len(pending)

QueueInv ==
    /\ iteration # 0
    /\ \A i \in DOMAIN emitted : emitted[i].n = i
    /\ \A i \in DOMAIN pending : pending[i].n = Len(emitted) + i
    /\ \A i \in DOMAIN metricRx : metricRx[i].n = IF Held + i = Sent + 1 THEN 0 ELSE Held + i
    /\ Held + Len(metricRx) = IF step \in Ended /\ ~stopping THEN Sent + 1 ELSE Sent
    /\ stopping => step \in Ended /\ metricRx = <<>>
    /\ at = "done" => stopping /\ pending = <<>>
    /\ step = "returned" => at = "done"

ActorInv == ActorTypeInv /\ UpdateInv /\ AwaitInv /\ ReportInv /\ QueueInv

(* Taking from the front of a queue, and putting at its end.               *)
LEMMA TailFacts ==
    ASSUME NEW S, NEW s \in Seq(S), s # <<>>
    PROVE  /\ Tail(s) \in Seq(S) /\ Len(s) \in Nat \ {0} /\ Len(Tail(s)) = Len(s) - 1
           /\ DOMAIN s = 1..Len(s) /\ DOMAIN Tail(s) = 1..Len(s) - 1
           /\ 1 \in DOMAIN s /\ Head(s) = s[1] /\ s[1] \in S
           /\ \A i \in DOMAIN Tail(s) : i + 1 \in DOMAIN s /\ Tail(s)[i] = s[i + 1]
<1>1. Len(s) \in Nat \ {0} /\ DOMAIN s = 1..Len(s)
  BY LenProperties, EmptySeq
<1>2. /\ Tail(s) \in Seq(S) /\ Len(Tail(s)) = Len(s) - 1 /\ Head(s) = s[1] /\ Head(s) \in S
      /\ \A i \in 1..Len(s) - 1 : Tail(s)[i] = s[i + 1]
  BY <1>1, HeadTailProperties
<1>3. DOMAIN Tail(s) = 1..Len(s) - 1
  BY <1>2, LenProperties
<1> QED
  BY <1>1, <1>2, <1>3

(* What an appended sequence is. *)
LEMMA AppendFacts ==
    ASSUME NEW S, NEW s \in Seq(S), NEW e \in S
    PROVE  /\ Append(s, e) \in Seq(S) /\ Len(s) \in Nat /\ Len(Append(s, e)) = Len(s) + 1
           /\ DOMAIN s = 1..Len(s) /\ DOMAIN Append(s, e) = 1..Len(s) + 1
           /\ Append(s, e)[Len(s) + 1] = e
           /\ \A i \in DOMAIN s : i \in DOMAIN Append(s, e) /\ Append(s, e)[i] = s[i]
           /\ \A i \in DOMAIN Append(s, e) : i \in DOMAIN s \/ i = Len(s) + 1
<1>1. Len(s) \in Nat /\ DOMAIN s = 1..Len(s)
  BY LenProperties
<1>2. /\ Append(s, e) \in Seq(S) /\ Len(Append(s, e)) = Len(s) + 1
      /\ \A i \in 1..Len(s) : Append(s, e)[i] = s[i]
      /\ Append(s, e)[Len(s) + 1] = e
  BY AppendProperties
<1>3. DOMAIN Append(s, e) = 1..Len(s) + 1
  BY <1>2, LenProperties
<1> QED
  BY <1>1, <1>2, <1>3

(* The reports that go out are settled. *)
LEMMA ReadyFacts ==
    ASSUME pending \in Seq(Report)
    PROVE  Ready \in 0..Len(pending) /\ \A i \in 1..Ready : pending[i].waits = <<>>
<1> DEFINE S == {i \in DOMAIN pending : \A j \in 1..i : pending[j].waits = <<>>}
<1>1. Len(pending) \in Nat /\ DOMAIN pending = 1..Len(pending)
  BY LenProperties
<1>2. Ready = Cardinality(S)
  BY DEF Ready
<1>3. \E m \in 0..Len(pending) : S = 1..m
  <2>1. CASE S = {}
    <3>1. S = 1..0 /\ 0 \in 0..Len(pending)
      BY <1>1, <2>1
    <3> QED
      BY <3>1
  <2>2. CASE S # {}
    <3>1. S \in SUBSET Nat /\ \A n \in S : n <= Len(pending)
      BY <1>1
    <3>2. PICK m \in S : \A n \in S : n <= m
      <4> HIDE DEF S
      <4> QED
        BY <1>1, <2>2, <3>1, GreatestExists
    <3>3. m \in 1..Len(pending) /\ \A j \in 1..m : pending[j].waits = <<>>
      BY <1>1, <3>2
    <3>4. \A i \in 1..m : i \in S
      <4> TAKE i \in 1..m
      <4>1. i \in DOMAIN pending
        BY <1>1, <3>3
      <4>2. \A j \in 1..i : j \in 1..m
        BY <3>3
      <4> QED
        BY <3>3, <4>1, <4>2
    <3>5. \A i \in S : i \in 1..m
      BY <1>1, <3>2, <3>3
    <3> HIDE DEF S
    <3>6. S = 1..m
      BY <3>4, <3>5, Zenon
    <3>7. m \in 0..Len(pending)
      BY <1>1, <3>3
    <3> QED
      BY <3>6, <3>7
  <2> QED
    BY <2>1, <2>2
<1>4. PICK m \in 0..Len(pending) : S = 1..m
  BY <1>3
<1>5. m \in Nat /\ Cardinality(1..m) = m
  <2>1. m \in Nat
    BY <1>1
  <2>2. Cardinality(1..m) = IF 1 > m THEN 0 ELSE m - 1 + 1
    BY <2>1, FS_Interval
  <2> QED
    BY <2>1, <2>2
<1>6. Ready = m
  BY <1>2, <1>4, <1>5
<1>7. \A i \in 1..m : pending[i].waits = <<>>
  <2> TAKE i \in 1..m
  <2>1. i \in S /\ i \in 1..i
    BY <1>4, <1>5
  <2> QED
    BY <2>1
<1> QED
  BY <1>6, <1>7

(* What the tracker's steps do to what the actor relies on. *)
UpdateStep ==
    /\ UNCHANGED <<skillRx, completed>> /\ done \subseteq done'
    /\ \A x : (worker'.at = "tell" /\ Due(x)') => (worker.at = "tell" /\ Due(x)) \/ x \notin done

AwaitStep ==
    /\ UNCHANGED <<pending, completed, stopping>>
    /\ \A x : Coming(x)' => Coming(x) \/ Awaited(x)'
    /\ \A x : Awaited(x) => Awaited(x)' \/ (x \notin done /\ ~Coming(x)')

QueueStep ==
    /\ UNCHANGED <<iteration, metricRx, at, pending, stopping, emitted>>
    /\ Sent' = Sent /\ (step' \in Ended <=> step \in Ended)
    /\ step' = "returned" => step = "returned" \/ at = "done"

(* Steps that send nothing to the actor. *)
LEMMA SameSent ==
    ASSUME UNCHANGED <<iteration, metricRx, actorVars>>,
           step' \in {"quit", "join"} \cup Ended <=> step \in {"quit", "join"} \cup Ended,
           step' \in Ended <=> step \in Ended,
           step' = "returned" => step = "returned" \/ at = "done"
    PROVE  QueueStep
BY DEF QueueStep, Sent, actorVars

(* Nothing is due but the job that is out. *)
LEMMA SameDue ==
    ASSUME OneInv, UNCHANGED <<worker, skillRx>>, jobs' = jobs \/ ~Queued',
           results = <<>> => results' = <<>>
    PROVE  \A x : /\ Due(x)' => Due(x)
                  /\ Coming(x)' => Coming(x)
<1>1. (Queued \/ worker.at \in {"running", "tell"}) => results = <<>>
  BY DEF OneInv, Busy
<1>2. Queued' => Queued
  BY DEF Queued
<1>3. (Queued' \/ worker'.at \in {"running", "tell"}) => Carried' = Carried
  <2>1. CASE worker.at \in Busy
    BY <1>1, <2>1 DEF Carried, OneInv
  <2>2. CASE worker.at \notin Busy
    BY <1>1, <1>2, <2>2 DEF Carried, Busy, Queued
  <2> QED
    BY <2>1, <2>2
<1>4. \A x : Due(x)' => Due(x)
  BY <1>2, <1>3 DEF Due
<1> QED
  BY <1>4 DEF Coming, Queues

(* Steps that change nothing of what is awaited. *)
LEMMA SameAwaited ==
    ASSUME UNCHANGED metricRx, step \notin {"report", "wait"}
    PROVE  \A x : Awaited(x) => Awaited(x)'
BY DEF Awaited

(* Steps of the learner that send nothing. *)
LEMMA LearnerSteps ==
    ASSUME TrackerInv, UpdateInv,
           \/ PollUpdates \/ NoEvaluation \/ Answered \/ NoAnswer \/ AskWorkerToStop
           \/ \E b \in BOOLEAN : SaveVersion(b),
           UNCHANGED actorVars
    PROVE  UpdateStep /\ AwaitStep /\ QueueStep
<1> USE DEF Ended, actorVars
<1>1. TypeInv /\ OneInv /\ FoldInv
  BY DEF TrackerInv
<1>2. /\ UNCHANGED <<iteration, skillRx, metricRx, worker, done>>
      /\ step \notin Ended /\ step' \notin Ended
      /\ (step' \in {"quit", "join"} <=> step \in {"quit", "join"})
  BY DEF PollUpdates, NoEvaluation, Answered, NoAnswer, AskWorkerToStop, SaveVersion, workerVars
<1>3. QueueStep
  BY <1>2, SameSent
<1>4. results = <<>> => results' = <<>>
  BY DEF PollUpdates, NoEvaluation, Answered, NoAnswer, AskWorkerToStop, SaveVersion
<1>5. jobs' = jobs \/ ~Queued'
  <2>1. CASE AskWorkerToStop
    <3>1. jobs' = jobs \/ jobs' = <<(<<>>)>>
      BY <2>1 DEF AskWorkerToStop
    <3> QED
      BY <3>1, OptHasOne DEF Queued
  <2>2. CASE ~AskWorkerToStop
    BY <2>2 DEF PollUpdates, NoEvaluation, Answered, NoAnswer, SaveVersion
  <2> QED
    BY <2>1, <2>2
<1>6. \A x : (Due(x)' => Due(x)) /\ (Coming(x)' => Coming(x))
  BY <1>1, <1>2, <1>4, <1>5, SameDue
<1>7. UpdateStep
  BY <1>2, <1>6 DEF UpdateStep
<1>8. \A x : Awaited(x) => Awaited(x)' \/ (x \notin done /\ ~Coming(x)')
  <2>1. CASE Answered
    <3>1. step = "wait" /\ evalId' = <<nextId>> /\ step' = "report" /\ UNCHANGED metricRx
      BY <2>1 DEF Answered
    <3> QED
      BY <3>1 DEF Awaited
  <2>2. CASE NoAnswer
    <3>1. step = "wait" /\ results = <<>> /\ worker.at = "gone" /\ UNCHANGED metricRx
      BY <2>2 DEF NoAnswer
    <3>2. ~InFlight /\ ~Queued
      BY <1>1, <3>1 DEF InFlight, OneInv
    <3>3. nextId \notin done
      BY <1>1, <3>2 DEF FoldInv, TypeInv
    <3>4. ~Due(nextId)
      BY <3>1, <3>2 DEF Due
    <3>5. ~Coming(nextId)
      BY <3>3, <3>4 DEF Coming, UpdateInv
    <3>6. \A x : Awaited(x) => Awaited(x)' \/ x = nextId
      BY <3>1 DEF Awaited
    <3> QED
      BY <1>6, <3>3, <3>5, <3>6
  <2>3. CASE ~Answered /\ ~NoAnswer
    <3>1. step \notin {"report", "wait"} /\ UNCHANGED metricRx
      BY <2>3 DEF PollUpdates, NoEvaluation, AskWorkerToStop, SaveVersion
    <3> QED
      BY <3>1, SameAwaited
  <2> QED
    BY <2>1, <2>2, <2>3
<1>9. AwaitStep
  BY <1>2, <1>6, <1>8 DEF AwaitStep
<1> QED
  BY <1>3, <1>7, <1>9

(* What learn's return does. *)
LEMMA ReturnStep ==
    ASSUME TrackerInv, Return \/ UNCHANGED vars
    PROVE  UpdateStep /\ AwaitStep /\ QueueStep
<1>1. /\ UNCHANGED <<iteration, skillRx, metricRx, worker, done, jobs, results, actorVars, nextId, evalId>>
      /\ step' = step \/ (step = "stopped" /\ step' = "returned" /\ at = "done")
  BY DEF Return, vars, trackerVars, learnerVars, managerVars, workerVars
<1>2. QueueStep
  BY <1>1, SameSent DEF Ended
<1>3. \A x : (Due(x)' => Due(x)) /\ (Coming(x)' => Coming(x))
  BY <1>1, SameDue DEF TrackerInv
<1>4. \A x : Awaited(x) => Awaited(x)'
  BY <1>1 DEF Awaited
<1> QED
  BY <1>1, <1>2, <1>3, <1>4 DEF UpdateStep, AwaitStep, actorVars

(* A job under way keeps its name until the actor has been told.           *)
LEMMA WorkerSteps ==
    ASSUME TrackerInv, UNCHANGED actorVars,
           \/ TakeJob \/ Answer \/ WorkerDies
           \/ \E stop \in {NoOpponent, Nexto} \cup {Previous(t) : t \in 1..MaxIteration} :
                 RunMatches(stop)
    PROVE  UpdateStep /\ AwaitStep /\ QueueStep
<1>1. TypeInv /\ OneInv /\ FoldInv
  BY DEF TrackerInv
<1>2. /\ UNCHANGED <<step, iteration, evalId, nextId, skillRx, metricRx>>
      /\ done \subseteq done'
  BY DEF TakeJob, Answer, WorkerDies, RunMatches, learnerVars, managerVars
<1>3. QueueStep
  BY <1>2, SameSent
<1>4. \A x : Awaited(x)' <=> Awaited(x)
  BY <1>2 DEF Awaited
<1>5. \A x : (Due(x)' => Due(x)) /\ ((worker'.at = "tell" /\ Due(x)') => x \notin done)
  <2>1. CASE TakeJob
    <3>1. /\ worker.at = "idle" /\ jobs # <<>> /\ jobs' = Tail(jobs) /\ results' = results
          /\ worker' = IF Head(jobs) = <<>> THEN [worker EXCEPT !.at = "gone"]
                       ELSE [worker EXCEPT !.at = "running", !.job = Head(jobs)]
      BY <2>1 DEF TakeJob
    <3>2. jobs = <<(jobs[1])>> /\ jobs[1] \in Opt(Job) /\ Head(jobs) = jobs[1] /\ jobs' = <<>>
      <4>1. jobs = <<(jobs[1])>> /\ jobs[1] \in Opt(Job)
        BY <1>1, <3>1, OptFacts DEF TypeInv
      <4>2. \A j : Head(<<j>>) = j /\ Tail(<<j>>) = <<>>
        BY OptHasOne
      <4> QED
        BY <3>1, <4>1, <4>2
    <3>3. /\ jobs[1] = <<>> => worker'.at = "gone"
          /\ jobs[1] # <<>> => worker'.at = "running" /\ worker'.job = jobs[1]
      BY <1>1, <3>1, <3>2, WorkerFacts DEF TypeInv, Worker, Busy
    <3>4. ~Queued' /\ (Queued => results = <<>>) /\ (Queued <=> jobs[1] # <<>>)
      BY <1>1, <3>1, <3>2 DEF Queued, OneInv
    <3>5. jobs[1] # <<>> => Carried' = jobs[1][1] /\ Carried = jobs[1][1] /\ Queued
      BY <3>1, <3>3, <3>4 DEF Carried, Busy
    <3> QED
      BY <3>3, <3>4, <3>5 DEF Due
  <2>2. CASE Answer
    <3>1. /\ worker.at = "answer" /\ worker' = [worker EXCEPT !.at = "idle", !.job = <<>>]
          /\ jobs' = jobs
      BY <2>2 DEF Answer
    <3>2. worker'.at = "idle"
      BY <1>1, <3>1, WorkerFacts, OptFacts DEF TypeInv, Worker, Busy
    <3>3. ~Queued /\ ~Queued'
      BY <1>1, <3>1 DEF OneInv, Queued
    <3> QED
      BY <3>2, <3>3 DEF Due
  <2>3. CASE WorkerDies
    <3>1. worker.at = "running" /\ jobs' = <<>>
          /\ worker' = [worker EXCEPT !.at = "gone", !.job = <<>>]
      BY <2>3 DEF WorkerDies
    <3>2. worker'.at = "gone"
      BY <1>1, <3>1, WorkerFacts, OptFacts DEF TypeInv, Worker, Busy
    <3> QED
      BY <3>1, <3>2 DEF Due, Queued
  <2>4. CASE \E stop \in {NoOpponent, Nexto} \cup {Previous(t) : t \in 1..MaxIteration} :
                 RunMatches(stop)
    <3>1. PICK stop \in {NoOpponent, Nexto} \cup {Previous(t) : t \in 1..MaxIteration} :
                 RunMatches(stop)
      BY <2>4
    <3> DEFINE job == worker.job[1]
               new == [job EXCEPT !.cur = @ \cup {job.id}, !.version = Folded(job)]
    <3>2. /\ worker.at = "running" /\ UNCHANGED <<jobs, results>>
          /\ worker' = [at |-> "tell", cont |-> stop, job |-> <<new>>]
      BY <3>1 DEF RunMatches
    <3>3. results = <<>> /\ ~Queued /\ ~Queued' /\ Out /\ ~InFlight /\ Carried = job
      BY <1>1, <3>2 DEF OneInv, Queued, Out, InFlight, Carried, Busy
    <3>4. new.id = job.id
      <4>1. job \in Job
        BY <1>1, <3>3, CarriedIs
      <4> HIDE DEF job
      <4> QED
        BY <4>1 DEF Job
    <3> HIDE DEF new
    <3>5. worker'.at = "tell" /\ worker'.job[1] = new
      BY <3>2, OptHasOne
    <3>6. Carried' = new
      BY <3>2, <3>3, <3>5 DEF Carried, Busy
    <3>7. job.id \notin done
      BY <1>1, <3>3 DEF FoldInv
    <3> QED
      BY <3>2, <3>3, <3>4, <3>6, <3>7 DEF Due
  <2> QED
    BY <2>1, <2>2, <2>3, <2>4
<1>6. UpdateStep
  BY <1>2, <1>5 DEF UpdateStep, actorVars
<1>7. AwaitStep
  BY <1>2, <1>4, <1>5 DEF AwaitStep, Coming, Queues, actorVars
<1> QED
  BY <1>3, <1>6, <1>7

(* The report that waits for a job is sent after it. *)
LEMMA DispatchStep ==
    ASSUME TrackerInv, UNCHANGED actorVars, NEW version \in Chosen, Dispatch(version)
    PROVE  UpdateStep /\ AwaitStep /\ QueueStep
<1> DEFINE job == [id |-> nextId, version |-> version, cur |-> cur]
<1>1. TypeInv /\ OneInv
  BY DEF TrackerInv
<1>2. /\ step = "evaluate"
      /\ jobs' = IF Accepted THEN <<(<<job>>)>> ELSE jobs
      /\ (Accepted /\ mode.async) => evalId' = <<nextId>>
      /\ ~(Accepted /\ mode.async) => nextId' = nextId
      /\ step' = IF Accepted /\ ~mode.async THEN "wait" ELSE "report"
      /\ UNCHANGED <<mode, iteration, results, skillRx, metricRx, worker, done>>
  BY DEF Dispatch, Idle, workerVars
<1>3. QueueStep
  BY <1>2, SameSent DEF Ended
<1>4. ~Out /\ ~Queued /\ results = <<>>
  <2>1. ~Out
    <3>1. running = <<>>
      BY DEF Dispatch, Idle
    <3> QED
      BY <1>1, <1>2, <3>1, OptHasOne DEF OneInv
  <2> QED
    BY <2>1 DEF Out
<1>5. worker.at \notin Busy
  BY <1>4 DEF Out
<1>6. \A x : Due(x)' => x = nextId /\ Accepted
  <2>1. CASE Accepted
    <3>1. jobs' # <<>> /\ jobs'[1] # <<>> /\ jobs'[1][1].id = nextId
      BY <1>2, <2>1, OptHasOne
    <3> QED
      BY <1>2, <1>4, <1>5, <2>1, <3>1 DEF Due, Carried, Queued
  <2>2. CASE ~Accepted
    BY <1>2, <1>4, <1>5, <2>2 DEF Due, Queued, Busy
  <2> QED
    BY <2>1, <2>2
<1>7. Accepted => \A x : x = nextId => Awaited(x)'
  BY <1>2 DEF Awaited
<1>8. \A x : Awaited(x) => Awaited(x)'
  BY <1>2, SameAwaited
<1>9. worker'.at # "tell"
  BY <1>2, <1>5 DEF Busy
<1> QED
  BY <1>2, <1>3, <1>6, <1>7, <1>8, <1>9 DEF UpdateStep, AwaitStep, Coming, Queues, actorVars

(* A report takes the name of what it waits for with it. *)
LEMMA SendStep ==
    ASSUME TrackerInv, ActorTypeInv, QueueInv, UNCHANGED actorVars,
           JoinWorker \/ \E b \in BOOLEAN : SendReport(b)
    PROVE  UpdateStep /\ AwaitStep
<1>1. TypeInv /\ OneInv
  BY DEF TrackerInv
<1>2. /\ UNCHANGED <<skillRx, jobs, worker, done>>
      /\ results = <<>> => results' = <<>>
  BY DEF JoinWorker, SendReport, workerVars, Leftover
<1>3. \A x : (Due(x)' => Due(x)) /\ (Coming(x)' => Coming(x))
  BY <1>1, <1>2, SameDue
<1>4. \A x : Awaited(x) => Awaited(x)'
  <2>1. \E m \in Message : metricRx' = Append(metricRx, m)
           /\ \A x : (step = "report" /\ evalId = <<x>>) => m.n # 0 /\ m.waits = <<x>>
    <3>1. CASE JoinWorker
      <4>1. [n |-> 0] \in Message
        BY DEF Message
      <4> QED
        BY <3>1, <4>1 DEF JoinWorker
    <3>2. CASE \E b \in BOOLEAN : SendReport(b)
      <4> DEFINE m == [n |-> iteration, waits |-> evalId, shown |-> IF evalId = <<>> THEN cur ELSE {}]
      <4>1. m \in Message /\ m.n # 0
        BY <1>1 DEF TypeInv, QueueInv, Message
      <4>2. metricRx' = Append(metricRx, m)
        BY <3>2 DEF SendReport
      <4> QED
        BY <4>1, <4>2
    <3> QED
      BY <3>1, <3>2
  <2>2. PICK m \in Message : metricRx' = Append(metricRx, m)
           /\ \A x : (step = "report" /\ evalId = <<x>>) => m.n # 0 /\ m.waits = <<x>>
    BY <2>1
  <2>3. /\ \A i \in DOMAIN metricRx : i \in DOMAIN metricRx' /\ metricRx'[i] = metricRx[i]
        /\ Len(metricRx) + 1 \in DOMAIN metricRx' /\ metricRx'[Len(metricRx) + 1] = m
    BY <2>2, AppendFacts DEF ActorTypeInv
  <2>4. step # "wait"
    BY DEF JoinWorker, SendReport
  <2> QED
    BY <2>2, <2>3, <2>4 DEF Awaited
<1> QED
  BY <1>2, <1>3, <1>4 DEF UpdateStep, AwaitStep, actorVars

(* The actor is told of an evaluation once, with all the ratings there are. *)
LEMMA TellStep ==
    ASSUME TrackerInv, ActorTypeInv, UNCHANGED actorVars, TellMetrics
    PROVE  /\ AwaitStep /\ QueueStep
           /\ UNCHANGED <<done, completed, pending, emitted, stopping>>
           /\ worker.at = "tell" /\ worker'.at = "answer"
           /\ \E u \in Update : /\ skillRx' = Append(skillRx, u)
                                /\ Due(u.id) /\ u.id \in done /\ done \subseteq u.cur
<1> DEFINE u == [id |-> worker.job[1].id, cur |-> worker.job[1].cur]
<1>1. TypeInv /\ OneInv /\ FoldInv
  BY DEF TrackerInv
<1>2. /\ worker.at = "tell" /\ worker' = [worker EXCEPT !.at = "answer"]
      /\ skillRx' = Append(skillRx, u)
      /\ UNCHANGED <<step, iteration, evalId, nextId, jobs, results, metricRx, done>>
  BY DEF TellMetrics, learnerVars, managerVars
<1>3. worker'.at = "answer"
  BY <1>1, <1>2, WorkerFacts DEF TypeInv, Worker, Busy
<1>4. results = <<>> /\ ~Queued /\ ~Queued'
  BY <1>1, <1>2 DEF OneInv, Queued, Busy
<1>5. Carried = worker.job[1] /\ Out /\ InFlight
  BY <1>2, <1>4 DEF Carried, Out, InFlight, Busy
<1>6. /\ u \in Update /\ u.id = Carried.id /\ u.cur = Carried.cur
      /\ u.id \in done /\ done \subseteq u.cur
  BY <1>1, <1>5, CarriedIs DEF FoldInv, Update
<1> HIDE DEF u
<1>7. Due(u.id)
  BY <1>2, <1>6 DEF Due
<1>8. QueueStep
  BY <1>2, SameSent DEF Ended
<1>9. \A x : ~Due(x)'
  BY <1>3, <1>4 DEF Due
<1>10. \A x : Queues(x)' => Queues(x) \/ x = u.id
  BY <1>2, <1>6, AppendFacts DEF ActorTypeInv, Queues
<1>11. AwaitStep
  BY <1>2, <1>7, <1>9, <1>10 DEF AwaitStep, Coming, Awaited, actorVars
<1> QED
  BY <1>2, <1>3, <1>6, <1>7, <1>8, <1>11 DEF actorVars

(* Steps that leave the updates alone. *)
LEMMA UpdateFrame ==
    ASSUME UpdateInv, UpdateStep
    PROVE  UpdateInv'
<1>1. /\ UNCHANGED <<skillRx, completed>> /\ done \subseteq done'
      /\ \A x : (worker'.at = "tell" /\ Due(x)') => (worker.at = "tell" /\ Due(x)) \/ x \notin done
  BY DEF UpdateStep
<1>2. \A x : (Queues(x)' <=> Queues(x)) /\ (Keeps(x)' <=> Keeps(x))
  BY <1>1 DEF Queues, Keeps
<1> QED
  BY <1>1, <1>2 DEF UpdateInv

(* The worker's update is one that was not told before. *)
LEMMA TellUpdate ==
    ASSUME TrackerInv, ActorTypeInv, UpdateInv, UNCHANGED actorVars, TellMetrics
    PROVE  UpdateInv'
<1>1. PICK u \in Update : /\ skillRx' = Append(skillRx, u)
                          /\ Due(u.id) /\ u.id \in done /\ done \subseteq u.cur
  BY TellStep
<1>2. UNCHANGED <<done, completed>> /\ worker.at = "tell" /\ worker'.at = "answer"
  BY TellStep
<1>3. /\ DOMAIN skillRx = 1..Len(skillRx) /\ DOMAIN skillRx' = 1..Len(skillRx) + 1
      /\ Len(skillRx) \in Nat
      /\ \A i \in DOMAIN skillRx : i \in DOMAIN skillRx' /\ skillRx'[i] = skillRx[i]
      /\ skillRx'[Len(skillRx) + 1] = u
      /\ \A i \in DOMAIN skillRx' : i \in DOMAIN skillRx \/ i = Len(skillRx) + 1
  BY <1>1, AppendFacts DEF ActorTypeInv
<1>4. \A x : (Queues(x)' => Queues(x) \/ x = u.id) /\ (Keeps(x)' <=> Keeps(x))
  BY <1>2, <1>3 DEF Queues, Keeps
<1>5. ~Queues(u.id) /\ ~Keeps(u.id)
  BY <1>1, <1>2 DEF UpdateInv
<1>6. /\ \A k \in DOMAIN skillRx : skillRx[k].id \in done /\ skillRx[k].id # u.id
      /\ \A w \in completed : w.id \in done /\ w.id # u.id
  BY <1>5 DEF UpdateInv, Queues, Keeps
<1>7. /\ \A x : Queues(x)' \/ Keeps(x)' => x \in done'
      /\ \A x : ~(worker'.at = "tell" /\ Due(x)')
      /\ \A w \in completed' : w.id \in w.cur
  BY <1>1, <1>2, <1>4 DEF UpdateInv
<1>8. \A i, j \in DOMAIN skillRx' :
         /\ i <= j => skillRx'[i].id \in skillRx'[j].cur
         /\ i < j => skillRx'[i].id # skillRx'[j].id
  <2> TAKE i, j \in DOMAIN skillRx'
  <2>1. CASE i \in DOMAIN skillRx /\ j \in DOMAIN skillRx
    BY <1>3, <2>1 DEF UpdateInv
  <2>2. CASE i \in DOMAIN skillRx /\ j = Len(skillRx) + 1
    BY <1>1, <1>3, <1>6, <2>2
  <2>3. CASE i = Len(skillRx) + 1 /\ j = Len(skillRx) + 1
    BY <1>1, <1>3, <2>3
  <2>4. CASE i = Len(skillRx) + 1 /\ j \in DOMAIN skillRx
    <3>1. ~(i <= j) /\ ~(i < j)
      BY <1>3, <2>4
    <3> QED
      BY <3>1
  <2> QED
    BY <1>3, <2>1, <2>2, <2>3, <2>4
<1>9. \A w \in completed', k \in DOMAIN skillRx' : w.id \in skillRx'[k].cur /\ w.id # skillRx'[k].id
  <2> TAKE w \in completed', k \in DOMAIN skillRx'
  <2>1. CASE k \in DOMAIN skillRx
    BY <1>2, <1>3, <2>1 DEF UpdateInv
  <2>2. CASE k = Len(skillRx) + 1
    BY <1>1, <1>2, <1>3, <1>6, <2>2
  <2> QED
    BY <1>3, <2>1, <2>2
<1> QED
  BY <1>7, <1>8, <1>9 DEF UpdateInv

(* Steps that leave the evaluations awaited alone. *)
LEMMA AwaitFrame ==
    ASSUME UpdateInv, AwaitInv, AwaitStep
    PROVE  AwaitInv'
<1>1. /\ UNCHANGED <<pending, completed, stopping>>
      /\ \A x : Coming(x)' => Coming(x) \/ Awaited(x)'
      /\ \A x : Awaited(x) => Awaited(x)' \/ (x \notin done /\ ~Coming(x)')
  BY DEF AwaitStep
<1>2. \A x : Waits(x)' <=> Waits(x)
  BY <1>1 DEF Waits
<1>3. \A u \in completed : u.id \in done
  BY DEF UpdateInv, Keeps
<1>4. ~stopping => \A u \in completed : Awaited(u.id)'
  <2> SUFFICES ASSUME ~stopping, NEW u \in completed PROVE Awaited(u.id)'
    OBVIOUS
  <2> DEFINE x == u.id
  <2>1. Awaited(x) /\ x \in done
    BY <1>3 DEF AwaitInv
  <2> HIDE DEF x
  <2>2. Awaited(x)'
    BY <1>1, <2>1
  <2> QED
    BY <2>2 DEF x, Awaited
<1>5. ~stopping => \A x : Coming(x)' => Awaited(x)' \/ Waits(x)'
  BY <1>1, <1>2 DEF AwaitInv
<1>6. ~stopping => \A u \in completed : ~Waits(u.id)'
  BY <1>1 DEF AwaitInv, Waits
<1> QED
  BY <1>1, <1>4, <1>5, <1>6 DEF AwaitInv

(* Steps that leave the reports alone. *)
LEMMA ReportFrame ==
    ASSUME ReportInv, UNCHANGED <<skillRx, pending, emitted, stopping>>, done \subseteq done'
    PROVE  ReportInv'
<1>1. \A report : Settling(report) => Settling(report)'
  BY DEF Settling, Shown
<1>2. \A i \in DOMAIN pending' : Settling(pending[i])'
  BY <1>1 DEF ReportInv, Settling, Shown
<1> QED
  BY <1>2 DEF ReportInv, Shown

(* An update told later holds what the reports have waited for as well. *)
LEMMA TellReport ==
    ASSUME TrackerInv, ActorTypeInv, ReportInv, UNCHANGED actorVars, TellMetrics
    PROVE  ReportInv'
<1>1. PICK u \in Update : skillRx' = Append(skillRx, u) /\ done \subseteq u.cur
  BY TellStep
<1>2. UNCHANGED <<done, pending, emitted, stopping>>
  BY TellStep
<1>3. /\ \A i \in DOMAIN skillRx : skillRx'[i] = skillRx[i]
      /\ skillRx'[Len(skillRx) + 1] = u
      /\ \A i \in DOMAIN skillRx' : i \in DOMAIN skillRx \/ i = Len(skillRx) + 1
  BY <1>1, AppendFacts DEF ActorTypeInv
<1>4. \A i \in DOMAIN pending' : Settling(pending[i])'
  BY <1>1, <1>2, <1>3 DEF ReportInv, Settling, Shown
<1> QED
  BY <1>2, <1>4 DEF ReportInv, Shown

(* Steps that leave the actor's queues alone. *)
LEMMA QueueFrame ==
    ASSUME QueueInv, QueueStep
    PROVE  QueueInv'
<1>1. Held' = Held
  BY DEF Held, QueueStep
<1> QED
  BY <1>1 DEF QueueInv, QueueStep

(* The types of the actor's queues. *)
LEMMA QueueTypes ==
    ASSUME TypeInv, ActorTypeInv
    PROVE  /\ Held \in Nat /\ Sent \in Int /\ iteration \in Nat
           /\ Len(emitted) \in Nat /\ Len(pending) \in Nat /\ Len(metricRx) \in Nat
           /\ Held = Len(emitted) + Len(pending)
           /\ DOMAIN emitted = 1..Len(emitted) /\ DOMAIN pending = 1..Len(pending)
           /\ DOMAIN metricRx = 1..Len(metricRx)
<1>1. /\ Len(emitted) \in Nat /\ Len(pending) \in Nat /\ Len(metricRx) \in Nat
      /\ DOMAIN emitted = 1..Len(emitted) /\ DOMAIN pending = 1..Len(pending)
      /\ DOMAIN metricRx = 1..Len(metricRx)
  BY LenProperties DEF ActorTypeInv
<1> QED
  BY <1>1 DEF TypeInv, Held, Sent

(* The reports are numbered; the shutdown comes after the last.            *)
LEMMA SendQueue ==
    ASSUME TypeInv, ActorTypeInv, QueueInv, UNCHANGED actorVars,
           NEW m \in Message, metricRx' = Append(metricRx, m),
           \/ /\ step = "report" /\ m.n = iteration
              /\ \/ step' = "quit" /\ iteration' = iteration
                 \/ step' = "poll" /\ iteration' = iteration + 1
           \/ step = "join" /\ step' = "stopped" /\ iteration' = iteration /\ m.n = 0
    PROVE  QueueInv'
<1> USE DEF Ended
<1>1. /\ Held \in Nat /\ Sent \in Int /\ iteration \in Nat
      /\ Len(emitted) \in Nat /\ Len(pending) \in Nat /\ Len(metricRx) \in Nat
      /\ DOMAIN metricRx = 1..Len(metricRx)
  BY QueueTypes
<1>2. /\ Len(metricRx') = Len(metricRx) + 1
      /\ \A i \in DOMAIN metricRx : metricRx'[i] = metricRx[i]
      /\ metricRx'[Len(metricRx) + 1] = m
      /\ \A i \in DOMAIN metricRx' : i \in DOMAIN metricRx \/ i = Len(metricRx) + 1
  BY AppendFacts DEF ActorTypeInv
<1>3. Held' = Held /\ UNCHANGED <<at, pending, stopping, emitted>>
  BY DEF Held, actorVars
<1>4. step \notin Ended /\ ~stopping /\ Held + Len(metricRx) = Sent
  BY DEF QueueInv
<1>5. \A i \in DOMAIN metricRx : metricRx[i].n = Held + i
  <2> TAKE i \in DOMAIN metricRx
  <2>1. Held + i # Sent + 1
    BY <1>1, <1>4
  <2> QED
    BY <2>1 DEF QueueInv
<1>6. CASE step = "report"
  <2>1. Sent' = Sent + 1 /\ m.n = Sent + 1 /\ step' \notin Ended /\ iteration' # 0 /\ Sent = iteration - 1
    BY <1>1, <1>6 DEF Sent, QueueInv
  <2>2. \A i \in DOMAIN metricRx' :
            metricRx'[i].n = IF Held + i = Sent' + 1 THEN 0 ELSE Held + i
    <3> TAKE i \in DOMAIN metricRx'
    <3>1. CASE i \in DOMAIN metricRx
      <4>1. Held + i # Sent' + 1
        BY <1>1, <1>4, <2>1, <3>1
      <4> QED
        BY <1>2, <1>5, <3>1, <4>1
    <3>2. CASE i = Len(metricRx) + 1
      <4>1. Held + i = Sent + 1 /\ Held + i # Sent' + 1
        BY <1>1, <1>4, <2>1, <3>2
      <4> QED
        BY <1>2, <2>1, <3>2, <4>1
    <3> QED
      BY <1>2, <3>1, <3>2
  <2>3. Held' + Len(metricRx') = Sent'
    BY <1>1, <1>2, <1>3, <1>4, <2>1
  <2> QED
    BY <1>3, <1>4, <2>1, <2>2, <2>3 DEF QueueInv
<1>7. CASE step = "join"
  <2>1. Sent' = Sent /\ m.n = 0 /\ step' = "stopped" /\ iteration' # 0
    BY <1>7 DEF Sent, QueueInv
  <2>2. \A i \in DOMAIN metricRx' :
            metricRx'[i].n = IF Held + i = Sent + 1 THEN 0 ELSE Held + i
    <3> TAKE i \in DOMAIN metricRx'
    <3>1. CASE i \in DOMAIN metricRx
      <4>1. Held + i # Sent + 1
        BY <1>1, <1>4, <3>1
      <4> QED
        BY <1>2, <1>5, <3>1, <4>1
    <3>2. CASE i = Len(metricRx) + 1
      <4>1. Held + i = Sent + 1
        BY <1>1, <1>4, <3>2
      <4> QED
        BY <1>2, <2>1, <3>2, <4>1
    <3> QED
      BY <1>2, <3>1, <3>2
  <2>3. Held' + Len(metricRx') = Sent' + 1
    BY <1>1, <1>2, <1>3, <1>4, <2>1
  <2> QED
    BY <1>3, <1>4, <2>1, <2>2, <2>3 DEF QueueInv
<1> QED
  BY <1>6, <1>7

(* The messages of the learner's loop. *)
LEMMA SendMessage ==
    ASSUME TypeInv, QueueInv, JoinWorker \/ \E b \in BOOLEAN : SendReport(b)
    PROVE  \E m \in Message : /\ metricRx' = Append(metricRx, m)
             /\ \/ /\ step = "report" /\ m.n = iteration
                   /\ \/ step' = "quit" /\ iteration' = iteration
                      \/ step' = "poll" /\ iteration' = iteration + 1
                \/ step = "join" /\ step' = "stopped" /\ iteration' = iteration /\ m.n = 0
<1>1. CASE JoinWorker
  <2>1. [n |-> 0] \in Message
    BY DEF Message
  <2> QED
    BY <1>1, <2>1 DEF JoinWorker
<1>2. CASE \E b \in BOOLEAN : SendReport(b)
  <2> DEFINE m == [n |-> iteration, waits |-> evalId, shown |-> IF evalId = <<>> THEN cur ELSE {}]
  <2>1. m \in Message
    BY DEF TypeInv, QueueInv, Message
  <2>2. metricRx' = Append(metricRx, m)
    BY <1>2 DEF SendReport
  <2>3. /\ step = "report" /\ m.n = iteration
        /\ \/ step' = "quit" /\ iteration' = iteration
           \/ step' = "poll" /\ iteration' = iteration + 1
    BY <1>2 DEF SendReport
  <2> QED
    BY <2>1, <2>2, <2>3
<1> QED
  BY <1>1, <1>2

(* What the tracker and the learner do keeps the actor's invariant.        *)
LEMMA TrackerStepKeeps ==
    ASSUME TrackerInv, ActorInv, TrackerStep \/ Return \/ UNCHANGED vars
    PROVE  ActorInv'
<1>1. TypeInv
  BY DEF TrackerInv
<1>2. ActorTypeInv /\ UpdateInv /\ AwaitInv /\ ReportInv /\ QueueInv
  BY DEF ActorInv
<1>3. CASE UpdateStep /\ AwaitStep /\ QueueStep /\ UNCHANGED <<emitted>>
  <2>1. UpdateInv' /\ AwaitInv' /\ QueueInv'
    BY <1>2, <1>3, UpdateFrame, AwaitFrame, QueueFrame
  <2>2. ReportInv'
    BY <1>2, <1>3, ReportFrame DEF UpdateStep, AwaitStep
  <2>3. ActorTypeInv'
    BY <1>2, <1>3 DEF ActorTypeInv, UpdateStep, AwaitStep, QueueStep
  <2> QED
    BY <2>1, <2>2, <2>3 DEF ActorInv
<1>4. CASE TellMetrics /\ UNCHANGED actorVars
  <2>1. UpdateInv' /\ ReportInv'
    BY <1>2, <1>4, TellUpdate, TellReport
  <2>2. AwaitInv' /\ QueueInv'
    BY <1>2, <1>4, TellStep, AwaitFrame, QueueFrame
  <2>3. skillRx' \in Seq(Update)
    <3>1. PICK u \in Update : skillRx' = Append(skillRx, u)
      BY <1>2, <1>4, TellStep
    <3> QED
      BY <1>2, <3>1, AppendFacts DEF ActorTypeInv
  <2>4. ActorTypeInv'
    BY <1>2, <1>4, <2>3 DEF ActorTypeInv, TellMetrics, actorVars
  <2> QED
    BY <2>1, <2>2, <2>4 DEF ActorInv
<1>5. CASE (JoinWorker \/ \E b \in BOOLEAN : SendReport(b)) /\ UNCHANGED actorVars
  <2>1. UpdateStep /\ AwaitStep
    BY <1>2, <1>5, SendStep
  <2>2. UpdateInv' /\ AwaitInv'
    BY <1>2, <2>1, UpdateFrame, AwaitFrame
  <2>3. ReportInv'
    BY <1>2, <1>5, <2>1, ReportFrame DEF UpdateStep, actorVars
  <2>4. PICK m \in Message : /\ metricRx' = Append(metricRx, m)
             /\ \/ /\ step = "report" /\ m.n = iteration
                   /\ \/ step' = "quit" /\ iteration' = iteration
                      \/ step' = "poll" /\ iteration' = iteration + 1
                \/ step = "join" /\ step' = "stopped" /\ iteration' = iteration /\ m.n = 0
    BY <1>1, <1>2, <1>5, SendMessage
  <2>5. QueueInv'
    BY <1>1, <1>2, <1>5, <2>4, SendQueue
  <2>6. metricRx' \in Seq(Message)
    BY <1>2, <2>4, AppendFacts DEF ActorTypeInv
  <2>7. ActorTypeInv'
    BY <1>2, <1>5, <2>1, <2>6 DEF ActorTypeInv, UpdateStep, actorVars
  <2> QED
    BY <2>2, <2>3, <2>5, <2>7 DEF ActorInv
<1>6. CASE Return \/ UNCHANGED vars
  <2>1. UNCHANGED emitted
    BY <1>6 DEF Return, vars, actorVars
  <2> QED
    BY <1>3, <1>6, <2>1, ReturnStep
<1>7. CASE TrackerStep
  <2>1. UNCHANGED actorVars /\ UNCHANGED emitted
    BY <1>7 DEF TrackerStep, actorVars
  <2>2. \/ \/ TakeJob \/ Answer \/ WorkerDies
           \/ \E stop \in {NoOpponent, Nexto} \cup {Previous(t) : t \in 1..MaxIteration} :
                 RunMatches(stop)
        \/ TellMetrics
        \/ \/ PollUpdates \/ NoEvaluation \/ Answered \/ NoAnswer \/ AskWorkerToStop
           \/ \E b \in BOOLEAN : SaveVersion(b)
        \/ JoinWorker \/ \E b \in BOOLEAN : SendReport(b)
        \/ \E version \in Chosen : Dispatch(version)
    BY <1>7 DEF TrackerStep, WorkerStep, LearnerStep
  <2> QED
    BY <1>2, <1>3, <1>4, <1>5, <2>1, <2>2, WorkerSteps, LearnerSteps, DispatchStep
<1> QED
  BY <1>6, <1>7

(* The actor's own steps. *)
LEMMA ActorFrame ==
    ASSUME ActorStep
    PROVE  /\ UNCHANGED <<step, iteration, evalId, nextId, jobs, results, worker, done>>
           /\ Sent' = Sent /\ \A x : Due(x)' <=> Due(x)
<1>1. UNCHANGED <<step, iteration, evalId, nextId, jobs, results, worker, done>>
  BY DEF ActorStep, DrainUpdate, Emit, ReceiveReport, ReceiveShutdown, ReceiveNothing,
         trackerVars, learnerVars, managerVars, workerVars
<1> QED
  BY <1>1 DEF Sent, Due, Queued, Carried

(* Settling an update changes the ratings of reports and nothing else. *)
LEMMA SettledFacts ==
    ASSUME NEW report \in Report, NEW u \in Update
    PROVE  /\ Settled(report, u) \in Report
           /\ Settled(report, u).n = report.n /\ Settled(report, u).asked = report.asked
           /\ Settled(report, u).cut = report.cut /\ Settled(report, u).shown = u.cur
           /\ IF report.waits = <<(u.id)>>
              THEN Settled(report, u).waits = <<>> /\ Settled(report, u).fresh = <<(u.id)>>
              ELSE Settled(report, u).waits = report.waits /\ Settled(report, u).fresh = report.fresh
<1>1. u.id \in Nat /\ u.cur \in SUBSET Nat
  BY DEF Update
<1> DEFINE none == <<>>
           one == <<(u.id)>>
<1>2. none \in Opt(Nat) /\ one \in Opt(Nat)
  BY <1>1, OptFacts
<1>3. CASE report.waits = one
  <2>1. Settled(report, u) =
            [report EXCEPT !.waits = none, !.shown = u.cur, !.fresh = one]
    BY <1>3 DEF Settled, Matches
  <2> HIDE DEF none, one
  <2>2. /\ Settled(report, u) \in Report
        /\ Settled(report, u).n = report.n /\ Settled(report, u).asked = report.asked
        /\ Settled(report, u).cut = report.cut /\ Settled(report, u).shown = u.cur
        /\ Settled(report, u).waits = none /\ Settled(report, u).fresh = one
    BY <1>1, <1>2, <2>1 DEF Report
  <2> QED
    BY <1>3, <2>2 DEF none, one
<1>4. CASE report.waits # one
  <2>1. Settled(report, u) = [report EXCEPT !.shown = u.cur]
    BY <1>4 DEF Settled, Matches
  <2> HIDE DEF none, one
  <2>2. /\ Settled(report, u) \in Report
        /\ Settled(report, u).n = report.n /\ Settled(report, u).asked = report.asked
        /\ Settled(report, u).cut = report.cut /\ Settled(report, u).shown = u.cur
        /\ Settled(report, u).waits = report.waits /\ Settled(report, u).fresh = report.fresh
    BY <1>1, <2>1 DEF Report
  <2> QED
    BY <1>4, <2>2 DEF one
<1> QED
  BY <1>3, <1>4

(* An update settles the report that waits for it, and is kept if none does. *)
LEMMA DrainKeeps ==
    ASSUME TrackerInv, ActorInv, DrainUpdate
    PROVE  ActorInv'
<1> DEFINE u == skillRx[1]
<1>1. /\ TypeInv /\ OneInv /\ FoldInv
      /\ ActorTypeInv /\ UpdateInv /\ AwaitInv /\ ReportInv /\ QueueInv
  BY DEF TrackerInv, ActorInv
<1>2. /\ skillRx # <<>> /\ skillRx' = Tail(skillRx)
      /\ UNCHANGED <<at, stopping, emitted, metricRx>>
      /\ UNCHANGED <<step, iteration, evalId, nextId, jobs, results, worker, done>>
      /\ Sent' = Sent /\ \A x : Due(x)' <=> Due(x)
  BY ActorFrame DEF DrainUpdate, ActorStep
<1>3. /\ u \in Update /\ u.id \in Nat /\ Head(skillRx) = u /\ 1 \in DOMAIN skillRx
      /\ skillRx' \in Seq(Update)
      /\ \A k \in DOMAIN skillRx' : k \in Nat /\ k + 1 \in DOMAIN skillRx /\ skillRx'[k] = skillRx[k + 1]
                                    /\ 1 <= k + 1 /\ 1 < k + 1
  <2>1. /\ u \in Update /\ Head(skillRx) = u /\ 1 \in DOMAIN skillRx
        /\ Tail(skillRx) \in Seq(Update) /\ Len(skillRx) \in Nat
        /\ DOMAIN Tail(skillRx) = 1..Len(skillRx) - 1
        /\ \A k \in DOMAIN Tail(skillRx) :
              k + 1 \in DOMAIN skillRx /\ Tail(skillRx)[k] = skillRx[k + 1]
    BY <1>1, <1>2, TailFacts DEF ActorTypeInv
  <2> HIDE DEF u
  <2>2. u.id \in Nat
    BY <2>1 DEF Update
  <2> QED
    BY <1>2, <2>1, <2>2
<1>4. /\ pending' = [i \in DOMAIN pending |-> Settled(pending[i], u)]
      /\ completed' = completed \cup Kept(u)
  BY <1>3 DEF DrainUpdate
<1> HIDE DEF u
<1>5. Kept(u) = IF Waits(u.id) THEN {} ELSE {u}
  BY DEF Kept, Matches, Waits
<1>6. /\ DOMAIN pending' = DOMAIN pending /\ Len(pending') = Len(pending)
      /\ pending' \in Seq(Report)
      /\ \A i \in DOMAIN pending :
            /\ pending[i] \in Report
            /\ pending'[i].n = pending[i].n /\ pending'[i].asked = pending[i].asked
            /\ pending'[i].cut = pending[i].cut /\ pending'[i].shown = u.cur
            /\ IF pending[i].waits = <<(u.id)>>
               THEN pending'[i].waits = <<>> /\ pending'[i].fresh = <<(u.id)>>
               ELSE pending'[i].waits = pending[i].waits /\ pending'[i].fresh = pending[i].fresh
  <2>1. Len(pending) \in Nat /\ DOMAIN pending = 1..Len(pending)
        /\ \A i \in DOMAIN pending : pending[i] \in Report
    BY <1>1, LenProperties, ElementOfSeq DEF ActorTypeInv
  <2>2. \A i \in DOMAIN pending : Settled(pending[i], u) \in Report
    BY <1>3, <2>1, SettledFacts
  <2>3. pending' \in [1..Len(pending) -> Report]
    BY <1>4, <2>1, <2>2
  <2>4. pending' \in Seq(Report) /\ Len(pending') = Len(pending) /\ DOMAIN pending' = DOMAIN pending
    BY <2>1, <2>3
  <2> QED
    BY <1>3, <1>4, <2>1, <2>4, SettledFacts
<1>7. u.id \in done /\ u.id \in u.cur /\ Queues(u.id)
  BY <1>1, <1>3 DEF UpdateInv, Queues, u
<1>8. \A x : (Queues(x)' => Queues(x)) /\ (Keeps(x)' => Keeps(x) \/ Queues(x))
  BY <1>3, <1>4, <1>5, <1>7 DEF Queues, Keeps
<1>9. ActorTypeInv'
  <2>1. completed' \in SUBSET Update
    BY <1>1, <1>3, <1>4, <1>5 DEF ActorTypeInv
  <2> QED
    BY <1>1, <1>2, <1>3, <1>6, <2>1 DEF ActorTypeInv
<1>10. \A k \in DOMAIN skillRx' : u.id \in skillRx'[k].cur /\ u.id # skillRx'[k].id
  BY <1>1, <1>3 DEF UpdateInv, u
<1>11. UpdateInv'
  <2>1. \A i, j \in DOMAIN skillRx' :
            /\ i <= j => skillRx'[i].id \in skillRx'[j].cur
            /\ i < j => skillRx'[i].id # skillRx'[j].id
    <3> TAKE i, j \in DOMAIN skillRx'
    <3>1. (i <= j => i + 1 <= j + 1) /\ (i < j => i + 1 < j + 1)
      BY <1>3
    <3> QED
      BY <1>1, <1>3, <3>1 DEF UpdateInv
  <2>2. \A w \in completed' : /\ w.id \in w.cur
                              /\ \A k \in DOMAIN skillRx' :
                                    w.id \in skillRx'[k].cur /\ w.id # skillRx'[k].id
    BY <1>1, <1>3, <1>4, <1>5, <1>7, <1>10 DEF UpdateInv
  <2>3. /\ \A x : Queues(x)' \/ Keeps(x)' => x \in done'
        /\ \A x : (worker'.at = "tell" /\ Due(x)') => ~Queues(x)' /\ ~Keeps(x)'
    BY <1>1, <1>2, <1>8 DEF UpdateInv
  <2> QED
    BY <2>1, <2>2, <2>3 DEF UpdateInv
<1>12. AwaitInv'
  <2> SUFFICES ASSUME ~stopping
               PROVE  /\ \A w \in completed' : Awaited(w.id)'
                      /\ \A x : Coming(x)' => Awaited(x)' \/ Waits(x)'
                      /\ \A w \in completed' : ~Waits(w.id)'
    BY <1>2 DEF AwaitInv
  <2>1. \A x : (Awaited(x)' <=> Awaited(x))
    BY <1>2 DEF Awaited
  <2>2. \A x : Waits(x)' => Waits(x) /\ x # u.id
    <3> SUFFICES ASSUME NEW x, NEW i \in DOMAIN pending, pending'[i].waits = <<x>>
                 PROVE  Waits(x) /\ x # u.id
      BY <1>6 DEF Waits
    <3>1. <<x>> # <<>> /\ <<x>>[1] = x /\ <<(u.id)>>[1] = u.id
      BY OptHasOne
    <3>2. pending[i].waits # <<(u.id)>> /\ pending[i].waits = <<x>>
      BY <1>6, <3>1
    <3> QED
      BY <3>2 DEF Waits
  <2>3. \A x : (Waits(x) /\ x # u.id) => Waits(x)'
    <3> SUFFICES ASSUME NEW x, x # u.id, NEW i \in DOMAIN pending, pending[i].waits = <<x>>
                 PROVE  Waits(x)'
      BY DEF Waits
    <3>1. <<x>>[1] = x /\ <<(u.id)>>[1] = u.id
      BY OptHasOne
    <3>2. pending'[i].waits = <<x>>
      BY <1>6, <3>1
    <3> QED
      BY <1>6, <3>2 DEF Waits
  <2>4. ~Due(u.id)
    <3> SUFFICES ASSUME Due(u.id) PROVE FALSE
      OBVIOUS
    <3>1. worker.at # "tell"
      BY <1>1, <1>7 DEF UpdateInv
    <3>2. /\ Queued \/ worker.at = "running"
          /\ u.id = Carried.id
      BY <3>1 DEF Due
    <3>3. Out /\ ~InFlight
      BY <1>1, <3>2 DEF Out, InFlight, OneInv, Busy
    <3> QED
      BY <1>1, <1>7, <3>2, <3>3 DEF FoldInv
  <2>5. \A x : Coming(x)' => Coming(x) /\ x # u.id
    BY <1>2, <1>8, <1>10, <2>4 DEF Coming, Queues
  <2>6. \A w \in completed' : Awaited(w.id)'
    <3> TAKE w \in completed'
    <3>1. Awaited(w.id)
      <4>1. CASE w \in completed
        BY <1>1, <4>1 DEF AwaitInv
      <4>2. CASE w \in Kept(u)
        <5>1. w = u /\ ~Waits(u.id)
          BY <1>5, <4>2
        <5> QED
          BY <1>1, <1>7, <5>1 DEF AwaitInv, Coming
      <4> QED
        BY <1>4, <4>1, <4>2
    <3> QED
      BY <1>2, <3>1 DEF Awaited
  <2>7. \A w \in completed' : ~Waits(w.id)'
    <3> TAKE w \in completed'
    <3>1. PICK x : x = w.id
      OBVIOUS
    <3>2. w \in completed \/ x = u.id
      BY <1>4, <1>5, <3>1
    <3>3. ~Waits(x)'
      BY <1>1, <2>2, <3>1, <3>2 DEF AwaitInv
    <3> QED
      BY <3>1, <3>3 DEF Waits
  <2>8. \A x : Coming(x)' => Awaited(x)' \/ Waits(x)'
    BY <1>1, <2>1, <2>3, <2>5 DEF AwaitInv
  <2> QED
    BY <2>6, <2>7, <2>8
<1>13. ReportInv'
  <2>1. \A i \in DOMAIN pending' : Settling(pending[i])'
    <3> TAKE i \in DOMAIN pending'
    <3>1. Settling(pending[i])
      BY <1>1, <1>6 DEF ReportInv
    <3>2. CASE pending[i].waits = <<(u.id)>>
      <4>1. pending[i].waits # <<>> /\ pending[i].waits[1] = u.id
        BY <3>2, OptHasOne
      <4>2. pending'[i].asked = <<(u.id)>> /\ pending'[i].asked[1] = u.id
        BY <1>6, <3>1, <3>2, <4>1 DEF Settling
      <4> QED
        BY <1>2, <1>6, <1>7, <1>10, <3>2, <4>2 DEF Settling, Shown
    <3>3. CASE pending[i].waits = <<>>
      <4>1. /\ pending'[i].waits = <<>> /\ pending'[i].fresh = pending[i].fresh
        BY <1>6, <3>3, OptHasOne, ZenonT(60)
      <4>2. (pending[i].asked # <<>> /\ ~pending[i].cut) =>
                /\ pending[i].fresh = pending[i].asked /\ pending[i].asked[1] \in done
                /\ \A k \in DOMAIN skillRx : pending[i].asked[1] \in skillRx[k].cur
        BY <3>1, <3>3 DEF Settling, Shown
      <4>3. (pending[i].asked # <<>> /\ ~pending[i].cut) =>
                /\ pending[i].asked[1] \in u.cur
                /\ \A k \in DOMAIN skillRx' : pending[i].asked[1] \in skillRx'[k].cur
        BY <1>3, <4>2 DEF u
      <4> QED
        BY <1>2, <1>6, <4>1, <4>2, <4>3 DEF Settling, Shown
    <3>4. CASE pending[i].waits # <<>> /\ pending[i].waits # <<(u.id)>>
      <4>1. pending'[i].waits = pending[i].waits /\ pending'[i].asked = pending[i].asked
        BY <1>6, <3>4
      <4> QED
        BY <3>1, <3>4, <4>1 DEF Settling
    <3> QED
      BY <3>2, <3>3, <3>4
  <2> QED
    BY <1>1, <1>2, <1>6, <2>1 DEF ReportInv, Shown
<1>14. QueueInv'
  <2>1. Held' = Held
    BY <1>2, <1>6 DEF Held
  <2>2. at = "done" => pending' = <<>>
    <3>1. at # "done"
      BY DEF DrainUpdate
    <3> QED
      BY <3>1
  <2> QED
    BY <1>1, <1>2, <1>6, <2>1, <2>2 DEF QueueInv
<1> QED
  BY <1>9, <1>11, <1>12, <1>13, <1>14 DEF ActorInv

(* What neither takes nor keeps an update leaves the updates alone. *)
LEMMA SameUpdates ==
    ASSUME UpdateInv, ActorStep, UNCHANGED skillRx, completed' \subseteq completed
    PROVE  UpdateInv'
<1>1. done' = done /\ worker' = worker /\ \A x : Due(x)' <=> Due(x)
  BY ActorFrame
<1>2. \A x : (Queues(x)' <=> Queues(x)) /\ (Keeps(x)' => Keeps(x))
  BY DEF Queues, Keeps
<1> QED
  BY <1>1, <1>2 DEF UpdateInv

(* What goes out leaves the queue at its front, settled. *)
LEMMA EmitKeeps ==
    ASSUME TrackerInv, ActorInv, Emit
    PROVE  ActorInv'
<1> DEFINE E == Len(emitted)
           L == Len(pending)
           R == Ready
<1>1. /\ TypeInv
      /\ ActorTypeInv /\ UpdateInv /\ AwaitInv /\ ReportInv /\ QueueInv
  BY DEF TrackerInv, ActorInv
<1>2. /\ emitted' = emitted \o SubSeq(pending, 1, R) /\ pending' = SubSeq(pending, R + 1, L)
      /\ at = "drain" /\ at' = IF stopping /\ pending' = <<>> THEN "done" ELSE "receive"
      /\ UNCHANGED <<skillRx, metricRx, completed, stopping>>
      /\ UNCHANGED <<step, iteration, evalId, nextId, jobs, results, worker, done>>
      /\ Sent' = Sent /\ \A x : Due(x)' <=> Due(x)
  BY ActorFrame DEF Emit, ActorStep, Outgoing, trackerVars
<1>3. /\ E \in Nat /\ L \in Nat /\ Held = E + L
      /\ DOMAIN emitted = 1..E /\ DOMAIN pending = 1..L
  BY <1>1, QueueTypes
<1>4. R \in 0..L /\ R \in Nat /\ R <= L /\ \A i \in 1..R : pending[i].waits = <<>>
  BY <1>1, <1>3, ReadyFacts DEF ActorTypeInv
<1> HIDE DEF E, L, R
<1>5. \A s \in Seq(Report) : \A a, b \in Nat :
          (a >= 1 /\ b <= Len(s) /\ a <= b + 1) =>
             /\ SubSeq(s, a, b) \in Seq(Report)
             /\ Len(SubSeq(s, a, b)) = b - a + 1
             /\ \A i \in 1..b - a + 1 : SubSeq(s, a, b)[i] = s[a + i - 1]
  OBVIOUS
<1>6. /\ pending' \in Seq(Report) /\ Len(pending') = L - R /\ DOMAIN pending' = 1..L - R
      /\ \A i \in 1..L - R : pending'[i] = pending[R + i]
  <2>1. R + 1 \in Nat /\ R + 1 >= 1 /\ L <= Len(pending) /\ R + 1 <= L + 1
    BY <1>3, <1>4 DEF L
  <2>2. /\ pending' \in Seq(Report) /\ Len(pending') = L - (R + 1) + 1
        /\ \A i \in 1..L - (R + 1) + 1 : pending'[i] = pending[R + 1 + i - 1]
    BY <1>1, <1>2, <1>3, <1>5, <2>1 DEF ActorTypeInv
  <2>3. L - (R + 1) + 1 = L - R /\ \A i \in 1..L - R : R + 1 + i - 1 = R + i
    BY <1>3, <1>4
  <2> QED
    BY <2>2, <2>3, LenProperties
<1> DEFINE out == SubSeq(pending, 1, R)
<1>7. /\ out \in Seq(Report) /\ Len(out) = R
      /\ \A i \in 1..R : out[i] = pending[i]
  <2>1. R <= Len(pending) /\ 1 <= R + 1
    BY <1>3, <1>4 DEF L
  <2>2. /\ out \in Seq(Report) /\ Len(out) = R - 1 + 1
        /\ \A i \in 1..R - 1 + 1 : out[i] = pending[1 + i - 1]
    BY <1>1, <1>4, <1>5, <2>1 DEF ActorTypeInv
  <2>3. R - 1 + 1 = R /\ \A i \in 1..R : 1 + i - 1 = i
    BY <1>4
  <2> QED
    BY <2>2, <2>3
<1> HIDE DEF out
<1>8. /\ emitted' \in Seq(Report) /\ Len(emitted') = E + R /\ DOMAIN emitted' = 1..E + R
      /\ \A i \in 1..E : emitted'[i] = emitted[i]
      /\ \A i \in 1..R : emitted'[E + i] = pending[i]
  <2>1. emitted' = emitted \o out
    BY <1>2 DEF out
  <2>2. /\ emitted' \in Seq(Report) /\ Len(emitted') = E + R
        /\ \A i \in 1..E + R : emitted'[i] = IF i <= E THEN emitted[i] ELSE out[i - E]
    <3>1. \A s, t \in Seq(Report) :
             /\ s \o t \in Seq(Report) /\ Len(s \o t) = Len(s) + Len(t)
             /\ \A i \in 1..Len(s) + Len(t) :
                   (s \o t)[i] = IF i <= Len(s) THEN s[i] ELSE t[i - Len(s)]
      BY ConcatProperties
    <3>2. emitted \in Seq(Report) /\ Len(emitted) = E
      BY <1>1 DEF ActorTypeInv, E
    <3> QED
      BY <1>7, <2>1, <3>1, <3>2
  <2>3. \A i \in 1..E : i \in 1..E + R /\ i <= E
    BY <1>3, <1>4
  <2>4. \A i \in 1..R : E + i \in 1..E + R /\ ~(E + i <= E) /\ (E + i) - E = i
    BY <1>3, <1>4
  <2> QED
    BY <1>7, <2>2, <2>3, <2>4, LenProperties
<1>9. \A i \in 1..E + R : i \in 1..E \/ \E j \in 1..R : i = E + j
  <2> TAKE i \in 1..E + R
  <2>1. i \in 1..E \/ (i - E \in 1..R /\ i = E + (i - E))
    BY <1>3, <1>4
  <2> QED
    BY <2>1
<1>10. /\ \A j \in 1..R : j \in 1..L
       /\ \A i \in 1..L - R : R + i \in 1..L
       /\ \A i \in 1..L : i \in 1..R \/ \E j \in 1..L - R : i = R + j
  <2>1. \A i \in 1..L : i \in 1..R \/ (i - R \in 1..L - R /\ i = R + (i - R))
    BY <1>3, <1>4
  <2> QED
    BY <1>3, <1>4, <2>1
<1>11. ActorTypeInv'
  BY <1>1, <1>2, <1>6, <1>8 DEF ActorTypeInv
<1>12. UpdateInv'
  BY <1>1, <1>2, SameUpdates DEF ActorStep
<1>13. AwaitInv'
  <2>1. \A x : Waits(x)' <=> Waits(x)
    <3> TAKE x
    <3>1. <<x>> # <<>>
      BY OptHasOne
    <3>2. Waits(x)' => Waits(x)
      BY <1>3, <1>6, <1>10 DEF Waits
    <3>3. Waits(x) => Waits(x)'
      <4> SUFFICES ASSUME NEW i \in 1..L, pending[i].waits = <<x>> PROVE Waits(x)'
        BY <1>3 DEF Waits
      <4>1. i \notin 1..R
        BY <1>4, <3>1
      <4>2. PICK j \in 1..L - R : i = R + j
        BY <1>10, <4>1
      <4> QED
        BY <1>6, <4>2 DEF Waits
    <3> QED
      BY <3>2, <3>3
  <2>2. \A x : (Coming(x)' <=> Coming(x)) /\ (Awaited(x)' <=> Awaited(x))
    BY <1>2 DEF Coming, Queues, Awaited
  <2>3. \A w \in completed' : Awaited(w.id)' <=> Awaited(w.id)
    BY <1>2 DEF Awaited
  <2>4. \A w \in completed' : ~stopping => ~Waits(w.id)'
    <3> SUFFICES ASSUME NEW w \in completed, ~stopping PROVE ~Waits(w.id)'
      BY <1>2
    <3>1. PICK x : x = w.id
      OBVIOUS
    <3>2. ~Waits(x)'
      BY <1>1, <2>1, <3>1 DEF AwaitInv
    <3> QED
      BY <1>2, <3>1, <3>2 DEF Waits
  <2> QED
    BY <1>1, <1>2, <2>1, <2>2, <2>3, <2>4 DEF AwaitInv
<1>14. ReportInv'
  <2>1. \A i \in DOMAIN pending' : Settling(pending[i])' /\ (~stopping => ~pending'[i].cut)
    <3> TAKE i \in DOMAIN pending'
    <3>1. PICK report : report = pending[R + i]
      OBVIOUS
    <3>2. Settling(report) /\ (~stopping => ~report.cut) /\ pending'[i] = report
      BY <1>1, <1>3, <1>6, <1>10, <3>1 DEF ReportInv
    <3> QED
      BY <1>2, <3>2 DEF Settling, Shown
  <2>2. \A i \in DOMAIN emitted' : Shown(emitted'[i])
    <3> TAKE i \in DOMAIN emitted'
    <3>1. CASE i \in 1..E
      BY <1>1, <1>3, <1>8, <3>1 DEF ReportInv
    <3>2. CASE \E j \in 1..R : i = E + j
      <4>1. PICK j \in 1..R : i = E + j
        BY <3>2
      <4>2. Settling(pending[j]) /\ pending[j].waits = <<>>
        BY <1>1, <1>3, <1>4, <1>10 DEF ReportInv
      <4> QED
        BY <1>8, <4>1, <4>2 DEF Settling
    <3> QED
      BY <1>8, <1>9, <3>1, <3>2
  <2> QED
    BY <1>2, <2>1, <2>2 DEF ReportInv, Shown
<1>15. QueueInv'
  <2>1. Held' = Held
    BY <1>3, <1>4, <1>6, <1>8 DEF Held
  <2>2. \A i \in DOMAIN emitted' : emitted'[i].n = i
    <3> TAKE i \in DOMAIN emitted'
    <3>1. CASE i \in 1..E
      BY <1>1, <1>3, <1>8, <3>1 DEF QueueInv
    <3>2. CASE \E j \in 1..R : i = E + j
      <4>1. PICK j \in 1..R : i = E + j
        BY <3>2
      <4>2. j \in DOMAIN pending /\ pending[j].n = E + j
        BY <1>1, <1>3, <1>10 DEF QueueInv, E
      <4> QED
        BY <1>8, <4>1, <4>2
    <3> QED
      BY <1>8, <1>9, <3>1, <3>2
  <2>3. \A i \in DOMAIN pending' : pending'[i].n = Len(emitted') + i
    <3> TAKE i \in DOMAIN pending'
    <3>1. pending[R + i].n = E + (R + i)
      BY <1>1, <1>3, <1>6, <1>10 DEF QueueInv, E
    <3>2. E + (R + i) = E + R + i
      BY <1>3, <1>4, <1>6
    <3> QED
      BY <1>6, <1>8, <3>1, <3>2
  <2>4. /\ at' = "done" => stopping' /\ pending' = <<>>
        /\ step' # "returned"
    BY <1>1, <1>2 DEF QueueInv
  <2> QED
    BY <1>1, <1>2, <2>1, <2>2, <2>3, <2>4 DEF QueueInv
<1> QED
  BY <1>11, <1>12, <1>13, <1>14, <1>15 DEF ActorInv

(* The actor's wait ends with nothing. *)
LEMMA NothingKeeps ==
    ASSUME TrackerInv, ActorInv, ReceiveNothing
    PROVE  ActorInv'
<1>1. ActorTypeInv /\ UpdateInv /\ AwaitInv /\ ReportInv /\ QueueInv
  BY DEF ActorInv
<1>2. /\ at = "receive" /\ at' = "drain"
      /\ UNCHANGED <<skillRx, metricRx, pending, emitted, completed, stopping>>
      /\ UNCHANGED <<step, iteration, evalId, nextId, jobs, results, worker, done>>
      /\ Sent' = Sent /\ \A x : Due(x)' <=> Due(x)
  BY ActorFrame DEF ReceiveNothing, ActorStep, trackerVars
<1>3. ActorTypeInv'
  BY <1>1, <1>2 DEF ActorTypeInv
<1>4. UpdateInv'
  BY <1>1, <1>2, SameUpdates DEF ActorStep
<1>5. AwaitInv'
  BY <1>1, <1>2 DEF AwaitInv, Coming, Queues, Awaited, Waits
<1>6. ReportInv'
  BY <1>1, <1>2, ReportFrame
<1>7. QueueInv'
  BY <1>1, <1>2 DEF QueueInv, Held
<1> QED
  BY <1>3, <1>4, <1>5, <1>6, <1>7 DEF ActorInv

(* The report that comes is the next; a shutdown comes after all of them.  *)
LEMMA NextMessage ==
    ASSUME TypeInv, ActorTypeInv, QueueInv, metricRx # <<>>
    PROVE  /\ ~stopping /\ metricRx[1] \in Message /\ Head(metricRx) = metricRx[1]
           /\ 1 \in DOMAIN metricRx
           /\ metricRx[1].n # 0 => metricRx[1].n = Held + 1
           /\ metricRx[1].n = 0 => Held = Sent /\ step \in Ended /\ Len(metricRx) = 1
           /\ Tail(metricRx) \in Seq(Message) /\ Len(Tail(metricRx)) = Len(metricRx) - 1
           /\ Len(metricRx) \in Nat /\ DOMAIN Tail(metricRx) = 1..Len(metricRx) - 1
           /\ \A i \in DOMAIN Tail(metricRx) :
                 i + 1 \in DOMAIN metricRx /\ Tail(metricRx)[i] = metricRx[i + 1]
<1>1. /\ metricRx[1] \in Message /\ Head(metricRx) = metricRx[1] /\ 1 \in DOMAIN metricRx
      /\ Tail(metricRx) \in Seq(Message) /\ Len(Tail(metricRx)) = Len(metricRx) - 1
      /\ Len(metricRx) \in Nat \ {0} /\ DOMAIN Tail(metricRx) = 1..Len(metricRx) - 1
      /\ \A i \in DOMAIN Tail(metricRx) :
            i + 1 \in DOMAIN metricRx /\ Tail(metricRx)[i] = metricRx[i + 1]
  BY TailFacts DEF ActorTypeInv
<1>2. ~stopping
  BY DEF QueueInv
<1>3. Held \in Nat /\ Sent \in Int
  BY QueueTypes
<1>4. metricRx[1].n = IF Held + 1 = Sent + 1 THEN 0 ELSE Held + 1
  BY <1>1 DEF QueueInv
<1>5. Held + Len(metricRx) = IF step \in Ended THEN Sent + 1 ELSE Sent
  BY <1>2 DEF QueueInv
<1> QED
  BY <1>1, <1>2, <1>3, <1>4, <1>5

(* A report is settled at once if its update is kept, or else waits.       *)
LEMMA ReceiveReportKeeps ==
    ASSUME TrackerInv, ActorInv, ReceiveReport
    PROVE  ActorInv'
<1> DEFINE message == Head(metricRx)
           report == [n |-> message.n, waits |-> message.waits, asked |-> message.waits,
                      shown |-> message.shown, fresh |-> <<>>, cut |-> FALSE]
           known == Answering(message)
           new == IF known = {} THEN report ELSE Settled(report, CHOOSE update \in known : TRUE)
<1>1. /\ TypeInv /\ OneInv /\ FoldInv
      /\ ActorTypeInv /\ UpdateInv /\ AwaitInv /\ ReportInv /\ QueueInv
  BY DEF TrackerInv, ActorInv
<1>2. /\ metricRx # <<>> /\ Head(metricRx).n # 0
      /\ metricRx' = Tail(metricRx) /\ at = "receive" /\ at' = "drain"
      /\ UNCHANGED <<skillRx, emitted, stopping>>
      /\ UNCHANGED <<step, iteration, evalId, nextId, jobs, results, worker, done>>
      /\ Sent' = Sent /\ \A x : Due(x)' <=> Due(x)
  BY ActorFrame DEF ReceiveReport, ActorStep
<1>3. /\ message \in Message /\ metricRx[1] = message /\ message.n = Held + 1 /\ message.n # 0
      /\ ~stopping /\ 1 \in DOMAIN metricRx
  BY <1>1, <1>2, NextMessage
<1>4. /\ pending' = Append(pending, new) /\ completed' = completed \ known
  BY DEF ReceiveReport
<1>5. message.n \in Nat /\ message.waits \in Opt(Nat) /\ message.shown \in SUBSET Nat
  <2> HIDE DEF message
  <2> QED
    BY <1>3 DEF Message
<1> HIDE DEF message
<1>6. /\ report \in Report /\ report.n = message.n /\ report.waits = message.waits
      /\ report.asked = message.waits /\ report.cut = FALSE
  <2>1. <<>> \in Opt(Nat)
    BY OptFacts
  <2> QED
    BY <1>5, <2>1 DEF Report
<1> HIDE DEF report
<1>7. /\ known \subseteq completed /\ \A u \in known : message.waits = <<(u.id)>>
      /\ \A u \in completed : message.waits = <<(u.id)>> => u \in known
  BY DEF Answering
<1> HIDE DEF known
<1>8. /\ known = {} => new = report
      /\ known # {} => \E u \in known : new = Settled(report, u)
  BY DEF new
<1> HIDE DEF new
<1>9. /\ new \in Report /\ new.n = message.n /\ new.asked = message.waits /\ new.cut = FALSE
      /\ known = {} => new.waits = message.waits
      /\ known # {} => \E u \in completed :
             /\ message.waits = <<(u.id)>>
             /\ new.waits = <<>> /\ new.fresh = <<(u.id)>> /\ new.shown = u.cur
  <2>1. CASE known = {}
    BY <1>6, <1>8, <2>1
  <2>2. CASE known # {}
    <3>1. PICK u \in known : new = Settled(report, u)
      BY <1>8, <2>2
    <3>2. u \in Update /\ u \in completed /\ message.waits = <<(u.id)>>
      BY <1>1, <1>7, <3>1 DEF ActorTypeInv
    <3>3. /\ Settled(report, u) \in Report
          /\ Settled(report, u).n = report.n /\ Settled(report, u).asked = report.asked
          /\ Settled(report, u).cut = report.cut /\ Settled(report, u).shown = u.cur
          /\ Settled(report, u).waits = <<>> /\ Settled(report, u).fresh = <<(u.id)>>
      BY <1>6, <3>2, SettledFacts
    <3> QED
      BY <1>6, <2>2, <3>1, <3>2, <3>3
  <2> QED
    BY <2>1, <2>2
<1>10. /\ pending' \in Seq(Report) /\ Len(pending') = Len(pending) + 1
       /\ DOMAIN pending = 1..Len(pending) /\ Len(pending) \in Nat
       /\ DOMAIN pending' = 1..Len(pending) + 1
       /\ \A i \in DOMAIN pending : i \in DOMAIN pending' /\ pending'[i] = pending[i]
       /\ pending'[Len(pending) + 1] = new
       /\ \A i \in DOMAIN pending' : i \in DOMAIN pending \/ i = Len(pending) + 1
  BY <1>1, <1>4, <1>9, AppendFacts DEF ActorTypeInv
<1>11. /\ metricRx' \in Seq(Message) /\ Len(metricRx') = Len(metricRx) - 1
       /\ Len(metricRx) \in Nat /\ DOMAIN metricRx' = 1..Len(metricRx) - 1
       /\ \A i \in DOMAIN metricRx' :
             i \in Nat /\ i + 1 \in DOMAIN metricRx /\ metricRx'[i] = metricRx[i + 1]
  <2>1. /\ Tail(metricRx) \in Seq(Message) /\ Len(Tail(metricRx)) = Len(metricRx) - 1
        /\ Len(metricRx) \in Nat /\ DOMAIN Tail(metricRx) = 1..Len(metricRx) - 1
        /\ \A i \in DOMAIN Tail(metricRx) :
              i + 1 \in DOMAIN metricRx /\ Tail(metricRx)[i] = metricRx[i + 1]
    BY <1>1, <1>2, NextMessage
  <2> QED
    BY <1>2, <2>1
<1>12. ActorTypeInv'
  BY <1>1, <1>2, <1>4, <1>10, <1>11 DEF ActorTypeInv
<1>13. UpdateInv'
  BY <1>1, <1>2, <1>4, SameUpdates DEF ActorStep
<1>14. AwaitInv'
  <2>1. /\ \A u \in completed : Awaited(u.id)
        /\ \A x : Coming(x) => Awaited(x) \/ Waits(x)
        /\ \A u \in completed : ~Waits(u.id)
    BY <1>1, <1>3 DEF AwaitInv
  <2>2. \A x : Awaited(x) => Awaited(x)' \/ message.waits = <<x>>
    <3> SUFFICES ASSUME NEW x, Awaited(x), message.waits # <<x>> PROVE Awaited(x)'
      OBVIOUS
    <3>1. CASE \E i \in DOMAIN metricRx : metricRx[i].n # 0 /\ metricRx[i].waits = <<x>>
      <4>1. PICK i \in DOMAIN metricRx : metricRx[i].n # 0 /\ metricRx[i].waits = <<x>>
        BY <3>1
      <4>2. i # 1
        BY <1>3, <4>1
      <4>3. DOMAIN metricRx = 1..Len(metricRx)
        BY <1>1, LenProperties DEF ActorTypeInv
      <4>4. i - 1 \in DOMAIN metricRx' /\ (i - 1) + 1 = i
        BY <1>11, <4>2, <4>3
      <4>5. metricRx'[i - 1] = metricRx[i]
        BY <1>11, <4>4
      <4> QED
        BY <4>1, <4>4, <4>5 DEF Awaited
    <3>2. CASE ~\E i \in DOMAIN metricRx : metricRx[i].n # 0 /\ metricRx[i].waits = <<x>>
      BY <1>2, <3>2 DEF Awaited
    <3> QED
      BY <3>1, <3>2
  <2>3. \A x : Waits(x) => Waits(x)'
    BY <1>10 DEF Waits
  <2>4. \A x : Waits(x)' => Waits(x) \/ new.waits = <<x>>
    BY <1>10 DEF Waits
  <2>5. \A x : Coming(x)' <=> Coming(x)
    BY <1>2 DEF Coming, Queues
  <2>6. \A u \in completed' : u \in completed /\ message.waits # <<(u.id)>>
    <3> TAKE u \in completed'
    <3>1. u \in completed /\ u \notin known
      BY <1>4
    <3> QED
      BY <1>7, <3>1
  <2>7. \A u \in completed' : Awaited(u.id)'
    <3> TAKE u \in completed'
    <3>1. PICK x : x = u.id
      OBVIOUS
    <3>2. Awaited(x)'
      BY <2>1, <2>2, <2>6, <3>1
    <3> QED
      BY <3>1, <3>2 DEF Awaited
  <2>8. \A u \in completed' : ~Waits(u.id)'
    <3> TAKE u \in completed'
    <3>1. PICK x : x = u.id
      OBVIOUS
    <3>2. ~Waits(x) /\ message.waits # <<x>> /\ <<x>> # <<>>
      BY <2>1, <2>6, <3>1, OptHasOne
    <3>3. new.waits # <<x>>
      BY <1>9, <3>2
    <3>4. ~Waits(x)'
      BY <2>4, <3>2, <3>3
    <3> QED
      BY <3>1, <3>4 DEF Waits
  <2>9. \A x : Coming(x)' => Awaited(x)' \/ Waits(x)'
    <3> SUFFICES ASSUME NEW x, Coming(x) PROVE Awaited(x)' \/ Waits(x)'
      BY <2>5
    <3>1. CASE message.waits # <<x>>
      BY <2>1, <2>2, <2>3, <3>1
    <3>2. CASE message.waits = <<x>> /\ known = {}
      <4>1. new.waits = <<x>> /\ Len(pending) + 1 \in DOMAIN pending'
        BY <1>9, <1>10, <3>2
      <4> QED
        BY <1>10, <4>1 DEF Waits
    <3>3. CASE message.waits = <<x>> /\ known # {}
      <4>1. PICK u \in completed : u.id = x
        <5>1. PICK u \in known : TRUE
          BY <3>3
        <5>2. <<x>> = <<(u.id)>> /\ <<x>>[1] = x /\ <<(u.id)>>[1] = u.id
          BY <1>7, <3>3, <5>1, OptHasOne
        <5> QED
          BY <1>7, <5>1, <5>2
      <4>2. Keeps(x) /\ x \in done
        BY <1>1, <4>1 DEF UpdateInv, Keeps
      <4>3. ~Queues(x)
        BY <1>1, <4>1 DEF UpdateInv, Queues
      <4>4. Due(x)
        BY <4>3 DEF Coming
      <4>5. worker.at # "tell"
        BY <1>1, <4>2, <4>4 DEF UpdateInv
      <4>6. Out /\ ~InFlight /\ x = Carried.id
        BY <1>1, <4>4, <4>5 DEF Due, Out, InFlight, OneInv, Busy
      <4> QED
        BY <1>1, <4>2, <4>6 DEF FoldInv
    <3> QED
      BY <3>1, <3>2, <3>3
  <2> QED
    BY <2>7, <2>8, <2>9 DEF AwaitInv
<1>15. ReportInv'
  <2>1. Settling(new)
    <3>1. CASE known = {}
      BY <1>9, <3>1 DEF Settling, Shown
    <3>2. CASE known # {}
      <4>1. PICK u \in completed :
             /\ message.waits = <<(u.id)>>
             /\ new.waits = <<>> /\ new.fresh = <<(u.id)>> /\ new.shown = u.cur
        BY <1>9, <3>2
      <4>2. new.asked = <<(u.id)>> /\ new.asked[1] = u.id
        BY <1>9, <4>1, OptHasOne
      <4>3. u.id \in u.cur /\ u.id \in done /\ \A k \in DOMAIN skillRx : u.id \in skillRx[k].cur
        BY <1>1, <4>1 DEF UpdateInv, Keeps
      <4> QED
        BY <4>1, <4>2, <4>3 DEF Settling, Shown
    <3> QED
      BY <3>1, <3>2
  <2>2. \A i \in DOMAIN pending' : Settling(pending[i])' /\ ~pending'[i].cut
    <3> TAKE i \in DOMAIN pending'
    <3>1. PICK r : r = pending'[i]
      OBVIOUS
    <3>2. Settling(r) /\ ~r.cut
      <4>1. CASE i \in DOMAIN pending
        BY <1>1, <1>3, <1>10, <3>1, <4>1 DEF ReportInv
      <4>2. CASE i = Len(pending) + 1
        BY <1>9, <1>10, <2>1, <3>1, <4>2
      <4> QED
        BY <1>10, <4>1, <4>2
    <3> QED
      BY <1>2, <3>1, <3>2 DEF Settling, Shown
  <2> QED
    BY <1>1, <1>2, <2>2 DEF ReportInv, Shown
<1>16. QueueInv'
  <2>1. /\ Held \in Nat /\ Sent \in Int /\ Len(emitted) \in Nat
        /\ Held = Len(emitted) + Len(pending)
    BY <1>1, QueueTypes
  <2>2. Held' = Held + 1
    BY <1>2, <1>10, <2>1 DEF Held
  <2>3. \A i \in DOMAIN metricRx' :
            metricRx'[i].n = IF Held' + i = Sent' + 1 THEN 0 ELSE Held' + i
    <3> TAKE i \in DOMAIN metricRx'
    <3>1. Held' + i = Held + (i + 1)
      BY <1>11, <2>1, <2>2
    <3>2. metricRx[i + 1].n = IF Held + (i + 1) = Sent + 1 THEN 0 ELSE Held + (i + 1)
      BY <1>1, <1>11 DEF QueueInv
    <3> QED
      BY <1>2, <1>11, <3>1, <3>2
  <2>4. \A i \in DOMAIN pending' : pending'[i].n = Len(emitted') + i
    <3> TAKE i \in DOMAIN pending'
    <3>1. CASE i \in DOMAIN pending
      BY <1>1, <1>2, <1>10, <3>1 DEF QueueInv
    <3>2. CASE i = Len(pending) + 1
      <4>1. Held + 1 = Len(emitted) + (Len(pending) + 1)
        BY <1>10, <2>1
      <4> QED
        BY <1>2, <1>3, <1>9, <1>10, <3>2, <4>1
    <3> QED
      BY <1>10, <3>1, <3>2
  <2>5. Held' + Len(metricRx') = Held + Len(metricRx)
    BY <1>11, <2>1, <2>2
  <2> QED
    BY <1>1, <1>2, <1>3, <2>3, <2>4, <2>5 DEF QueueInv
<1> QED
  BY <1>12, <1>13, <1>14, <1>15, <1>16 DEF ActorInv

(* The shutdown is the last message; nothing waits after it.               *)
LEMMA ShutdownKeeps ==
    ASSUME TrackerInv, ActorInv, ReceiveShutdown
    PROVE  ActorInv'
<1>1. TypeInv /\ ActorTypeInv /\ UpdateInv /\ AwaitInv /\ ReportInv /\ QueueInv
  BY DEF TrackerInv, ActorInv
<1>2. /\ metricRx # <<>> /\ Head(metricRx).n = 0 /\ stopping' = TRUE
      /\ pending' = [i \in DOMAIN pending |-> Released(pending[i])]
      /\ metricRx' = Tail(metricRx) /\ at = "receive" /\ at' = "drain"
      /\ UNCHANGED <<skillRx, emitted, completed>>
      /\ UNCHANGED <<step, iteration, evalId, nextId, jobs, results, worker, done>>
      /\ Sent' = Sent
  BY ActorFrame DEF ReceiveShutdown, ActorStep
<1>3. /\ ~stopping /\ Held = Sent /\ step \in Ended
      /\ metricRx' \in Seq(Message) /\ Len(metricRx') = 0
  <2>1. /\ ~stopping /\ Head(metricRx) = metricRx[1]
        /\ metricRx[1].n = 0 => Held = Sent /\ step \in Ended /\ Len(metricRx) = 1
        /\ Tail(metricRx) \in Seq(Message) /\ Len(Tail(metricRx)) = Len(metricRx) - 1
    BY <1>1, <1>2, NextMessage
  <2> QED
    BY <1>2, <2>1
<1>4. metricRx' = <<>>
  BY <1>3, EmptySeq
<1>5. \A report \in Report :
         /\ Released(report) \in Report /\ Released(report).n = report.n
         /\ Released(report).waits = <<>> /\ Released(report).asked = report.asked
         /\ Released(report).shown = report.shown /\ Released(report).fresh = report.fresh
         /\ Released(report).cut = (report.waits # <<>>)
  <2> DEFINE none == <<>>
  <2>1. none \in Opt(Nat)
    BY OptFacts
  <2> HIDE DEF none
  <2>2. \A report \in Report, b \in BOOLEAN :
           LET r == [report EXCEPT !.waits = none, !.cut = b]
           IN  /\ r \in Report /\ r.n = report.n /\ r.waits = none /\ r.asked = report.asked
               /\ r.shown = report.shown /\ r.fresh = report.fresh /\ r.cut = b
    BY <2>1 DEF Report
  <2>3. \A report \in Report :
           Released(report) = [report EXCEPT !.waits = none, !.cut = (report.waits # <<>>)]
    BY DEF Released, none
  <2> QED
    BY <2>2, <2>3, ZenonT(60) DEF none
<1>6. /\ DOMAIN pending' = DOMAIN pending /\ Len(pending') = Len(pending)
      /\ pending' \in Seq(Report)
      /\ \A i \in DOMAIN pending :
            /\ pending'[i].n = pending[i].n /\ pending'[i].asked = pending[i].asked
            /\ pending'[i].waits = <<>> /\ pending'[i].cut = (pending[i].waits # <<>>)
            /\ pending'[i].shown = pending[i].shown /\ pending'[i].fresh = pending[i].fresh
  <2>1. Len(pending) \in Nat /\ DOMAIN pending = 1..Len(pending)
        /\ \A i \in DOMAIN pending : pending[i] \in Report
    BY <1>1, LenProperties, ElementOfSeq DEF ActorTypeInv
  <2>2. pending' \in [1..Len(pending) -> Report]
    BY <1>2, <1>5, <2>1
  <2>3. pending' \in Seq(Report) /\ Len(pending') = Len(pending) /\ DOMAIN pending' = DOMAIN pending
    BY <2>1, <2>2
  <2> QED
    BY <1>2, <1>5, <2>1, <2>3
<1>7. ActorTypeInv'
  BY <1>1, <1>2, <1>3, <1>6 DEF ActorTypeInv
<1>8. UpdateInv'
  BY <1>1, <1>2, SameUpdates DEF ActorStep
<1>9. AwaitInv'
  BY <1>2 DEF AwaitInv
<1>10. ReportInv'
  <2>1. \A i \in DOMAIN pending' : Settling(pending[i])'
    <3> TAKE i \in DOMAIN pending'
    <3>1. Settling(pending[i]) /\ ~pending[i].cut
      BY <1>1, <1>3, <1>6 DEF ReportInv
    <3>2. CASE pending[i].waits # <<>>
      BY <1>6, <3>2 DEF Settling, Shown
    <3>3. CASE pending[i].waits = <<>>
      BY <1>2, <1>6, <3>1, <3>3 DEF Settling, Shown
    <3> QED
      BY <3>2, <3>3
  <2> QED
    BY <1>1, <1>2, <2>1 DEF ReportInv, Shown
<1>11. QueueInv'
  <2>1. Held' = Held /\ Held \in Nat
    BY <1>1, <1>2, <1>6, QueueTypes DEF Held
  <2>2. Held' + Len(metricRx') = Sent'
    BY <1>2, <1>3, <2>1
  <2>3. DOMAIN metricRx' = {}
    BY <1>4
  <2>4. step' \in Ended /\ step' # "returned" /\ at' # "done"
    BY <1>1, <1>2, <1>3 DEF QueueInv
  <2> QED
    BY <1>1, <1>2, <1>4, <1>6, <2>2, <2>3, <2>4 DEF QueueInv
<1> QED
  BY <1>7, <1>8, <1>9, <1>10, <1>11 DEF ActorInv

(* The actor's invariant holds at first. *)
LEMMA InitActor == Init => ActorInv
<1> SUFFICES ASSUME Init PROVE ActorInv
  OBVIOUS
<1> USE DEF Init, TrackerInit
<1>1. ActorTypeInv
  <2>1. \A S : <<>> \in Seq(S)
    OBVIOUS
  <2> QED
    BY <2>1 DEF ActorTypeInv
<1>2. \A x : ~Queues(x) /\ ~Keeps(x) /\ ~Due(x)
  BY DEF Queues, Keeps, Due, Queued
<1>3. UpdateInv
  BY <1>2 DEF UpdateInv
<1>4. AwaitInv
  BY <1>2 DEF AwaitInv, Coming
<1>5. ReportInv
  BY DEF ReportInv
<1>6. Held = 0 /\ Sent = 0
  BY DEF Held, Sent, Ended
<1>7. QueueInv
  BY <1>6 DEF QueueInv, Ended
<1> QED
  BY <1>1, <1>3, <1>4, <1>5, <1>7 DEF ActorInv

(* The actor's invariant holds in every reachable state. *)
LEMMA ActorInvHolds == Spec => []ActorInv
<1>1. TrackerInv /\ ActorInv /\ [Next]_vars => ActorInv'
  <2> SUFFICES ASSUME TrackerInv, ActorInv, [Next]_vars PROVE ActorInv'
    OBVIOUS
  <2>1. CASE ActorStep
    BY <2>1, DrainKeeps, EmitKeeps, ReceiveReportKeeps, ShutdownKeeps, NothingKeeps DEF ActorStep
  <2>2. CASE TrackerStep \/ Return \/ UNCHANGED vars
    BY <2>2, TrackerStepKeeps
  <2> QED
    BY <2>1, <2>2 DEF Next
<1> QED
  BY InitActor, TrackerInvHolds, <1>1, PTL DEF Spec

(* A report that waited for an evaluation shows that evaluation's ratings  *)
(* when it goes out, unless the shutdown cut it short: no later update and *)
(* no earlier one takes their place.                                       *)
THEOREM ReportsShowTheirs == Spec => []ShowsItsEvaluation
<1>1. ActorInv => ShowsItsEvaluation
  BY DEF ActorInv, ReportInv, Shown, ShowsItsEvaluation
<1> QED
  BY <1>1, ActorInvHolds, PTL

(* The actor keeps an update only for a report that is still to come, so   *)
(* what it keeps does not grow with the run.                               *)
THEOREM OnlyAwaitedKept == Spec => []KeepsOnlyAwaited
<1>1. ActorInv => KeepsOnlyAwaited
  BY DEF ActorInv, AwaitInv, Awaited, KeepsOnlyAwaited
<1> QED
  BY <1>1, ActorInvHolds, PTL

(* What goes out is every report in its order, and when learn returns all  *)
(* of them have, even if the worker died with a report waiting for it.     *)
THEOREM ReportsOrdered == Spec => []ReportsInOrder
<1>1. TrackerInv /\ ActorInv => ReportsInOrder
  <2> SUFFICES ASSUME TrackerInv, ActorInv PROVE ReportsInOrder
    OBVIOUS
  <2>1. TypeInv /\ ActorTypeInv /\ QueueInv
    BY DEF TrackerInv, ActorInv
  <2>2. step = "returned" => Len(emitted) = iteration
    <3> SUFFICES ASSUME step = "returned" PROVE Len(emitted) = iteration
      OBVIOUS
    <3>1. stopping /\ pending = <<>> /\ metricRx = <<>> /\ Held + Len(metricRx) = Sent
      BY <2>1 DEF QueueInv
    <3>2. Len(pending) = 0 /\ Len(metricRx) = 0
      BY <3>1
    <3>3. Held = Len(emitted) + Len(pending) /\ Len(emitted) \in Nat /\ Held \in Nat
      BY <2>1, QueueTypes
    <3>4. Sent = iteration
      BY DEF Sent, Ended
    <3> QED
      BY <3>1, <3>2, <3>3, <3>4
  <2> QED
    BY <2>1, <2>2 DEF QueueInv, ReportsInOrder
<1> QED
  BY <1>1, TrackerInvHolds, ActorInvHolds, PTL
=============================================================================
