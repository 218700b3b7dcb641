# A TLA+ model of rlgymppo_rs

This directory specifies the control logic of the PPO learner in `src/`: how
rollouts are collected, claimed, merged and learned from, how checkpoints and
policy versions survive a crash, how evaluations are played, and how the threads
of a run (learner, keyboard, evaluation worker, metrics actor, dashboard, wandb,
renderer) talk to each other and end. Everything numeric (physics, networks,
losses, ratings) is abstracted to what these questions tell apart.

File names below are relative to `src/rlgymppo/src/` unless they say otherwise.

## 1. The system

| Component | Source | State it keeps | Operations | Hard because |
|---|---|---|---|---|
| rollout memory | `base/memory.rs` | parallel flat buffers; a separate list of the observations that follow truncated rows | `push_player`, `merge`, `validate` | truncated rows and their observations are matched by order only |
| rollout collector | `environment/batch_sim.rs`, `pool_collector.rs` | games, per-player trajectories, overflow queue, delay flags | `run_with_budget` and the `claim_*` functions | state survives from run to run; step jobs run concurrently; three ways of claiming |
| rollout supervisor | `environment/thread_sim.rs` | pools | `run_internal` | a thread per pool, any order of finishing |
| learner update | `agent/mod.rs`, `agent/gae.rs` | networks, optimizers | `Ppo::learn`, `get_gae` | index arithmetic over windows, truncations and batches |
| checkpoints | `utils/serde.rs` | folders on disk | `save_checkpoint`, `load_latest_model` | crash between or in the middle of writes, pruning |
| policy versions | `agent/self_play.rs` | a window in memory, folders on disk | `on_iteration`, `save_versions`, `load_versions` | two retentions, crash and rollback |
| skill tracker | `agent/skill_tracker.rs` | ratings, a continuation, one job in flight | `on_iteration`, `poll_updates`, `join` | a worker thread that works on copies and may die |
| evaluation matches | `agent/skill_tracker.rs` `run_matches`, `send_skill_step` | phase, side, goals, an episode per arena | a job of phases cut into slices | a phase goes on in a later job, over arenas with a thread each |
| metrics actor | `lib.rs` `spawn_metrics_actor` | pending reports, early updates | its event loop | two channels, updates before or after the reports that wait for them; closes two other threads |
| learner loop | `lib.rs` `Learner::learn`, `::transfer_learn`, `::render` | statistics, save timer | one iteration; quit | ties all of this together, in three orders |
| stdin commands | `lib.rs` `stdin_reader`, `handle_input_char` | none | a key | talks to learner, renderer and dashboard, in that order |
| renderer | `environment/render.rs` | switches and a model under a mutex | hand-over, render, quit | condition variable; lost wake-ups |
| dashboard | `rlgymppo-tui/src/app.rs`, `render.rs` | a bounded channel, a slot, history, a cached plan | update, keys, close | dropped wake-ups, overwritten slot, pruned search |
| wandb sink | `rlgymppo-wandb`, `lib.rs` | a channel for one report | send, finish | joined by the actor |
| transfer learning | `agent/transfer_learn.rs` | teacher scores, gradients | epochs of chunks | indices shared by two passes |
| RLBot agent | `rlgymppo-rlbot/src/agent.rs` | held controls, next decision frame | `tick` | a frame counter that starts again |
| environment | `environment/sim.rs` | a game | `step`, `reset`, delayed step, `step_mixed` | chooses endings and teams |
| networks, Nexto, rewards, observations, reports, launchers | `rlgymppo-model`, `-nexto`, `-utils`, `-trainer`, `-transfer` | none that control depends on | pure or numeric functions, I/O | |

How they interact. `Learner::learn` asks the supervisor for a rollout, giving it
the current model and, with self-play, an old version for one team. The
supervisor splits the budget, runs one collector per pool and merges their
memories. The learner updates on the memory, polls the skill tracker, lets the
version manager save a version, dispatches an evaluation, and sends a report to
the metrics actor, naming the evaluation it waits for. The evaluation worker
tells the metrics actor first and the learner second. From time to time, and at
the end, the learner saves a checkpoint and then the versions. On quit it joins
the evaluation worker, saves, shuts the metrics actor down and joins it; the actor
closes the dashboard and the wandb thread and joins both; last the learner joins
the renderer. `transfer_learn` stops the evaluation worker before its first
rollout, and `render` has neither worker nor actor.

What makes each component correct:

* collector: claims stay within the bound of their mode; nothing is lost,
  repeated or reordered; rows that nothing closes are consecutive decisions of
  one episode; a truncated row is followed by its own next observation; every
  run returns.
* supervisor: the shares and bounds of the pools add up; merge order is pool
  order and keeps bootstraps aligned.
* update: every advantage belongs to its own trajectory and bootstraps from its
  own observation; every row is trained on once per epoch.
* checkpoints: a restart never mixes generations and never goes behind the last
  save that returned; old folders go, the newest stays.
* versions: the window is ordered and survives a restart; ratings survive.
* tracker and actor: no evaluation is lost or overwritten; an interrupted phase
  goes on with the same opponent; reports leave in order with the ratings they
  waited for; `learn` returns.
* matches: opponents are played in the order of the job; an episode is played by
  one policy on each side; a goal is credited to who drove the scorer.
* threads of a run: after a quit everything that is joined ends, whatever the
  channels hold and whoever has failed.
* dashboard: a fresh rating is not lost on its way to the history; what is drawn
  is the best layout, cached or not.
* transfer learning: every row is distilled once per epoch, against its own
  scores. RLBot agent: it keeps deciding.

`PROJECT.json` lists the hazards behind these, each at its line.

## 2. Modules

| Module | Models | Notes |
|---|---|---|
| `Memory` | `base/memory.rs` | operators; a row is `[pl, at, term]` |
| `BudgetClaims` | `claim_*`, `partition_claimed_trajectory`, `push_*`, `split_budget` | operators, saturating arithmetic |
| `PoolContract` | what a collector promises | the abstract specification |
| `BatchSim` | `run_with_budget`, `step_game`, `claim_game_outcomes` | implements `PoolContract` |
| `ThreadSim` | `run_internal` | its pools are `PoolContract` |
| `Learn` | `Ppo::learn`, `get_gae` | |
| `Checkpoint` | `serde.rs`, optimizer files, `Learner::load` | |
| `Versions` | `VersionManager` | |
| `SkillTracker` | `AsyncSkillTracker`, its worker, the learner's loop around it | state and actions only |
| `MetricsActor` | `spawn_metrics_actor` | composes with `SkillTracker`; the system of three threads |
| `Matches` | what an evaluation promises | the abstract specification |
| `Arenas` | `run_matches`, the arena threads, `step_mixed` | implements `Matches` |
| `Renderer` | `RendererControls`, `Renderer::run` | |
| `Layout` | the planner of columns in `rlgymppo-tui/src/render.rs` | operators, with a brute-force reference |
| `Dashboard` | `TuiHandle`, its thread, the layout cache | uses `Layout` |
| `Wandb` | the wandb thread and its channel | |
| `Distill` | `Ppo::transfer_learn` | |
| `Bot` | the RLBot agent's `tick` | |
| `Session` | `learn`, `transfer_learn`, `render`, `handle_input_char`, the actor's end | composes the seven above |
| `MC*` | values of constants for TLC | |
| `BatchSimProofs`, `ThreadSimProofs`, `LearnProofs`, `CheckpointProofs`, `VersionsProofs`, `MetricsActorProofs` | theorems about the module named | the last one with those about `SkillTracker` |
| `SessionProofs` | theorems about the parts of `Session`: `Arenas` and `Distill` | |
| `Ranks` | lemmas on finite sets of numbers and their ranks, and on flattening | used by five of them |

Operators whose name starts with `Faulty` are deliberate mistakes, one beside the
definition each would replace. No specification uses them: they show that the
properties can tell the code from a plausible wrong version of it.

### Memory, BudgetClaims

One row stands for one index of the parallel vectors. A row keeps who acted
(`pl`), at which decision of the episode (`at`), and how the row ended the
trajectory (`term`). An observation is named by where it was seen, `[pl, at]`,
so the observation after row `[pl, at]` is `[pl, at + 1]` and the first one after
a reset is `[pl, 0]`: this is what lets a property tell the right bootstrap
from the wrong one. `nexts` is `trunc_next_states`. `merge_prefix` is used by
tests only and is left out.

### BatchSim

`pc` follows `run_with_budget`: `idle`, `drain` (the leftovers of the last run),
`loop` (the loop's condition), `step` (rayon jobs), `claim`. `Decide` submits
inference and runs the delayed phase, `StepGame(g, ending)` is one job of
`step_games_phase` for any game still pending, so jobs end in every order,
`ClaimFlush` is one turn of `claim_game_outcomes`. The environment's ending is
free (none, terminal or truncated) until `MaxClock`, where it must end: the real
environment has a time limit of its own. A reset chooses any team layout from
`Layouts`. Left out: inference batches, metrics, reserve capacities, and that a
stepped game's observation vectors are copied rather than named.

Each game has as `held` the decision its held actions were chosen at and as
`lead` what drives the delayed part of the interval now, so
`DelayReplaysPrevious` compares the two with the clock.

### ThreadSim and PoolContract

`PoolContract` states a collector's promise: whole closed segments, claimed only
while something is wanted, within the mode's bound. `BatchSim` is checked to
implement it (`ImplementsContract`, `INSTANCE PoolContract WITH ...`; `running`
maps to `pc # "idle"`, the mode to the configuration). `ThreadSim` then uses the
contract's guards for its pools instead of the collector itself, which is what
makes three concurrent pools tractable. `MergeResult` is one turn of the loop
over the joined results; the collectors of one pool run inline in the code, which is
the same with one pool.

### Learn

Numbers are kept as what they are computed from: a value prediction is the
observation it is predicted for, an advantage is the set of rows whose temporal
differences it adds up. `Window`, `ScanRow`, `ScanDone`, `TrainBatch` and
`NextEpoch` follow `learn` and `get_gae` in order. The two assertions of the
code (the memory is valid, no prediction is left over) are guards, so with
deadlock unchecked a failure would show as `UpdateEnds` violated.

### Checkpoint

A file is created empty and then filled, in two steps; a crash may come between
any two. `remove_dir_all` removes files in any order. An iteration (`Train`)
advances every part of the trainer to a new generation, and none is saved before
the first one of a process; a file holds the generation it was
written from, so `OneGeneration` can compare. Optimizer files that are missing
make the optimizer start afresh, a file that is there but torn makes the load
panic, as the `unwrap`s do. After such a panic `Repair` stands for a user who
removes the folder.

### Versions

A version is named by its timestep; its model by the life of the process and
the timestep it was taken at, so an abandoned future's model is told from the new
one of the same timestep. A checkpoint is one step (Checkpoint has the details)
and the networks of a version are one write, while the folder, the networks and
`stats.toml` are separate steps. `stats.toml` is emptied and then filled.

### SkillTracker and MetricsActor

A rating is the set of the evaluations folded into it; a version is named by the
iteration that saved it. The learner's loop is `step`: `poll` (`poll_updates`),
`versions` (`on_iteration` of the manager), `evaluate` (`on_iteration` of the
tracker), possibly `wait` (without `async_eval` the learner waits), `report`,
then `poll` again or `quit`, `join`, `stopped`, `returned`. The worker takes a
job, plays matches that stop in any phase it can still reach, tells the actor and
answers the learner. It may die in the matches. The actor drains the updates,
emits the reports at the front that wait for nothing, and takes one message or
times out. Because an evaluation is dispatched only when none is running, the
job channel is never full, so the `TryFull` branch does not fire.

### Arenas and Matches

`match` is the tracker's thread in `run_matches`, `arena[a]` the thread of one
arena with the command it has, its answer and its episode. A command is sent to
all arenas and an answer taken from each, in any order (the code sorts them by
arena, and so does `CollectSteps`, which takes them together). An episode keeps,
as history, who has driven each team and which step Nexto's last observation
shows; goals are any. `resume` is `do_continuation` with its `prev_*` fields.
Ratings are not computed: `credited` is who `run_matches` credits, beside who
really drove. `Matches` is the evaluation without slices, ticks and arenas.
`SkillTracker` has the same matches as one step that stops in any phase.

### Renderer

Every section under the lock is a step, waiting on the condition variable gives
the lock up in that step, and the setters notify in a step of their own, after
they have let go, as the code does. The two waits of `run` are `waiting` (for a
first model) and `resting` (not to render). `MessagesFail` is RLViser closed.

### Dashboard and Layout

An update is the number of its report and the evaluations it is marked to bring
(`fresh_rating` is whether there are any). A turn takes the commands there are,
one per step, takes the slot for each wake-up and once more at its end, and draws.
`Send` blocks while the channel is full, `WakeUp` is a `try_send`. The thread may
fail in any place a terminal call can (`TuiFails`). What is drawn is the layout:
the groups with their dimensions (a sparkline widens a group whose history is
kept), the grid and the columns. `Layout` has the branch and bound of
`ColumnSearch` with its bound, its pruning by empty columns and its cap for
layouts of equal height, as operators; `IsBest` enumerates all layouts instead. A
partition of heights is looked for up to `PartitionLimit` groups, as in the code.

### Wandb, Distill, Bot

`Wandb` is the channel for one report (`try_send`: a report is dropped when it
is full), the thread, and the end: it finishes the run after the channel is closed
and empty. `Distill` keeps as a gradient which rows it was taken over and which
rows the teacher had scored for it. `Bot` keeps how far ahead the next decision
is instead of the frame number itself; a packet takes it nearer, a match that
starts again farther away.

### Session

One state for all threads; `session` says which program runs (`learn`,
`transfer_learn`, `render`, the agent) and with what: dashboard, wandb, renderer, keys
the user may press, evaluations that are waited for, come later or never happen, a
limit of iterations. `learner.at` follows the three loops; their ends differ and
are told apart by the program. Each effect of a key in `handle_input_char` is a
step, in the order of the code, so a key can be half done when the learner acts.
Rollouts, updates and saves are one step; `MetricsActor`'s bookkeeping of
asynchronous evaluations is a mark that a report waits. The sinks' ends are in
detail: `ClosesDashboard`, `JoinsDashboard`, `JoinsWandb`.

## 3. What the runs check

| Run | Question | States | Result |
|---|---|---|---|
| `BatchSim` | a collector in seven configurations over any sequence of runs | 132,980 | holds |
| `BatchSim_gap` | are complete trajectories free of gaps? | | violated |
| `ThreadSim` | three pools finishing in any order | 6,979 | holds |
| `Learn` | every rollout a supervisor may return, of four to seven rows | 261,900 | holds |
| `Learn_cut` | does a complete-mode update see whole horizons? | | violated |
| `Checkpoint` | saving, pruning, crashing, loading | 1,047,576 | holds |
| `Checkpoint_partial` | is `load` safe unconditionally? | | violated |
| `Checkpoint_limit` | is the checkpoint just written kept? | | violated |
| `MetricsActor` | learner, worker and actor, sync and async | 240,267 | holds |
| `Versions` | the version window, crashes and rollbacks | 1,135,954 | holds |
| `Session` | nine sessions with all their threads | 88,278 | holds |
| `Versions_stale` | is what is saved on disk what is in memory? | | violated |

### The five disagreements

* `BatchSim_gap`. `batch_sim.rs:526` promises only complete trajectories; the set
  of recorded players is fixed per run (`:740`) while their buffers carry over,
  and the learner chooses the old policy and its team anew in each iteration
  (`lib.rs:1188`). A player recorded, then played by the old policy, then
  recorded again yields a trajectory with a hole in it.
* `Learn_cut`. `config.rs:14` promises horizons that end at a termination or the
  episode limit; `mod.rs:165-172` cuts a longer rollout to
  `timesteps_per_iteration` unless overbatching is on. The last row of the
  window is then neither closed nor bootstrapped.
* `Checkpoint_partial`. `lib.rs:965` promises that `load` does nothing when the
  model cannot be loaded; `serde.rs:159-176` unwraps every file of the newest
  folder, complete or not.
* `Checkpoint_limit`. `lib.rs:518` promises to keep up to `checkpoints_limit`
  checkpoints; `serde.rs:62` counts `policy_versions` too. With a limit of 1 the
  new checkpoint is removed and saving its optimizers panics.
* `Versions_stale`. `self_play.rs:151` promises to persist the versions in
  memory; `self_play.rs:163` takes a folder that exists for saved. After a crash
  the folder may be of an abandoned future, or have no networks.

Other things met on the way, with no run of their own: the comment at
`config.rs:78-83` says the game is terminated at the episode limit, while
`step_game` ends the trajectory and lets the game go on (as the comment in
`batch_sim.rs:364` says); `config.rs:62` says overbatching stays below twice the
budget, which holds for partial claims but not in complete mode; a crash while
`stats.toml` of a version is rewritten loses its rating; two updates taken in one
turn of the dashboard (`rlgymppo-tui/src/app.rs:350-384`) keep the mark of the
second only, so a fresh rating may be drawn and yet miss the history; a key
pressed after `learn` has returned makes the stdin thread panic on its closed
channel (`lib.rs` `handle_input_char`), in its own thread; the comment at
`rlgymppo-tui/src/render.rs:210` describes a greedy packing, while the planner
searches for the best score; if one arena thread dies, `run_matches` waits for its
answer for ever, as the others keep the channel open (`skill_tracker.rs:768`).

### Bounds, and why they are enough

* `BatchSim`: two games, one with two players of different teams and one with
  one, so there are several players per game and several games per decision; an
  episode of up to four decisions (`MaxClock = 3`); shares 0, 2 and 3, so a
  trajectory is shorter than, equal to or longer than a share, is split, and
  needs more than one run to drain. `maxEpisode = 2` makes forced truncations
  occur in the middle of an episode. Seven configurations cover the three ways of
  claiming, retention, delay, the limit and self-play. The number of runs is not
  bounded. In the configuration whose old policy comes and goes
  `SteadyContiguous` and `SteadyBootstraps` say nothing (the gap is the finding
  above); the other properties still do. The teams are fixed (`Layouts` has one
  element).
* `ThreadSim`: three pools, budgets 1 (two pools get a share of zero) and 4 (a
  remainder), segments of one or two rows.
* `Learn`: four timesteps, batches of two, two epochs; every placement of
  endings in rollouts of four rows (exact), four to seven (overbatching: below
  twice the timesteps) and four or five (complete). An odd size makes a last batch
  that is not full; five rows without overbatching make a window smaller
  than the rollout.
* `Checkpoint`: five generations and four seconds, limits 3 and 1 beside a
  `policy_versions` folder: enough for a save that prunes after two that did
  not. An iteration and a restart are taken to last longer than a second, so two
  saves with training in between never share a folder. Two saves without may: a
  quick save, an automatic one and the one of the quit can follow each other at
  once. The later one then reopens the folder, and the properties name what a
  crash in it can cost (`reopened`): the checkpoint itself, or, silently, its
  shared head.
* `Versions`: a version every two timesteps, iterations of one or two, five
  timesteps, three lives, a window of two and a retention of two.
* `MetricsActor`: three iterations, five modes (asynchronous with and without
  Nexto, windows of one and two, intervals of one and two, synchronous).
  Three iterations are enough for a version to be dropped from a window of one
  while a phase against it is continued.

* `Session`: nine initial sessions, each with what makes its part interesting: keys
  pressed twice at any time with the renderer, with a dashboard that may fail, in
  `transfer_learn` and in `render`; a dashboard whose screen changes and whose
  groups and histories grow from report to report; asynchronous evaluations over
  three reports; synchronous ones over three iterations with two arenas, slices
  shorter than a phase, a saved version and Nexto; wandb with and without a
  dashboard; the agent. The dashboard's channel has room for one command, so it is
  full often. A session without a limit is cut at its last iteration, which waits
  there for the user's quit. The planner is compared with its reference for every
  sequence of up to three groups over six dimensions on four grids (`PlannerIsExact`,
  an assumption TLC evaluates), and in the run for every layout drawn.

Deadlock is checked for `BatchSim` and `ThreadSim`. The others really stop: an
update ends, `learn` returns, and after the bounded number of lives the process
stays down, or has no second, generation or timestep left.

### Fairness

* `BatchSim`: weak fairness of everything but the start of a run. The collector's
  thread never blocks on anything but its own rayon jobs, and episodes end.
* `ThreadSim`: weak fairness of each pool's thread and of the joining thread. That
  a pool's run ends here needs only that it goes on, as each delivery counts
  against its share; that a collector does is `RunReturns`.
* `Learn`: weak fairness of one sequential function.
* `MetricsActor`: weak fairness of the worker, of the learner, of the actor and
  of the return. Matches end because `max_sim_time` bounds them, and
  `recv_timeout` gives up after 50 ms. Neither a crash of the worker nor the
  user's quit is fair: `LearnReturns` starts at the quit.
* `Session`: weak fairness of all threads that work their way to an end together
  (`Work`), of the renderer and of the dashboard, which run in loops of their own.
  One condition for `Work` does for all its threads: what they can do between two
  keys is finite, so none is kept waiting for ever. Each packet of
  the agent is a step (`odd`), as the game sends them all the time. The user, the
  terminal, RLViser and a new match are not fair: `Returns` begins when `q` has
  been pressed or where there is a limit of iterations.
* `Checkpoint` and `Versions` state safety only.

## 4. What is proved

Every safety invariant the runs check is also a theorem, for every value of the
constants that the assumptions of its module admit, and so are the action
properties `NothingLost`, `RestartKeepsWindow`, `RatingsSurvive` and
`ResumesFromNewest` and the refinements `ImplementsContract` and (its steps) `ImplementsMatches`. Every proof
about a specification goes through an inductive invariant whose parts are named
and commented in its module; each was checked by TLC as an invariant of its run
before it was proved.

| Theorem | Property | Inductive invariant |
|---|---|---|
| `BatchSimProofs`: `TypeCorrect`, `BudgetKept` | `TypeOK`, `BudgetAccounting` | `Account` |
| `DelayIsRight` | `DelayReplaysPrevious` | `DelayInv` |
| `LearnerContractKept`, `OneOverrunOnly`, `RowsConsecutive`, `BootstrapsRight` | `LearnerContract`, `OneFinalOverrun`, `SteadyContiguous`, `SteadyBootstraps` | `IInv` |
| `CollectorImplements` | `ImplementsContract` | `IInv` |
| `StreamKept` | `NothingLost` | `IInv /\ ServedFirst` |
| `ThreadSimProofs`: `RolloutSized`, `MergeIsAligned`, `PoolsInOrder` | `RolloutSize`, `MergeKeepsBootstraps`, `PoolOrder` | `IInv` |
| `LearnProofs`: `ScanAligned`, `ScanStaysInside` | `BootstrapsAligned`, `SuffixesAreTrajectories` | `ScanInv` |
| `TrainsEachRow`, `WholeRollouts` | `EachRowOncePerEpoch`, `WholeRolloutsBootstrap` | `FullInv` |
| `CheckpointProofs`: `NeverMixed`, `SavedModelSurvives`, `LimitKept`, `RestartResumes` | `OneGeneration`, `ModelSurvives`, `RetentionHolds`, `ResumesFromNewest` | `IInv` |
| `VersionsProofs`: `OrderedWindow`, `WindowSurvivesRestart`, `RatingsAreDurable` | `WindowOrdered`, `RestartKeepsWindow`, `RatingsSurvive` | `IInv` |
| `MetricsActorProofs`: `NoRatingLost`, `NoDuelLost`, `PhasesContinue` | `RatingsAccumulate`, `OpponentRatingsAccumulate`, `PhasesAreContinued` | `TrackerInv` |
| `ReportsShowTheirs`, `OnlyAwaitedKept`, `ReportsOrdered` | `ShowsItsEvaluation`, `KeepsOnlyAwaited`, `ReportsInOrder` | `TrackerInv /\ ActorInv` |
| `SessionProofs`: `EpisodesWhole`, `MatchesKeepPromise` | `EpisodesAreWhole`, steps of `ImplementsMatches` | `Inv` |
| `DistillsAll` | `DistillsEachRow` | `DistillInv` |

### The arguments

* Budget (`BatchSimProofs`). `BudgetAccounting` is not inductive
  alone: a claim's arithmetic needs to know that the remaining budget is a
  natural number and that a trajectory's length counts what a split gives and
  keeps. The argument goes from lemmas on the operators (`PartitionFacts`: prefix
  and suffix have the lengths claimed; `PushTrajFacts`: pushing adds that many
  rows; `GrantFacts`: no mode grants more than its bound) through
  `SplitAndPush` to `ClaimKeepsAccount`, which both claiming actions use.
  Subtraction that does not saturate would break the typing.
* Delay. `DelayReplaysPrevious` speaks of games whose job is pending;
  `PrimedMeansHeld` adds: a game that is primed was last driven by the decision
  before its clock, and one that is not is at a reset.
* The rows of a collector. The memory's properties rest on what a trajectory
  is wherever it may wait (player, flushed, overflow): closed, with a next
  observation just when it was cut, and, for a steady set of players,
  consecutive decisions with the observation that follows (`Closed`, `Path`,
  `Deliverable`). `SplitClosed` shows that both halves of a split are such
  trajectories again, `PushExtends` what pushing one does to the memory, and the
  `Extends*` lemmas that this keeps the learner's contract, contiguity and
  bootstraps. `CollectorImplements` reads the same claims as steps of
  `PoolContract` (`Delivers`, `DeliversContract`).
* Nothing lost. A split changes neither what is delivered nor its order
  (`SplitStream`), so serving a leftover only moves rows within the stream, which is
  the memory, the queue and the decision's outcomes flattened. A claim
  puts its rest behind the queue but its prefix in the memory, before the queue: this keeps
  the order only because nothing is claimed while leftovers wait (`ServedFirst`:
  then nothing is wanted any more, since a claim that leaves something over has
  spent the budget, `GrantExhausts`). The lemmas on `FlattenSeq` are in `Ranks`.
* The supervisor. `MergedInv` states size, order and alignment of a rollout half
  merged: what the first `merged` pools were asked for (`ShareOfFirst`; `SharesAddUp`
  is `split_budget`'s sum) and their rows in order. `Aligned` says of a memory that the
  k-th truncated row has the k-th next observation and that it is its own;
  it survives appending, which is why `merge` may match by order alone.
* The scan (`LearnProofs`). `ScanInv` says that the prediction cursor counts the
  truncated rows still to be scanned, that the predictions are a prefix of the
  next observations, that the suffix length and the advantage of the row just
  scanned end where its trajectory does, and that nothing is known before the
  window is fixed. `RankFacts` and `WindowRank` relate the number of truncated
  rows up to a row to the position of its observation; `EndFacts` relates the end
  of a trajectory at a row to that at the next.
* Training. `TrainInv` counts how often each row was trained by the rows left in
  the epoch. `WholeRollouts` has the hypothesis `RolloutsFollow`, about the rollouts
  an update is given: each truncated row's next observation is its successor.
  `MergeKeepsBootstraps` and `SteadyBootstraps` are the theorems that say so of the
  rollouts there are, and TLC evaluates it for those of the run (`RolloutsFollowed`).
* Checkpoints. `IInv` describes every folder of the disk. Files of an older
  folder are no newer (`OrderInv`), only the folder under way can have a torn
  file (`ProgressInv`), folders go oldest first (`PruneInv`), a folder that
  has lost files is covered by a newer one that loads (`CoverInv`), and
  the newest whole one holds what the last save wrote (`SurvivorInv`). `OldestRemoved`
  relates pruning by rank to the number of folders that stay. The properties
  exempt just what a limit without room or a reopened folder may lose (§3).
* Versions. `WindowInv` says which folders belong to the window, to the save under
  way, or are older than a full window; `RatingInv` that what is on disk or in memory
  of a rating is at least what the last save made durable.
* Tracker and actor. `OneInv`: at most one evaluation is out, in the channel, with
  the worker or answered; `FoldInv` and `DuelInv` say which ratings it carries and
  which the learner has meanwhile; `ContInv` that the opponent a phase was cut
  against is still kept. `ActorInv` follows each update (`Queues`, `Keeps`, `Due`) and each
  report (`Awaited`, `Waits`): an update that is kept is awaited by a report still to
  come, and the reports pending and emitted, with those in the channel, are those sent,
  in order.
* Matches. `EpisodesAreWhole` is not inductive: that an
  episode has one driver on a side needs that all arenas are of the phase that is
  played, hence where commands and answers are at each place of the
  tracker's thread. `ArenaInv` says this of one arena; `OneArena` reduces a step of
  an arena's thread to its own arena. `MatchesKeepPromise` is the safety part of
  `ImplementsMatches`: the mapping takes initial states to initial states and
  every step to one of `Matches` or a stutter.
* Distillation. `DistillInv`: the teacher's chunks so far are the parts of the rows,
  and the gradients so far are those of the first chunks, each with its own scores
  (`Learned`); `PartFacts` shows that the chunks are disjoint and together are all rows,
  the short last one included.

`EpisodesWhole`, `MatchesKeepPromise` and `DistillsAll` are about the component
alone (`ArenasSpec`, `DistillSpec`: any jobs, any memories, at any time). In
`Session` every step is one of these or leaves the component's variables alone.
This is not itself a theorem, as `Session` uses `Layout`, whose search is a
RECURSIVE operator.

### What the proofs assume

Only the assumptions about constants, each of which TLC evaluates for its run.
`BatchAssumption`: games and players are there, players are listed by game,
layouts give each a team. `SupervisorAssumption`: at least one pool.
`LearnAssumption`: the batch size divides the timesteps and a rollout has at
least those (`PpoLearnerConfig::validate` and the collector's promise).
`CheckpointAssumption`, `VersionsAssumption`: limits, where given, are positive.
`SkillTrackerAssumption`, `ArenasAssumption`: types only. `DistillAssumption`:
`TransferLearnConfig::validate`. Two theorems have a hypothesis besides:
`RolloutsFollow` (above) and, in `MatchesKeepPromise`, that no opponent is the mark for
"none".

### What proving changed

* `RestartKeepsWindow` was false for a retention smaller than the window (a
  restart then finds what retention left), which the constants of the run did not
  show. It now says so (`RetentionCovers`).
* `RatingsSurvive` had excused restarts that went back; the invariant showed that
  it need not. `KeepsOnlyAwaited` was strengthened likewise: what is kept is
  awaited by a report that has not reached the actor.
* `ThreadSim` merged all results in one step by a fold. It now has the loop of the
  code, whose intermediate states the invariant is about.

### What is only model-checked

* Liveness (`RunReturns`, `RolloutReturns`, `UpdateEnds`, `LearnReturns`,
  `Returns`, `FreshRatingShown`, `KeepsDeciding`, and that of `ImplementsMatches`) rests
  on fairness and ENABLED, which the prover does not handle.
* `LayoutIsBest` is about a RECURSIVE search.

The library's induction theorems take an operator as a parameter, which the installed
provers cannot instantiate. Where a proof needs induction over numbers (the ranks
of folders, `FlattenSeq`), `Ranks` does it by a least counterexample.

## 5. What is not modelled

Elo arithmetic, random opponents and start states of an evaluation; the text of the
dashboard (cells, colours, sparklines, number formats: most of
`rlgymppo-tui/src/render.rs` and `format.rs`); JSONL and stdout; conversions of the
game's state for the agent; networks, Nexto, rewards, observations, reports and the
launchers, which are numeric, pure or I/O. An arena thread that dies and a panic
of a thread other than the evaluation worker are not modelled. A pool
that panics takes the process down and is not modelled either. The
crates modelled are safe Rust; the one `unsafe` of the repository, the `Sync` of
`Net` (`rlgymppo-model/src/model.rs:36`), lets pools share a network they only
read, and the memory it guards is not modelled.

## 6. Plan

1. Done: memory, claims, collector, supervisor, update, checkpoints, versions,
   tracker and metrics actor; the matches and their arenas, the threads of a run
   from keyboard to wandb, distillation and the agent; the proofs
   of every safety invariant.
2. Proofs still worth writing: that the parts of `Session` without `Layout` keep the
   promises proved of them alone.
