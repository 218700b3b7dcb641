----------------------------- MODULE Checkpoint -----------------------------
(***************************************************************************)
(* Saving and loading checkpoints (utils/serde.rs; Ppo::save_optimizers    *)
(* and load_optimizers; Learner::load), with a crash between any two       *)
(* writes and in the middle of one.                                        *)
(*                                                                         *)
(* A checkpoint is a folder named after the second it was made in.  A file *)
(* holds the generation of the training state it was written from, or is   *)
(* Torn.  Training advances the generation of everything at once.          *)
(***************************************************************************)
EXTENDS Naturals, Sequences, FiniteSets, FiniteSetsExt

CONSTANTS
    Limits,        \* choices of checkpoints_limit, <<>> for none
    PolicyFolder,  \* whether the folder also holds "policy_versions"
    HasHead,       \* whether the model has a shared head
    MaxGen,        \* bound: generations of training state
    MaxSecond      \* bound: seconds of the system clock

ASSUME CheckpointAssumption ==
    /\ \A limit \in Limits : limit \in Seq(Nat \ {0}) /\ Len(limit) <= 1
    /\ {PolicyFolder, HasHead} \subseteq BOOLEAN
    /\ MaxGen \in Nat \ {0} /\ MaxSecond \in Nat

HeadFile == IF HasHead THEN <<"shared_head">> ELSE <<>>

(* Faulty: the statistics are written first. *)
FaultyModelFiles == <<"stats", "actor", "critic">> \o HeadFile

ModelFiles == <<"actor", "critic">> \o HeadFile \o <<"stats">>
OptimizerFiles == <<"policy_optimizer", "value_optimizer", "shared_head_optimizer">>

FilesOf(list) == {list[i] : i \in DOMAIN list}
Files == FilesOf(ModelFiles) \cup FilesOf(OptimizerFiles)

Torn == 0             \* a file that was not written to its end
Fresh == MaxGen + 1   \* a part of the trainer that starts from scratch
NoFiles == [f \in {} |-> Torn]

VARIABLES
    limit,    \* checkpoints_limit
    second,   \* of the system clock
    disk,     \* the checkpoint folders: second -> file -> generation
    pc,
    gen,      \* last generation trained
    live,     \* the generation of each part of the running trainer
    folder,   \* save_folder of the save under way
    work,     \* the files it still has to write
    doomed,   \* the folders it still has to remove
    acked,    \* history: generation of the last save that returned
    reopened, \* history: a save has reopened the folder of one within its second
    loads     \* restarts: "ok" or "panic" for the last one

saveVars == <<folder, work, doomed>>
vars == <<limit, second, disk, pc, gen, live, saveVars, acked, reopened, loads>>

Folders == DOMAIN disk
Put(f, generation) ==
    [disk EXCEPT ![folder] = [x \in DOMAIN @ \cup {f} |-> IF x = f THEN generation ELSE @[x]]]
Without(map, key) == [x \in DOMAIN map \ {key} |-> map[x]]

Init ==
    /\ limit \in Limits
    /\ second = 1
    /\ disk = [d \in {} |-> NoFiles]
    /\ pc = "start" /\ gen = 1
    /\ live = [f \in Files |-> 1]
    /\ folder = 0 /\ work = <<>> /\ doomed = {}
    /\ acked = 0 /\ reopened = FALSE /\ loads = "ok"

Tick ==
    /\ second < MaxSecond /\ second' = second + 1
    /\ UNCHANGED <<limit, disk, pc, gen, live, saveVars, acked, reopened, loads>>

(* One iteration changes weights, statistics and optimizers.  No save comes *)
(* before the first.                                                       *)
Train ==
    /\ pc \in {"start", "train"} /\ gen < MaxGen
    /\ gen' = gen + 1
    /\ live' = [f \in Files |-> gen']
    /\ pc' = "train"
    /\ UNCHANGED <<limit, second, disk, saveVars, acked, reopened, loads>>

-----------------------------------------------------------------------------
(* An iteration takes longer than a second; a save the user asks for, an   *)
(* automatic one and the one of the quit may follow each other within one, *)
(* and then share a folder.                                                *)
SameState == acked = live["stats"]

(* save_model: create_dir_all keeps a folder that is there already. *)
BeginSave ==
    /\ pc = "train"
    /\ second > folder \/ SameState
    /\ folder' = second
    /\ disk' = [d \in Folders \cup {second} |-> IF d \in Folders THEN disk[d] ELSE NoFiles]
    /\ reopened' = (reopened \/ second \in Folders)
    /\ work' = ModelFiles
    /\ pc' = "model"
    /\ UNCHANGED <<limit, second, gen, live, doomed, acked, loads>>

(* A file is created empty and then filled. *)
OpenFile ==
    /\ pc \in {"model", "optimizers"} /\ work # <<>> /\ folder \in Folders
    /\ disk' = Put(Head(work), Torn)
    /\ pc' = IF pc = "model" THEN "model write" ELSE "optimizers write"
    /\ UNCHANGED <<limit, second, gen, live, saveVars, acked, reopened, loads>>

CloseFile ==
    /\ pc \in {"model write", "optimizers write"}
    /\ disk' = Put(Head(work), live[Head(work)])
    /\ work' = Tail(work)
    /\ pc' = IF pc = "model write" THEN "model" ELSE "optimizers"
    /\ UNCHANGED <<limit, second, gen, live, folder, doomed, acked, reopened, loads>>

(* The folder is gone: creating the file fails and unwrap panics. *)
OpenFails ==
    /\ pc \in {"model", "optimizers"} /\ work # <<>> /\ folder \notin Folders
    /\ pc' = "down"
    /\ UNCHANGED <<limit, second, disk, gen, live, saveVars, acked, reopened, loads>>

(* Everything in the base folder counts against the limit. *)
Entries == Cardinality(Folders) + (IF PolicyFolder THEN 1 ELSE 0)

(* The first n folders in name order; "policy_versions" comes last. *)
Oldest(n) == {d \in Folders : Cardinality({e \in Folders : e < d}) < n}

(* Faulty: one more than the limit is kept. *)
FaultyExcess ==
    IF limit # <<>> /\ Entries > limit[1] + 1 THEN Entries - limit[1] - 1 ELSE 0

(* Faulty: the limit is reached one folder early. *)
FaultyExcessMore ==
    IF limit # <<>> /\ Entries >= limit[1] THEN Entries + 1 - limit[1] ELSE 0

Excess == IF limit # <<>> /\ Entries > limit[1] THEN Entries - limit[1] ELSE 0

BeginPrune ==
    /\ pc = "model" /\ work = <<>>
    /\ doomed' = Oldest(Excess)
    /\ pc' = "prune"
    /\ UNCHANGED <<limit, second, disk, gen, live, folder, work, acked, reopened, loads>>

(* remove_dir_all of the oldest doomed folder: file after file, then the   *)
(* folder itself.                                                          *)
RemoveFile(f) ==
    /\ pc = "prune" /\ doomed # {}
    /\ LET d == Min(doomed)
       IN  /\ f \in DOMAIN disk[d]
           /\ disk' = [disk EXCEPT ![d] = Without(@, f)]
    /\ UNCHANGED <<limit, second, pc, gen, live, saveVars, acked, reopened, loads>>

RemoveFolder ==
    /\ pc = "prune" /\ doomed # {}
    /\ LET d == Min(doomed)
       IN  /\ DOMAIN disk[d] = {}
           /\ disk' = Without(disk, d)
           /\ doomed' = doomed \ {d}
    /\ UNCHANGED <<limit, second, pc, gen, live, folder, work, acked, reopened, loads>>

(* save_checkpoint: the optimizers follow the model. *)
BeginOptimizers ==
    /\ pc = "prune" /\ doomed = {}
    /\ work' = OptimizerFiles
    /\ pc' = "optimizers"
    /\ UNCHANGED <<limit, second, disk, gen, live, folder, doomed, acked, reopened, loads>>

EndSave ==
    /\ pc = "optimizers" /\ work = <<>>
    /\ acked' = live["stats"]
    /\ pc' = "train"
    /\ UNCHANGED <<limit, second, disk, gen, live, saveVars, reopened, loads>>

-----------------------------------------------------------------------------
(* The process dies; the trainer is gone, the disk stays. *)
Crash ==
    /\ pc # "down"
    /\ pc' = "down"
    /\ work' = <<>> /\ doomed' = {}
    /\ UNCHANGED <<limit, second, disk, gen, live, folder, acked, reopened, loads>>

(* Faulty: the first folder rather than the latest. *)
FaultyLatest == Min(Folders)

(* latest_checkpoint_folder *)
Latest == Max(Folders)

Whole(d, f) == f \in DOMAIN disk[d] /\ disk[d][f] # Torn

(* Neither unwrap of load_model nor load_optimizers panics. *)
Loadable(d) ==
    /\ Whole(d, "actor") /\ Whole(d, "critic") /\ Whole(d, "stats")
    /\ \A f \in FilesOf(OptimizerFiles) : f \in DOMAIN disk[d] => Whole(d, f)

LoadedFrom(d) == [f \in Files |-> IF Whole(d, f) THEN disk[d][f] ELSE Fresh]

(* A restart calls Learner::load. *)
Load ==
    /\ pc = "down" /\ loads = "ok"
    /\ \/ /\ Folders = {}      \* a trainer from scratch
          /\ live' = [f \in Files |-> 1]
          /\ pc' = "start" /\ UNCHANGED loads
       \/ /\ Folders # {} /\ Loadable(Latest)
          /\ live' = LoadedFrom(Latest)
          /\ pc' = "start" /\ UNCHANGED loads
       \/ /\ Folders # {} /\ ~Loadable(Latest)
          /\ loads' = "panic" /\ UNCHANGED <<pc, live>>
    /\ UNCHANGED <<limit, second, disk, gen, saveVars, acked, reopened>>

(* After a panic somebody removes the folder that cannot be loaded. *)
Repair ==
    /\ pc = "down" /\ loads = "panic"
    /\ disk' = Without(disk, Latest)
    /\ loads' = "ok"
    /\ UNCHANGED <<limit, second, pc, gen, live, saveVars, acked, reopened>>

Next ==
    \/ Tick \/ Train
    \/ BeginSave \/ OpenFile \/ CloseFile \/ OpenFails
    \/ BeginPrune \/ (\E f \in Files : RemoveFile(f)) \/ RemoveFolder
    \/ BeginOptimizers \/ EndSave
    \/ Crash \/ Load \/ Repair

Spec == Init /\ [][Next]_vars
-----------------------------------------------------------------------------
ModelPart(f) == f \in FilesOf(ModelFiles)

(* What a folder holds of one generation of the model. *)
HoldsModel(d) ==
    \A f, g \in FilesOf(ModelFiles) : Whole(d, f) /\ disk[d][f] = disk[d][g]

(* The limit leaves room for n checkpoints beside "policy_versions". *)
RoomFor(n) == limit = <<>> \/ limit[1] >= (IF PolicyFolder THEN n + 1 ELSE n)

(* A running trainer never mixes models: the networks and the statistics   *)
(* it goes on with are of one generation, whatever crash it comes back     *)
(* from, and each optimizer is of that generation or starts afresh.  The   *)
(* statistics are written last and nothing but a shared head may be        *)
(* missing when they are there (save_model, load_model).  Two cases leave  *)
(* statistics without their shared head, which then starts afresh: with no *)
(* room for a checkpoint the new folder itself is pruned, its files in any *)
(* order; and a save that reopens the folder of one within the same second *)
(* writes over its files while the statistics are there already.           *)
OneGeneration ==
    (RoomFor(1) /\ pc \in {"start", "train"}) =>
        \A f \in Files :
            \/ live[f] = live["stats"]
            \/ live[f] = Fresh /\ (~ModelPart(f) \/ (f = "shared_head" /\ reopened))

(* Once a save has returned there is always a folder with a whole model at *)
(* least as new: through the pruning of later saves, crashes in the middle *)
(* of them, and the removal of the folders a restart cannot load.  Neither *)
(* a smaller limit is enough, as old folders are removed before the        *)
(* optimizers are written and a folder with half an optimizer cannot be    *)
(* loaded, nor saves that reopen a folder, as a crash spoils it.           *)
ModelSurvives ==
    (RoomFor(2) /\ ~reopened /\ acked > 0) =>
        \E d \in Folders : HoldsModel(d) /\ disk[d]["stats"] >= acked

(* A restart goes on from training at least as new as the last save that   *)
(* returned (latest_checkpoint_folder, load_latest_model), if the limit    *)
(* leaves room for two and no save has reopened a folder.                  *)
ResumesFromNewest ==
    [][(RoomFor(2) /\ ~reopened /\ pc = "down" /\ pc' = "start" /\ acked > 0)
       => (Folders # {} /\ live'["stats"] >= acked)]_vars

(* When a save has pruned, what is left respects the limit, even though an *)
(* earlier one may have died before it pruned or half way.                 *)
RetentionHolds ==
    (pc \in {"optimizers", "optimizers write"} /\ limit # <<>>) => Entries <= limit[1]

-----------------------------------------------------------------------------
(* lib.rs:965: load "does nothing if the model can't be loaded, this is    *)
(* safe to call unconditionally".                                          *)
LoadIsSafe == loads = "ok"

(* lib.rs:518: checkpoints_limit is "the maximum number of checkpoints to  *)
(* keep", so one of at least 1 keeps the checkpoint that is being saved.   *)
NewCheckpointKept == pc = "optimizers" => folder \in Folders
=============================================================================
