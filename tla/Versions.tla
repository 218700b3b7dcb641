------------------------------ MODULE Versions ------------------------------
(***************************************************************************)
(* The saved policy versions (VersionManager, agent/self_play.rs): a       *)
(* window of them in memory, a folder of them on disk with its own         *)
(* retention, crashes between any two writes and restarts from the last    *)
(* checkpoint, which may lie before versions already on disk.              *)
(*                                                                         *)
(* A checkpoint is taken here in one step (Checkpoint models the writes),  *)
(* and the networks of a version are one write.  A model is named after    *)
(* the life of the process and the timestep it was taken at; a rating is a *)
(* number that grows.  On disk a rating is <<r>>, or <<>> while there is   *)
(* no stats.toml that can be read, which a restart takes for a rating of 0.*)
(***************************************************************************)
EXTENDS Naturals, Sequences, FiniteSets, FiniteSetsExt, SequencesExt

CONSTANTS
    TsPerVersion,  \* ts_per_version
    MaxOld,        \* max_old_versions
    MaxSaved,      \* max_saved_versions: empty for none
    MaxSteps,      \* bound: timesteps of one iteration
    MaxNow,        \* bound: cumulative timesteps
    MaxLife,       \* bound: lives of the process
    MaxRating      \* bound: ratings

ASSUME VersionsAssumption ==
    /\ {TsPerVersion, MaxOld, MaxSteps} \subseteq Nat \ {0}
    /\ MaxSaved \in Seq(Nat \ {0}) /\ Len(MaxSaved) <= 1
    /\ {MaxNow, MaxLife, MaxRating} \subseteq Nat

(* The files of a folder before they are written; a restart then takes the *)
(* template's weights instead.                                             *)
Unwritten == <<0, 0>>

VARIABLES
    now,         \* cumulative_timesteps
    life,        \* how often the process was started
    versions,    \* the window, oldest first: [t, model, rating]
    disk,        \* policy_versions: timestep -> [model, rating: <<>> or <<r>>]
    checkpoint,  \* timesteps of the last checkpoint, 0 for none
    pc,
    work,        \* versions still to be persisted
    fresh,       \* the version on_iteration adds to the window: <<>> or <<v>>
    before,      \* history: the window the process died with, while it is down
    durable,     \* history: ratings written by finished saves
    rolled       \* history: a restart went back behind a saved version

persistVars == <<work, fresh>>
historyVars == <<before, durable, rolled>>
vars == <<now, life, versions, disk, checkpoint, pc, persistVars, historyVars>>

Saved == DOMAIN disk

Init ==
    /\ now = 0 /\ life = 1
    /\ versions = <<>> /\ disk = [t \in {} |-> Unwritten] /\ checkpoint = 0
    /\ pc = "train" /\ work = <<>> /\ fresh = <<>>
    /\ before = <<>> /\ durable = [t \in 1..MaxNow |-> 0] /\ rolled = FALSE

-----------------------------------------------------------------------------
(* on_iteration, after an iteration of n timesteps. *)
Iterate(n) ==
    /\ pc = "train" /\ now + n <= MaxNow
    /\ now' = now + n
    /\ LET version == [t |-> now', model |-> <<life, now'>>, rating |-> 0]
       IN  IF now' \div TsPerVersion > now \div TsPerVersion \/ now = 0
           THEN work' = <<version>> /\ fresh' = <<version>> /\ pc' = "persist"
           ELSE UNCHANGED <<persistVars, pc>>
    /\ UNCHANGED <<life, versions, disk, checkpoint, historyVars>>

(* The skill tracker writes a rating back. *)
Rate(i) ==
    /\ pc = "train" /\ versions[i].rating < MaxRating
    /\ versions' = [versions EXCEPT ![i].rating = @ + 1]
    /\ UNCHANGED <<now, life, disk, checkpoint, pc, persistVars, historyVars>>

(* The learner saves a checkpoint, then the versions (save_versions). *)
Save ==
    /\ pc = "train" /\ now > 0
    /\ checkpoint' = now
    /\ work' = versions /\ pc' = "persist"
    /\ UNCHANGED <<now, life, versions, disk, fresh, historyVars>>

(* persist_version: a folder that is there keeps its model. *)
MakeFolder ==
    /\ pc = "persist" /\ work # <<>> /\ Head(work).t \notin Saved
    /\ disk' = [t \in Saved \cup {Head(work).t} |->
                    IF t \in Saved THEN disk[t] ELSE [model |-> Unwritten, rating |-> <<>>]]
    /\ pc' = "write"
    /\ UNCHANGED <<now, life, versions, checkpoint, persistVars, historyVars>>

WriteModel ==
    /\ pc = "write"
    /\ disk' = [disk EXCEPT ![Head(work).t].model = Head(work).model]
    /\ pc' = "persist"
    /\ UNCHANGED <<now, life, versions, checkpoint, persistVars, historyVars>>

(* Faulty: a folder that is there keeps its ratings too. *)
FaultyOpenRating ==
    /\ pc = "persist" /\ work # <<>> /\ Head(work).t \in Saved
    /\ IF disk[Head(work).t].rating = <<>>
       THEN pc' = "rate" /\ UNCHANGED work
       ELSE work' = Tail(work) /\ UNCHANGED pc
    /\ UNCHANGED <<now, life, versions, disk, checkpoint, fresh, historyVars>>

(* fs::write of stats.toml empties the file and then fills it. *)
OpenRating ==
    /\ pc = "persist" /\ work # <<>> /\ Head(work).t \in Saved
    /\ disk' = [disk EXCEPT ![Head(work).t].rating = <<>>]
    /\ pc' = "rate"
    /\ UNCHANGED <<now, life, versions, checkpoint, persistVars, historyVars>>

WriteRating ==
    /\ pc = "rate"
    /\ disk' = [disk EXCEPT ![Head(work).t].rating = <<Head(work).rating>>]
    /\ work' = Tail(work)
    /\ pc' = "persist"
    /\ UNCHANGED <<now, life, versions, checkpoint, fresh, historyVars>>

(* The window slides. *)
Window(seq) == SubSeq(seq, IF Len(seq) > MaxOld THEN Len(seq) - MaxOld + 1 ELSE 1, Len(seq))

EndPersist ==
    /\ pc = "persist" /\ work = <<>>
    /\ versions' = Window(versions \o fresh)
    /\ fresh' = <<>>
    /\ pc' = "prune"
    /\ UNCHANGED <<now, life, disk, checkpoint, work, historyVars>>

Surplus == IF MaxSaved # <<>> /\ Cardinality(Saved) > MaxSaved[1]
           THEN Cardinality(Saved) - MaxSaved[1] ELSE 0

(* Faulty: the newest folder goes first. *)
FaultyFirstToGo == Max(Saved)

FirstToGo == Min(Saved)

(* prune_saved_versions, one remove_dir_all after the other. *)
Prune ==
    /\ pc = "prune" /\ Surplus > 0
    /\ disk' = [t \in Saved \ {FirstToGo} |-> disk[t]]
    /\ UNCHANGED <<now, life, versions, checkpoint, pc, persistVars, historyVars>>

(* A save, unlike on_iteration, ends where the checkpoint was taken. *)
EndPrune ==
    /\ pc = "prune" /\ Surplus = 0
    /\ pc' = "train"
    /\ durable' = [t \in DOMAIN durable |->
                    IF now = checkpoint /\ \E i \in DOMAIN versions : versions[i].t = t
                    THEN (CHOOSE v \in ToSet(versions) : v.t = t).rating ELSE durable[t]]
    /\ UNCHANGED <<now, life, versions, disk, checkpoint, persistVars, before, rolled>>

-----------------------------------------------------------------------------
Crash ==
    /\ pc # "down"
    /\ pc' = "down"
    /\ before' = versions
    /\ work' = <<>> /\ fresh' = <<>>
    /\ UNCHANGED <<now, life, versions, disk, checkpoint, durable, rolled>>

(* Faulty: versions from after the checkpoint are loaded too. *)
FaultyNotNewer(t) == TRUE

NotNewer(t) == t <= checkpoint

Loaded(t) == [ t |-> t, model |-> disk[t].model,
               rating |-> IF disk[t].rating = <<>> THEN 0 ELSE disk[t].rating[1] ]

(* The numbers of a finite set, sorted: the i-th has i - 1 below it. *)
Ascending(S) ==
    [i \in 1..Cardinality(S) |-> CHOOSE t \in S : Cardinality({s \in S : s < t}) = i - 1]

(* Learner::load goes back to the checkpoint; load_versions. *)
Restart ==
    /\ pc = "down" /\ life < MaxLife
    /\ life' = life + 1
    /\ now' = checkpoint
    /\ LET found == Ascending({t \in Saved : NotNewer(t)})
       IN  versions' = Window([i \in DOMAIN found |-> Loaded(found[i])])
    /\ rolled' = (rolled \/ \E t \in Saved : t > checkpoint)
    /\ pc' = "train" /\ before' = <<>>
    /\ durable' = [t \in DOMAIN durable |->
                     IF t \in Saved /\ disk[t].rating = <<>> THEN 0 ELSE durable[t]]
    /\ UNCHANGED <<disk, checkpoint, persistVars>>

Next ==
    \/ (\E n \in 1..MaxSteps : Iterate(n)) \/ (\E i \in DOMAIN versions : Rate(i)) \/ Save
    \/ MakeFolder \/ WriteModel \/ OpenRating \/ WriteRating \/ EndPersist \/ Prune \/ EndPrune
    \/ Crash \/ Restart

Spec == Init /\ [][Next]_vars

-----------------------------------------------------------------------------
(* The window is ordered by timestep whatever is on disk after a restart,  *)
(* and holds nothing newer than the policy in training: the version that   *)
(* is dropped from its front is the oldest (load_versions, on_iteration).  *)
WindowOrdered ==
    /\ \A i, j \in DOMAIN versions : i < j => versions[i].t < versions[j].t
    /\ \A i \in DOMAIN versions : pc # "down" => versions[i].t <= now

ModelsOf(window) == [i \in DOMAIN window |-> window[i].model]

(* The retention on disk keeps at least a window.  With a smaller one a     *)
(* save writes the folders of the window anew before it prunes them again, *)
(* and what a restart then finds depends on where the crash was.           *)
RetentionCovers == MaxSaved = <<>> \/ MaxSaved[1] >= MaxOld

(* A restart that does not go back behind a saved version finds the window *)
(* it died with (persist_version, prune_saved_versions, load_versions).    *)
RestartKeepsWindow ==
    [][(RetentionCovers /\ pc = "down" /\ pc' = "train" /\ ~rolled')
       => ModelsOf(versions') = ModelsOf(before)]_vars

(* Ratings a finished save has written are there after every restart, even *)
(* though the folder of a version is never written again; only the rating  *)
(* whose file a crash has left empty is lost (persist_version).            *)
RatingsSurvive ==
    [][(pc = "down" /\ pc' = "train")
       => \A i \in DOMAIN versions' :
              LET t == versions'[i].t
              IN  disk[t].rating # <<>> => versions'[i].rating >= durable[t]]_vars

-----------------------------------------------------------------------------
(* self_play.rs:149: save_versions is there to "persist in-memory          *)
(* versions": what is on disk under a version's timestep is its model.     *)
DiskHoldsWindow ==
    pc = "prune" => \A i \in DOMAIN versions :
        versions[i].t \in Saved => disk[versions[i].t].model = versions[i].model
=============================================================================
