---------------------------- MODULE CheckpointProofs ----------------------------
(***************************************************************************)
(* Proofs about saving and loading checkpoints (Checkpoint), for every     *)
(* limit, any number of generations and seconds, with a crash between any  *)
(* two writes: the networks a trainer goes on with are of one generation,  *)
(* a checkpoint that has been saved survives, a restart goes on from it,   *)
(* and the limit is kept.                                                  *)
(***************************************************************************)
EXTENDS Checkpoint, Ranks, SequenceTheorems, TLAPS

(* The phases of a save. *)
Modelling == {"model", "model write"}
Equipping == {"optimizers", "optimizers write"}
Writing == {"model write", "optimizers write"}
Saving == Modelling \cup {"prune"} \cup Equipping

DiskOK ==
    /\ Folders \subseteq 1..folder
    /\ \A d \in Folders : DOMAIN disk[d] \subseteq Files
    /\ \A d \in Folders : \A f \in DOMAIN disk[d] : disk[d][f] \in 0..gen

TypeOK ==
    /\ limit \in Limits /\ reopened \in BOOLEAN
    /\ pc \in Saving \cup {"start", "train", "down"}
    /\ gen \in Nat \ {0} /\ gen <= MaxGen
    /\ acked \in 0..gen
    /\ folder \in Nat /\ second \in Nat \ {0} /\ folder <= second
    /\ DiskOK
    /\ live \in [Files -> 1..Fresh]

(* What is left of a list of files from its i-th on. *)
Rest(list, i) == SubSeq(list, i, Len(list))

(* A save writes its files in the order of the lists. *)
WorkInv ==
    /\ pc \in Modelling => \E i \in 1..Len(ModelFiles) + 1 : work = Rest(ModelFiles, i)
    /\ pc = "prune" => work = <<>>
    /\ pc \in Equipping => \E i \in 1..Len(OptimizerFiles) + 1 : work = Rest(OptimizerFiles, i)
    /\ pc \in Writing => work # <<>>

(* Once it has trained all of a trainer is of the last generation. *)
LiveInv == pc \in Saving \cup {"train"} => \A f \in Files : live[f] = gen

(* No file is newer than a file of the same or a later folder. *)
OrderInv ==
    \A d, e \in Folders : d <= e =>
        \A f \in DOMAIN disk[d], g \in DOMAIN disk[e] :
            disk[d][f] = Torn \/ disk[e][g] = Torn \/ disk[d][f] <= disk[e][g]

(* The folder a save writes to, and the one the next may reopen, holds     *)
(* nothing but the last generation.                                        *)
CurrentInv ==
    (pc \in Saving \/ (pc = "train" /\ acked = gen)) =>
        (folder \in Folders => \A f \in DOMAIN disk[folder] : disk[folder][f] \in {Torn, gen})

(* The folders a save removes are the oldest ones, and what it keeps is    *)
(* within the limit.                                                       *)
PruneInv ==
    /\ pc # "prune" => doomed = {}
    /\ doomed \subseteq Folders
    /\ \A d \in doomed, e \in Folders : e < d => e \in doomed
    /\ (pc = "prune" /\ limit # <<>>) =>
          Cardinality(Folders \ doomed) + (IF PolicyFolder THEN 1 ELSE 0) <= limit[1]

Complete(d) == \A f \in FilesOf(ModelFiles) : Whole(d, f)
Good(d) == Complete(d) /\ \A f \in DOMAIN disk[d] : disk[d][f] # Torn

(* A save that has not reopened a folder leaves at most the file under way *)
(* torn, and writes the statistics last.                                   *)
ProgressInv ==
    ~reopened =>
        /\ pc \in Modelling => folder \in Folders
        /\ (pc \in Saving /\ folder \in Folders) =>
              \A f \in DOMAIN disk[folder] :
                  disk[folder][f] = Torn => pc \in Writing /\ f = Head(work)
        /\ pc \in Modelling =>
              /\ \A f \in FilesOf(ModelFiles) \ FilesOf(work) : Whole(folder, f)
              /\ Whole(folder, "stats") => work = <<>>

(* With room for one checkpoint the new one is not pruned. *)
KeptInv ==
    (RoomFor(1) /\ ~reopened /\ pc \in {"prune"} \cup Equipping) =>
        folder \in Folders \ doomed /\ Complete(folder)

(* d may have lost files to pruning: e is newer and can be loaded, and     *)
(* remains so, as it is the folder under way only while d is being removed.*)
Covers(e, d) ==
    /\ d < e /\ Good(e)
    /\ (pc \in Saving /\ e = folder) => (pc = "prune" /\ d \in doomed)

CoverInv ==
    (RoomFor(1) /\ ~reopened) =>
        \A d \in Folders :
            Complete(d) \/ ~Whole(d, "stats") \/ \E e \in Folders : Covers(e, d)

(* After a panic the latest folder is the one that could not be loaded. *)
PanicInv ==
    loads = "panic" => pc = "down" /\ Folders # {} /\ ~Loadable(Latest)

(* The newest folder but the one under way holds what the last save wrote. *)
Strong(d) == Good(d) /\ disk[d]["stats"] >= acked
Survives(d) ==
    /\ Strong(d)
    /\ pc # "down" => \A e \in Folders : e <= d \/ (pc \in Saving /\ e = folder)
    /\ pc \in Saving => d # folder /\ d \notin doomed
SurvivorInv ==
    (RoomFor(2) /\ ~reopened /\ acked > 0) => \E d \in Folders : Survives(d)

IInv ==
    /\ TypeOK /\ WorkInv /\ LiveInv /\ OrderInv /\ CurrentInv /\ PruneInv /\ ProgressInv
    /\ KeptInv /\ CoverInv /\ PanicInv /\ SurvivorInv /\ RetentionHolds /\ OneGeneration
-----------------------------------------------------------------------------
(* What the steps that write do to the disk. *)
LEMMA PutEffect ==
    ASSUME NEW f, NEW g, folder \in Folders, disk' = Put(f, g)
    PROVE  /\ Folders' = Folders
           /\ DOMAIN disk'[folder] = DOMAIN disk[folder] \cup {f}
           /\ \A x \in DOMAIN disk'[folder] :
                 disk'[folder][x] = IF x = f THEN g ELSE disk[folder][x]
           /\ \A d \in Folders \ {folder} : disk'[d] = disk[d]
BY DEF Put, Folders

(* What each action does to the folders: a save begins with its folder. *)
LEMMA BeginSaveEffect ==
    ASSUME BeginSave
    PROVE  /\ Folders' = Folders \cup {second}
           /\ \A d \in Folders : disk'[d] = disk[d]
           /\ second \notin Folders => DOMAIN disk'[second] = {}
           /\ folder' = second
BY DEF BeginSave, Folders, NoFiles

(* The other steps only take away: files from a folder, or folders. *)
Fewer ==
    /\ Folders' \subseteq Folders
    /\ \A d \in Folders' : /\ DOMAIN disk'[d] \subseteq DOMAIN disk[d]
                           /\ \A f \in DOMAIN disk'[d] : disk'[d][f] = disk[d][f]

(* A file of a folder that is being removed goes. *)
LEMMA RemoveFileEffect ==
    ASSUME PruneInv, TypeOK, NEW f \in Files, RemoveFile(f)
    PROVE  /\ Folders' = Folders /\ Fewer
           /\ Min(doomed) \in doomed /\ \A d \in doomed : Min(doomed) <= d
           /\ \A d \in Folders \ {Min(doomed)} : disk'[d] = disk[d]
<1>1. doomed \in SUBSET Nat /\ doomed # {} /\ doomed \subseteq Folders
  BY DEF PruneInv, TypeOK, DiskOK, RemoveFile
<1>2. Min(doomed) \in doomed /\ \A d \in doomed : Min(doomed) <= d
  BY <1>1, MinIsLeast
<1>3. disk' = [disk EXCEPT ![Min(doomed)] = Without(disk[Min(doomed)], f)]
  BY DEF RemoveFile
<1>4. Min(doomed) \in Folders
  BY <1>1, <1>2
<1>5. Folders' = Folders /\ \A d \in Folders \ {Min(doomed)} : disk'[d] = disk[d]
  BY <1>3 DEF Folders
<1>6. disk'[Min(doomed)] = Without(disk[Min(doomed)], f)
  BY <1>3, <1>4 DEF Folders
<1>7. Fewer
  BY <1>5, <1>6 DEF Fewer, Without
<1> QED
  BY <1>2, <1>5, <1>7

(* An emptied folder goes. *)
LEMMA RemoveFolderEffect ==
    ASSUME PruneInv, TypeOK, RemoveFolder
    PROVE  /\ Folders' = Folders \ {Min(doomed)} /\ Fewer
           /\ doomed' = doomed \ {Min(doomed)}
           /\ Min(doomed) \in doomed /\ \A d \in doomed : Min(doomed) <= d
           /\ \A d \in Folders' : disk'[d] = disk[d]
<1>1. doomed \in SUBSET Nat /\ doomed # {} /\ doomed \subseteq Folders
  BY DEF PruneInv, TypeOK, DiskOK, RemoveFolder
<1>2. Min(doomed) \in doomed /\ \A d \in doomed : Min(doomed) <= d
  BY <1>1, MinIsLeast
<1>3. disk' = Without(disk, Min(doomed)) /\ doomed' = doomed \ {Min(doomed)}
  BY DEF RemoveFolder
<1>4. Folders' = Folders \ {Min(doomed)} /\ \A d \in Folders' : disk'[d] = disk[d]
  BY <1>3 DEF Folders, Without
<1> QED
  BY <1>2, <1>3, <1>4 DEF Fewer

(* The latest folder. *)
LEMMA LatestIsNewest ==
    ASSUME TypeOK, Folders # {}
    PROVE  Latest \in Folders /\ \A d \in Folders : d <= Latest
<1>1. Folders \in SUBSET Nat /\ folder \in Nat /\ \A d \in Folders : d <= folder
  BY DEF TypeOK, DiskOK
<1>2. Max(Folders) \in Folders /\ \A d \in Folders : d <= Max(Folders)
  BY <1>1, MaxIsGreatest
<1> QED
  BY <1>2 DEF Latest

(* The user removes a folder that does not load. *)
LEMMA RepairEffect ==
    ASSUME Repair
    PROVE  /\ Folders' = Folders \ {Latest} /\ Fewer
           /\ \A d \in Folders' : disk'[d] = disk[d]
BY DEF Repair, Folders, Without, Fewer

-----------------------------------------------------------------------------
(* Joining short sequences. *)
LEMMA Joined ==
    ASSUME NEW a, NEW b, NEW c, NEW d
    PROVE  /\ <<a, b>> \o <<c>> = <<a, b, c>>
           /\ <<a, b, c>> \o <<d>> = <<a, b, c, d>>
<1> DEFINE S == {a, b, c, d}
<1>1. /\ <<a, b>> \in Seq(S) /\ <<c>> \in Seq(S) /\ <<d>> \in Seq(S)
      /\ <<a, b, c>> \in Seq(S) /\ <<a, b, c, d>> \in Seq(S)
  OBVIOUS
<1> HIDE DEF S
<1>2. <<a, b>> \o <<c>> = <<a, b, c>>
  <2>1. (<<a, b>> \o <<c>>) \in Seq(S) /\ Len(<<a, b>> \o <<c>>) = 3
    BY <1>1, ConcatProperties
  <2>2. \A i \in 1..3 : (<<a, b>> \o <<c>>)[i] = IF i <= 2 THEN <<a, b>>[i] ELSE <<c>>[i - 2]
    BY <1>1, ConcatProperties
  <2>3. \A i \in 1..3 : (<<a, b>> \o <<c>>)[i] = <<a, b, c>>[i]
    BY <2>2
  <2> QED
    BY <1>1, <2>1, <2>3, SeqEqual
<1>3. <<a, b, c>> \o <<d>> = <<a, b, c, d>>
  <2>1. (<<a, b, c>> \o <<d>>) \in Seq(S) /\ Len(<<a, b, c>> \o <<d>>) = 4
    BY <1>1, ConcatProperties
  <2>2. \A i \in 1..4 : (<<a, b, c>> \o <<d>>)[i]
                           = IF i <= 3 THEN <<a, b, c>>[i] ELSE <<d>>[i - 3]
    BY <1>1, ConcatProperties
  <2>3. \A i \in 1..4 : (<<a, b, c>> \o <<d>>)[i] = <<a, b, c, d>>[i]
    BY <2>2
  <2> QED
    BY <1>1, <2>1, <2>3, SeqEqual
<1> QED
  BY <1>2, <1>3

(* The lists of files. *)
LEMMA FileLists ==
    /\ ModelFiles \in Seq(Files) /\ Len(ModelFiles) \in Nat \ {0}
    /\ OptimizerFiles \in Seq(Files) /\ Len(OptimizerFiles) = 3
    /\ ModelFiles[Len(ModelFiles)] = "stats"
    /\ \A i, j \in 1..Len(ModelFiles) : ModelFiles[i] = ModelFiles[j] => i = j
    /\ \A i, j \in 1..Len(OptimizerFiles) : OptimizerFiles[i] = OptimizerFiles[j] => i = j
    /\ FilesOf(ModelFiles) \cap FilesOf(OptimizerFiles) = {}
    /\ {"actor", "critic", "stats"} \subseteq FilesOf(ModelFiles)
    /\ FilesOf(ModelFiles) \subseteq {"actor", "critic", "stats", "shared_head"}
    /\ "stats" \in Files
<1>1. FilesOf(OptimizerFiles) = {"policy_optimizer", "value_optimizer", "shared_head_optimizer"}
  BY DEF FilesOf, OptimizerFiles
<1>2. CASE HasHead
  <2>1. ModelFiles = <<"actor", "critic", "shared_head", "stats">>
    <3>1. <<"actor", "critic">> \o <<"shared_head">> = <<"actor", "critic", "shared_head">>
      BY Joined
    <3>2. <<"actor", "critic", "shared_head">> \o <<"stats">>
            = <<"actor", "critic", "shared_head", "stats">>
      BY Joined
    <3> QED
      BY <1>2, <3>1, <3>2 DEF ModelFiles, HeadFile
  <2>2. FilesOf(ModelFiles) = {"actor", "critic", "shared_head", "stats"}
    BY <2>1 DEF FilesOf
  <2> QED
    BY <1>1, <2>1, <2>2 DEF Files, OptimizerFiles
<1>3. CASE ~HasHead
  <2>1. ModelFiles = <<"actor", "critic", "stats">>
    <3>1. <<"actor", "critic">> \o <<>> = <<"actor", "critic">>
      OBVIOUS
    <3>2. <<"actor", "critic">> \o <<"stats">> = <<"actor", "critic", "stats">>
      BY Joined
    <3> QED
      BY <1>3, <3>1, <3>2 DEF ModelFiles, HeadFile
  <2>2. FilesOf(ModelFiles) = {"actor", "critic", "stats"}
    BY <2>1 DEF FilesOf
  <2> QED
    BY <1>1, <2>1, <2>2 DEF Files, OptimizerFiles
<1> QED
  BY <1>2, <1>3

(* A save takes the next file from the front of what is left. *)
LEMMA RestProperties ==
    ASSUME NEW S, NEW list \in Seq(S), NEW i \in 1..Len(list) + 1
    PROVE  /\ i = Len(list) + 1 <=> Rest(list, i) = <<>>
           /\ i <= Len(list) => /\ Head(Rest(list, i)) = list[i]
                                /\ Tail(Rest(list, i)) = Rest(list, i + 1)
           /\ FilesOf(Rest(list, i)) = {list[j] : j \in i..Len(list)}
           /\ Rest(list, 1) = list
<1>1. \A j \in 1..Len(list) : list[j] \in S
  BY LenProperties, ElementOfSeq
<1>2. /\ Rest(list, i) \in Seq(S)
      /\ Len(Rest(list, i)) = Len(list) - i + 1
      /\ \A j \in 1..Len(list) - i + 1 : Rest(list, i)[j] = list[j + i - 1]
  <2>1. /\ SubSeq(list, i, Len(list)) \in Seq(S)
        /\ Len(SubSeq(list, i, Len(list))) = IF i <= Len(list) THEN Len(list) - i + 1 ELSE 0
        /\ \A j \in 1..Len(list) - i + 1 : SubSeq(list, i, Len(list))[j] = list[i + j - 1]
    BY <1>1, SubSeqProperties
  <2> QED
    BY <2>1 DEF Rest
<1>3. i = Len(list) + 1 <=> Rest(list, i) = <<>>
  BY <1>2, EmptySeq
<1>4. ASSUME i <= Len(list)
      PROVE  Head(Rest(list, i)) = list[i] /\ Tail(Rest(list, i)) = Rest(list, i + 1)
  <2>1. i \in 1..Len(list) /\ Len(list) \in i..Len(list)
    BY <1>4
  <2> QED
    BY <2>1, HeadTailOfSubSeq DEF Rest
<1>5. FilesOf(Rest(list, i)) = {list[j] : j \in i..Len(list)}
  <2>1. DOMAIN Rest(list, i) = 1..Len(list) - i + 1
    BY <1>2
  <2>2. ASSUME NEW j \in i..Len(list)
        PROVE  j - i + 1 \in 1..Len(list) - i + 1 /\ Rest(list, i)[j - i + 1] = list[j]
    BY <1>2
  <2>3. ASSUME NEW j \in 1..Len(list) - i + 1
        PROVE  j + i - 1 \in i..Len(list) /\ Rest(list, i)[j] = list[j + i - 1]
    BY <1>2
  <2>4. FilesOf(Rest(list, i)) = {Rest(list, i)[j] : j \in 1..Len(list) - i + 1}
    BY <2>1 DEF FilesOf
  <2>5. ASSUME NEW f
        PROVE  f \in FilesOf(Rest(list, i)) <=> f \in {list[j] : j \in i..Len(list)}
    <3>1. f \in FilesOf(Rest(list, i)) => f \in {list[j] : j \in i..Len(list)}
      BY <2>3, <2>4
    <3>2. ASSUME NEW j \in i..Len(list), f = list[j]
          PROVE  f \in FilesOf(Rest(list, i))
      BY <2>2, <2>4, <3>2
    <3> QED
      BY <3>1, <3>2
  <2> QED
    BY <2>5
<1>6. Rest(list, 1) = list
  BY SubSeqFull DEF Rest
<1> QED
  BY <1>3, <1>4, <1>5, <1>6

(* The next file of a save, and what is left after it. *)
LEMMA NextModelFile ==
    ASSUME WorkInv, pc \in Modelling, work # <<>>
    PROVE  /\ Head(work) \in FilesOf(ModelFiles)
           /\ Head(work) \in FilesOf(work)
           /\ FilesOf(Tail(work)) = FilesOf(work) \ {Head(work)}
           /\ Head(work) = "stats" => Tail(work) = <<>>
           /\ \E i \in 1..Len(ModelFiles) + 1 : Tail(work) = Rest(ModelFiles, i)
<1>1. PICK i \in 1..Len(ModelFiles) + 1 : work = Rest(ModelFiles, i)
  BY DEF WorkInv
<1>2. ModelFiles \in Seq(Files) /\ Len(ModelFiles) \in Nat
  BY FileLists
<1>3. i \in 1..Len(ModelFiles) /\ i + 1 \in 1..Len(ModelFiles) + 1
  <2>1. i # Len(ModelFiles) + 1
    BY <1>1, <1>2, RestProperties
  <2> QED
    BY <1>2, <2>1
<1>4. Head(work) = ModelFiles[i] /\ Tail(work) = Rest(ModelFiles, i + 1)
  <2>1. i <= Len(ModelFiles) => /\ Head(Rest(ModelFiles, i)) = ModelFiles[i]
                                /\ Tail(Rest(ModelFiles, i)) = Rest(ModelFiles, i + 1)
    BY <1>2, RestProperties
  <2> QED
    BY <1>1, <1>2, <1>3, <2>1
<1>5. Head(work) \in FilesOf(ModelFiles)
  <2>1. DOMAIN ModelFiles = 1..Len(ModelFiles)
    BY <1>2, LenProperties
  <2> QED
    BY <1>3, <1>4, <2>1 DEF FilesOf
<1>6. Head(work) \in FilesOf(work) /\ FilesOf(Tail(work)) = FilesOf(work) \ {Head(work)}
  <2>1. FilesOf(work) = {ModelFiles[j] : j \in i..Len(ModelFiles)}
    BY <1>1, <1>2, RestProperties
  <2>2. FilesOf(Tail(work)) = {ModelFiles[j] : j \in i + 1..Len(ModelFiles)}
    <3> DEFINE k == i + 1
    <3>1. k \in 1..Len(ModelFiles) + 1
      BY <1>3
    <3> HIDE DEF k
    <3>2. FilesOf(Rest(ModelFiles, k)) = {ModelFiles[j] : j \in k..Len(ModelFiles)}
      BY <1>2, <3>1, RestProperties
    <3> QED
      BY <1>4, <3>2 DEF k
  <2>3. \A j \in i..Len(ModelFiles) : j \in i + 1..Len(ModelFiles) \/ j = i
    BY <1>2
  <2>4. \A j \in i + 1..Len(ModelFiles) : j \in i..Len(ModelFiles) /\ ModelFiles[j] # ModelFiles[i]
    BY <1>2, <1>3, FileLists
  <2>5. Head(work) \in FilesOf(work)
    <3>1. i \in i..Len(ModelFiles)
      BY <1>2, <1>3
    <3> QED
      BY <1>4, <2>1, <3>1
  <2> QED
    BY <1>4, <2>1, <2>2, <2>3, <2>4, <2>5
<1>7. Head(work) = "stats" => Tail(work) = <<>>
  <2> SUFFICES ASSUME Head(work) = "stats"
               PROVE  Tail(work) = <<>>
    OBVIOUS
  <2>1. i = Len(ModelFiles)
    BY <1>2, <1>3, <1>4, FileLists
  <2>2. i + 1 = Len(ModelFiles) + 1 <=> Rest(ModelFiles, i + 1) = <<>>
    BY <1>2, <1>3, RestProperties
  <2> QED
    BY <1>4, <2>1, <2>2
<1> QED
  BY <1>3, <1>4, <1>5, <1>6, <1>7

(* The files of the optimizers come in their order. *)
LEMMA NextOptimizerFile ==
    ASSUME WorkInv, pc \in Equipping, work # <<>>
    PROVE  /\ Head(work) \in FilesOf(OptimizerFiles)
           /\ \E i \in 1..Len(OptimizerFiles) + 1 : Tail(work) = Rest(OptimizerFiles, i)
<1>1. PICK i \in 1..Len(OptimizerFiles) + 1 : work = Rest(OptimizerFiles, i)
  BY DEF WorkInv
<1>2. OptimizerFiles \in Seq(Files) /\ Len(OptimizerFiles) \in Nat
  BY FileLists
<1>3. i \in 1..Len(OptimizerFiles) /\ i + 1 \in 1..Len(OptimizerFiles) + 1
  <2>1. i # Len(OptimizerFiles) + 1
    BY <1>1, <1>2, RestProperties
  <2> QED
    BY <1>2, <2>1
<1>4. Head(work) = OptimizerFiles[i] /\ Tail(work) = Rest(OptimizerFiles, i + 1)
  <2>1. i <= Len(OptimizerFiles) =>
              /\ Head(Rest(OptimizerFiles, i)) = OptimizerFiles[i]
              /\ Tail(Rest(OptimizerFiles, i)) = Rest(OptimizerFiles, i + 1)
    BY <1>2, RestProperties
  <2> QED
    BY <1>1, <1>2, <1>3, <2>1
<1>5. DOMAIN OptimizerFiles = 1..Len(OptimizerFiles)
  BY <1>2, LenProperties
<1> QED
  BY <1>3, <1>4, <1>5 DEF FilesOf

(* Either way it is one of the files, and the other ones are left alone. *)
LEMMA NextFile ==
    ASSUME WorkInv, pc \in Modelling \cup Equipping, work # <<>>
    PROVE  Head(work) \in Files
BY NextModelFile, NextOptimizerFile DEF Files

-----------------------------------------------------------------------------
(* The initial states. *)
LEMMA InitIInv == Init => IInv
<1> SUFFICES ASSUME Init
             PROVE  IInv
  OBVIOUS
<1>1. Folders = {}
  BY DEF Init, Folders
<1>2. TypeOK
  <2>1. live \in [Files -> 1..Fresh]
    BY CheckpointAssumption DEF Init, Fresh
  <2>2. DiskOK
    BY <1>1 DEF DiskOK
  <2> QED
    <3>1. pc \in Saving \cup {"start", "train", "down"}
      BY DEF Init
    <3>2. gen \in Nat \ {0} /\ gen <= MaxGen /\ acked \in 0..gen
      BY CheckpointAssumption DEF Init
    <3>3. folder \in Nat /\ second \in Nat \ {0} /\ folder <= second
      BY DEF Init
    <3>4. limit \in Limits /\ reopened \in BOOLEAN
      BY DEF Init
    <3> QED
      BY <2>1, <2>2, <3>1, <3>2, <3>3, <3>4 DEF TypeOK
<1>3. /\ pc = "start" /\ pc \notin Saving /\ pc \notin Modelling /\ pc \notin Equipping
      /\ pc \notin Writing
  BY DEF Init, Saving, Modelling, Equipping, Writing
<1>4. WorkInv /\ LiveInv /\ CurrentInv /\ ProgressInv /\ KeptInv /\ RetentionHolds
  BY <1>1, <1>3 DEF WorkInv, LiveInv, CurrentInv, ProgressInv, KeptInv, RetentionHolds
<1>5. OrderInv /\ CoverInv /\ PanicInv
  BY <1>1 DEF Init, OrderInv, CoverInv, PanicInv
<1>6. PruneInv /\ SurvivorInv
  BY <1>1, <1>3 DEF Init, PruneInv, SurvivorInv
<1>7. OneGeneration
  BY FileLists DEF Init, OneGeneration
<1> QED
  BY <1>2, <1>4, <1>5, <1>6, <1>7 DEF IInv

(* The state keeps its types. *)
LEMMA TypeOKKept == IInv /\ [Next]_vars => TypeOK'
<1> SUFFICES ASSUME IInv, [Next]_vars
             PROVE  TypeOK'
  OBVIOUS
<1>0. TypeOK /\ DiskOK /\ WorkInv /\ PruneInv /\ MaxGen \in Nat
  BY CheckpointAssumption DEF IInv, TypeOK
<1> DEFINE P == Saving \cup {"start", "train", "down"}
<1>p. {"start", "train", "down", "model", "model write", "prune", "optimizers",
       "optimizers write"} = P
  BY DEF Saving, Modelling, Equipping
<1> HIDE DEF P
<1>1. ASSUME UNCHANGED <<disk, folder>>, gen' \in Nat, gen <= gen'
      PROVE  DiskOK'
  <2>1. gen \in Nat
    BY <1>0 DEF TypeOK
  <2>2. \A n \in 0..gen : n \in 0..gen'
    BY <1>1, <2>1
  <2> QED
    BY <1>0, <1>1, <2>2 DEF DiskOK, Folders
<1>2. ASSUME Fewer, UNCHANGED <<folder, gen>>
      PROVE  DiskOK'
  BY <1>0, <1>2 DEF DiskOK, Fewer
<1>3. ASSUME NEW f \in Files, NEW g \in 0..gen, disk' = Put(f, g), UNCHANGED <<folder, gen>>
      PROVE  DiskOK'
  <2>1. CASE folder \in Folders
    <3>1. /\ Folders' = Folders
          /\ DOMAIN disk'[folder] = DOMAIN disk[folder] \cup {f}
          /\ \A x \in DOMAIN disk'[folder] :
                 disk'[folder][x] = IF x = f THEN g ELSE disk[folder][x]
          /\ \A d \in Folders \ {folder} : disk'[d] = disk[d]
      BY <1>3, <2>1, PutEffect
    <3>2. /\ DOMAIN disk'[folder] \subseteq Files
          /\ \A x \in DOMAIN disk'[folder] : disk'[folder][x] \in 0..gen
      BY <1>0, <2>1, <3>1 DEF DiskOK
    <3>3. \A d \in Folders \ {folder} :
             /\ DOMAIN disk'[d] \subseteq Files
             /\ \A x \in DOMAIN disk'[d] : disk'[d][x] \in 0..gen
      BY <1>0, <3>1 DEF DiskOK
    <3> QED
      BY <1>0, <1>3, <3>1, <3>2, <3>3 DEF DiskOK
  <2>2. CASE folder \notin Folders
    <3>1. Folders' = Folders /\ \A d \in Folders : disk'[d] = disk[d]
      BY <1>3, <2>2 DEF Put, Folders
    <3> QED
      BY <1>0, <1>3, <3>1 DEF DiskOK
  <2> QED
    BY <2>1, <2>2
<1>4. ASSUME BeginSave
      PROVE  DiskOK' /\ folder' = second
  <2>1. /\ Folders' = Folders \cup {second} /\ folder' = second /\ gen' = gen
        /\ \A d \in Folders : disk'[d] = disk[d]
        /\ second \notin Folders => DOMAIN disk'[second] = {}
    BY <1>4, BeginSaveEffect DEF BeginSave
  <2>2. folder \in Nat /\ second \in Nat \ {0} /\ folder <= second
    BY <1>0 DEF TypeOK
  <2>3. Folders \cup {second} \subseteq 1..second
    BY <1>0, <2>2 DEF DiskOK
  <2> QED
    BY <1>0, <2>1, <2>3 DEF DiskOK
<1>5. CASE Tick
  <2>1. DiskOK'
    BY <1>0, <1>1, <1>5 DEF Tick, TypeOK, saveVars
  <2> QED
    BY <1>0, <1>5, <2>1 DEF Tick, TypeOK, saveVars
<1>6. CASE Train
  <2>1. gen' \in 1..Fresh /\ gen <= gen' /\ gen' <= MaxGen /\ gen' \in Nat \ {0}
    BY <1>0, <1>6 DEF TypeOK, Train, Fresh
  <2>2. live' \in [Files -> 1..Fresh]
    BY <1>6, <2>1 DEF Train
  <2>3. DiskOK'
    BY <1>1, <1>6, <2>1 DEF Train, saveVars
  <2>4. acked' \in 0..gen'
    BY <1>0, <1>6, <2>1 DEF Train, TypeOK
  <2> QED
    BY <1>0, <1>6, <1>p, <2>1, <2>2, <2>3, <2>4 DEF Train, TypeOK, saveVars, P
<1>7. CASE BeginSave
  <2>1. reopened' \in BOOLEAN /\ pc' = "model"
    BY <1>7 DEF BeginSave
  <2>2. DiskOK' /\ folder' = second
    BY <1>4, <1>7
  <2>3. UNCHANGED <<limit, second, gen, live, acked>>
    BY <1>7 DEF BeginSave
  <2>4. pc' \in P
    BY <1>p, <2>1
  <2> QED
    BY <1>0, <2>1, <2>2, <2>3, <2>4 DEF TypeOK, P
<1>8. CASE OpenFile
  <2>1. Head(work) \in Files
    BY <1>0, <1>8, NextFile DEF OpenFile, Modelling, Equipping
  <2>2. DiskOK'
    <3>1. Torn \in 0..gen
      BY <1>0 DEF TypeOK, Torn
    <3>2. disk' = Put(Head(work), Torn) /\ UNCHANGED <<folder, gen>>
      BY <1>8 DEF OpenFile, saveVars
    <3> QED
      BY <1>3, <2>1, <3>1, <3>2
  <2> QED
    BY <1>0, <1>8, <1>p, <2>2 DEF OpenFile, TypeOK, saveVars, P
<1>9. CASE CloseFile
  <2>1. Head(work) \in Files
    BY <1>0, <1>9, NextFile DEF CloseFile, WorkInv, Writing, Modelling, Equipping
  <2>2. live[Head(work)] = gen /\ gen \in 0..gen
    <3>1. pc \in Saving
      BY <1>9 DEF CloseFile, Saving, Modelling, Equipping
    <3>2. gen \in 0..gen
      BY <1>0 DEF TypeOK
    <3> QED
      BY <2>1, <3>1, <3>2 DEF IInv, LiveInv
  <2>3. DiskOK'
    BY <1>3, <1>9, <2>1, <2>2 DEF CloseFile
  <2> QED
    BY <1>0, <1>9, <1>p, <2>3 DEF CloseFile, TypeOK, P
<1>10. CASE OpenFails
  <2>1. DiskOK'
    BY <1>0, <1>1, <1>10 DEF OpenFails, TypeOK, saveVars
  <2> QED
    BY <1>0, <1>10, <1>p, <2>1 DEF OpenFails, TypeOK, saveVars, P
<1>11. CASE BeginPrune
  <2>1. DiskOK'
    BY <1>0, <1>1, <1>11 DEF BeginPrune, TypeOK
  <2> QED
    BY <1>0, <1>11, <1>p, <2>1 DEF BeginPrune, TypeOK, P
<1>12. ASSUME NEW f \in Files, RemoveFile(f)
       PROVE  TypeOK'
  <2>1. DiskOK'
    BY <1>0, <1>2, <1>12, RemoveFileEffect DEF RemoveFile, saveVars
  <2> QED
    BY <1>0, <1>12, <2>1 DEF RemoveFile, TypeOK, saveVars
<1>13. CASE RemoveFolder
  <2>1. DiskOK'
    BY <1>0, <1>2, <1>13, RemoveFolderEffect DEF RemoveFolder
  <2> QED
    BY <1>0, <1>13, <2>1 DEF RemoveFolder, TypeOK
<1>14. CASE BeginOptimizers
  <2>1. DiskOK'
    BY <1>0, <1>1, <1>14 DEF BeginOptimizers, TypeOK
  <2> QED
    BY <1>0, <1>14, <1>p, <2>1 DEF BeginOptimizers, TypeOK, P
<1>15. CASE EndSave
  <2>1. live["stats"] = gen /\ gen \in 0..gen
    BY <1>0, <1>15, FileLists
       DEF EndSave, IInv, LiveInv, TypeOK, Saving, Modelling, Equipping
  <2>2. DiskOK'
    BY <1>0, <1>1, <1>15 DEF EndSave, TypeOK, saveVars
  <2> QED
    BY <1>0, <1>15, <1>p, <2>1, <2>2 DEF EndSave, TypeOK, saveVars, P
<1>16. CASE Crash
  <2>1. DiskOK'
    BY <1>0, <1>1, <1>16 DEF Crash, TypeOK
  <2> QED
    BY <1>0, <1>16, <1>p, <2>1 DEF Crash, TypeOK, P
<1>17. CASE Load
  <2>1. live' \in [Files -> 1..Fresh]
    <3>1. CASE Folders = {}
      <4>1. 1 \in 1..Fresh
        BY <1>0 DEF Fresh
      <4> QED
        BY <1>17, <3>1, <4>1 DEF Load
    <3>2. CASE Folders # {} /\ Loadable(Latest)
      <4>1. live' = LoadedFrom(Latest)
        BY <1>17, <3>2 DEF Load
      <4>2. ASSUME NEW f \in Files, Whole(Latest, f)
            PROVE  disk[Latest][f] \in 1..Fresh
        <5>1. disk[Latest][f] \in 0..gen /\ disk[Latest][f] # 0
          BY <1>0, <3>2, <4>2, LatestIsNewest DEF DiskOK, Whole, Torn
        <5>2. gen \in Nat /\ gen <= MaxGen
          BY <1>0 DEF TypeOK
        <5> QED
          BY <1>0, <5>1, <5>2 DEF Fresh
      <4>3. Fresh \in 1..Fresh
        BY <1>0 DEF Fresh
      <4> QED
        BY <4>1, <4>2, <4>3 DEF LoadedFrom
    <3>3. CASE Folders # {} /\ ~Loadable(Latest)
      BY <1>0, <1>17, <3>3 DEF Load, TypeOK
    <3> QED
      BY <3>1, <3>2, <3>3
  <2>2. DiskOK'
    BY <1>0, <1>1, <1>17 DEF Load, TypeOK, saveVars
  <2>3. pc' \in P
    BY <1>17, <1>p DEF Load
  <2> QED
    BY <1>0, <1>17, <2>1, <2>2, <2>3 DEF Load, TypeOK, saveVars, P
<1>18. CASE Repair
  <2>1. DiskOK'
    BY <1>0, <1>2, <1>18, RepairEffect DEF Repair, saveVars
  <2> QED
    BY <1>0, <1>18, <2>1 DEF Repair, TypeOK, saveVars
<1>19. CASE UNCHANGED vars
  <2>1. DiskOK'
    BY <1>0, <1>1, <1>19 DEF vars, saveVars, TypeOK
  <2> QED
    BY <1>0, <1>19, <2>1 DEF vars, saveVars, TypeOK
<1> QED
  BY <1>5, <1>6, <1>7, <1>8, <1>9, <1>10, <1>11, <1>12, <1>13, <1>14, <1>15, <1>16, <1>17,
     <1>18, <1>19 DEF Next

(* Writing a file changes no other folder. *)
LEMMA PutFolders ==
    ASSUME NEW f, NEW g, disk' = Put(f, g)
    PROVE  /\ Folders' = Folders
           /\ \A d \in Folders \ {folder} : disk'[d] = disk[d]
BY DEF Put, Folders

(* The phases are told apart. *)
LEMMA Phases ==
    /\ \A p \in {"start", "train", "down"} :
          p \notin Saving /\ p \notin Modelling /\ p \notin Equipping /\ p \notin Writing
    /\ "prune" \in Saving /\ "prune" \notin Modelling /\ "prune" \notin Equipping
    /\ "prune" \notin Writing
    /\ {"model", "model write"} = Modelling /\ Modelling \subseteq Saving
    /\ {"optimizers", "optimizers write"} = Equipping /\ Equipping \subseteq Saving
    /\ Modelling \cap Equipping = {}
    /\ "model" \notin Writing /\ "optimizers" \notin Writing
    /\ {"model write", "optimizers write"} = Writing /\ Writing \subseteq Saving
    /\ Saving = Modelling \cup {"prune"} \cup Equipping
BY DEF Saving, Modelling, Equipping, Writing

(* A save goes through its lists. *)
LEMMA WorkKept == IInv /\ [Next]_vars => WorkInv'
<1> SUFFICES ASSUME IInv, [Next]_vars
             PROVE  WorkInv'
  OBVIOUS
<1>0. WorkInv
  BY DEF IInv
<1>1. ASSUME UNCHANGED <<work, pc>>
      PROVE  WorkInv'
  BY <1>0, <1>1 DEF WorkInv
<1>2. ASSUME pc' \in {"start", "train", "down"}
      PROVE  WorkInv'
  BY <1>2, Phases DEF WorkInv
<1>3. CASE BeginSave
  <2>1. pc' = "model" /\ work' = Rest(ModelFiles, 1)
    BY <1>3, FileLists, RestProperties DEF BeginSave
  <2>2. 1 \in 1..Len(ModelFiles) + 1
    BY FileLists
  <2> QED
    BY <2>1, <2>2, Phases DEF WorkInv
<1>4. CASE OpenFile
  <2>1. work' = work /\ work # <<>>
    BY <1>4 DEF OpenFile, saveVars
  <2>2. \/ pc = "model" /\ pc' = "model write"
        \/ pc = "optimizers" /\ pc' = "optimizers write"
    BY <1>4 DEF OpenFile
  <2> QED
    BY <1>0, <2>1, <2>2, Phases DEF WorkInv
<1>5. CASE CloseFile
  <2>1. work' = Tail(work) /\ work # <<>>
    BY <1>0, <1>5, Phases DEF CloseFile, WorkInv
  <2>2. CASE pc = "model write"
    <3>1. pc \in Modelling /\ pc' = "model"
      BY <1>5, <2>2, Phases DEF CloseFile
    <3>2. \E i \in 1..Len(ModelFiles) + 1 : work' = Rest(ModelFiles, i)
      BY <1>0, <2>1, <3>1, NextModelFile
    <3> QED
      BY <3>1, <3>2, Phases DEF WorkInv
  <2>3. CASE pc = "optimizers write"
    <3>1. pc \in Equipping /\ pc' = "optimizers"
      BY <1>5, <2>3, Phases DEF CloseFile
    <3>2. \E i \in 1..Len(OptimizerFiles) + 1 : work' = Rest(OptimizerFiles, i)
      BY <1>0, <2>1, <3>1, NextOptimizerFile
    <3> QED
      BY <3>1, <3>2, Phases DEF WorkInv
  <2> QED
    BY <1>5, <2>2, <2>3 DEF CloseFile
<1>6. CASE BeginPrune
  BY <1>6, Phases DEF BeginPrune, WorkInv
<1>7. CASE BeginOptimizers
  <2>1. pc' = "optimizers" /\ work' = Rest(OptimizerFiles, 1)
    BY <1>7, FileLists, RestProperties DEF BeginOptimizers
  <2>2. 1 \in 1..Len(OptimizerFiles) + 1
    BY FileLists
  <2> QED
    BY <2>1, <2>2, Phases DEF WorkInv
<1>8. CASE Tick \/ (\E f \in Files : RemoveFile(f)) \/ RemoveFolder \/ Repair \/ UNCHANGED vars
  BY <1>1, <1>8 DEF Tick, RemoveFile, RemoveFolder, Repair, vars, saveVars
<1>9. CASE Train \/ OpenFails \/ EndSave \/ Crash \/ Load
  BY <1>2, <1>9 DEF Train, OpenFails, EndSave, Crash, Load
<1> QED
  BY <1>3, <1>4, <1>5, <1>6, <1>7, <1>8, <1>9 DEF Next

(* All of a trainer that has trained is of one generation. *)
LEMMA LiveKept == IInv /\ [Next]_vars => LiveInv'
<1> SUFFICES ASSUME IInv, [Next]_vars
             PROVE  LiveInv'
  OBVIOUS
<1>1. LiveInv
  BY DEF IInv
<1>2. CASE Train
  BY <1>2 DEF Train, LiveInv
<1>3. CASE Load
  BY <1>3, Phases DEF Load, LiveInv
<1>4. ASSUME UNCHANGED <<live, gen>>, pc \in Saving \cup {"train"} \/ pc' \notin Saving \cup {"train"}
      PROVE  LiveInv'
  BY <1>1, <1>4 DEF LiveInv
<1>5. CASE Tick \/ BeginSave \/ OpenFile \/ CloseFile \/ BeginPrune
           \/ (\E f \in Files : RemoveFile(f)) \/ RemoveFolder \/ BeginOptimizers \/ EndSave
  <2>1. UNCHANGED <<live, gen>>
    BY <1>5 DEF Tick, BeginSave, OpenFile, CloseFile, BeginPrune, RemoveFile, RemoveFolder,
                BeginOptimizers, EndSave
  <2>2. pc \in Saving \cup {"train"} \/ pc' \notin Saving \cup {"train"}
    BY <1>5, Phases DEF Tick, BeginSave, OpenFile, CloseFile, BeginPrune, RemoveFile,
                RemoveFolder, BeginOptimizers, EndSave
  <2> QED
    BY <1>4, <2>1, <2>2
<1>6. CASE OpenFails \/ Crash \/ Repair \/ UNCHANGED vars
  <2>1. UNCHANGED <<live, gen>> /\ (pc' = "down" \/ pc' = pc)
    BY <1>6 DEF OpenFails, Crash, Repair, vars
  <2> QED
    BY <1>4, <2>1, Phases
<1> QED
  BY <1>2, <1>3, <1>5, <1>6 DEF Next

(* What a step of a save writes. *)
LEMMA WriteEffect ==
    ASSUME IInv, OpenFile \/ CloseFile
    PROVE  /\ pc \in Saving /\ pc' \in Saving
           /\ UNCHANGED <<limit, second, gen, live, folder, doomed, acked, reopened>>
           /\ Head(work) \in Files
           /\ disk' = Put(Head(work), IF OpenFile THEN Torn ELSE gen)
<1>1. pc \in Saving /\ pc' \in Saving /\ UNCHANGED <<limit, second, gen, live, folder, doomed, acked, reopened>>
  BY Phases DEF OpenFile, CloseFile, saveVars
<1>2. Head(work) \in Files
  <2>1. WorkInv /\ pc \in Modelling \cup Equipping /\ work # <<>>
    BY Phases DEF IInv, WorkInv, OpenFile, CloseFile
  <2> QED
    BY <2>1, NextFile
<1>3. live[Head(work)] = gen
  BY <1>1, <1>2 DEF IInv, LiveInv
<1>4. disk' = Put(Head(work), IF OpenFile THEN Torn ELSE gen)
  BY <1>3 DEF OpenFile, CloseFile
<1> QED
  BY <1>1, <1>2, <1>4

(* A save finds nothing but the last generation in the folder it writes to.*)
LEMMA CurrentKept == IInv /\ [Next]_vars => CurrentInv'
<1> SUFFICES ASSUME IInv, [Next]_vars
             PROVE  CurrentInv'
  OBVIOUS
<1>0. TypeOK /\ DiskOK /\ LiveInv /\ CurrentInv /\ PruneInv
  BY DEF IInv, TypeOK
<1>1. ASSUME UNCHANGED <<disk, folder, gen, acked>>, pc \in Saving \/ UNCHANGED pc
      PROVE  CurrentInv'
  BY <1>0, <1>1 DEF CurrentInv, Folders
<1>2. ASSUME pc' \in {"start", "down"}
      PROVE  CurrentInv'
  BY <1>2, Phases DEF CurrentInv
<1>3. ASSUME Fewer, UNCHANGED <<folder, gen>>, pc \in Saving
      PROVE  CurrentInv'
  BY <1>0, <1>3 DEF CurrentInv, Fewer
<1>4. CASE Train
  <2>1. acked' # gen' /\ pc' = "train"
    BY <1>0, <1>4 DEF TypeOK, Train
  <2> QED
    BY <2>1, Phases DEF CurrentInv
<1>5. CASE BeginSave
  <2>1. /\ Folders' = Folders \cup {second} /\ folder' = second /\ gen' = gen
        /\ \A d \in Folders : disk'[d] = disk[d]
        /\ second \notin Folders => DOMAIN disk'[second] = {}
    BY <1>5, BeginSaveEffect DEF BeginSave
  <2>2. CASE second \in Folders
    <3>1. second = folder
      BY <1>0, <2>2 DEF DiskOK, TypeOK
    <3>2. SameState /\ pc = "train"
      BY <1>0, <1>5, <3>1 DEF BeginSave, TypeOK
    <3>3. acked = gen
      BY <1>0, <3>2, FileLists DEF LiveInv, SameState
    <3>4. \A f \in DOMAIN disk[folder] : disk[folder][f] \in {Torn, gen}
      BY <1>0, <2>2, <3>1, <3>2, <3>3 DEF CurrentInv
    <3> QED
      BY <2>1, <2>2, <3>1, <3>4 DEF CurrentInv
  <2>3. CASE second \notin Folders
    BY <2>1, <2>3 DEF CurrentInv
  <2> QED
    BY <2>2, <2>3
<1>6. CASE OpenFile \/ CloseFile
  <2> DEFINE g == IF OpenFile THEN Torn ELSE gen
  <2>1. /\ pc \in Saving /\ UNCHANGED <<gen, folder>> /\ disk' = Put(Head(work), g)
    BY <1>6, WriteEffect
  <2>2. g \in {Torn, gen}
    OBVIOUS
  <2> HIDE DEF g
  <2>3. Folders' = Folders
    BY <2>1, PutFolders
  <2>4. CASE folder \in Folders
    <3>1. \A f \in DOMAIN disk[folder] : disk[folder][f] \in {Torn, gen}
      BY <1>0, <2>1, <2>4 DEF CurrentInv
    <3>2. \A f \in DOMAIN disk'[folder] : disk'[folder][f] \in {Torn, gen}
      BY <2>1, <2>2, <2>4, <3>1, PutEffect
    <3> QED
      BY <2>1, <3>2 DEF CurrentInv
  <2>5. CASE folder \notin Folders
    BY <2>1, <2>3, <2>5 DEF CurrentInv
  <2> QED
    BY <2>4, <2>5
<1>7. CASE \E f \in Files : RemoveFile(f)
  BY <1>0, <1>3, <1>7, RemoveFileEffect, Phases DEF RemoveFile, saveVars
<1>8. CASE RemoveFolder
  BY <1>0, <1>3, <1>8, RemoveFolderEffect, Phases DEF RemoveFolder
<1>9. CASE Tick \/ BeginPrune \/ BeginOptimizers \/ UNCHANGED vars
  BY <1>1, <1>9, Phases DEF Tick, BeginPrune, BeginOptimizers, vars, saveVars
<1>10. CASE EndSave
  <2>1. pc \in Saving /\ UNCHANGED <<disk, folder, gen>>
    BY <1>10, Phases DEF EndSave, saveVars
  <2> QED
    BY <1>0, <2>1 DEF CurrentInv, Folders
<1>11. CASE OpenFails \/ Crash \/ Load \/ Repair
  BY <1>2, <1>11 DEF OpenFails, Crash, Load, Repair
<1> QED
  BY <1>4, <1>5, <1>6, <1>7, <1>8, <1>9, <1>10, <1>11 DEF Next

(* Files grow newer from folder to folder. *)
LEMMA OrderKept == IInv /\ [Next]_vars => OrderInv'
<1> SUFFICES ASSUME IInv, [Next]_vars
             PROVE  OrderInv'
  OBVIOUS
<1>0. TypeOK /\ DiskOK /\ OrderInv /\ PruneInv /\ DiskOK' /\ CurrentInv'
  BY TypeOKKept, CurrentKept DEF IInv, TypeOK
<1>1. ASSUME UNCHANGED disk
      PROVE  OrderInv'
  BY <1>0, <1>1 DEF OrderInv, Folders
<1>2. ASSUME Fewer
      PROVE  OrderInv'
  BY <1>0, <1>2 DEF OrderInv, Fewer
<1>3. ASSUME pc' \in Saving,
             Folders' \subseteq Folders \cup {folder'},
             \A d \in Folders' \ {folder'} : disk'[d] = disk[d]
      PROVE  OrderInv'
  <2> SUFFICES ASSUME NEW d \in Folders', NEW e \in Folders', d <= e,
                      NEW f \in DOMAIN disk'[d], NEW g \in DOMAIN disk'[e]
               PROVE  disk'[d][f] = Torn \/ disk'[e][g] = Torn \/ disk'[d][f] <= disk'[e][g]
    BY DEF OrderInv
  <2>1. CASE e = folder'
    <3>1. disk'[e][g] \in {Torn, gen'}
      BY <1>0, <1>3, <2>1 DEF CurrentInv
    <3>2. disk'[d][f] \in 0..gen'
      BY <1>0 DEF DiskOK
    <3> QED
      BY <3>1, <3>2
  <2>2. CASE e # folder'
    <3>1. e \in 1..folder' /\ d \in 1..folder'
      BY <1>0 DEF DiskOK
    <3>2. d # folder'
      BY <2>2, <3>1
    <3> QED
      BY <1>0, <1>3, <2>2, <3>2 DEF OrderInv
  <2> QED
    BY <2>1, <2>2
<1>4. CASE BeginSave
  <2>1. pc' \in Saving
    BY <1>4, Phases DEF BeginSave
  <2> QED
    BY <1>3, <1>4, <2>1, BeginSaveEffect
<1>5. CASE OpenFile \/ CloseFile
  <2>1. /\ pc' \in Saving /\ UNCHANGED folder
        /\ disk' = Put(Head(work), IF OpenFile THEN Torn ELSE gen)
    BY <1>5, WriteEffect
  <2>2. Folders' = Folders /\ \A d \in Folders \ {folder} : disk'[d] = disk[d]
    BY <2>1, PutFolders
  <2> QED
    BY <1>3, <2>1, <2>2
<1>6. CASE \E f \in Files : RemoveFile(f)
  BY <1>0, <1>2, <1>6, RemoveFileEffect
<1>7. CASE RemoveFolder
  BY <1>0, <1>2, <1>7, RemoveFolderEffect
<1>8. CASE Repair
  BY <1>2, <1>8, RepairEffect
<1>9. CASE Tick \/ Train \/ BeginPrune \/ BeginOptimizers \/ EndSave \/ OpenFails \/ Crash \/ Load
           \/ UNCHANGED vars
  BY <1>1, <1>9
     DEF Tick, Train, BeginPrune, BeginOptimizers, EndSave, OpenFails, Crash, Load, vars
<1> QED
  BY <1>4, <1>5, <1>6, <1>7, <1>8, <1>9 DEF Next

-----------------------------------------------------------------------------
(* The folders. *)
LEMMA FoldersFinite ==
    ASSUME TypeOK
    PROVE  /\ Folders \in SUBSET Nat /\ IsFiniteSet(Folders) /\ Cardinality(Folders) \in Nat
           /\ \A T \in SUBSET Folders : IsFiniteSet(T) /\ Cardinality(T) \in Nat
<1>1. folder \in Nat /\ Folders \in SUBSET (1..folder)
  BY DEF TypeOK, DiskOK
<1>2. IsFiniteSet(1..folder)
  BY <1>1, FS_Interval
<1>3. IsFiniteSet(Folders)
  BY <1>1, <1>2, FS_Subset
<1>4. \A T \in SUBSET Folders : IsFiniteSet(T)
  BY <1>3, FS_Subset
<1> QED
  BY <1>1, <1>3, <1>4, FS_CardinalityType

(* A limit is a positive number. *)
LEMMA LimitType ==
    ASSUME TypeOK, limit # <<>>
    PROVE  limit[1] \in Nat \ {0}
<1>1. limit \in Seq(Nat \ {0})
  BY CheckpointAssumption DEF TypeOK
<1>2. 1 \in 1..Len(limit)
  BY <1>1, EmptySeq
<1> QED
  BY <1>1, <1>2, ElementOfSeq

Extra == IF PolicyFolder THEN 1 ELSE 0

(* What a save decides to remove: the oldest folders, as many as exceed    *)
(* the limit; the newest n stay if the limit leaves room for them.         *)
LEMMA OldestRemoved ==
    ASSUME TypeOK
    PROVE  /\ Excess \in Nat /\ Excess <= Cardinality(Folders)
           /\ Oldest(Excess) = Lowest(Folders, Excess)
           /\ Oldest(Excess) \subseteq Folders
           /\ \A d \in Oldest(Excess), e \in Folders : e < d => e \in Oldest(Excess)
           /\ limit # <<>> => Cardinality(Folders \ Oldest(Excess)) + Extra <= limit[1]
<1>1. /\ Folders \in SUBSET Nat /\ IsFiniteSet(Folders) /\ Cardinality(Folders) \in Nat
      /\ Entries = Cardinality(Folders) + Extra /\ Extra \in {0, 1}
  BY FoldersFinite DEF Entries, Extra
<1>2. limit # <<>> => limit[1] \in Nat \ {0}
  BY LimitType
<1>3. Excess \in Nat /\ Excess <= Cardinality(Folders)
  BY <1>1, <1>2 DEF Excess
<1>4. Oldest(Excess) = Lowest(Folders, Excess)
  BY DEF Oldest, Lowest
<1>5. Oldest(Excess) \subseteq Folders
  BY DEF Oldest
<1>6. Cardinality(Folders \ Oldest(Excess)) <= Cardinality(Folders) - Excess
  BY <1>1, <1>3, <1>4, LowestAre
<1>7. Cardinality(Folders \ Oldest(Excess)) \in Nat
  <2>1. Folders \ Oldest(Excess) \in SUBSET Folders
    OBVIOUS
  <2> QED
    BY <2>1, FoldersFinite
<1>8. limit # <<>> => Cardinality(Folders \ Oldest(Excess)) + Extra <= limit[1]
  BY <1>1, <1>2, <1>6, <1>7 DEF Excess
<1>9. ASSUME NEW d \in Oldest(Excess), NEW e \in Folders, e < d
      PROVE  e \in Oldest(Excess)
  <2>1. Cardinality(Below(Folders, d)) < Excess
    BY DEF Oldest, Below
  <2>2. Cardinality(Below(Folders, e)) < Cardinality(Below(Folders, d))
    BY <1>1, <1>5, <1>9, RankGrows
  <2>3. Cardinality(Below(Folders, e)) \in Nat /\ Cardinality(Below(Folders, d)) \in Nat
    BY <1>1, <1>5, RankType
  <2>4. Cardinality(Below(Folders, e)) < Excess
    BY <1>3, <2>1, <2>2, <2>3
  <2> QED
    BY <2>4 DEF Oldest, Below
<1> QED
  BY <1>3, <1>4, <1>5, <1>8, <1>9

(* The folders a save removes are the oldest, and enough of them. *)
LEMMA PruneKept == IInv /\ [Next]_vars => PruneInv'
<1> SUFFICES ASSUME IInv, [Next]_vars
             PROVE  PruneInv'
  OBVIOUS
<1>0. TypeOK /\ PruneInv
  BY DEF IInv
<1>1. ASSUME Folders' = Folders, UNCHANGED <<doomed, limit>>, UNCHANGED pc \/ {pc, pc'} \cap {"prune"} = {}
      PROVE  PruneInv'
  BY <1>0, <1>1 DEF PruneInv
<1>2. ASSUME doomed' = {}, pc' # "prune"
      PROVE  PruneInv'
  BY <1>2 DEF PruneInv
<1>3. CASE BeginPrune
  <2>1. Folders' = Folders /\ limit' = limit /\ doomed' = Oldest(Excess) /\ pc' = "prune"
    BY <1>3 DEF BeginPrune, Folders
  <2> QED
    BY <1>0, <2>1, OldestRemoved DEF PruneInv, Extra
<1>4. CASE \E f \in Files : RemoveFile(f)
  <2>1. Folders' = Folders
    BY <1>0, <1>4, RemoveFileEffect
  <2> QED
    BY <1>1, <1>4, <2>1 DEF RemoveFile, saveVars
<1>5. CASE RemoveFolder
  <2> DEFINE d == Min(doomed)
  <2>1. /\ Folders' = Folders \ {d} /\ doomed' = doomed \ {d} /\ d \in doomed
        /\ UNCHANGED <<pc, limit>>
    BY <1>0, <1>5, RemoveFolderEffect DEF RemoveFolder
  <2> HIDE DEF d
  <2>2. Folders' \ doomed' = Folders \ doomed
    BY <2>1
  <2> QED
    BY <1>0, <1>5, <2>1, <2>2 DEF PruneInv, RemoveFolder
<1>6. CASE OpenFile \/ CloseFile
  <2>1. Folders' = Folders
    BY <1>6, WriteEffect, PutFolders
  <2>2. pc # "prune" /\ pc' # "prune" /\ UNCHANGED <<doomed, limit>>
    BY <1>6 DEF OpenFile, CloseFile, saveVars
  <2> QED
    BY <1>1, <2>1, <2>2
<1>7. CASE Crash
  BY <1>2, <1>7 DEF Crash
<1>8. CASE BeginSave \/ BeginOptimizers \/ Repair
  <2>1. doomed = {} /\ doomed' = doomed /\ pc' # "prune"
    BY <1>0, <1>8 DEF BeginSave, BeginOptimizers, Repair, PruneInv, saveVars
  <2> QED
    BY <1>2, <2>1
<1>9. CASE Train \/ OpenFails \/ EndSave \/ Load
  <2>1. doomed = {} /\ doomed' = doomed /\ pc' # "prune"
    BY <1>0, <1>9 DEF Train, OpenFails, EndSave, Load, PruneInv, saveVars
  <2> QED
    BY <1>2, <2>1
<1>10. CASE Tick \/ UNCHANGED vars
  BY <1>1, <1>10 DEF Tick, vars, saveVars, Folders
<1> QED
  BY <1>3, <1>4, <1>5, <1>6, <1>7, <1>8, <1>9, <1>10 DEF Next

(* The limit is kept. *)
LEMMA RetentionKept == IInv /\ [Next]_vars => RetentionHolds'
<1> SUFFICES ASSUME IInv, [Next]_vars
             PROVE  RetentionHolds'
  OBVIOUS
<1>0. PruneInv /\ RetentionHolds
  BY DEF IInv
<1>1. ASSUME Folders' = Folders, limit' = limit, pc \in Equipping
      PROVE  RetentionHolds'
  BY <1>0, <1>1, Phases DEF RetentionHolds, Entries
<1>2. ASSUME pc' \notin Equipping
      PROVE  RetentionHolds'
  BY <1>2, Phases DEF RetentionHolds
<1>3. CASE BeginOptimizers
  <2>1. doomed = {} /\ pc = "prune" /\ Folders' = Folders /\ limit' = limit
    BY <1>3 DEF BeginOptimizers, Folders
  <2>2. Folders \ doomed = Folders
    BY <2>1
  <2>3. limit # <<>> => Cardinality(Folders) + (IF PolicyFolder THEN 1 ELSE 0) <= limit[1]
    BY <1>0, <2>1, <2>2 DEF PruneInv
  <2> QED
    BY <2>1, <2>3 DEF RetentionHolds, Entries
<1>4. CASE OpenFile \/ CloseFile
  <2>1. Folders' = Folders /\ limit' = limit
    BY <1>4, WriteEffect, PutFolders
  <2>2. pc \in Equipping \/ pc' \notin Equipping
    BY <1>4, Phases DEF OpenFile, CloseFile
  <2> QED
    BY <1>1, <1>2, <2>1, <2>2
<1>5. CASE Tick \/ UNCHANGED vars
  BY <1>1, <1>2, <1>5 DEF Tick, vars, Folders
<1>6. CASE Train \/ BeginSave \/ OpenFails \/ BeginPrune \/ (\E f \in Files : RemoveFile(f)) \/ RemoveFolder
  BY <1>2, <1>6, Phases DEF Train, BeginSave, OpenFails, BeginPrune, RemoveFile, RemoveFolder
<1>7. CASE EndSave \/ Crash \/ Load \/ Repair
  BY <1>2, <1>7, Phases DEF EndSave, Crash, Load, Repair
<1> QED
  BY <1>3, <1>4, <1>5, <1>6, <1>7 DEF Next

-----------------------------------------------------------------------------
(* A save is never forgotten to have reopened a folder, and the limit      *)
(* stays.                                                                  *)
LEMMA Fixed ==
    ASSUME [Next]_vars, NEW n \in {1, 2}
    PROVE  /\ ~reopened' => ~reopened
           /\ RoomFor(n)' => RoomFor(n)
<1>1. limit' = limit /\ (~reopened' => ~reopened)
  <2>1. CASE Tick \/ Train \/ OpenFile \/ CloseFile \/ OpenFails \/ BeginPrune
    <3>1. limit' = limit /\ reopened' = reopened
      BY <2>1 DEF Tick, Train, OpenFile, CloseFile, OpenFails, BeginPrune
    <3> QED
      BY <3>1
  <2>2. CASE BeginSave
    BY <2>2, Zenon DEF BeginSave
  <2>3. CASE (\E f \in Files : RemoveFile(f)) \/ RemoveFolder \/ BeginOptimizers \/ EndSave
    BY <2>3 DEF RemoveFile, RemoveFolder, BeginOptimizers, EndSave
  <2>4. CASE Crash \/ Load \/ Repair \/ UNCHANGED vars
    BY <2>4 DEF Crash, Load, Repair, vars
  <2> QED
    BY <2>1, <2>2, <2>3, <2>4 DEF Next
<1> QED
  BY <1>1 DEF RoomFor

(* A save that opens a folder of its own writes it in order. *)
LEMMA ProgressKept == IInv /\ [Next]_vars => ProgressInv'
<1> SUFFICES ASSUME IInv, [Next]_vars, ~reopened'
             PROVE  ProgressInv'
  BY DEF ProgressInv
<1>0. TypeOK /\ WorkInv /\ PruneInv /\ ProgressInv /\ ~reopened
  BY Fixed DEF IInv
<1>1. ASSUME pc' \notin Saving
      PROVE  ProgressInv'
  BY <1>1, Phases DEF ProgressInv
<1>2. ASSUME pc \in Saving, pc \notin Writing, pc' \notin Modelling, pc' \notin Writing,
             Fewer, folder' = folder
      PROVE  ProgressInv'
  BY <1>0, <1>2 DEF ProgressInv, Fewer
<1>3. CASE BeginSave
  <2>1. second \notin Folders /\ work' = ModelFiles /\ pc' = "model"
    BY <1>3 DEF BeginSave
  <2>2. folder' = second /\ second \in Folders' /\ DOMAIN disk'[second] = {}
    BY <1>3, <2>1, BeginSaveEffect
  <2>3. FilesOf(ModelFiles) \ FilesOf(work') = {}
    BY <2>1
  <2> QED
    BY <2>1, <2>2, <2>3, Phases DEF ProgressInv, Whole
<1>4. CASE OpenFile
  <2>1. /\ pc \in Saving /\ pc \notin Writing /\ folder \in Folders /\ work # <<>>
        /\ work' = work /\ folder' = folder /\ disk' = Put(Head(work), Torn)
        /\ pc' \in Writing /\ (pc' \in Modelling => pc \in Modelling)
    BY <1>4, Phases DEF OpenFile, saveVars
  <2>2. /\ Folders' = Folders
        /\ DOMAIN disk'[folder] = DOMAIN disk[folder] \cup {Head(work)}
        /\ \A x \in DOMAIN disk'[folder] :
              disk'[folder][x] = IF x = Head(work) THEN Torn ELSE disk[folder][x]
    BY <2>1, PutEffect
  <2>3. \A f \in DOMAIN disk'[folder] : disk'[folder][f] = Torn => f = Head(work)
    BY <1>0, <2>1, <2>2 DEF ProgressInv
  <2>4. ASSUME pc' \in Modelling
        PROVE  /\ \A f \in FilesOf(ModelFiles) \ FilesOf(work) : Whole(folder, f)'
               /\ Whole(folder, "stats")' => work = <<>>
    <3>1. /\ \A f \in FilesOf(ModelFiles) \ FilesOf(work) : Whole(folder, f)
          /\ Whole(folder, "stats") => work = <<>>
      BY <1>0, <2>1, <2>4 DEF ProgressInv
    <3>2. Head(work) \in FilesOf(work)
      BY <1>0, <2>1, <2>4, NextModelFile
    <3>3. \A f : Whole(folder, f)' <=> Whole(folder, f) /\ f # Head(work)
      BY <2>1, <2>2 DEF Whole
    <3> QED
      BY <3>1, <3>2, <3>3
  <2> QED
    BY <2>1, <2>2, <2>3, <2>4 DEF ProgressInv
<1>5. CASE CloseFile
  <2>1. /\ pc \in Saving /\ pc \in Writing /\ work # <<>>
        /\ work' = Tail(work) /\ folder' = folder /\ disk' = Put(Head(work), gen)
        /\ pc' \notin Writing /\ pc' \in Saving
        /\ (pc' \in Modelling => pc \in Modelling) /\ gen # Torn
    <3>1. ~OpenFile
      BY <1>5 DEF OpenFile, CloseFile
    <3>2. disk' = Put(Head(work), gen) /\ folder' = folder
      BY <1>5, <3>1, WriteEffect
    <3> QED
      BY <1>0, <1>5, <3>2, Phases DEF CloseFile, WorkInv, TypeOK, Torn
  <2>2. CASE folder \in Folders
    <3>1. /\ Folders' = Folders
          /\ DOMAIN disk'[folder] = DOMAIN disk[folder] \cup {Head(work)}
          /\ \A x \in DOMAIN disk'[folder] :
                disk'[folder][x] = IF x = Head(work) THEN gen ELSE disk[folder][x]
      BY <2>1, <2>2, PutEffect
    <3>2. \A f \in DOMAIN disk'[folder] : disk'[folder][f] # Torn
      BY <1>0, <2>1, <2>2, <3>1 DEF ProgressInv
    <3>3. ASSUME pc' \in Modelling
          PROVE  /\ \A f \in FilesOf(ModelFiles) \ FilesOf(Tail(work)) : Whole(folder, f)'
                 /\ Whole(folder, "stats")' => Tail(work) = <<>>
      <4>1. /\ \A f \in FilesOf(ModelFiles) \ FilesOf(work) : Whole(folder, f)
            /\ Whole(folder, "stats") => work = <<>>
        BY <1>0, <2>1, <3>3 DEF ProgressInv
      <4>2. /\ FilesOf(Tail(work)) = FilesOf(work) \ {Head(work)}
            /\ Head(work) = "stats" => Tail(work) = <<>>
        BY <1>0, <2>1, <3>3, NextModelFile
      <4>3. \A f : Whole(folder, f)' <=> Whole(folder, f) \/ f = Head(work)
        BY <2>1, <3>1 DEF Whole
      <4> QED
        BY <2>1, <4>1, <4>2, <4>3
    <3> QED
      BY <2>1, <2>2, <3>1, <3>2, <3>3 DEF ProgressInv
  <2>3. CASE folder \notin Folders
    <3>1. pc' \notin Modelling
      BY <1>0, <2>1, <2>3 DEF ProgressInv
    <3>2. Folders' = Folders
      BY <2>1, PutFolders
    <3> QED
      BY <2>1, <2>3, <3>1, <3>2 DEF ProgressInv
  <2> QED
    BY <2>2, <2>3
<1>6. CASE BeginPrune \/ BeginOptimizers
  <2>1. /\ pc \in Saving /\ pc \notin Writing /\ pc' \notin Modelling /\ pc' \notin Writing
        /\ folder' = folder /\ disk' = disk
    BY <1>6, Phases DEF BeginPrune, BeginOptimizers
  <2>2. Fewer
    BY <2>1 DEF Fewer, Folders
  <2> QED
    BY <1>2, <2>1, <2>2
<1>7. CASE (\E f \in Files : RemoveFile(f)) \/ RemoveFolder
  <2>1. pc = "prune" /\ pc' = "prune" /\ folder' = folder
    BY <1>7 DEF RemoveFile, RemoveFolder, saveVars
  <2>2. Fewer
    BY <1>0, <1>7, RemoveFileEffect, RemoveFolderEffect
  <2> QED
    BY <1>2, <2>1, <2>2, Phases
<1>8. CASE Tick \/ UNCHANGED vars
  BY <1>0, <1>8 DEF Tick, vars, saveVars, ProgressInv, Whole, Folders
<1>9. CASE Train \/ OpenFails \/ EndSave \/ Crash \/ Load \/ Repair
  <2>1. pc' \in {"start", "train", "down"}
    BY <1>9 DEF Train, OpenFails, EndSave, Crash, Load, Repair
  <2> QED
    BY <1>1, <2>1, Phases
<1> QED
  BY <1>3, <1>4, <1>5, <1>6, <1>7, <1>8, <1>9 DEF Next

(* The newest folders are not among those a save removes, as many as the   *)
(* limit leaves room for.                                                  *)
LEMMA NewestKept ==
    ASSUME TypeOK, RoomFor(1), folder \in Folders
    PROVE  folder \notin Oldest(Excess)
<1>1. Folders \in SUBSET Nat /\ IsFiniteSet(Folders) /\ Cardinality(Folders) \in Nat
  BY FoldersFinite
<1>2. Below(Folders, folder) = Folders \ {folder}
  <2>1. \A e \in Folders : e < folder <=> e # folder
    BY DEF TypeOK, DiskOK
  <2> QED
    BY <2>1 DEF Below
<1>3. Cardinality(Below(Folders, folder)) = Cardinality(Folders) - 1
  BY <1>1, <1>2, FS_RemoveElement
<1>4. Cardinality(Folders) # 0
  BY <1>1, FS_EmptySet
<1>5. Excess <= Cardinality(Folders) - 1
  BY <1>1, <1>4, LimitType DEF Excess, Entries, RoomFor
<1>6. Excess \in Nat
  BY OldestRemoved
<1> QED
  BY <1>1, <1>3, <1>5, <1>6 DEF Oldest, Below

(* Pruning for a limit above one leaves the two newest folders. *)
LEMMA SecondNewestKept ==
    ASSUME TypeOK, RoomFor(2), folder \in Folders, NEW d \in Folders, d # folder,
           \A e \in Folders : e <= d \/ e = folder
    PROVE  d \notin Oldest(Excess)
<1>1. Folders \in SUBSET Nat /\ IsFiniteSet(Folders) /\ Cardinality(Folders) \in Nat
  BY FoldersFinite
<1>2. d < folder
  BY DEF TypeOK, DiskOK
<1>3. Below(Folders, d) = (Folders \ {folder}) \ {d}
  <2>1. \A e \in Folders : e < d <=> e # d /\ e # folder
    BY <1>1, <1>2
  <2> QED
    BY <2>1 DEF Below
<1>4. IsFiniteSet(Folders \ {folder}) /\ Cardinality(Folders \ {folder}) = Cardinality(Folders) - 1
  BY <1>1, FS_RemoveElement
<1>5. Cardinality(Below(Folders, d)) = Cardinality(Folders) - 1 - 1
  BY <1>3, <1>4, FS_RemoveElement
<1>6. Cardinality(Below(Folders, d)) \in Nat
  BY <1>1, RankType
<1>7. Excess <= Cardinality(Folders) - 2
  BY <1>1, <1>5, <1>6, LimitType DEF Excess, Entries, RoomFor
<1>8. Excess \in Nat
  BY OldestRemoved
<1> QED
  BY <1>1, <1>5, <1>7, <1>8 DEF Oldest, Below

(* A step of a save leaves the other folders alone, and the model files    *)
(* once they are written.                                                  *)
LEMMA WriteElsewhere ==
    ASSUME IInv, OpenFile \/ CloseFile
    PROVE  /\ Folders' = Folders
           /\ \A d \in Folders \ {folder} :
                 disk'[d] = disk[d] /\ (Complete(d)' <=> Complete(d)) /\ (Good(d)' <=> Good(d))
           /\ (pc \in Equipping /\ folder \in Folders /\ Complete(folder)) => Complete(folder)'
<1> DEFINE g == IF OpenFile THEN Torn ELSE gen
<1>1. disk' = Put(Head(work), g)
  BY WriteEffect
<1> HIDE DEF g
<1>2. Folders' = Folders /\ \A d \in Folders \ {folder} : disk'[d] = disk[d]
  BY <1>1, PutFolders
<1>3. \A d \in Folders \ {folder} : (Complete(d)' <=> Complete(d)) /\ (Good(d)' <=> Good(d))
  BY <1>2 DEF Complete, Good, Whole
<1>4. ASSUME pc \in Equipping, folder \in Folders, Complete(folder)
      PROVE  Complete(folder)'
  <2>1. Head(work) \notin FilesOf(ModelFiles)
    <3>1. WorkInv /\ work # <<>>
      BY Phases DEF IInv, WorkInv, OpenFile, CloseFile
    <3> QED
      BY <1>4, <3>1, NextOptimizerFile, FileLists
  <2>2. folder' = folder
    BY WriteEffect
  <2>3. /\ DOMAIN disk'[folder] = DOMAIN disk[folder] \cup {Head(work)}
        /\ \A x \in DOMAIN disk'[folder] :
              disk'[folder][x] = IF x = Head(work) THEN g ELSE disk[folder][x]
    BY <1>1, <1>4, PutEffect
  <2>4. \A f \in FilesOf(ModelFiles) : Whole(folder, f) => Whole(folder, f)'
    BY <2>1, <2>2, <2>3 DEF Whole
  <2> QED
    BY <1>4, <2>4 DEF Complete
<1> QED
  BY <1>2, <1>3, <1>4

(* With room for one checkpoint the new one is complete and stays. *)
LEMMA KeptKept == IInv /\ [Next]_vars => KeptInv'
<1> SUFFICES ASSUME IInv, [Next]_vars, RoomFor(1)', ~reopened', pc' \in {"prune"} \cup Equipping
             PROVE  (folder \in Folders \ doomed /\ Complete(folder))'
  BY DEF KeptInv
<1>0. /\ TypeOK /\ WorkInv /\ PruneInv /\ ProgressInv /\ KeptInv
      /\ RoomFor(1) /\ ~reopened
  BY Fixed DEF IInv
<1>1. ASSUME UNCHANGED <<disk, folder, doomed>>, pc \in {"prune"} \cup Equipping
      PROVE  (folder \in Folders \ doomed /\ Complete(folder))'
  BY <1>0, <1>1 DEF KeptInv, Complete, Whole, Folders
<1>2. CASE BeginPrune
  <2>1. pc \in Modelling /\ folder \in Folders /\ work = <<>>
    BY <1>0, <1>2, Phases DEF BeginPrune, ProgressInv
  <2>2. FilesOf(work) = {}
    BY <2>1 DEF FilesOf
  <2>3. Complete(folder)
    BY <1>0, <2>1, <2>2 DEF ProgressInv, Complete
  <2>4. doomed' = Oldest(Excess) /\ UNCHANGED <<disk, folder>>
    BY <1>2 DEF BeginPrune
  <2>5. folder \notin doomed'
    BY <1>0, <2>1, <2>4, NewestKept
  <2> QED
    BY <2>1, <2>3, <2>4, <2>5 DEF Complete, Whole, Folders
<1>3. CASE (\E f \in Files : RemoveFile(f)) \/ RemoveFolder
  <2>1. pc = "prune" /\ folder' = folder
    BY <1>3 DEF RemoveFile, RemoveFolder, saveVars
  <2>2. folder \in Folders \ doomed /\ Complete(folder)
    BY <1>0, <2>1 DEF KeptInv
  <2>3. folder \in Folders' \ doomed' /\ disk'[folder] = disk[folder]
    <3>1. CASE \E f \in Files : RemoveFile(f)
      BY <1>0, <2>2, <3>1, RemoveFileEffect DEF RemoveFile, saveVars
    <3>2. CASE RemoveFolder
      BY <1>0, <2>2, <3>2, RemoveFolderEffect
    <3> QED
      BY <1>3, <3>1, <3>2
  <2> QED
    BY <2>1, <2>2, <2>3 DEF Complete, Whole
<1>4. CASE OpenFile \/ CloseFile
  <2>1. pc \in Equipping /\ UNCHANGED <<folder, doomed>>
    BY <1>4, Phases DEF OpenFile, CloseFile, saveVars
  <2> QED
    BY <1>0, <1>4, <2>1, WriteElsewhere DEF KeptInv
<1>5. CASE BeginOptimizers
  BY <1>1, <1>5 DEF BeginOptimizers
<1>6. CASE Tick \/ UNCHANGED vars
  BY <1>1, <1>6 DEF Tick, vars, saveVars
<1>7. CASE Train \/ BeginSave \/ OpenFails \/ EndSave \/ Crash \/ Load \/ Repair
  BY <1>7, Phases DEF Train, BeginSave, OpenFails, EndSave, Crash, Load, Repair
<1> QED
  BY <1>2, <1>3, <1>4, <1>5, <1>6, <1>7 DEF Next

-----------------------------------------------------------------------------
(* A folder with a whole model and no torn file can be loaded.             *)
LEMMA GoodLoads ==
    ASSUME NEW d, Good(d)
    PROVE  Loadable(d)
BY FileLists DEF Good, Complete, Loadable, Whole

(* A panic has a folder that explains it. *)
LEMMA PanicKept == IInv /\ [Next]_vars => PanicInv'
<1> SUFFICES ASSUME IInv, [Next]_vars
             PROVE  PanicInv'
  OBVIOUS
<1>0. PanicInv
  BY DEF IInv
<1>1. CASE Train \/ BeginSave \/ OpenFile \/ CloseFile \/ OpenFails \/ BeginPrune
  BY <1>0, <1>1 DEF PanicInv, Train, BeginSave, OpenFile, CloseFile, OpenFails, BeginPrune
<1>2. CASE (\E f \in Files : RemoveFile(f)) \/ RemoveFolder \/ BeginOptimizers \/ EndSave
  BY <1>0, <1>2 DEF PanicInv, RemoveFile, RemoveFolder, BeginOptimizers, EndSave
<1>3. CASE Crash \/ Repair
  BY <1>0, <1>3 DEF PanicInv, Crash, Repair
<1>4. ASSUME disk' = disk
      PROVE  Folders' = Folders /\ (Loadable(Latest)' <=> Loadable(Latest))
  BY <1>4 DEF Folders, Latest, Loadable, Whole
<1>5. CASE Load
  <2>1. disk' = disk
    BY <1>5 DEF Load
  <2>2. loads' = "panic" => pc' = "down" /\ Folders # {} /\ ~Loadable(Latest)
    BY <1>5 DEF Load
  <2> QED
    BY <1>4, <2>1, <2>2 DEF PanicInv
<1>6. CASE Tick \/ UNCHANGED vars
  BY <1>0, <1>4, <1>6 DEF Tick, vars, PanicInv
<1> QED
  BY <1>1, <1>2, <1>3, <1>5, <1>6 DEF Next

(* Pruning in front of a folder it keeps: what covers another folder is    *)
(* not itself next to go.                                                  *)
LEMMA CoverStays ==
    ASSUME TypeOK, PruneInv, NEW d \in Folders, NEW e \in Folders, Covers(e, d),
           NEW m \in doomed, \A x \in doomed : m <= x
    PROVE  d # m => e # m
<1> SUFFICES ASSUME d # m, e = m
             PROVE  FALSE
  OBVIOUS
<1>1. d < e /\ d \in Nat /\ m \in Nat
  BY DEF Covers, TypeOK, DiskOK
<1>2. d \in doomed
  BY <1>1 DEF PruneInv
<1> QED
  BY <1>1, <1>2

(* A folder whose model pruning has broken is covered by a newer one.      *)
LEMMA CoverKept == IInv /\ [Next]_vars => CoverInv'
<1> SUFFICES ASSUME IInv, [Next]_vars, RoomFor(1)', ~reopened', NEW d \in Folders',
                    Whole(d, "stats")'
             PROVE  Complete(d)' \/ \E e \in Folders' : Covers(e, d)'
  BY DEF CoverInv
<1>0. /\ TypeOK /\ WorkInv /\ PruneInv /\ ProgressInv /\ KeptInv /\ CoverInv /\ PanicInv
      /\ RoomFor(1) /\ ~reopened /\ KeptInv' /\ ProgressInv'
  BY Fixed, KeptKept, ProgressKept DEF IInv
<1>1. ASSUME d \in Folders, Whole(d, "stats")
      PROVE  Complete(d) \/ \E e \in Folders : Covers(e, d)
  BY <1>0, <1>1 DEF CoverInv
<1>2. ASSUME UNCHANGED disk, pc' \notin Saving \/ UNCHANGED <<pc, folder, doomed>>
      PROVE  Complete(d)' \/ \E e \in Folders' : Covers(e, d)'
  <2>1. d \in Folders /\ Whole(d, "stats") /\ Folders' = Folders
    BY <1>2 DEF Folders, Whole
  <2>2. CASE Complete(d)
    BY <1>2, <2>2 DEF Complete, Whole
  <2>3. ASSUME NEW e \in Folders, Covers(e, d)
        PROVE  Covers(e, d)'
    BY <1>2, <2>3 DEF Covers, Good, Complete, Whole
  <2> QED
    BY <1>1, <2>1, <2>2, <2>3
<1>3. CASE BeginSave
  <2>1. second \notin Folders
    BY <1>3 DEF BeginSave
  <2>2. /\ Folders' = Folders \cup {second} /\ folder' = second
        /\ \A x \in Folders : disk'[x] = disk[x]
        /\ DOMAIN disk'[second] = {}
    BY <1>3, <2>1, BeginSaveEffect
  <2>3. d \in Folders /\ Whole(d, "stats")
    BY <2>2 DEF Whole
  <2>4. CASE Complete(d)
    BY <2>2, <2>3, <2>4 DEF Complete, Whole
  <2>5. ASSUME NEW e \in Folders, Covers(e, d)
        PROVE  Covers(e, d)'
    BY <2>1, <2>2, <2>5 DEF Covers, Good, Complete, Whole
  <2> QED
    BY <1>1, <2>2, <2>3, <2>4, <2>5
<1>4. CASE OpenFile \/ CloseFile
  <2>1. /\ UNCHANGED folder /\ pc \in Saving /\ pc \in Modelling \cup Equipping /\ pc # "prune"
        /\ pc' \in Modelling \cup Equipping
    BY <1>4, WriteEffect, Phases DEF OpenFile, CloseFile
  <2>2. CASE d = folder
    <3>1. CASE pc' \in Modelling
      <4>1. work' = <<>> /\ \A f \in FilesOf(ModelFiles) \ FilesOf(work') : Whole(folder, f)'
        BY <1>0, <2>1, <2>2, <3>1 DEF ProgressInv
      <4>2. FilesOf(work') = {}
        BY <4>1 DEF FilesOf
      <4> QED
        BY <2>1, <2>2, <4>1, <4>2 DEF Complete, Whole
    <3>2. CASE pc' \in Equipping
      BY <1>0, <2>1, <2>2, <3>2 DEF KeptInv
    <3> QED
      BY <2>1, <3>1, <3>2
  <2>3. CASE d # folder
    <3>1. d \in Folders /\ disk'[d] = disk[d]
      BY <1>4, <2>3, WriteElsewhere
    <3>2. Whole(d, "stats")
      BY <3>1 DEF Whole
    <3>3. CASE Complete(d)
      BY <1>4, <2>3, <3>1, <3>3, WriteElsewhere
    <3>4. ASSUME NEW e \in Folders, Covers(e, d)
          PROVE  Covers(e, d)'
      <4>1. e # folder /\ d < e /\ Good(e)
        BY <2>1, <3>4 DEF Covers
      <4>2. Good(e)'
        BY <1>4, <4>1, WriteElsewhere
      <4> QED
        BY <2>1, <4>1, <4>2 DEF Covers
    <3> QED
      BY <1>1, <1>4, <3>1, <3>2, <3>3, <3>4, WriteElsewhere
  <2> QED
    BY <2>2, <2>3
<1>5. CASE BeginPrune \/ BeginOptimizers
  <2>1. disk' = disk /\ folder' = folder /\ Folders' = Folders /\ pc \in Saving
    BY <1>5, Phases DEF BeginPrune, BeginOptimizers, Folders
  <2>2. d \in Folders /\ Whole(d, "stats")
    BY <2>1 DEF Whole
  <2>3. CASE Complete(d)
    BY <2>1, <2>3 DEF Complete, Whole
  <2>4. ASSUME NEW e \in Folders, Covers(e, d)
        PROVE  Covers(e, d)'
    <3>1. e # folder
      BY <1>5, <2>1, <2>4 DEF Covers, BeginPrune, BeginOptimizers
    <3> QED
      BY <2>1, <2>4, <3>1 DEF Covers, Good, Complete, Whole
  <2> QED
    BY <1>1, <2>1, <2>2, <2>3, <2>4
<1>6. CASE (\E f \in Files : RemoveFile(f)) \/ RemoveFolder
  <2> DEFINE m == Min(doomed)
  <2>1. /\ m \in doomed /\ \A x \in doomed : m <= x
        /\ Folders' \subseteq Folders /\ Folders \ {m} \subseteq Folders'
        /\ \A x \in Folders \ {m} : disk'[x] = disk[x]
        /\ doomed \ {m} \subseteq doomed'
        /\ pc = "prune" /\ pc' = "prune" /\ folder' = folder
    <3>1. CASE \E f \in Files : RemoveFile(f)
      BY <1>0, <3>1, RemoveFileEffect DEF RemoveFile, saveVars
    <3>2. CASE RemoveFolder
      BY <1>0, <3>2, RemoveFolderEffect DEF RemoveFolder
    <3> QED
      BY <1>6, <3>1, <3>2
  <2> HIDE DEF m
  <2>2. CASE d # m
    <3>1. d \in Folders /\ disk'[d] = disk[d]
      BY <2>1, <2>2
    <3>2. Whole(d, "stats")
      BY <3>1 DEF Whole
    <3>3. CASE Complete(d)
      BY <3>1, <3>3 DEF Complete, Whole
    <3>4. ASSUME NEW e \in Folders, Covers(e, d)
          PROVE  e \in Folders' /\ Covers(e, d)'
      <4>1. e # m
        BY <1>0, <2>1, <2>2, <3>1, <3>4, CoverStays
      <4>2. e \in Folders' /\ disk'[e] = disk[e]
        BY <2>1, <4>1
      <4>3. Good(e)'
        BY <3>4, <4>2 DEF Covers, Good, Complete, Whole
      <4>4. e = folder => d \in doomed'
        BY <2>1, <2>2, <3>4, Phases DEF Covers
      <4> QED
        BY <2>1, <3>4, <4>2, <4>3, <4>4 DEF Covers
    <3> QED
      BY <1>1, <3>1, <3>2, <3>3, <3>4
  <2>3. CASE d = m
    <3>0. CASE RemoveFolder
      BY <1>0, <2>3, <3>0, RemoveFolderEffect DEF m
    <3>5. CASE \E f \in Files : RemoveFile(f)
      <4>1. folder \in Folders \ doomed /\ Complete(folder)
        BY <1>0, <2>1 DEF KeptInv
      <4>2. Good(folder)
        BY <1>0, <2>1, <4>1, Phases DEF ProgressInv, Good
      <4>3. folder \in Folders' /\ disk'[folder] = disk[folder]
        BY <2>1, <4>1
      <4>4. Good(folder)'
        BY <2>1, <4>2, <4>3 DEF Good, Complete, Whole
      <4>5. m < folder
        BY <1>0, <2>1, <4>1 DEF PruneInv, TypeOK, DiskOK
      <4>6. doomed' = doomed
        BY <3>5 DEF RemoveFile, saveVars
      <4>7. Covers(folder, d)'
        BY <2>1, <2>3, <4>4, <4>5, <4>6 DEF Covers
      <4> QED
        BY <2>1, <4>3, <4>7
    <3> QED
      BY <1>6, <3>0, <3>5
  <2> QED
    BY <2>2, <2>3
<1>7. CASE Repair
  <2>1. /\ Folders' = Folders \ {Latest} /\ \A x \in Folders' : disk'[x] = disk[x]
    BY <1>7, RepairEffect
  <2>2. ~Loadable(Latest) /\ pc' = "down"
    BY <1>0, <1>7 DEF Repair, PanicInv
  <2>3. d \in Folders /\ Whole(d, "stats")
    BY <2>1 DEF Whole
  <2>4. CASE Complete(d)
    BY <2>1, <2>4 DEF Complete, Whole
  <2>5. ASSUME NEW e \in Folders, Covers(e, d)
        PROVE  e \in Folders' /\ Covers(e, d)'
    <3>1. e # Latest
      BY <2>2, <2>5, GoodLoads DEF Covers
    <3>2. e \in Folders' /\ disk'[e] = disk[e]
      BY <2>1, <3>1
    <3> QED
      BY <2>2, <2>5, <3>2, Phases DEF Covers, Good, Complete, Whole
  <2> QED
    BY <1>1, <2>3, <2>4, <2>5
<1>8. CASE Tick \/ UNCHANGED vars
  BY <1>2, <1>8 DEF Tick, vars, saveVars
<1>9. CASE Train \/ OpenFails \/ EndSave \/ Crash \/ Load
  <2>1. disk' = disk /\ pc' \in {"start", "train", "down"}
    BY <1>9 DEF Train, OpenFails, EndSave, Crash, Load
  <2> QED
    BY <1>2, <2>1, Phases
<1> QED
  BY <1>3, <1>4, <1>5, <1>6, <1>7, <1>8, <1>9 DEF Next

(* The latest folder, when it can be loaded, holds a whole model.          *)
LEMMA LoadedWhole ==
    ASSUME IInv, RoomFor(1), ~reopened, Folders # {}, Loadable(Latest)
    PROVE  Good(Latest)
<1>1. Latest \in Folders /\ \A e \in Folders : e <= Latest
  BY LatestIsNewest DEF IInv
<1>2. Latest \in Nat
  BY <1>1, FoldersFinite DEF IInv
<1>3. Complete(Latest)
  <2>1. \A e \in Folders : ~Covers(e, Latest)
    BY <1>1, <1>2 DEF Covers, IInv, TypeOK, DiskOK
  <2> QED
    BY <1>1, <2>1 DEF IInv, CoverInv, Loadable
<1>4. ASSUME NEW f \in DOMAIN disk[Latest]
      PROVE  disk[Latest][f] # Torn
  <2>1. f \in Files
    BY <1>1 DEF IInv, TypeOK, DiskOK
  <2> QED
    BY <1>3, <2>1 DEF Files, Complete, Loadable, Whole
<1> QED
  BY <1>3, <1>4 DEF Good

(* A checkpoint at least as new as the last save that returned survives,   *)
(* and outside a save that is the latest folder.                           *)
LEMMA SurvivorKept == IInv /\ [Next]_vars => SurvivorInv'
<1> SUFFICES ASSUME IInv, [Next]_vars, RoomFor(2)', ~reopened', acked' > 0
             PROVE  \E d \in Folders' : Survives(d)'
  BY DEF SurvivorInv
<1>0. /\ TypeOK /\ WorkInv /\ PruneInv /\ ProgressInv /\ KeptInv /\ CurrentInv /\ PanicInv
      /\ OrderInv /\ LiveInv /\ RoomFor(1) /\ RoomFor(2) /\ ~reopened
  <2>1. RoomFor(2) => RoomFor(1)
    BY LimitType DEF RoomFor, IInv
  <2> QED
    BY <2>1, Fixed DEF IInv
<1>1. ASSUME acked' = acked
      PROVE  \E d \in Folders : Survives(d)
  BY <1>0, <1>1 DEF IInv, SurvivorInv
<1>2. ASSUME UNCHANGED <<disk, acked>>,
             (pc' = "down") \/ (pc' \notin Saving /\ pc \notin Saving /\ pc # "down")
             \/ UNCHANGED <<pc, folder, doomed>>
      PROVE  \E d \in Folders' : Survives(d)'
  <2>1. PICK d \in Folders : Survives(d)
    BY <1>1, <1>2
  <2>2. Folders' = Folders /\ (Strong(d)' <=> Strong(d))
    BY <1>2 DEF Folders, Strong, Good, Complete, Whole
  <2>3. Survives(d)'
    BY <1>2, <2>1, <2>2, Phases DEF Survives
  <2> QED
    BY <2>2, <2>3
<1>3. CASE BeginSave
  <2>1. second \notin Folders /\ acked' = acked /\ pc = "train" /\ doomed' = doomed
    BY <1>3 DEF BeginSave
  <2>2. /\ Folders' = Folders \cup {second} /\ folder' = second
        /\ \A x \in Folders : disk'[x] = disk[x]
    BY <1>3, BeginSaveEffect
  <2>3. PICK d \in Folders : Survives(d)
    BY <1>1, <2>1
  <2>4. Strong(d)'
    BY <2>1, <2>2, <2>3 DEF Survives, Strong, Good, Complete, Whole
  <2>5. /\ \A e \in Folders' : e <= d \/ e = folder'
        /\ d # folder' /\ d \notin doomed'
    BY <1>0, <2>1, <2>2, <2>3, Phases DEF Survives, PruneInv
  <2>6. pc' \in Saving
    BY <1>3, Phases DEF BeginSave
  <2> QED
    BY <2>2, <2>4, <2>5, <2>6 DEF Survives
<1>4. CASE OpenFile \/ CloseFile
  <2>1. UNCHANGED <<folder, doomed, acked>> /\ pc \in Saving /\ pc' \in Saving
    BY <1>4, WriteEffect
  <2>2. PICK d \in Folders : Survives(d)
    BY <1>1, <2>1
  <2>3. d # folder
    BY <2>1, <2>2 DEF Survives
  <2>4. Folders' = Folders /\ disk'[d] = disk[d]
    BY <1>4, <2>3, WriteElsewhere
  <2>5. Strong(d)'
    BY <2>1, <2>2, <2>4 DEF Survives, Strong, Good, Complete, Whole
  <2> QED
    BY <2>1, <2>2, <2>4, <2>5, Phases DEF Survives
<1>5. CASE BeginPrune
  <2>1. /\ UNCHANGED <<disk, folder, acked>> /\ pc \in Modelling /\ pc \in Saving /\ pc' \in Saving
        /\ pc # "down" /\ doomed' = Oldest(Excess) /\ Folders' = Folders
    BY <1>5, Phases DEF BeginPrune, Folders
  <2>2. PICK d \in Folders : Survives(d)
    BY <1>1, <2>1
  <2>3. d # folder /\ \A e \in Folders : e <= d \/ e = folder
    BY <2>1, <2>2 DEF Survives
  <2>4. folder \in Folders
    BY <1>0, <2>1 DEF ProgressInv
  <2>5. d \notin doomed'
    BY <1>0, <2>1, <2>3, <2>4, SecondNewestKept
  <2>6. Strong(d)'
    BY <2>1, <2>2 DEF Survives, Strong, Good, Complete, Whole
  <2> QED
    BY <2>1, <2>3, <2>5, <2>6 DEF Survives
<1>6. CASE (\E f \in Files : RemoveFile(f)) \/ RemoveFolder
  <2> DEFINE m == Min(doomed)
  <2>1. /\ m \in doomed
        /\ Folders' \subseteq Folders /\ Folders \ {m} \subseteq Folders'
        /\ \A x \in Folders \ {m} : disk'[x] = disk[x]
        /\ doomed' \subseteq doomed
        /\ UNCHANGED <<pc, folder, acked>> /\ pc = "prune"
    <3>1. CASE \E f \in Files : RemoveFile(f)
      BY <1>0, <3>1, RemoveFileEffect DEF RemoveFile, saveVars
    <3>2. CASE RemoveFolder
      BY <1>0, <3>2, RemoveFolderEffect DEF RemoveFolder
    <3> QED
      BY <1>6, <3>1, <3>2
  <2> HIDE DEF m
  <2>2. PICK d \in Folders : Survives(d)
    BY <1>1, <2>1
  <2>3. d # folder /\ d \notin doomed /\ \A e \in Folders : e <= d \/ e = folder
    BY <2>1, <2>2, Phases DEF Survives
  <2>4. d \in Folders' /\ disk'[d] = disk[d]
    BY <2>1, <2>3
  <2>5. Strong(d)'
    BY <2>1, <2>2, <2>4 DEF Survives, Strong, Good, Complete, Whole
  <2>6. \A e \in Folders' : e <= d \/ (pc' \in Saving /\ e = folder')
    BY <2>1, <2>3, Phases
  <2> QED
    BY <2>1, <2>3, <2>4, <2>5, <2>6 DEF Survives
<1>7. CASE BeginOptimizers
  <2>1. UNCHANGED <<disk, folder, doomed, acked>> /\ pc \in Saving /\ pc' \in Saving /\ pc # "down"
    BY <1>7, Phases DEF BeginOptimizers
  <2>2. PICK d \in Folders : Survives(d)
    BY <1>1, <2>1
  <2>3. Folders' = Folders /\ Strong(d)'
    BY <2>1, <2>2 DEF Survives, Strong, Good, Complete, Whole, Folders
  <2> QED
    BY <2>1, <2>2, <2>3 DEF Survives
<1>8. CASE EndSave
  <2>1. /\ pc \in Saving /\ pc \in Equipping /\ pc \notin Writing
        /\ UNCHANGED <<disk, folder>> /\ acked' = live["stats"] /\ pc' = "train"
    BY <1>8, Phases DEF EndSave, saveVars
  <2>2. folder \in Folders /\ Complete(folder)
    BY <1>0, <2>1 DEF KeptInv
  <2>3. Good(folder)
    BY <1>0, <2>1, <2>2 DEF ProgressInv, Good
  <2>4. disk[folder]["stats"] = gen
    <3>1. Whole(folder, "stats")
      BY <2>2, FileLists DEF Complete
    <3> QED
      BY <1>0, <2>1, <2>2, <3>1 DEF CurrentInv, Whole
  <2>5. acked' = gen /\ gen \in Nat
    BY <1>0, <2>1, FileLists DEF LiveInv, TypeOK
  <2>6. Strong(folder)'
    BY <2>1, <2>3, <2>4, <2>5 DEF Strong, Good, Complete, Whole
  <2>7. Folders' = Folders /\ \A e \in Folders : e <= folder
    BY <1>0, <2>1 DEF Folders, TypeOK, DiskOK
  <2> QED
    BY <2>1, <2>2, <2>6, <2>7, Phases DEF Survives
<1>9. CASE Load
  <2>1. UNCHANGED <<disk, acked>> /\ Folders' = Folders /\ pc = "down"
    BY <1>9 DEF Load, Folders
  <2>2. CASE pc' = "down"
    BY <1>2, <2>1, <2>2
  <2>3. CASE pc' # "down"
    <3>1. PICK d \in Folders : Survives(d)
      BY <1>1, <2>1
    <3>2. Loadable(Latest) /\ pc' = "start"
      BY <1>9, <2>1, <2>3, <3>1 DEF Load
    <3>3. Good(Latest)
      BY <1>0, <3>1, <3>2, LoadedWhole
    <3>4. Latest \in Folders /\ \A e \in Folders : e <= Latest
      BY <1>0, <3>1, LatestIsNewest
    <3>5. disk[d]["stats"] <= disk[Latest]["stats"] /\ disk[d]["stats"] >= acked
      <4>1. Whole(d, "stats") /\ Whole(Latest, "stats") /\ disk[d]["stats"] >= acked
        BY <3>1, <3>3, FileLists DEF Survives, Strong, Good, Complete
      <4> QED
        BY <1>0, <3>1, <3>4, <4>1 DEF OrderInv, Whole
    <3>6. disk[d]["stats"] \in Nat /\ disk[Latest]["stats"] \in Nat /\ acked \in Nat
      <4>1. Whole(d, "stats") /\ Whole(Latest, "stats")
        BY <3>1, <3>3, FileLists DEF Survives, Strong, Good, Complete
      <4> QED
        BY <1>0, <3>1, <3>4, <4>1 DEF TypeOK, DiskOK, Whole
    <3>7. Strong(Latest)
      BY <3>3, <3>5, <3>6 DEF Strong
    <3>8. Latest' = Latest /\ \A x : Strong(x)' <=> Strong(x)
      BY <2>1 DEF Latest, Strong, Good, Complete, Whole
    <3>9. Survives(Latest)'
      BY <2>1, <3>2, <3>4, <3>7, <3>8, Phases DEF Survives
    <3> QED
      BY <2>1, <3>4, <3>8, <3>9
  <2> QED
    BY <2>2, <2>3
<1>10. CASE Repair
  <2>1. /\ Folders' = Folders \ {Latest} /\ \A x \in Folders' : disk'[x] = disk[x]
        /\ acked' = acked /\ pc' = "down"
    <3>1. pc' = "down" /\ acked' = acked
      BY <1>10 DEF Repair
    <3> QED
      BY <1>10, <3>1, RepairEffect
  <2>2. PICK d \in Folders : Survives(d)
    BY <1>1, <2>1
  <2>3. d # Latest
    BY <1>0, <1>10, <2>2, GoodLoads DEF Repair, PanicInv, Survives, Strong
  <2>4. d \in Folders' /\ disk'[d] = disk[d]
    BY <2>1, <2>3
  <2>5. Strong(d)'
    BY <2>1, <2>2, <2>4 DEF Survives, Strong, Good, Complete, Whole
  <2> QED
    BY <2>1, <2>4, <2>5, Phases DEF Survives
<1>11. CASE Tick \/ UNCHANGED vars
  BY <1>2, <1>11 DEF Tick, vars, saveVars
<1>12. CASE Train
  <2>1. pc \in {"start", "train"} /\ pc' = "train" /\ UNCHANGED <<disk, acked>>
    BY <1>12 DEF Train
  <2> QED
    BY <1>2, <2>1, Phases
<1>13. CASE OpenFails \/ Crash
  BY <1>2, <1>13 DEF OpenFails, Crash
<1> QED
  BY <1>3, <1>4, <1>5, <1>6, <1>7, <1>8, <1>9, <1>10, <1>11, <1>12, <1>13 DEF Next

(* A trainer is of one generation.                                         *)
LEMMA OneGenerationKept == IInv /\ [Next]_vars => OneGeneration'
<1> SUFFICES ASSUME IInv, [Next]_vars, RoomFor(1)', pc' \in {"start", "train"}, NEW f \in Files
             PROVE  \/ live'[f] = live'["stats"]
                    \/ live'[f] = Fresh /\ (~ModelPart(f) \/ (f = "shared_head" /\ reopened'))
  BY DEF OneGeneration, ModelPart
<1>0. /\ TypeOK /\ LiveInv /\ OrderInv /\ OneGeneration /\ RoomFor(1) /\ "stats" \in Files
  BY Fixed, FileLists DEF IInv
<1>1. CASE Train
  BY <1>0, <1>1 DEF Train
<1>2. CASE EndSave
  BY <1>0, <1>2, Phases DEF EndSave, LiveInv
<1>3. CASE Load
  <2>1. CASE Folders = {}
    BY <1>0, <1>3, <2>1 DEF Load
  <2>2. CASE Folders # {}
    <3>1. Loadable(Latest) /\ live' = LoadedFrom(Latest) /\ reopened' = reopened
      <4>1. pc = "down" /\ reopened' = reopened
        BY <1>3 DEF Load
      <4> QED
        BY <1>3, <2>2, <4>1 DEF Load
    <3>2. Latest \in Folders
      BY <1>0, <2>2, LatestIsNewest
    <3>3. live'["stats"] = disk[Latest]["stats"] /\ Whole(Latest, "stats")
      BY <1>0, <3>1 DEF LoadedFrom, Loadable
    <3>4. CASE Whole(Latest, f)
      <4>1. live'[f] = disk[Latest][f]
        BY <3>1, <3>4 DEF LoadedFrom
      <4>2. disk[Latest][f] \in Nat /\ disk[Latest]["stats"] \in Nat /\ Latest <= Latest
        BY <1>0, <3>2, <3>3, <3>4, FoldersFinite DEF TypeOK, DiskOK, Whole
      <4>3. disk[Latest][f] <= disk[Latest]["stats"] /\ disk[Latest]["stats"] <= disk[Latest][f]
        BY <1>0, <3>2, <3>3, <3>4, <4>2 DEF OrderInv, Whole
      <4> QED
        BY <3>3, <4>1, <4>2, <4>3
    <3>5. CASE ~Whole(Latest, f)
      <4>1. live'[f] = Fresh
        BY <3>1, <3>5 DEF LoadedFrom
      <4>2. ASSUME ModelPart(f)
            PROVE  f = "shared_head" /\ reopened'
        <5>1. f = "shared_head"
          BY <3>1, <3>5, <4>2, FileLists DEF ModelPart, Loadable
        <5>2. ASSUME ~reopened
              PROVE  FALSE
          <6>1. Good(Latest)
            BY <1>0, <2>2, <3>1, <5>2, LoadedWhole
          <6> QED
            BY <3>5, <4>2, <6>1 DEF Good, Complete, ModelPart
        <5> QED
          BY <3>1, <5>1, <5>2
      <4> QED
        BY <4>1, <4>2
    <3> QED
      BY <3>4, <3>5
  <2> QED
    BY <2>1, <2>2
<1>4. CASE Tick \/ UNCHANGED vars
  <2>1. UNCHANGED <<live, pc, reopened>>
    BY <1>4 DEF Tick, vars
  <2> QED
    BY <1>0, <2>1 DEF OneGeneration
<1>5. ASSUME OpenFile \/ CloseFile \/ OpenFails \/ BeginSave \/ BeginPrune
      PROVE  FALSE
  BY <1>5, Phases DEF OpenFile, CloseFile, OpenFails, BeginSave, BeginPrune
<1>6. ASSUME (\E g \in Files : RemoveFile(g)) \/ RemoveFolder \/ BeginOptimizers
      PROVE  FALSE
  BY <1>6 DEF RemoveFile, RemoveFolder, BeginOptimizers
<1>7. ASSUME Crash \/ Repair
      PROVE  FALSE
  BY <1>7 DEF Crash, Repair
<1> QED
  BY <1>1, <1>2, <1>3, <1>4, <1>5, <1>6, <1>7 DEF Next

-----------------------------------------------------------------------------
(* Every step keeps the invariant. *)
LEMMA IInvKept == IInv /\ [Next]_vars => IInv'
BY TypeOKKept, WorkKept, LiveKept, OrderKept, CurrentKept, PruneKept, ProgressKept, KeptKept,
   CoverKept, PanicKept, SurvivorKept, RetentionKept, OneGenerationKept DEF IInv

(* The invariant holds in every reachable state. *)
LEMMA AlwaysIInv == Spec => []IInv
BY InitIInv, IInvKept, PTL DEF Spec

(* The trainer's parts are of one generation after every start and every   *)
(* iteration, whatever crash it came back from (save_model, load_model).   *)
THEOREM NeverMixed == Spec => []OneGeneration
<1>1. IInv => OneGeneration
  BY DEF IInv
<1> QED
  BY <1>1, AlwaysIInv, PTL

(* Once a save has returned a whole model at least as new stays on disk.   *)
THEOREM SavedModelSurvives == Spec => []ModelSurvives
<1>1. IInv => ModelSurvives
  <2> SUFFICES ASSUME IInv, RoomFor(2), ~reopened, acked > 0
               PROVE  \E d \in Folders : HoldsModel(d) /\ disk[d]["stats"] >= acked
    BY DEF ModelSurvives
  <2>1. PICK d \in Folders : Strong(d)
    BY DEF IInv, SurvivorInv, Survives
  <2>2. ASSUME NEW f \in FilesOf(ModelFiles), NEW g \in FilesOf(ModelFiles)
        PROVE  Whole(d, f) /\ disk[d][f] = disk[d][g]
    <3>1. Whole(d, f) /\ Whole(d, g)
      BY <2>1 DEF Strong, Good, Complete
    <3>2. disk[d][f] \in Nat /\ disk[d][g] \in Nat
      <4>1. DiskOK /\ gen \in Nat
        BY DEF IInv, TypeOK
      <4>2. disk[d][f] \in 0..gen /\ disk[d][g] \in 0..gen
        BY <2>1, <3>1, <4>1 DEF DiskOK, Whole
      <4> QED
        BY <4>1, <4>2
    <3>3. d <= d
      BY <2>1, FoldersFinite DEF IInv
    <3> QED
      BY <2>1, <3>1, <3>2, <3>3 DEF IInv, OrderInv, Whole
  <2> QED
    BY <2>1, <2>2 DEF HoldsModel, Strong
<1> QED
  BY <1>1, AlwaysIInv, PTL

(* What a save leaves on disk respects the limit.                          *)
THEOREM LimitKept == Spec => []RetentionHolds
<1>1. IInv => RetentionHolds
  BY DEF IInv
<1> QED
  BY <1>1, AlwaysIInv, PTL

(* A restart goes on from training at least as new as the last save that   *)
(* returned (latest_checkpoint_folder, load_latest_model).                 *)
THEOREM RestartResumes == Spec => ResumesFromNewest
<1> DEFINE Resumes == (RoomFor(2) /\ ~reopened /\ pc = "down" /\ pc' = "start" /\ acked > 0)
                         => (Folders # {} /\ live'["stats"] >= acked)
<1>1. IInv /\ IInv' /\ [Next]_vars => Resumes
  <2> SUFFICES ASSUME IInv, IInv', [Next]_vars,
                      RoomFor(2), ~reopened, pc = "down", pc' = "start", acked > 0
               PROVE  Folders # {} /\ live'["stats"] >= acked
    OBVIOUS
  <2>1. Load
    <3>1. ~ (OpenFile \/ CloseFile \/ OpenFails \/ BeginSave \/ BeginPrune)
      BY DEF OpenFile, CloseFile, OpenFails, BeginSave, BeginPrune
    <3>2. ~ ((\E g \in Files : RemoveFile(g)) \/ RemoveFolder \/ BeginOptimizers)
      BY DEF RemoveFile, RemoveFolder, BeginOptimizers
    <3>3. ~ (EndSave \/ Crash \/ Repair \/ Tick \/ Train \/ UNCHANGED vars)
      BY DEF EndSave, Crash, Repair, Tick, Train, vars
    <3> QED
      BY <3>1, <3>2, <3>3 DEF Next
  <2>2. PICK d \in Folders : Survives(d)
    BY DEF IInv, SurvivorInv
  <2>3. Loadable(Latest) /\ live' = LoadedFrom(Latest)
    BY <2>1, <2>2 DEF Load
  <2>4. Latest \in Folders /\ d <= Latest
    BY <2>2, LatestIsNewest DEF IInv
  <2>5. Whole(d, "stats") /\ Whole(Latest, "stats") /\ disk[d]["stats"] >= acked
    BY <2>2, <2>3, FileLists DEF Survives, Strong, Good, Complete, Loadable
  <2>6. disk[d]["stats"] <= disk[Latest]["stats"]
    BY <2>2, <2>4, <2>5 DEF IInv, OrderInv, Whole
  <2>7. disk[d]["stats"] \in Nat /\ disk[Latest]["stats"] \in Nat /\ acked \in Nat
    BY <2>2, <2>4, <2>5 DEF IInv, TypeOK, DiskOK, Whole
  <2>8. live'["stats"] = disk[Latest]["stats"]
    BY <2>3, <2>5, FileLists DEF LoadedFrom
  <2> QED
    BY <2>2, <2>5, <2>6, <2>7, <2>8
<1>2. ResumesFromNewest <=> [][Resumes]_vars
  BY DEF ResumesFromNewest
<1> HIDE DEF Resumes
<1>3. Spec => [][Resumes]_vars
  BY <1>1, AlwaysIInv, PTL DEF Spec
<1> QED
  BY <1>2, <1>3
=============================================================================
