------------------------- MODULE CheckpointHandler -------------------------
(***************************************************************************)
(* Saving and resuming of the SFT trainer: SFTTrainer.fit, run by every    *)
(* rank (SPMD), CheckpointHandler.save_checkpoint / load_checkpoint and,   *)
(* inside them, FSDPCheckpointManager.save_checkpoint with its barriers.   *)
(* A crash takes every rank down; what survives is the disk.               *)
(* A barrier is one joint step of the ranks.  The tracker is renamed into  *)
(* place and so is never half written; two barriers stand between a shard  *)
(* and the tracker, so that a shard a crash has torn is never loaded and   *)
(* counts as not on disk.  No barrier stands between the tracker and the   *)
(* other ranks' data_<rank>.pt: such a file may be missing, or torn.       *)
(***************************************************************************)
EXTENDS CheckpointManager, Integers, FiniteSets

CONSTANTS
  Ranks,        \* the processes; each saves a shard and its own data_<rank>.pt
  Rank0,        \* the rank that rotates checkpoints and writes the tracker
  Keep,         \* max_ckpt_to_keep (0: None)
  SaveFreq,     \* save_freq
  TotalSteps,   \* total_training_steps
  MaxCrashes    \* bound on crashes

HandlerAssumption ==
  /\ Rank0 \in Ranks
  /\ IsFiniteSet(Ranks)
  /\ Keep \in Nat /\ SaveFreq \in Nat \ {0}
  /\ TotalSteps \in Nat \ {0} /\ MaxCrashes \in Nat

Steps == 1 .. TotalSteps
None == 0       \* no tracker file
Missing == -1   \* no data_<rank>.pt
Torn == -2      \* a data_<rank>.pt that was opened and not yet, or never, written
DataStates == {Missing, Torn} \union (0 .. TotalSteps)

VARIABLES
  phase,      \* where each rank is
  step,       \* global_step, the same in every rank
  position,   \* batches each rank's StatefulDataLoader has handed out
  previous,   \* previous_saved_paths of rank 0's manager: steps
  dirs,       \* directories global_step_<s> on disk
  shards,     \* ranks whose model, optimizer and extra files are in directory s
  data,       \* what data_<rank>.pt of directory s says
  tracker,    \* latest_checkpointed_iteration.txt
  completed,  \* the last step whose save every rank has finished
  inherited,  \* directories found on disk by the last restart
  crashes

diskVars == <<dirs, shards, data, tracker>>
auxVars == <<completed, inherited, crashes>>
vars == <<phase, step, position, previous, diskVars, auxVars>>

Phases == {"train", "enter", "ready", "write", "written", "register",
           "data", "saving", "track", "finish", "down", "failed"}

TypeOK ==
  /\ phase \in [Ranks -> Phases]
  /\ step \in 0 .. TotalSteps
  /\ position \in [Ranks -> 0 .. TotalSteps]
  /\ previous \in Seq(Steps)
  /\ dirs \subseteq Steps
  /\ shards \in [Steps -> SUBSET Ranks]
  /\ data \in [Steps -> [Ranks -> DataStates]]
  /\ tracker \in {None} \union Steps
  /\ completed \in {None} \union Steps
  /\ inherited \subseteq Steps
  /\ crashes \in 0 .. MaxCrashes

NoData == [r \in Ranks |-> Missing]

Init ==
  /\ phase = [r \in Ranks |-> "train"]
  /\ step = 0
  /\ position = [r \in Ranks |-> 0]
  /\ previous = <<>>
  /\ dirs = {}
  /\ shards = [s \in Steps |-> {}]
  /\ data = [s \in Steps |-> NoData]
  /\ tracker = None
  /\ completed = None /\ inherited = {} /\ crashes = 0

At(p) == \A r \in Ranks : phase[r] = p
Go(r, p) == phase' = [phase EXCEPT ![r] = p]
GoAll(p) == phase' = [r \in Ranks |-> p]

\* Mutant: one step too many.
MoreStepsLate == step <= TotalSteps

MoreSteps == step < TotalSteps

\* fit(): one batch; the ranks train in lockstep.
TrainStep ==
  /\ At("train") /\ MoreSteps
  /\ step' = step + 1
  /\ position' = [r \in Ranks |-> IF position[r] < TotalSteps THEN position[r] + 1 ELSE 1]
  /\ GoAll(IF step' = TotalSteps \/ step' % SaveFreq = 0 THEN "enter" ELSE "train")
  /\ UNCHANGED <<previous, diskVars, auxVars>>

\* shutil.rmtree of the directories in S; made is created afterwards.
Remove(S, made) ==
  /\ dirs' = (dirs \ S) \union made
  /\ shards' = [s \in Steps |-> IF s \in S THEN {} ELSE shards[s]]
  /\ data' = [s \in Steps |-> IF s \in S THEN NoData ELSE data[s]]

\* FSDPCheckpointManager.save_checkpoint up to the first barrier.
EnterSave(r) ==
  /\ phase[r] = "enter"
  /\ Go(r, "ready")
  /\ previous' = IF r = Rank0 THEN PathsAfterEnsure(previous, Keep) ELSE previous
  /\ Remove(Dropped(previous, previous'), {step})
  /\ UNCHANGED <<step, position, tracker, auxVars>>

\* The shard files of one rank (and rank 0's config and tokenizer).
WriteShard(r) ==
  /\ phase[r] = "write"
  /\ Go(r, "written")
  /\ shards' = [shards EXCEPT ![step] = @ \union {r}]
  /\ UNCHANGED <<step, position, previous, dirs, data, tracker, auxVars>>

\* After the second barrier rank 0 registers the checkpoint and enforces the limit.
RegisterSave(r) ==
  /\ phase[r] = "register"
  /\ Go(r, "data")
  /\ previous' = IF r = Rank0 THEN PathsAfterRegister(previous, step, Keep) ELSE previous
  /\ Remove(Dropped(Append(previous, step), previous') \ {step}, {})
  /\ UNCHANGED <<step, position, tracker, auxVars>>

\* CheckpointHandler.save_checkpoint: torch.save opens each rank's data_<rank>.pt in place.
OpenData(r) ==
  /\ phase[r] = "data"
  /\ Go(r, "saving")
  /\ data' = [data EXCEPT ![step][r] = Torn]
  /\ UNCHANGED <<step, position, previous, dirs, shards, tracker, auxVars>>

\* The state of its dataloader is in it.
SaveData(r) ==
  /\ phase[r] = "saving"
  /\ Go(r, "track")
  /\ data' = [data EXCEPT ![step][r] = position[r]]
  /\ UNCHANGED <<step, position, previous, dirs, shards, tracker, auxVars>>

\* Rank 0 renames the temporary tracker file over the tracker.
Track(r) ==
  /\ phase[r] = "track"
  /\ Go(r, "finish")
  /\ tracker' = IF r = Rank0 THEN step ELSE tracker
  /\ UNCHANGED <<step, position, previous, dirs, shards, data, auxVars>>

\* The three barriers of a save.
Barrier(from, to) ==
  /\ At(from) /\ GoAll(to)
  /\ completed' = IF from = "finish" THEN step ELSE completed
  /\ UNCHANGED <<step, position, previous, diskVars, inherited, crashes>>

Barriers ==
  \/ Barrier("ready", "write")
  \/ Barrier("written", "register")
  \/ Barrier("finish", "train")

Crash ==
  /\ ~ At("down") /\ crashes < MaxCrashes
  /\ crashes' = crashes + 1
  /\ GoAll("down")
  /\ previous' = <<>>
  /\ UNCHANGED <<step, position, diskVars, completed, inherited>>

\* Mutant: the newest directory found on disk, whatever the tracker says.
NewestOnDisk == IF dirs = {} THEN None ELSE CHOOSE s \in dirs : \A t \in dirs : t <= s

\* find_latest_ckpt_path: None without a tracker, or without the directory it names.
ResumeStep == IF tracker \in dirs THEN tracker ELSE None

\* What a new process reads of directory s: torch.load raises on a file that is torn.
Loads(s) == shards[s] = Ranks /\ \A r \in Ranks : data[s][r] # Torn

\* resume_mode "auto" in a new process: load_checkpoint and _load_dataloader_state, which
\* starts from scratch without a data_<rank>.pt.
Restart ==
  /\ At("down")
  /\ inherited' = dirs
  /\ \/ /\ ResumeStep = None
        /\ step' = 0
        /\ position' = [r \in Ranks |-> 0]
        /\ GoAll("train")
     \/ /\ ResumeStep # None /\ Loads(ResumeStep)
        /\ step' = ResumeStep
        /\ position' = [r \in Ranks |->
             IF data[ResumeStep][r] = Missing THEN 0 ELSE data[ResumeStep][r]]
        /\ GoAll("train")
     \/ /\ ResumeStep # None /\ ~ Loads(ResumeStep)
        /\ GoAll("failed")
        /\ UNCHANGED <<step, position>>
  /\ UNCHANGED <<previous, diskVars, completed, crashes>>

RankStep(r) ==
  EnterSave(r) \/ WriteShard(r) \/ RegisterSave(r) \/ OpenData(r) \/ SaveData(r) \/ Track(r)

Next ==
  \/ TrainStep
  \/ \E r \in Ranks : RankStep(r)
  \/ Barriers
  \/ Crash
  \/ Restart

Spec == Init /\ [][Next]_vars
LiveSpec == Spec /\ WF_vars(TrainStep \/ (\E r \in Ranks : RankStep(r)) \/ Barriers \/ Restart)

----------------------------------------------------------------------------
\* At every instant, a crash included, the tracker names a checkpoint that is
\* on disk with the shards of every rank.
Resumable == tracker # None => tracker \in dirs /\ shards[tracker] = Ranks

\* A rank's data_<rank>.pt of the step the tracker names was torn by a crash, after the
\* last save that every rank had finished: rank 0 had renamed the tracker before.
TrackedTorn == completed < tracker /\ \E r \in Ranks : data[tracker][r] = Torn

\* Every rank's data_<rank>.pt of directory s holds a loader position.
HoldsPositions(s) == \A r \in Ranks : data[s][r] \notin {Missing, Torn}

\* No restart resumes from before a save that every rank had finished, and in that
\* save itself every rank finds the loader position it saved.  A restart fails only if
\* the tracker names a later, unfinished save with a torn data_<rank>.pt.
NeverLosesASave ==
  [][At("down") /\ ~ At("down")' =>
       \/ At("failed")' /\ TrackedTorn
       \/ /\ At("train")' /\ step' >= completed
          /\ completed # None /\ step' = completed => HoldsPositions(completed)]_vars

\* While a new checkpoint is being written there are never more than Keep
\* directories of this process on disk, the new one included (a save with Keep = 1
\* needs room for two).
Rotates ==
  Keep > 0 /\ (\E r \in Ranks : phase[r] \in {"write", "written", "register"})
    => Cardinality(dirs \ inherited) <= (IF Keep = 1 THEN 2 ELSE Keep)

\* Whatever crashes, the training ends with its last step trained and its checkpoint
\* tracked, or at a restart that fails on a torn data_<rank>.pt of the tracked step.
Finishes ==
  \/ <>[](At("train") /\ step = TotalSteps /\ tracker = TotalSteps)
  \/ <>[](At("failed") /\ TrackedTorn)

\* The comment in save_checkpoint: the saved iterator is identical in each rank.
\* So after any restart the ranks agree on their place in the data.
SameIterator == At("train") => \A r, q \in Ranks : position[r] = position[q]

\* What the configuration says of resume_mode "auto": it resumes from the last checkpoint
\* if one is available.  So no restart fails while a whole checkpoint is on disk.
ResumesIfAvailable ==
  At("failed") => ~ \E s \in dirs : shards[s] = Ranks /\ HoldsPositions(s)

\* The configuration's max_ckpt_to_keep: the number of checkpoints kept.
KeepsAtMost == Keep > 0 /\ At("train") => Cardinality(dirs) <= Keep
=============================================================================
