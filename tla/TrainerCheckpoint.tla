------------------------- MODULE TrainerCheckpoint -------------------------
(***************************************************************************)
(* Checkpoints of the Ray trainers: RayPPOTrainer._save_checkpoint and     *)
(* _load_checkpoint (Async = FALSE), and of the fully asynchronous         *)
(* trainer, whose rollouter saves the dataloader's position while it goes  *)
(* on feeding samples (Async = TRUE).  Actor and critic are saved by       *)
(* worker groups of their own, each with its own list of saved paths; the  *)
(* tracker file is written in place.  A crash loses everything but the     *)
(* disk.  One sample is one training step and one parameter version.       *)
(***************************************************************************)
EXTENDS CheckpointManager, FiniteSets

CONSTANTS
  Async,         \* does a rollouter feed samples while the trainer trains?
  Ahead,         \* samples the rollouter may be ahead of the trainer
  ActorKeep, CriticKeep,   \* max_actor_ckpt_to_keep, max_critic_ckpt_to_keep
  SaveFreq,      \* trainer.save_freq
  TotalSteps,    \* total_rollout_steps
  MaxCrashes     \* bound on crashes

CheckpointAssumption ==
  /\ Async \in BOOLEAN
  /\ Ahead \in Nat \ {0} /\ SaveFreq \in Nat \ {0} /\ TotalSteps \in Nat \ {0}
  /\ ActorKeep \in Nat /\ CriticKeep \in Nat /\ MaxCrashes \in Nat

None == 0                                \* no tracker file
Torn == TotalSteps + MaxCrashes + 1      \* the tracker opened for writing and empty
\* Resuming a training that had ended trains one step more.
Versions == 1 .. TotalSteps + MaxCrashes
Samples == 1 .. TotalSteps + MaxCrashes * (Ahead + 1)

VARIABLES
  pc,            \* the trainer: "train", the step of a save, "down" or "failed"
  version,       \* current_param_version (global_steps)
  globalSteps,   \* the feeder's global_steps
  feeding,       \* the feeder has not reached the end
  fed,           \* the dataloader's position: samples handed out
  taken,         \* the last sample the trainer took
  learned,       \* the samples the weights have been trained on
  actors, critics,             \* checkpoint versions on disk
  actorPaths, criticPaths,     \* previous_saved_paths of the two managers
  weights,       \* what the actor checkpoint of a version has learned
  data,          \* the position in data.pt of a version; 0: none
  tracker, crashes

diskVars == <<actors, critics, weights, data, tracker>>
feedVars == <<globalSteps, feeding, fed>>
vars == <<pc, version, feedVars, taken, learned, actorPaths, criticPaths, diskVars, crashes>>

Init ==
  /\ pc = "train"
  /\ version = 0
  /\ globalSteps = 1 /\ feeding = TRUE /\ fed = 0
  /\ taken = 0 /\ learned = {}
  /\ actors = {} /\ critics = {} /\ actorPaths = <<>> /\ criticPaths = <<>>
  /\ weights = [v \in Versions |-> {}]
  /\ data = [v \in Versions |-> 0]
  /\ tracker = None /\ crashes = 0

Up == pc \notin {"down", "failed"}

\* Mutant: the limit is reached one sample late.
LastSampleLate == globalSteps > TotalSteps

LastSample == globalSteps >= TotalSteps

\* _feed_samples; or, in the synchronous trainer, the next batch of its own loop.
Feed ==
  /\ Up /\ feeding
  /\ IF Async THEN fed - taken < Ahead ELSE pc = "train" /\ fed = taken
  /\ fed' = fed + 1
  /\ feeding' = ~ LastSample
  /\ globalSteps' = IF LastSample THEN globalSteps ELSE globalSteps + 1
  /\ UNCHANGED <<pc, version, taken, learned, actorPaths, criticPaths, diskVars, crashes>>

\* RayPPOTrainer saves its last step too; the asynchronous trainer does not.  Both save
\* when the instance they run on is about to expire.
SaveDue(v, expires) == v % SaveFreq = 0 \/ expires \/ (~ Async /\ v >= TotalSteps)

\* One training step, after which fit() checks whether to save.
Train ==
  /\ pc = "train" /\ taken < fed
  /\ taken' = taken + 1
  /\ learned' = learned \union {taken'}
  /\ version' = version + 1
  /\ \E expires \in BOOLEAN : pc' = IF SaveDue(version', expires) THEN "actor" ELSE "train"
  /\ UNCHANGED <<feedVars, actorPaths, criticPaths, diskVars, crashes>>

\* Both worker groups save with FSDPCheckpointManager: make room, write, register.
PathsAfterSave(paths, new, keep) ==
  PathsAfterRegister(PathsAfterEnsure(paths, keep), new, keep)

SaveActor ==
  /\ pc = "actor" /\ pc' = "critic"
  /\ actorPaths' = PathsAfterSave(actorPaths, version, ActorKeep)
  /\ actors' = (actors \ Dropped(actorPaths, actorPaths')) \union {version}
  /\ weights' = [weights EXCEPT ![version] = learned]
  /\ UNCHANGED <<version, feedVars, taken, learned, criticPaths, critics, data, tracker, crashes>>

SaveCritic ==
  /\ pc = "critic" /\ pc' = "data"
  /\ criticPaths' = PathsAfterSave(criticPaths, version, CriticKeep)
  /\ critics' = (critics \ Dropped(criticPaths, criticPaths')) \union {version}
  /\ UNCHANGED <<version, feedVars, taken, learned, actorPaths, actors, weights, data, tracker, crashes>>

\* Mutant: the position before the batch handed out last.
PositionBeforeLast == IF fed = 0 THEN 0 ELSE fed - 1

\* Mutant: counts the batch the loader has prefetched and not handed out.
PositionPastPrefetched == fed + 1

SavedPosition == fed

\* The dataloader's state: in the rollouter, or in the trainer's own process.
SaveData ==
  /\ pc = "data" /\ pc' = "open"
  /\ data' = [data EXCEPT ![version] = SavedPosition]
  /\ UNCHANGED <<version, feedVars, taken, learned, actorPaths, criticPaths,
                 actors, critics, weights, tracker, crashes>>

\* with open(tracker, "w") empties the file; the number is written afterwards.
WriteTracker ==
  /\ \/ pc = "open" /\ pc' = "write" /\ tracker' = Torn
     \/ pc = "write" /\ pc' = "train" /\ tracker' = version
  /\ UNCHANGED <<version, feedVars, taken, learned, actorPaths, criticPaths,
                 actors, critics, weights, data, crashes>>

Crash ==
  /\ Up /\ crashes < MaxCrashes
  /\ pc' = "down" /\ crashes' = crashes + 1
  /\ actorPaths' = <<>> /\ criticPaths' = <<>>
  /\ UNCHANGED <<version, feedVars, taken, learned, diskVars>>

Loadable == tracker = None \/ (tracker \in actors /\ tracker \in critics)

\* Mutant: the feeder's count continues from the dataloader's position.
CountFromPosition(v, position) == position + 1

\* FullyAsyncRollouter.load_checkpoint: samples counted from the version alone.
ResumedCount(v, position) == v + 1

\* resume_mode "auto": trainer and rollouter load what the tracker names.  An empty
\* tracker (int("")) and a missing actor or critic directory raise.
Restart ==
  /\ pc = "down"
  /\ \/ ~ Loadable /\ pc' = "failed" /\ UNCHANGED <<version, feedVars, taken, learned>>
     \/ /\ Loadable /\ pc' = "train"
        /\ version' = tracker
        /\ learned' = IF tracker = None THEN {} ELSE weights[tracker]
        /\ fed' = IF tracker = None THEN 0 ELSE data[tracker]
        /\ taken' = fed'
        /\ globalSteps' = ResumedCount(version', fed')
        /\ feeding' = TRUE
  /\ UNCHANGED <<actorPaths, criticPaths, diskVars, crashes>>

Save == SaveActor \/ SaveCritic \/ SaveData \/ WriteTracker
Next == Feed \/ Train \/ Save \/ Crash \/ Restart
Spec == Init /\ [][Next]_vars
LiveSpec == Spec /\ WF_vars(Feed) /\ WF_vars(Train \/ Save \/ Restart)

----------------------------------------------------------------------------
TypeOK ==
  /\ pc \in {"train", "actor", "critic", "data", "open", "write", "down", "failed"}
  /\ version \in {0} \union Versions
  /\ globalSteps \in 1 .. TotalSteps + MaxCrashes + 1 /\ feeding \in BOOLEAN
  /\ {fed, taken} \subseteq {0} \union Samples /\ learned \subseteq Samples
  /\ actors \subseteq Versions /\ critics \subseteq Versions
  /\ actorPaths \in Seq(Versions) /\ criticPaths \in Seq(Versions)
  /\ weights \in [Versions -> SUBSET Samples]
  /\ data \in [Versions -> {0} \union Samples]
  /\ tracker \in {None, Torn} \union Versions
  /\ crashes \in 0 .. MaxCrashes

\* The weights have learned from as many different samples as their version counts:
\* whatever crashes and resumes, no sample is trained on twice.
NoSampleTwice == Up => Cardinality(learned) = version

\* A resume skips the samples that were in flight when the checkpoint was made, and
\* no more: per resume at most Ahead, and none in the synchronous trainer.
SkipsOnlyInFlight ==
  Up => taken - Cardinality(learned) <= (IF Async THEN Ahead * crashes ELSE 0)

\* A restart fails only on a tracker that a crash has left empty; whatever tracker
\* has a number in it names an actor and a critic that can be loaded.
OnlyTornFails == tracker # Torn => Loadable

Trained == version >= TotalSteps \/ pc = "failed"

\* Unless a restart fails, the training reaches its last version: what a crash
\* lost of the feeder's samples is fed anew.
TrainsToTheEnd == <>Trained

\* The comment at the tracker's write, "for atomic usage": a crash finds either the
\* old number in it or the new one.
AtomicTracker == pc = "down" => tracker # Torn
=============================================================================
