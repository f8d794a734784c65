----------------------------- MODULE OneStepOff -----------------------------
(***************************************************************************)
(* The one-step-off-policy trainer (experimental/one_step_off_policy):     *)
(* while a batch is trained the next one is generated, by servers whose    *)
(* weights are set between the two.  A weights version counts the actor's  *)
(* updates; batches are numbered as the data stream hands them out.  A     *)
(* checkpoint is one step here (module TrainerCheckpoint has its steps).   *)
(***************************************************************************)
EXTENDS Naturals, FiniteSets

CONSTANTS
  EpochLen,      \* len(train_dataloader)
  TotalEpochs,   \* trainer.total_epochs
  TotalSteps,    \* total_training_steps
  CriticWarmup,  \* trainer.critic_warmup
  SaveFreq, TestFreq,
  MaxCrashes     \* bound on crashes

OneStepOffAssumption ==
  /\ {EpochLen, TotalEpochs, TotalSteps, SaveFreq, TestFreq} \subseteq Nat \ {0}
  /\ {CriticWarmup, MaxCrashes} \subseteq Nat

VARIABLES
  pc,         \* where fit() is
  step,       \* global_steps
  weights,    \* version of the trained actor
  rollout,    \* version the servers generate with
  future,     \* batch_data_future: [batch, version, state]; batch 0 is a result None
  batch,      \* the batch being trained: its number and the version it is from
  position,   \* batches the data stream has handed out
  limit,      \* where this process's continuous iterator ends
  trained,    \* batches the steps so far were trained on
  validated,  \* version of the last validation
  saved,      \* the last checkpoint
  crashes

dataVars == <<position, limit>>
vars == <<pc, step, weights, rollout, future, batch, dataVars, trained, validated, saved, crashes>>

Idle == [batch |-> 0, version |-> 0, state |-> "idle"]

\* Mutant: an iterator over the epoch the loader is in, and no further.
EndOfEpoch(p) == (p \div EpochLen + 1) * EpochLen

\* The end of the iterator over total_epochs epochs, the first of which is what is
\* left of the epoch the loader is in.
EndOfStream(p) == ((p + EpochLen - 1) \div EpochLen) * EpochLen
                    + (IF p = 0 THEN TotalEpochs ELSE TotalEpochs - 1) * EpochLen

\* _async_gen_next_batch up to the generation: with the stream exhausted it
\* returns None.
Draw(p, end, version) ==
  IF p < end THEN [batch |-> p + 1, version |-> version, state |-> "running"]
             ELSE [batch |-> 0, version |-> version, state |-> "ready"]

\* fit() up to its loop: weights synchronized, the first generation launched.
StartFrom(checkpoint) ==
  /\ pc' = "await"
  /\ step' = checkpoint.step + 1
  /\ weights' = checkpoint.weights
  /\ rollout' = weights'
  /\ trained' = checkpoint.trained
  /\ limit' = EndOfStream(checkpoint.position)
  /\ future' = Draw(checkpoint.position, limit', rollout')
  /\ position' = IF checkpoint.position < limit' THEN checkpoint.position + 1
                                                 ELSE checkpoint.position

Nothing == [step |-> 0, weights |-> 0, trained |-> {}, position |-> 0]

Init ==
  /\ pc = "await" /\ step = 1 /\ weights = 0 /\ rollout = 0
  /\ future = Draw(0, EndOfStream(0), 0)
  /\ batch = Idle
  /\ position = 1 /\ limit = EndOfStream(0)
  /\ trained = {} /\ validated = 0
  /\ saved = Nothing /\ crashes = 0

\* Mutant: one step later.
IsLastStepLate == step > TotalSteps

IsLastStep == step >= TotalSteps

\* The servers end the generation.
GenerationDone ==
  /\ future.state = "running"
  /\ future' = [future EXCEPT !.state = "ready"]
  /\ UNCHANGED <<pc, step, weights, rollout, batch, dataVars, trained, validated, saved, crashes>>

\* Mutant: does not wait for the generation before it goes on.
FutureReadyEarly == future.state # "idle"

FutureReady == future.state = "ready"

\* await batch_data_future; a None cannot be unpacked.
AwaitBatch ==
  /\ pc = "await" /\ FutureReady
  /\ \/ future.batch # 0 /\ pc' = "sync" /\ batch' = future
     \/ future.batch = 0 /\ pc' = "error" /\ UNCHANGED batch
  /\ UNCHANGED <<step, weights, rollout, future, dataVars, trained, validated, saved, crashes>>

\* Mutant: synchronizes every other step.
EveryOtherVersion == IF step % 2 = 0 THEN rollout ELSE weights

SyncedVersion == weights

\* sync_rollout_weights, then clear_kv_cache.
SyncRolloutWeights ==
  /\ pc = "sync" /\ pc' = "launch"
  /\ rollout' = SyncedVersion
  /\ UNCHANGED <<step, weights, future, batch, dataVars, trained, validated, saved, crashes>>

\* The next generation starts in asyncio.sleep(0), except in the last step.
LaunchNext ==
  /\ pc = "launch" /\ pc' = "train"
  /\ IF IsLastStep
     THEN UNCHANGED <<future, position>>
     ELSE /\ future' = Draw(position, limit, rollout)
          /\ position' = IF position < limit THEN position + 1 ELSE position
  /\ UNCHANGED <<step, weights, rollout, batch, limit, trained, validated, saved, crashes>>

\* Critic and, after the warm-up, actor update.
Train ==
  /\ pc = "train" /\ pc' = "validate"
  /\ trained' = trained \union {batch.batch}
  /\ weights' = IF CriticWarmup <= step THEN weights + 1 ELSE weights
  /\ UNCHANGED <<step, rollout, future, batch, dataVars, validated, saved, crashes>>

ValidationDue == IsLastStep \/ step % TestFreq = 0

\* _validate: on the servers, beside the generation, with the servers' weights.
Validate ==
  /\ pc = "validate" /\ pc' = "save"
  /\ validated' = IF ValidationDue THEN rollout ELSE validated
  /\ UNCHANGED <<step, weights, rollout, future, batch, dataVars, trained, saved, crashes>>

\* Mutant: the loader's position without the batch generated ahead and the one trained.
PositionTrained == IF position > 1 THEN position - 2 ELSE 0

SavedPosition == position

SaveDue(expires) == IsLastStep \/ step % SaveFreq = 0 \/ expires

\* _save_checkpoint, and the end of the step.  The instance expires when it does.
EndStep ==
  /\ pc = "save"
  /\ pc' = IF IsLastStep THEN "done" ELSE "await"
  /\ \E expires \in BOOLEAN :
       saved' = IF SaveDue(expires)
                  THEN [step |-> step, weights |-> weights, trained |-> trained,
                        position |-> SavedPosition]
                  ELSE saved
  /\ step' = step + 1
  /\ UNCHANGED <<weights, rollout, future, batch, dataVars, trained, validated, crashes>>

Crash ==
  /\ pc \notin {"down", "done", "error"} /\ crashes < MaxCrashes
  /\ pc' = "down" /\ crashes' = crashes + 1
  /\ future' = Idle
  /\ UNCHANGED <<step, weights, rollout, batch, dataVars, trained, validated, saved>>

Restart ==
  /\ pc = "down" /\ StartFrom(saved)
  /\ UNCHANGED <<batch, validated, saved, crashes>>

Fit == AwaitBatch \/ SyncRolloutWeights \/ LaunchNext \/ Train \/ Validate \/ EndStep \/ Restart
Next == GenerationDone \/ Fit \/ Crash
Spec == Init /\ [][Next]_vars /\ WF_vars(GenerationDone) /\ WF_vars(Fit)

----------------------------------------------------------------------------
TypeOK ==
  LET Position == 0 .. TotalSteps + MaxCrashes + 1 IN
  /\ pc \in {"await", "sync", "launch", "train", "validate", "save", "done", "error", "down"}
  /\ step \in 1 .. TotalSteps + 1
  /\ {weights, rollout, validated} \subseteq 0 .. TotalSteps
  /\ {future, batch} \subseteq [batch : Position, version : 0 .. TotalSteps,
                                state : {"idle", "running", "ready"}]
  /\ position \in Position /\ limit \in Nat
  /\ trained \subseteq Position
  /\ saved \in [step : 0 .. TotalSteps, weights : 0 .. TotalSteps,
                trained : SUBSET Position, position : Position]
  /\ crashes \in 0 .. MaxCrashes

\* The servers' weights never change under a batch: all of it is from one version.
OnePolicyPerBatch == future.state = "running" => future.version = rollout

\* Generation and training stay one step apart: what is trained was generated by
\* the weights before the last update, or by the last.
OneStepOffPolicy == pc \in {"sync", "launch", "train"} => weights - batch.version <= 1

\* Every step is trained on a batch of its own, also after a crash and a resume
\* with a batch generated ahead.
EveryBatchOnce ==
  pc \in {"await", "sync", "launch", "train"} => Cardinality(trained) = step - 1

\* A validation measures weights at most one update old, even though the next
\* generation has been launched before the update.
ValidationAtMostOneBehind ==
  pc = "save" /\ ValidationDue => weights - validated <= 1

Trained == pc = "done"

\* The training reaches its last step.
Finishes == <>Trained

\* The README: _async_gen_next_batch returns None at the end of the data and the
\* loop ends there; fit() never fails for want of data.
EndsGracefully == pc # "error"
=============================================================================
