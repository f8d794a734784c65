------------------------------ MODULE Trainer ------------------------------
(***************************************************************************)
(* The FullyAsyncTrainer actor of fully_async_trainer.py: its fit() is one *)
(* sequential coroutine that collects samples, trains, and asks for a      *)
(* parameter synchronization every TriggerStep training steps.  What it    *)
(* waits for (a sample, the last synchronization) is in FullyAsync.        *)
(* Training itself, metrics and checkpoints are left out.                  *)
(***************************************************************************)
EXTENDS Naturals, Sequences

CONSTANTS Required,     \* required_samples
          TriggerStep,  \* trigger_parameter_sync_step
          TestFreq      \* rollout.test_freq

VARIABLES phase,        \* where fit() is
          batch,        \* queue_samples
          localStep,    \* local_trigger_step
          trainVersion, \* current_param_version
          closing,      \* the training loop is over
          trained       \* samples that were trained on

trainerVars == <<phase, batch, localStep, trainVersion, closing, trained>>

Phase == {"collect", "train", "await", "sync", "log", "close", "last", "end"}

(* fit() first logs the validation of the initial synchronization. *)
Init ==
    /\ phase = "log"
    /\ batch = <<>>
    /\ localStep = 1
    /\ trainVersion = 0
    /\ closing = FALSE
    /\ trained = {}

(* get_sample_sync() has returned `item`.  The end marker drops what was   *)
(* collected and ends the loop.                                            *)
Collect(item, isEnd) ==
    /\ phase = "collect"
    /\ batch' = IF isEnd THEN <<>> ELSE Append(batch, item)
    /\ phase' = IF isEnd THEN "close"
                ELSE IF Len(batch') = Required THEN "train" ELSE "collect"
    /\ closing' = isEnd
    /\ UNCHANGED <<localStep, trainVersion, trained>>

(* Mutant: the synchronization comes one training step early. *)
NoSyncYetShort == localStep + 1 < TriggerStep

NoSyncYet == localStep < TriggerStep

(* A training step, and the head of _trigger_parameter_sync_after_step.    *)
Train ==
    /\ phase = "train"
    /\ trained' = trained \cup {batch[i].id : i \in 1..Len(batch)}
    /\ batch' = <<>>
    /\ IF NoSyncYet
         THEN /\ localStep' = localStep + 1
              /\ phase' = "log"
              /\ UNCHANGED trainVersion
         ELSE /\ localStep' = 1
              /\ trainVersion' = trainVersion + 1
              /\ phase' = "await"
    /\ UNCHANGED closing

(* wait_last_valid() has returned: call sync_weights(). *)
StartSync ==
    /\ phase = "await"
    /\ phase' = "sync"
    /\ UNCHANGED <<batch, localStep, trainVersion, closing, trained>>

(* sync_weights() has returned. *)
SyncReturned ==
    /\ phase = "sync"
    /\ phase' = IF closing THEN "last" ELSE "log"
    /\ UNCHANGED <<batch, localStep, trainVersion, closing, trained>>

(* _log_validation_data() in the loop. *)
Log ==
    /\ phase = "log"
    /\ phase' = "collect"
    /\ UNCHANGED <<batch, localStep, trainVersion, closing, trained>>

(* After the loop, once the last synchronization is over: log its          *)
(* validation, and synchronize once more, with validation, unless the last *)
(* version is one that was validated and no step was trained since.        *)
NeedsFinalSync == trainVersion % TestFreq # 0 \/ localStep > 1

Close ==
    /\ phase = "close"
    /\ IF NeedsFinalSync
         THEN /\ phase' = "await"
              /\ trainVersion' = trainVersion + 1
              /\ localStep' = 1
         ELSE /\ phase' = "end"
              /\ UNCHANGED <<trainVersion, localStep>>
    /\ UNCHANGED <<batch, closing, trained>>

(* The final synchronization is over, and its validation logged. *)
CloseAfterSync ==
    /\ phase = "last"
    /\ phase' = "end"
    /\ UNCHANGED <<batch, localStep, trainVersion, closing, trained>>
=============================================================================
