---------------------------- MODULE MCFullyAsync ----------------------------
(***************************************************************************)
(* The composed system on small instances.  The passing runs take their    *)
(* properties from FullyAsync.  The properties below are what the          *)
(* repository's documentation says of the program; the code does not keep  *)
(* them, and each has a run that shows how.                                *)
(***************************************************************************)
EXTENDS FullyAsync

(* For the runs of invariants that do not hold: the rollouter's event loop *)
(* is never late, what its processor and its tasks can do comes before     *)
(* anything another process does.  It only shortens the list of behaviours: *)
(* the violations need no coroutine that is kept waiting.                  *)
LoopBusy ==
    ENABLED (Processor \/ \E s \in R!Sample : R!TaskStart(s) \/ R!TaskCancelled(s))

PromptLoop == LoopBusy => UNCHANGED <<queue, phase, sync, control, main>>

(* README.md 142-144 of fully_async_policy: "Rollouter will generate at    *)
(* most" rollout_num = (1 + staleness_threshold) * PerVersion -            *)
(* num_staleness_sample samples between two parameter updates.  So what is *)
(* generated or being generated, and not yet trained on, stays within      *)
(* (1 + staleness_threshold) * PerVersion.                                 *)
RolloutNum ==
    Cardinality(R!Live) + Cardinality(QueuedSamples) <= MaxRequired

(* README.md 246-247: with partial rollout "the interrupted samples will   *)
(* continue to be generated after synchronization", so the processor does  *)
(* not end while there are any.                                            *)
InterruptedContinue == stage = "done" => cancelQueue = <<>>

(* _async_monitor_loop, line 634: "Function 2: Trigger rollout recovery".  *)
(* A rollouter that is paused outside a synchronization, while the trainer *)
(* waits on an empty queue, recovers: the pause or the wait ends.          *)
RolloutRecovers ==
    paused /\ control = "idle" /\ getter["trainer"] = "waiting"
        ~> ~paused \/ getter["trainer"] # "waiting"
=============================================================================
