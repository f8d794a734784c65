----------------------------- MODULE FullyAsync -----------------------------
(***************************************************************************)
(* The fully asynchronous trainer: rollouter, message queue, trainer and   *)
(* parameter synchronizer, from the start of the two fit() calls in        *)
(* fully_async_main.py to the end of _run_training_loop.  Every            *)
(* interaction is an RPC: the steps of two components that one call takes  *)
(* together are conjoined here.                                            *)
(***************************************************************************)
EXTENDS Naturals, Sequences, FiniteSets

CONSTANTS TotalSamples, PendingCapacity, MaxConcurrent, PartialRollout, MaxFailures,
          Required, TriggerStep, TestFreq,
          StaleNum, StaleDen  \* staleness_threshold is StaleNum / StaleDen

(* Samples trained on between two synchronizations. *)
PerVersion == Required * TriggerStep

(* set_max_required_samples(), with its truncation; the queue's size too. *)
MaxRequired == (PerVersion * (StaleNum + StaleDen)) \div StaleDen

ASSUME FullyAsyncAssumption ==
    /\ TotalSamples \in Nat \ {0}
    /\ PendingCapacity \in Nat \ {0}
    /\ MaxConcurrent \in 1..MaxRequired
    /\ PartialRollout \in BOOLEAN
    /\ MaxFailures \in Nat
    /\ Required \in Nat \ {0}
    /\ TriggerStep \in Nat \ {0}
    /\ TestFreq \in Nat \ {0}
    /\ StaleNum \in Nat
    /\ StaleDen \in Nat \ {0}

VARIABLES
    queue, valQueue, paramVersion, open, produced, consumed, dropped, cleared, getter,
    fed, taken, cancelQueue, stage, blocked, hand, doneBound,
    task, stamp, reapable, failed, failures, holder, waiters,
    paused, staleness, trigger, running, rollVersion, control, counted,
    monitor, main, serverPaused,
    phase, batch, localStep, trainVersion, closing, trained,
    sync, syncVersion, serverVersion,
    runner  \* FullyAsyncTaskRunner: "running", then "cleared"

MQ == INSTANCE MessageQueue
        WITH Consumer <- {"trainer"}, MaxQueueSize <- MaxRequired,
             MaxPuts <- TotalSamples + 1, MaxVersion <- TotalSamples + 1
R  == INSTANCE Rollouter WITH MaxVersion <- TotalSamples + 1
T  == INSTANCE Trainer
PS == INSTANCE ParameterSynchronizer

queueVars == <<queue, valQueue, paramVersion, open, produced, consumed, dropped,
               cleared, getter>>
rollVars == <<fed, taken, cancelQueue, stage, blocked, hand, doneBound, task, stamp,
              reapable, failed, failures, holder, waiters, paused, staleness, trigger,
              running, rollVersion, control, counted, monitor, main, serverPaused>>
trainVars == <<phase, batch, localStep, trainVersion, closing, trained>>
syncVars == <<sync, syncVersion, serverVersion>>
vars == <<queueVars, rollVars, trainVars, syncVars, runner>>

QueueSize == Len(queue)

(* Mutant: the sample keeps the version _feed_samples() creates it with. *)
StampedAtFeed(s) == [id |-> s, ver |-> 0]

(* What put_sample() carries: the sample and the version it is stamped     *)
(* with.  The end of the stream is a sample of None.                       *)
Stamped(s) == [id |-> s, ver |-> stamp[s]]
Sentinel == [id |-> R!NoSample, ver |-> rollVersion]
IsSentinel(item) == item.id = R!NoSample

(* Both fit() calls start after the initial synchronization, whose         *)
(* validation of version 0 is in the queue.                                *)
Init ==
    /\ MQ!InitWith(<<0>>)
    /\ R!Init
    /\ T!Init
    /\ PS!Init
    /\ runner = "running"

-----------------------------------------------------------------------------
(* The rollouter's coroutines.                                             *)

Processor ==
    /\ \/ R!ProcCheck(QueueSize)
       \/ R!ProcLeaveLoop
       \/ R!ProcAwaitLock
       \/ R!ProcSetPaused
       \/ R!ProcAwaitTasks
       \/ R!ProcNothingToReap
       \/ R!ProcReap
       \/ R!ProcAwaitCondition
       \/ R!ProcResumed
       \/ R!ProcTakeCancelled
       \/ R!ProcAwaitPending
       \/ R!ProcTakePending
       \/ R!ProcSubmit
    /\ UNCHANGED <<queueVars, trainVars, syncVars, runner>>

Feeder ==
    R!Feed /\ UNCHANGED <<queueVars, trainVars, syncVars, runner>>

TaskMoves(s) ==
    /\ \/ R!TaskStart(s)
       \/ R!ServerInterrupt(s)
       \/ R!TaskCancelled(s)
       \/ R!TaskGenerated(s)
    /\ UNCHANGED <<queueVars, trainVars, syncVars, runner>>

(* put_sample() runs in the queue and returns to the task. *)
TaskPuts(s) ==
    /\ R!TaskReported(s)
    /\ MQ!PutSample(Stamped(s))
    /\ UNCHANGED <<trainVars, syncVars, runner>>

TaskFails(s) ==
    R!TaskFails(s) /\ UNCHANGED <<queueVars, trainVars, syncVars, runner>>

Monitor ==
    /\ \/ R!MonitorCheckRunning
       \/ R!MonitorSkip(QueueSize)
       \/ R!MonitorAwaitLock(QueueSize)
       \/ R!MonitorRecover(QueueSize)
       \/ R!AwaitLock("monitor")
    /\ UNCHANGED <<queueVars, trainVars, syncVars, runner>>

(* The end-of-stream marker goes through put_sample() like a sample. *)
MainPutsSentinel ==
    /\ R!MainSentinel
    /\ MQ!PutSample(Sentinel)
    /\ UNCHANGED <<trainVars, syncVars, runner>>

MainStops ==
    /\ R!MainStop \/ R!AwaitLock("main")
    /\ UNCHANGED <<queueVars, trainVars, syncVars, runner>>

(* Mutant: the rollouter is told the version the trainer has got to. *)
UpdatesToTrainer == R!ControlUpdate(trainVersion)

Updates == R!ControlUpdate(syncVersion)

Control ==
    /\ \/ R!ControlPause
       \/ R!ControlGathered
       \/ Updates
       \/ R!ControlReset(QueueSize)
       \/ R!ControlResume
       \/ R!AwaitLock("control")
    /\ UNCHANGED <<queueVars, trainVars, syncVars, runner>>

(* put_validate() runs in the queue and returns to update_param_version(). *)
ControlPublishes ==
    /\ R!ControlPublished
    /\ MQ!PutValidate(rollVersion)
    /\ UNCHANGED <<trainVars, syncVars, runner>>

-----------------------------------------------------------------------------
(* The trainer and the parameter synchronizer.                             *)

TrainerAwaitsSample ==
    /\ phase = "collect"
    /\ MQ!AwaitSample("trainer")
    /\ UNCHANGED <<rollVars, trainVars, syncVars, runner>>

TrainerGetsSample ==
    /\ MQ!GetSample("trainer")
    /\ T!Collect(Head(queue), IsSentinel(Head(queue)))
    /\ UNCHANGED <<rollVars, syncVars, runner>>

TrainerTrains ==
    T!Train /\ UNCHANGED <<queueVars, rollVars, syncVars, runner>>

(* Mutant: only the versions that are tested are logged. *)
TrainerLogsTests ==
    /\ T!Log
    /\ IF trainVersion % TestFreq = 0 THEN MQ!GetValidate ELSE UNCHANGED queueVars
    /\ UNCHANGED <<rollVars, syncVars, runner>>

TrainerLogs ==
    /\ T!Log
    /\ MQ!GetValidate
    /\ UNCHANGED <<rollVars, syncVars, runner>>

(* wait_last_valid() returns: the last update and resume are over. *)
LastSyncOver == sync = "idle" /\ control = "idle"

SyncPauses ==
    /\ LastSyncOver
    /\ T!StartSync
    /\ PS!Pause(trainVersion)
    /\ R!PauseCalled
    /\ UNCHANGED <<queueVars, runner>>

SyncUpdatesQueue ==
    /\ control = "paused"
    /\ PS!UpdateQueue
    /\ MQ!UpdateParamVersion(syncVersion)
    /\ UNCHANGED <<rollVars, trainVars, runner>>

SyncTransfers ==
    /\ PS!Transfer
    /\ R!UpdateCalled
    /\ T!SyncReturned
    /\ UNCHANGED <<queueVars, runner>>

TrainerCloses ==
    /\ LastSyncOver
    /\ T!Close \/ T!CloseAfterSync
    /\ MQ!GetValidate
    /\ UNCHANGED <<rollVars, syncVars, runner>>

-----------------------------------------------------------------------------
Ended == R!Finished /\ phase = "end"

(* Both futures are done: the finally clause clears the queue. *)
RunnerClears ==
    /\ Ended /\ runner = "running"
    /\ runner' = "cleared"
    /\ MQ!ClearQueue
    /\ UNCHANGED <<rollVars, trainVars, syncVars>>

(* All is over: stuttering here is no deadlock. *)
Terminated == runner = "cleared" /\ UNCHANGED vars

Next ==
    \/ Processor
    \/ Feeder
    \/ \E s \in R!Sample : TaskMoves(s) \/ TaskPuts(s) \/ TaskFails(s)
    \/ Monitor
    \/ MainPutsSentinel
    \/ MainStops
    \/ Control
    \/ ControlPublishes
    \/ TrainerAwaitsSample
    \/ TrainerGetsSample
    \/ TrainerTrains
    \/ TrainerLogs
    \/ SyncPauses
    \/ SyncUpdatesQueue
    \/ SyncTransfers
    \/ TrainerCloses
    \/ RunnerClears
    \/ Terminated

(* An event loop runs what is ready; the servers end every generation; an  *)
(* RPC is executed; the monitor wakes from its sleep.  A failure need not  *)
(* happen.                                                                 *)
Fairness ==
    /\ WF_vars(Processor)
    /\ WF_vars(Feeder)
    /\ \A s \in R!Sample : WF_vars(TaskMoves(s) \/ TaskPuts(s))
    /\ WF_vars(Monitor)
    /\ WF_vars(MainPutsSentinel \/ MainStops)
    /\ WF_vars(Control \/ ControlPublishes)
    /\ WF_vars(TrainerAwaitsSample \/ TrainerGetsSample \/ TrainerTrains
                 \/ TrainerLogs \/ SyncPauses \/ TrainerCloses)
    /\ WF_vars(SyncUpdatesQueue \/ SyncTransfers)
    /\ WF_vars(RunnerClears)

Spec == Init /\ [][Next]_vars
FairSpec == Spec /\ Fairness

-----------------------------------------------------------------------------
Version == 0..(TotalSamples + 1)
Item == [id : 0..TotalSamples, ver : Version]

TypeOK ==
    /\ queue \in Seq(Item) /\ Len(queue) <= MaxRequired
    /\ valQueue \in Seq(Version)
    /\ getter \in [{"trainer"} -> MQ!GetterState]
    /\ batch \in Seq(Item) /\ Len(batch) <= Required
    /\ phase \in T!Phase
    /\ {paramVersion, syncVersion, serverVersion, trainVersion, rollVersion} \subseteq Version
    /\ fed \in 0..R!DONE /\ taken \in 0..fed
    /\ cancelQueue \in Seq(R!Sample)
    /\ stage \in R!Stage /\ blocked \in R!Blocked
    /\ hand \in {R!NoSample} \cup R!Sample
    /\ task \in [R!Sample -> R!TaskState]
    /\ stamp \in [R!Sample -> Version]
    /\ holder \in R!Coroutine \cup {"none"}
    /\ waiters \in Seq(R!Coroutine)
    /\ staleness \in Nat

-----------------------------------------------------------------------------
InHand == IF hand = R!NoSample THEN {} ELSE {hand}
Interrupted == {cancelQueue[i] : i \in 1..Len(cancelQueue)}
QueuedSamples == {queue[i].id : i \in 1..Len(queue)} \ {R!NoSample}
InFlight == Cardinality(R!Live) + Cardinality(InHand) + Len(cancelQueue)
              + Cardinality(QueuedSamples)

(* The rollouter's own promises hold in the system, whose queue and        *)
(* synchronizations are some of those it is prepared for.                  *)
ImplementsRollouter == R!Spec

(* Every sample goes through the system once, forward only.                *)
Flow == INSTANCE SampleFlow
          WITH Sample    <- R!Sample,
               BatchSize <- Required,
               Capacity  <- MaxRequired,
               MayFail   <- MaxFailures > 0,
               source    <- {s \in R!Sample : s > taken},
               rolling   <- R!Live \cup InHand \cup Interrupted,
               queued    <- QueuedSamples,
               batched   <- {batch[i].id : i \in 1..Len(batch)}

ImplementsSampleFlow == Flow!Spec

(* Staleness control: whatever the pauses interrupt and the resets recount *)
(* staleness_samples misses at most the one sample in the processor's      *)
(* hand, so no more than max_required_samples + 1 are ever under way.      *)
StalenessCovers ==
    /\ InFlight <= staleness + 1
    /\ InFlight <= MaxRequired + 1

(* Bounded staleness: a sample is trained on at most this many versions    *)
(* after the one it is stamped with.  It may be put as the last of a full  *)
(* queue two versions late, when the monitor restarts the rollout between  *)
(* pause() and update_param_version(); what is before it is trained first. *)
LagBound == ((MaxRequired - 1) \div PerVersion) + 2
FreshEnough ==
    phase = "train" =>
        \A i \in 1..Len(batch) : trainVersion <= batch[i].ver + LagBound

(* With staleness_threshold = 0 training is synchronous: every batch is    *)
(* generated with exactly the version it trains.                           *)
OnPolicy ==
    phase = "train" => \A i \in 1..Len(batch) : batch[i].ver = trainVersion

(* The end marker is the last item of the stream, unless the processor     *)
(* died: no task that could still put a sample is live behind it.          *)
EndOfStream ==
    main # "stream" /\ stage = "done" =>
        /\ R!Live = {}
        /\ \A i \in 1..(Len(queue) - 1) : ~IsSentinel(queue[i])
        /\ \/ queue = <<>>
           \/ IsSentinel(queue[Len(queue)])

(* The processor ends before DONE only for a generation that raised: what  *)
(* pause() clears behind its back never makes it read an unbound           *)
(* done_tasks.                                                             *)
ProcessorSurvives == stage = "crashed" => failures > 0

(* Of a run that ends, fewer than one batch of samples was not trained on. *)
NothingLost == phase = "end" => Cardinality(R!Sample \ trained) < Required

(* The validation of every synchronization is logged before the trainer    *)
(* ends, though each step logs at most one; never do more than two wait.   *)
ValidationsLogged ==
    /\ Len(valQueue) <= 2
    /\ phase = "end" => valQueue = <<>>

(* A version reaches the components in this order, and the rollouter is    *)
(* at most two behind the trainer: wait_last_valid() keeps two             *)
(* synchronizations from overlapping.                                      *)
VersionOrder ==
    /\ rollVersion <= serverVersion
    /\ serverVersion <= paramVersion
    /\ paramVersion <= syncVersion
    /\ syncVersion <= trainVersion
    /\ trainVersion <= rollVersion + 2
    /\ syncVersion <= rollVersion + 1

(* No generation is in flight while the weights move: README.md 237-238 of *)
(* fully_async_policy, on a synchronization the rollouter "will wait for   *)
(* the tasks to complete and not add new tasks".  It holds of synchronous  *)
(* training; with staleness_threshold > 0 the monitor breaks it.           *)
QuiescentTransfer == sync = "transfer" => R!Live = {}

(* The program ends: no pause, full queue or missing sample stops it.      *)
Termination == <>(runner = "cleared")
=============================================================================
