-------------------------- MODULE FullyAsyncProofs --------------------------
(***************************************************************************)
(* The fully asynchronous trainer, for every number of samples, every      *)
(* batch size, trigger step and staleness threshold, every limit of the    *)
(* queue, with and without partial rollout and failing generations: what   *)
(* its components keep to together, and that every sample goes through it  *)
(* once.                                                                   *)
(***************************************************************************)
EXTENDS FullyAsync, FiniteSetTheorems, TLAPS

(* The theorems about the rollouter, and the rollouter they are about.     *)
RP == INSTANCE RollouterProofs WITH MaxVersion <- TotalSamples + 1

-----------------------------------------------------------------------------
(* The sizes.  max_required_samples is at least what one version takes,    *)
(* whatever the truncation of staleness_threshold.                         *)

LEMMA DivAtLeast ==
    ASSUME NEW a \in Nat, NEW d \in Nat \ {0}, NEW k \in Nat, k * d <= a
    PROVE  a \div d \in Nat /\ k <= a \div d
<1> DEFINE q == a \div d
<1>1. q \in Int /\ d * q <= a /\ a < d * q + d
  OBVIOUS
<1>2. ASSUME q < k PROVE FALSE
  <2>1. q + 1 <= k
    BY <1>1, <1>2
  <2>2. d * (q + 1) <= d * k
    BY <1>1, <2>1
  <2> QED BY <1>1, <2>2
<1> QED BY <1>1, <1>2

LEMMA Sizes ==
    /\ PerVersion \in Nat \ {0}
    /\ MaxRequired \in Nat \ {0}
    /\ PerVersion <= MaxRequired
<1>1. PerVersion \in Nat \ {0}
  BY FullyAsyncAssumption DEF PerVersion
<1>2. /\ PerVersion * (StaleNum + StaleDen) \in Nat
      /\ PerVersion * StaleDen <= PerVersion * (StaleNum + StaleDen)
  BY <1>1, FullyAsyncAssumption
<1> QED BY <1>1, <1>2, DivAtLeast, FullyAsyncAssumption DEF MaxRequired

(* What the rollouter assumes of its constants holds in the system.        *)
LEMMA RolloutAssumed == RP!RolloutAssumption
  BY Sizes, FullyAsyncAssumption DEF RP!RolloutAssumption

-----------------------------------------------------------------------------
(* The rollouter of RollouterProofs is the one of the system: an instance  *)
(* of the same definitions.                                                *)

LEMMA SameCardinality ==
    \A S : R!Cardinality(S) = Cardinality(S) /\ RP!Cardinality(S) = Cardinality(S)
  BY DEF R!Cardinality, RP!Cardinality, Cardinality

LEMMA SameVars == UNCHANGED R!vars <=> UNCHANGED RP!vars
  BY DEF R!vars, RP!vars, R!feedVars, RP!feedVars, R!procVars, RP!procVars, R!taskVars,
     RP!taskVars, R!lockVars, RP!lockVars, R!flagVars, RP!flagVars, R!ctlVars, RP!ctlVars

LEMMA SameSets ==
    /\ R!Sample = RP!Sample /\ R!Sample = 1..TotalSamples
    /\ R!Live = RP!Live /\ R!Live = {s \in R!Sample : task[s] # "none"}
    /\ R!NoSample = 0 /\ RP!NoSample = 0
    /\ R!DONE = TotalSamples + 1 /\ RP!DONE = TotalSamples + 1
  BY DEF R!Sample, RP!Sample, R!Live, RP!Live, R!NoSample, RP!NoSample, R!DONE, RP!DONE

LEMMA SameInit == R!Init <=> RP!Init
  BY DEF R!Init, RP!Init, R!Smaller, RP!Smaller, R!DONE, RP!DONE, R!NoSample, RP!NoSample,
     R!Sample, RP!Sample

LEMMA SameNext == R!Next <=> RP!Next
<1> USE DEF R!feedVars, RP!feedVars, R!procVars, RP!procVars, R!taskVars, RP!taskVars,
        R!lockVars, RP!lockVars, R!flagVars, RP!flagVars, R!ctlVars, RP!ctlVars, R!procOnly,
        RP!procOnly, R!taskOnly, RP!taskOnly, R!monitorOnly, RP!monitorOnly, R!DONE, RP!DONE,
        R!NoSample, RP!NoSample, R!Smaller, RP!Smaller, R!Live, RP!Live, R!ActiveCount,
        RP!ActiveCount, R!ShouldPause, RP!ShouldPause, R!Ended, RP!Ended, R!Yielded, RP!Yielded,
        R!Queued, RP!Queued, R!Enters, RP!Enters, R!Release, RP!Release, R!Keep, RP!Keep,
        R!Enqueue, RP!Enqueue, R!Notify, RP!Notify, R!LoopGoesOn, RP!LoopGoesOn, R!NextStage,
        RP!NextStage, R!Reaping, RP!Reaping, R!NeedsLock, RP!NeedsLock, R!ProcEnters,
        RP!ProcEnters, R!BindDone, RP!BindDone, R!GetCancelled, RP!GetCancelled, R!IsDone,
        RP!IsDone, R!PutBack, RP!PutBack, R!Pausing, RP!Pausing, R!Updating, RP!Updating,
        R!Resuming, RP!Resuming, R!Call, RP!Call, R!GatherLocked, RP!GatherLocked, R!NotQueued,
        RP!NotQueued, R!Stale, RP!Stale, R!Recovers, RP!Recovers, R!StreamOver, RP!StreamOver,
        R!Sample, RP!Sample, R!vars, RP!vars, R!Finished, RP!Finished, R!Cardinality,
        RP!Cardinality
<1>1. R!ProcessorStep <=> RP!ProcessorStep
  BY DEF R!ProcessorStep, RP!ProcessorStep, R!ProcCheck, RP!ProcCheck, R!ProcLeaveLoop,
     RP!ProcLeaveLoop, R!ProcAwaitLock, RP!ProcAwaitLock, R!ProcSetPaused, RP!ProcSetPaused,
     R!ProcAwaitTasks, RP!ProcAwaitTasks, R!ProcNothingToReap, RP!ProcNothingToReap, R!ProcReap,
     RP!ProcReap, R!ProcAwaitCondition, RP!ProcAwaitCondition, R!ProcResumed, RP!ProcResumed,
     R!ProcTakeCancelled, RP!ProcTakeCancelled, R!ProcAwaitPending, RP!ProcAwaitPending,
     R!ProcTakePending, RP!ProcTakePending, R!ProcSubmit, RP!ProcSubmit
<1>2. \A s \in R!Sample : R!TaskStep(s) <=> RP!TaskStep(s)
  BY DEF R!TaskStep, RP!TaskStep, R!TaskStart, RP!TaskStart, R!ServerInterrupt,
     RP!ServerInterrupt, R!TaskCancelled, RP!TaskCancelled, R!TaskGenerated, RP!TaskGenerated,
     R!TaskReported, RP!TaskReported, R!TaskFails, RP!TaskFails
<1>3. R!ControlStep <=> RP!ControlStep
  BY DEF R!ControlStep, RP!ControlStep, R!PauseCalled, RP!PauseCalled, R!UpdateCalled,
     RP!UpdateCalled, R!ControlPause, RP!ControlPause, R!ControlGathered, RP!ControlGathered,
     R!ControlUpdate, RP!ControlUpdate, R!ControlReset, RP!ControlReset, R!ControlPublished,
     RP!ControlPublished, R!ControlResume, RP!ControlResume
<1>4. R!MonitorStep <=> RP!MonitorStep
  BY DEF R!MonitorStep, RP!MonitorStep, R!MonitorCheckRunning, RP!MonitorCheckRunning,
     R!MonitorSkip, RP!MonitorSkip, R!MonitorAwaitLock, RP!MonitorAwaitLock, R!MonitorRecover,
     RP!MonitorRecover
<1>5. /\ R!Feed <=> RP!Feed
      /\ R!MainStep <=> RP!MainStep
      /\ \A c : R!AwaitLock(c) <=> RP!AwaitLock(c)
      /\ R!Terminated <=> RP!Terminated
  BY DEF R!Feed, RP!Feed, R!MainStep, RP!MainStep, R!MainSentinel, RP!MainSentinel, R!MainStop,
     RP!MainStop, R!AwaitLock, RP!AwaitLock, R!Terminated, RP!Terminated
<1>6. R!Sample = RP!Sample
  OBVIOUS
<1> HIDE DEF R!Sample, RP!Sample
<1> QED BY <1>1, <1>2, <1>3, <1>4, <1>5, <1>6 DEF R!Next, RP!Next

(* What the rollouter keeps to, step by step.                              *)
Rollout == RP!TypeOK /\ RP!NoDoubleSubmit /\ RP!Placed /\ RP!LockHeld /\ RP!Counted

LEMMA RolloutAtStart == R!Init => Rollout
<1> SUFFICES ASSUME RP!Init PROVE Rollout
  BY SameInit
<1>1. RP!TypeOK
  BY RolloutAssumed, RP!TypeAtStart
<1>2. RP!NoDoubleSubmit
  BY DEF RP!Init, RP!NoDoubleSubmit, RP!NoSample, RP!Live
<1>3. RP!LockHeld /\ RP!Counted
  <2>1. control = "idle" /\ blocked = "no"
    BY DEF RP!Init
  <2> QED BY <2>1 DEF RP!LockHeld, RP!Counted
<1>4. RP!Placed
  BY RolloutAssumed, RP!PlacedAtStart
<1> QED BY <1>1, <1>2, <1>3, <1>4 DEF Rollout

LEMMA RolloutStep == Rollout /\ [R!Next]_(R!vars) => Rollout'
<1> SUFFICES ASSUME Rollout, [RP!Next]_(RP!vars) PROVE Rollout'
  BY SameNext, SameVars
<1>1. RP!TypeOK'
  BY RolloutAssumed, RP!TypeStep DEF Rollout
<1>2. RP!NoDoubleSubmit'
  BY <1>1, RolloutAssumed, RP!OnceStep DEF Rollout
<1>3. RP!Placed'
  BY <1>1, RolloutAssumed, RP!PlacedStep DEF Rollout
<1>4. RP!LockHeld'
  BY RolloutAssumed, RP!LockHeldStep DEF Rollout
<1>5. RP!Counted'
  BY <1>1, RolloutAssumed, RP!CountedStep DEF Rollout
<1> QED BY <1>1, <1>2, <1>3, <1>4, <1>5 DEF Rollout
-----------------------------------------------------------------------------
(* The inductive invariant of the system, in parts.                        *)

(* The queue, the validations, the batch and the stamps hold what they     *)
(* should, and no version that the trainer cannot have reached.            *)
Kinds ==
    /\ queue \in Seq(Item) /\ Len(queue) <= MaxRequired
    /\ valQueue \in Seq(Version)
    /\ batch \in Seq(Item)
    /\ stamp \in [R!Sample -> Version]
    /\ getter \in [{"trainer"} -> MQ!GetterState]
    /\ produced \in Nat /\ consumed \in Nat /\ dropped \in Nat /\ cleared \in Nat
    /\ paramVersion \in Nat /\ syncVersion \in Nat /\ serverVersion \in Nat
    /\ trainVersion \in Nat

(* Where the trainer's batch and its count of steps are, by its phase; the *)
(* loop, once closed, is not entered again.                                *)
Training ==
    /\ phase \in T!Phase
    /\ closing \in BOOLEAN
    /\ localStep \in 1..TriggerStep
    /\ phase = "train" => Len(batch) = Required
    /\ phase = "collect" => Len(batch) < Required
    /\ phase \notin {"collect", "train"} => batch = <<>>
    /\ phase \in {"await", "sync", "last"} => localStep = 1
    /\ closing => phase \in {"close", "await", "sync", "last", "end"}
    /\ phase \in {"close", "last", "end"} => closing

(* Where a synchronization is: the trainer waits in sync_weights(), which  *)
(* waits for pause(); what it launches and does not wait for is over when  *)
(* wait_last_valid() returns.  So each version is one ahead of the next.   *)
Handshake ==
    /\ trainVersion = IF phase = "await" THEN syncVersion + 1 ELSE syncVersion
    /\ sync \in {"idle", "pausing", "transfer"}
    /\ sync = "idle" =>
          /\ phase # "sync"
          /\ control \in {"idle", "update", "count", "validated", "resume"}
          /\ serverVersion = syncVersion /\ paramVersion = syncVersion
          /\ syncVersion = IF control = "update" THEN rollVersion + 1 ELSE rollVersion
    /\ sync # "idle" =>
          /\ phase = "sync"
          /\ serverVersion = rollVersion /\ syncVersion = rollVersion + 1
    /\ sync = "pausing" => /\ control \in {"pause", "gather", "paused"}
                           /\ paramVersion = rollVersion
    /\ sync = "transfer" => control = "paused" /\ paramVersion = syncVersion

(* Every sample is counted once, with the rollouter or put, and the marker *)
(* put once; each version of the trainer took a sample, the last one the   *)
(* marker.  So there are no more versions than puts.                       *)
Carried == RP!Load + produced + failures

Accounts ==
    /\ produced = consumed + dropped + cleared + Len(queue)
    /\ main = "stream" => Carried <= taken /\ Carried <= TotalSamples
    /\ main # "stream" => /\ Carried <= taken + 1 /\ Carried <= TotalSamples + 1
                          /\ R!Ended
    /\ trainVersion + Len(batch) <= consumed
    /\ phase = "close" => trainVersion < consumed

SystemInv == Rollout /\ Kinds /\ Training /\ Handshake /\ Accounts

LEMMA RolloutTypes ==
    ASSUME Rollout
    PROVE  /\ task \in [R!Sample -> R!TaskState]
           /\ cancelQueue \in Seq(R!Sample)
           /\ fed \in Nat /\ taken \in Nat /\ taken <= TotalSamples + 1 /\ taken <= fed
           /\ hand \in R!Sample \cup {R!NoSample}
           /\ failures \in Nat /\ rollVersion \in Nat /\ staleness \in Nat /\ counted \in Nat
           /\ control \in RP!Phases /\ main \in {"stream", "stop", "end"}
           /\ RP!Busy \in Nat /\ RP!Load \in Nat
<1>1. RP!Busy \in Nat /\ RP!Load \in Nat
  BY RolloutAssumed, RP!LoadType DEF Rollout
<1>2. R!TaskState = RP!TaskState
  BY DEF R!TaskState, RP!TaskState
<1> QED BY <1>1, <1>2, SameSets, FullyAsyncAssumption DEF Rollout, RP!TypeOK, RP!Placed

(* No version is past what the samples and the marker allow.               *)
LEMMA VersionsBounded ==
    ASSUME SystemInv
    PROVE  /\ trainVersion <= TotalSamples + 1
           /\ phase = "close" => trainVersion < TotalSamples + 1
           /\ {paramVersion, syncVersion, serverVersion, trainVersion, rollVersion} \subseteq Version
<1>0. /\ produced \in Nat /\ consumed \in Nat /\ dropped \in Nat /\ cleared \in Nat
      /\ trainVersion \in Nat /\ syncVersion \in Nat
      /\ Len(batch) \in Nat /\ Len(queue) \in Nat
  BY DEF SystemInv, Kinds
<1>1. /\ consumed <= produced /\ produced \in Nat /\ consumed \in Nat
      /\ trainVersion \in Nat /\ syncVersion \in Nat /\ rollVersion \in Nat
      /\ Len(batch) \in Nat /\ TotalSamples \in Nat
  BY <1>0, RolloutTypes, FullyAsyncAssumption DEF SystemInv, Accounts
<1>2. produced <= TotalSamples + 1
  <2>1. RP!Load \in Nat /\ failures \in Nat
    BY RolloutTypes DEF SystemInv
  <2> QED BY <1>1, <2>1 DEF SystemInv, Accounts, Carried
<1>3. trainVersion <= TotalSamples + 1 /\ (phase = "close" => trainVersion < TotalSamples + 1)
  BY <1>1, <1>2 DEF SystemInv, Accounts
<1>4. syncVersion <= trainVersion
  BY <1>1 DEF SystemInv, Handshake
<1>5. /\ rollVersion <= syncVersion /\ serverVersion \in {rollVersion, syncVersion}
      /\ paramVersion \in {rollVersion, syncVersion}
  BY <1>1 DEF SystemInv, Handshake
<1> QED BY <1>1, <1>3, <1>4, <1>5 DEF Version

-----------------------------------------------------------------------------
(* The steps of the system, by what they touch.                            *)

(* The steps of the rollouter alone; none is part of a synchronization.    *)
Rolls ==
    \/ Processor
    \/ Feeder
    \/ \E s \in R!Sample : TaskMoves(s) \/ TaskFails(s)
    \/ Monitor
    \/ MainStops

(* Every step of the system is a step of the rollouter, or none: the queue *)
(* has a size the rollouter is ready for, and a synchronization is called  *)
(* only when the last one is over, for the version after the last.         *)
LEMMA StepOfRollouter ==
    ASSUME SystemInv, [Next]_vars
    PROVE  [R!Next]_(R!vars)
<1>1. QueueSize \in 0..MaxRequired
  BY Sizes DEF SystemInv, Kinds, QueueSize
<1>2. CASE Processor \/ Feeder
  BY <1>1, <1>2 DEF Processor, Feeder, R!Next, R!ProcessorStep
<1>3. CASE \E s \in R!Sample : TaskMoves(s) \/ TaskPuts(s) \/ TaskFails(s)
  BY <1>3 DEF TaskMoves, TaskPuts, TaskFails, R!Next, R!TaskStep
<1>4. CASE Monitor
  BY <1>1, <1>4 DEF Monitor, R!Next, R!MonitorStep
<1>5. CASE MainPutsSentinel \/ MainStops
  BY <1>5 DEF MainPutsSentinel, MainStops, R!Next, R!MainStep
<1>6. CASE Control \/ ControlPublishes
  <2>1. ASSUME R!ControlUpdate(syncVersion) PROVE R!ControlUpdate(rollVersion + 1)
    <3>1. control = "update"
      BY <2>1 DEF R!ControlUpdate, R!Updating
    <3>2. syncVersion = rollVersion + 1
      BY <3>1 DEF SystemInv, Handshake
    <3> QED BY <2>1, <3>2
  <2> QED BY <1>1, <1>6, <2>1 DEF Control, ControlPublishes, Updates, R!Next, R!ControlStep
<1>7. CASE SyncPauses
  <2>1. phase = "await" /\ sync = "idle" /\ control = "idle" /\ R!PauseCalled
    BY <1>7 DEF SyncPauses, LastSyncOver, T!StartSync
  <2>2. trainVersion = rollVersion + 1 /\ rollVersion \in Nat /\ TotalSamples \in Nat
    BY <2>1, RolloutTypes, FullyAsyncAssumption DEF SystemInv, Handshake
  <2>3. rollVersion < TotalSamples + 1
    BY <2>2, VersionsBounded
  <2> QED BY <2>1, <2>3 DEF R!Next, R!ControlStep
<1>8. CASE SyncTransfers
  BY <1>8 DEF SyncTransfers, R!Next, R!ControlStep
<1>9. CASE UNCHANGED rollVars
  BY <1>9 DEF rollVars, R!vars, R!feedVars, R!procVars, R!taskVars, R!lockVars, R!flagVars,
     R!ctlVars
<1> QED BY <1>2, <1>3, <1>4, <1>5, <1>6, <1>7, <1>8, <1>9
        DEF Next, Terminated, vars, TrainerAwaitsSample, TrainerGetsSample, TrainerTrains,
            TrainerLogs, SyncUpdatesQueue, TrainerCloses, RunnerClears

LEMMA RolloutKept == SystemInv /\ [Next]_vars => Rollout'
  BY StepOfRollouter, RolloutStep DEF SystemInv

LEMMA EndedKept ==
    ASSUME SystemInv, [Next]_vars, R!Ended
    PROVE  R!Ended' /\ (stage' = "done" => stage = "done")
<1>1. [RP!Next]_(RP!vars)
  BY StepOfRollouter, SameNext, SameVars
<1> QED BY <1>1, RolloutAssumed, RP!EndedStays DEF R!Ended, RP!Ended

LEMMA RollsShape ==
    ASSUME Rolls
    PROVE  /\ UNCHANGED <<queueVars, trainVars, syncVars, runner>>
           /\ control' = control /\ rollVersion' = rollVersion
           /\ main' = main \/ (main = "stop" /\ main' = "end")
<1>1. UNCHANGED <<queueVars, trainVars, syncVars, runner>>
  BY DEF Rolls, Processor, Feeder, TaskMoves, TaskFails, Monitor, MainStops
<1> USE DEF R!feedVars, R!procVars, R!taskVars, R!lockVars, R!flagVars, R!ctlVars, R!procOnly,
        R!taskOnly, R!monitorOnly
<1>2. CASE Processor
  <2>1. UNCHANGED <<R!ctlVars, main>>
    BY <1>2 DEF Processor, R!ProcCheck, R!ProcLeaveLoop, R!ProcAwaitLock, R!ProcSetPaused,
       R!ProcAwaitTasks, R!ProcNothingToReap, R!ProcReap, R!ProcAwaitCondition, R!ProcResumed,
       R!ProcTakeCancelled, R!ProcAwaitPending, R!ProcTakePending, R!ProcSubmit
  <2> QED BY <1>1, <2>1
<1>3. CASE Feeder \/ MainStops
  <2>1. R!Feed \/ R!MainStop \/ R!AwaitLock("main")
    BY <1>3 DEF Feeder, MainStops
  <2> QED BY <1>1, <2>1 DEF R!Feed, R!MainStop, R!AwaitLock
<1>4. CASE \E s \in R!Sample : TaskMoves(s) \/ TaskFails(s)
  <2>1. \E s \in R!Sample : \/ R!TaskStart(s) \/ R!ServerInterrupt(s) \/ R!TaskCancelled(s)
                            \/ R!TaskGenerated(s) \/ R!TaskFails(s)
    BY <1>4 DEF TaskMoves, TaskFails
  <2> QED BY <1>1, <2>1 DEF R!TaskStart, R!ServerInterrupt, R!TaskCancelled, R!TaskGenerated,
             R!TaskFails
<1>5. CASE Monitor
  <2>1. UNCHANGED <<R!ctlVars, main>>
    BY <1>5 DEF Monitor, R!MonitorCheckRunning, R!MonitorSkip, R!MonitorAwaitLock,
       R!MonitorRecover, R!AwaitLock
  <2> QED BY <1>1, <2>1
<1> QED BY <1>2, <1>3, <1>4, <1>5 DEF Rolls

(* A put keeps the queue within its size, and counts what it drops.        *)
LEMMA PutShape ==
    ASSUME Kinds, NEW item \in Item, MQ!PutSample(item)
    PROVE  /\ queue' \in Seq(Item) /\ Len(queue') <= MaxRequired
           /\ Len(queue') + dropped' = Len(queue) + dropped + 1
           /\ \/ queue' = Append(queue, item) /\ Len(queue) < MaxRequired
              \/ /\ queue' = Append(Tail(queue), item) /\ queue # <<>>
                 /\ Len(queue) = MaxRequired
           /\ dropped' \in Nat /\ produced' = produced + 1
           /\ getter' \in [{"trainer"} -> MQ!GetterState]
           /\ UNCHANGED <<valQueue, paramVersion, open, consumed, cleared>>
<1>1. /\ queue \in Seq(Item) /\ Len(queue) <= MaxRequired /\ MaxRequired \in Nat \ {0}
      /\ dropped \in Nat /\ Len(queue) \in Nat
  BY Sizes DEF Kinds
<1>2. getter' \in [{"trainer"} -> MQ!GetterState]
  BY DEF Kinds, MQ!PutSample, MQ!NotifyAll, MQ!GetterState
<1>3. /\ produced' = produced + 1
      /\ UNCHANGED <<valQueue, paramVersion, open, consumed, cleared>>
      /\ queue' = Append(MQ!MakeRoom, item)
      /\ dropped' = dropped + (IF MQ!IsFull THEN 1 ELSE 0)
  BY DEF MQ!PutSample
<1>4. CASE Len(queue) < MaxRequired
  <2>1. queue' = Append(queue, item) /\ dropped' = dropped
    BY <1>1, <1>3, <1>4 DEF MQ!MakeRoom, MQ!IsFull
  <2>2. Len(queue') = Len(queue) + 1 /\ queue' \in Seq(Item)
    BY <1>1, <2>1
  <2>3. Len(queue') + dropped' = Len(queue) + dropped + 1 /\ Len(queue') <= MaxRequired
    BY <1>1, <1>4, <2>1, <2>2
  <2> QED BY <1>1, <1>2, <1>3, <1>4, <2>1, <2>2, <2>3
<1>5. CASE Len(queue) = MaxRequired
  <2>1. queue' = Append(Tail(queue), item) /\ dropped' = dropped + 1 /\ queue # <<>>
    BY <1>1, <1>3, <1>5 DEF MQ!MakeRoom, MQ!IsFull
  <2>2. Tail(queue) \in Seq(Item) /\ Len(Tail(queue)) = Len(queue) - 1
    BY <1>1, <2>1
  <2>3. Len(queue') = Len(queue) /\ queue' \in Seq(Item)
    BY <1>1, <2>1, <2>2
  <2>4. Len(queue') + dropped' = Len(queue) + dropped + 1 /\ Len(queue') <= MaxRequired
    BY <1>1, <1>5, <2>1, <2>3
  <2> QED BY <1>1, <1>2, <1>3, <1>5, <2>1, <2>3, <2>4
<1> QED BY <1>1, <1>4, <1>5

(* The steps of Next: those of the rollouter alone, and the others.        *)
LEMMA StepCases ==
    ASSUME [Next]_vars
    PROVE  \/ Rolls \/ (\E s \in R!Sample : TaskPuts(s)) \/ MainPutsSentinel
           \/ Control \/ ControlPublishes
           \/ TrainerAwaitsSample \/ TrainerGetsSample \/ TrainerTrains \/ TrainerLogs
           \/ SyncPauses \/ SyncUpdatesQueue \/ SyncTransfers \/ TrainerCloses
           \/ RunnerClears \/ UNCHANGED vars
  BY DEF Next, Rolls, Terminated

(* The steps that leave the queue actor, the trainer, and the synchronizer *)
(* alone.                                                                  *)
LEMMA ControlShape ==
    ASSUME Control \/ ControlPublishes
    PROVE  /\ UNCHANGED <<trainVars, syncVars, runner>>
           /\ UNCHANGED <<queue, produced, consumed, dropped, cleared, getter, paramVersion>>
           /\ main' = main /\ UNCHANGED <<taken, cancelQueue, hand, task, stamp, stage, failures>>
           /\ \/ Control /\ valQueue' = valQueue
              \/ ControlPublishes /\ valQueue' = Append(valQueue, rollVersion)
           /\ \/ control = "pause" /\ control' = "gather" /\ rollVersion' = rollVersion
              \/ control = "gather" /\ control' = "paused" /\ rollVersion' = rollVersion
              \/ control = "update" /\ control' = "count" /\ rollVersion' = syncVersion
              \/ control = "count" /\ control' = "validated" /\ rollVersion' = rollVersion
              \/ /\ control = "validated" /\ control' = "resume" /\ rollVersion' = rollVersion
                 /\ ControlPublishes
              \/ control = "resume" /\ control' = "idle" /\ rollVersion' = rollVersion
              \/ control' = control /\ rollVersion' = rollVersion
           /\ ControlPublishes => control = "validated" /\ control' = "resume"
<1> USE DEF R!feedVars, R!procVars, R!taskVars, R!lockVars, R!flagVars, R!ctlVars
<1>1. CASE Control
  <2>1. UNCHANGED <<queueVars, trainVars, syncVars, runner>>
    BY <1>1 DEF Control
  <2>2. \/ R!ControlPause \/ R!ControlGathered \/ Updates
        \/ R!ControlReset(QueueSize) \/ R!ControlResume \/ R!AwaitLock("control")
    BY <1>1 DEF Control
  <2>3. UNCHANGED <<main, taken, cancelQueue, hand, task, stamp, stage, failures>>
    BY <2>2 DEF R!ControlPause, R!ControlGathered, Updates, R!ControlUpdate, R!ControlReset,
       R!ControlResume, R!AwaitLock
  <2>4. \/ control = "pause" /\ control' = "gather" /\ rollVersion' = rollVersion
        \/ control = "gather" /\ control' = "paused" /\ rollVersion' = rollVersion
        \/ control = "update" /\ control' = "count" /\ rollVersion' = syncVersion
        \/ control = "count" /\ control' = "validated" /\ rollVersion' = rollVersion
        \/ control = "resume" /\ control' = "idle" /\ rollVersion' = rollVersion
        \/ control' = control /\ rollVersion' = rollVersion
    BY <2>2 DEF R!ControlPause, R!ControlGathered, Updates, R!ControlUpdate, R!ControlReset,
       R!ControlResume, R!AwaitLock, R!Pausing, R!Updating, R!Resuming
  <2>5. ControlPublishes => control = "validated" /\ control' = "resume"
    BY DEF ControlPublishes, R!ControlPublished
  <2> QED BY <1>1, <2>1, <2>3, <2>4, <2>5 DEF queueVars
<1>2. CASE ControlPublishes
  <2>1. R!ControlPublished /\ MQ!PutValidate(rollVersion) /\ UNCHANGED <<trainVars, syncVars, runner>>
    BY <1>2 DEF ControlPublishes
  <2>2. UNCHANGED <<main, taken, cancelQueue, hand, task, stamp, stage, failures, rollVersion>>
        /\ control = "validated" /\ control' = "resume"
    BY <2>1 DEF R!ControlPublished
  <2>3. /\ UNCHANGED <<queue, produced, consumed, dropped, cleared, getter, paramVersion>>
        /\ valQueue' = Append(valQueue, rollVersion)
    BY <2>1 DEF MQ!PutValidate, MQ!counters
  <2> QED BY <1>2, <2>1, <2>2, <2>3
<1> QED BY <1>1, <1>2

-----------------------------------------------------------------------------
(* The parts of the invariant, one after the other.                        *)

LEMMA StampsKept ==
    ASSUME SystemInv, [Next]_vars
    PROVE  stamp' \in [R!Sample -> Version]
<1>1. [RP!Next]_(RP!vars)
  BY StepOfRollouter, SameNext, SameVars
<1>2. stamp \in [R!Sample -> Version] /\ rollVersion \in Version /\ 0 \in Version
  BY VersionsBounded, FullyAsyncAssumption DEF SystemInv, Kinds, Version
<1>3. \/ \E s \in RP!Sample : RP!TaskGenerated(s) \/ RP!TaskReported(s)
      \/ stamp' = stamp
  BY <1>1, RolloutAssumed, RP!WhoStamps DEF SystemInv, Rollout
<1> QED BY <1>2, <1>3, SameSets DEF RP!TaskGenerated, RP!TaskReported

LEMMA KindsStep == SystemInv /\ [Next]_vars => Kinds'
<1> SUFFICES ASSUME SystemInv, [Next]_vars PROVE Kinds'
  OBVIOUS
<1>1. stamp' \in [R!Sample -> Version]
  BY StampsKept
<1>2. /\ queue \in Seq(Item) /\ Len(queue) <= MaxRequired /\ MaxRequired \in Nat
      /\ valQueue \in Seq(Version) /\ batch \in Seq(Item)
  BY Sizes DEF SystemInv, Kinds
<1>3. /\ getter \in [{"trainer"} -> MQ!GetterState]
      /\ produced \in Nat /\ consumed \in Nat /\ dropped \in Nat /\ cleared \in Nat
      /\ paramVersion \in Nat /\ syncVersion \in Nat /\ serverVersion \in Nat
      /\ trainVersion \in Nat
  BY DEF SystemInv, Kinds
<1>4. rollVersion \in Version /\ Kinds
  BY VersionsBounded DEF SystemInv
<1>5. CASE Rolls \/ UNCHANGED vars
  <2>1. UNCHANGED <<queueVars, trainVars, syncVars>>
    BY <1>5, RollsShape DEF vars
  <2> QED BY <1>1, <1>2, <1>3, <2>1 DEF Kinds, queueVars, trainVars, syncVars
<1>6. CASE Control \/ ControlPublishes
  <2>1. /\ UNCHANGED <<trainVars, syncVars>>
        /\ UNCHANGED <<queue, produced, consumed, dropped, cleared, getter, paramVersion>>
        /\ valQueue' = valQueue \/ valQueue' = Append(valQueue, rollVersion)
    BY <1>6, ControlShape
  <2>2. valQueue' \in Seq(Version)
    BY <1>2, <1>4, <2>1
  <2>3. UNCHANGED <<batch, trainVersion, syncVersion, serverVersion>>
    BY <2>1 DEF trainVars, syncVars
  <2> QED BY <1>1, <1>2, <1>3, <2>1, <2>2, <2>3 DEF Kinds
<1>7. ASSUME NEW item \in Item, MQ!PutSample(item), UNCHANGED <<trainVars, syncVars>>
      PROVE  Kinds'
  <2>1. /\ queue' \in Seq(Item) /\ Len(queue') <= MaxRequired
        /\ dropped' \in Nat /\ produced' = produced + 1
        /\ getter' \in [{"trainer"} -> MQ!GetterState]
        /\ UNCHANGED <<valQueue, paramVersion, consumed, cleared>>
    BY <1>4, <1>7, PutShape
  <2> QED BY <1>1, <1>2, <1>3, <1>7, <2>1 DEF Kinds, trainVars, syncVars
<1>8. CASE \E s \in R!Sample : TaskPuts(s)
  <2>1. PICK s \in R!Sample : TaskPuts(s)
    BY <1>8
  <2>2. Stamped(s) \in Item
    BY SameSets DEF Stamped, Item, SystemInv, Kinds
  <2> QED BY <1>7, <2>1, <2>2 DEF TaskPuts
<1>9. CASE MainPutsSentinel
  <2>1. Sentinel \in Item
    BY <1>4, SameSets, FullyAsyncAssumption DEF Sentinel, Item
  <2> QED BY <1>7, <1>9, <2>1 DEF MainPutsSentinel
<1>10. CASE TrainerAwaitsSample
  <2>1. /\ UNCHANGED <<trainVars, syncVars>> /\ UNCHANGED <<queue, valQueue, paramVersion>>
        /\ UNCHANGED <<produced, consumed, dropped, cleared>>
        /\ getter' \in [{"trainer"} -> MQ!GetterState]
    BY <1>3, <1>10 DEF TrainerAwaitsSample, MQ!AwaitSample, MQ!counters, MQ!GetterState
  <2> QED BY <1>1, <1>2, <1>3, <2>1 DEF Kinds, trainVars, syncVars
<1>11. CASE TrainerGetsSample
  <2>1. /\ queue # <<>> /\ queue' = Tail(queue) /\ consumed' = consumed + 1
        /\ UNCHANGED <<valQueue, paramVersion, produced, dropped, cleared, syncVars>>
        /\ getter' \in [{"trainer"} -> MQ!GetterState]
    BY <1>3, <1>11 DEF TrainerGetsSample, MQ!GetSample, MQ!PopLeft, MQ!GetterState
  <2>2. batch' \in Seq(Item) /\ trainVersion' = trainVersion
    <3>1. Head(queue) \in Item
      BY <1>2, <2>1
    <3> QED BY <1>2, <1>11, <3>1 DEF TrainerGetsSample, T!Collect
  <2>3. queue' \in Seq(Item) /\ Len(queue') <= MaxRequired
    BY <1>2, <2>1
  <2> QED BY <1>1, <1>2, <1>3, <2>1, <2>2, <2>3 DEF Kinds, syncVars
<1>12. CASE TrainerTrains
  <2>1. batch' = <<>> /\ trainVersion' \in Nat /\ UNCHANGED <<queueVars, syncVars>>
    BY <1>3, <1>12 DEF TrainerTrains, T!Train
  <2> QED BY <1>1, <1>2, <1>3, <2>1 DEF Kinds, queueVars, syncVars
<1>13. CASE TrainerLogs \/ TrainerCloses
  <2>1. /\ valQueue' = (IF valQueue = <<>> THEN <<>> ELSE Tail(valQueue))
        /\ UNCHANGED <<queue, paramVersion, produced, consumed, dropped, cleared, getter, syncVars>>
    BY <1>13 DEF TrainerLogs, TrainerCloses, MQ!GetValidate, MQ!counters
  <2>2. batch' = batch /\ trainVersion' \in Nat
    BY <1>3, <1>13 DEF TrainerLogs, TrainerCloses, T!Log, T!Close, T!CloseAfterSync
  <2>3. valQueue' \in Seq(Version)
    BY <1>2, <2>1
  <2> QED BY <1>1, <1>2, <1>3, <2>1, <2>2, <2>3 DEF Kinds, syncVars
<1>14. CASE SyncPauses \/ SyncUpdatesQueue \/ SyncTransfers
  <2>1. /\ UNCHANGED <<queue, valQueue, produced, consumed, dropped, cleared, getter>>
        /\ UNCHANGED <<batch, trainVersion>>
        /\ paramVersion' \in {paramVersion, syncVersion}
        /\ syncVersion' \in {syncVersion, trainVersion}
        /\ serverVersion' \in {serverVersion, syncVersion}
    BY <1>14 DEF SyncPauses, SyncUpdatesQueue, SyncTransfers, T!StartSync, T!SyncReturned,
       PS!Pause, PS!UpdateQueue, PS!Transfer, MQ!UpdateParamVersion, MQ!counters, queueVars,
       trainVars
  <2> QED BY <1>1, <1>2, <1>3, <2>1 DEF Kinds
<1>15. CASE RunnerClears
  <2>1. /\ queue' = <<>> /\ cleared' = cleared + Len(queue)
        /\ UNCHANGED <<valQueue, paramVersion, produced, consumed, dropped, getter>>
        /\ UNCHANGED <<trainVars, syncVars>>
    BY <1>15 DEF RunnerClears, MQ!ClearQueue
  <2>2. cleared' \in Nat /\ queue' \in Seq(Item) /\ Len(queue') <= MaxRequired
    BY <1>2, <1>3, <2>1
  <2> QED BY <1>1, <1>2, <1>3, <2>1, <2>2 DEF Kinds, trainVars, syncVars
<1> QED BY <1>5, <1>6, <1>8, <1>9, <1>10, <1>11, <1>12, <1>13, <1>14, <1>15, StepCases

LEMMA TrainingStep == SystemInv /\ [Next]_vars => Training'
<1> SUFFICES ASSUME SystemInv, [Next]_vars PROVE Training'
  OBVIOUS
<1>1. Training /\ batch \in Seq(Item)
  BY DEF SystemInv, Kinds
<1>2. Required \in Nat \ {0} /\ TriggerStep \in Nat \ {0}
  BY FullyAsyncAssumption
<1>3. CASE UNCHANGED trainVars
  BY <1>1, <1>3 DEF Training, trainVars
<1>4. CASE TrainerGetsSample
  <2>1. PICK isEnd \in BOOLEAN : T!Collect(Head(queue), isEnd)
    BY <1>4 DEF TrainerGetsSample, IsSentinel
  <2>2. Head(queue) \in Item
    BY <1>4 DEF TrainerGetsSample, MQ!GetSample, SystemInv, Kinds
  <2>3. Len(batch') \in Nat /\ (~isEnd => Len(batch') = Len(batch) + 1)
    BY <1>1, <2>1, <2>2 DEF T!Collect
  <2> QED BY <1>1, <1>2, <2>1, <2>3 DEF Training, T!Collect, T!Phase
<1>5. CASE TrainerTrains
  BY <1>1, <1>2, <1>5 DEF Training, TrainerTrains, T!Train, T!NoSyncYet, T!Phase
<1>6. CASE TrainerLogs \/ SyncPauses \/ SyncTransfers
  BY <1>1, <1>2, <1>6 DEF Training, TrainerLogs, SyncPauses, SyncTransfers, T!Log,
     T!StartSync, T!SyncReturned, T!Phase
<1>7. CASE TrainerCloses
  BY <1>1, <1>2, <1>7 DEF Training, TrainerCloses, T!Close, T!CloseAfterSync, T!Phase
<1>8. CASE Rolls \/ UNCHANGED vars \/ Control \/ ControlPublishes
  BY <1>3, <1>8, RollsShape, ControlShape DEF vars
<1>9. CASE \/ \E s \in R!Sample : TaskPuts(s)
           \/ MainPutsSentinel \/ TrainerAwaitsSample \/ SyncUpdatesQueue \/ RunnerClears
  BY <1>3, <1>9 DEF TaskPuts, MainPutsSentinel, TrainerAwaitsSample, SyncUpdatesQueue,
     RunnerClears
<1> QED BY <1>4, <1>5, <1>6, <1>7, <1>8, <1>9, StepCases

LEMMA HandshakeStep == SystemInv /\ [Next]_vars => Handshake'
<1> SUFFICES ASSUME SystemInv, [Next]_vars PROVE Handshake'
  OBVIOUS
<1>1. Handshake /\ Training
  BY DEF SystemInv
<1>2. /\ paramVersion \in Nat /\ syncVersion \in Nat /\ serverVersion \in Nat
      /\ trainVersion \in Nat /\ rollVersion \in Nat
  BY RolloutTypes DEF SystemInv, Kinds
<1> DEFINE Parts == <<trainVersion, syncVersion, phase, sync, control, serverVersion,
                      paramVersion, rollVersion>>
<1>3. CASE UNCHANGED Parts
  BY <1>1, <1>3 DEF Handshake
<1>4. CASE Rolls \/ UNCHANGED vars
  <2>1. UNCHANGED <<queueVars, trainVars, syncVars>> /\ UNCHANGED <<control, rollVersion>>
    BY <1>4, RollsShape DEF vars, rollVars
  <2> QED BY <1>3, <2>1 DEF queueVars, trainVars, syncVars
<1>5. CASE Control \/ ControlPublishes
  <2>1. UNCHANGED <<trainVersion, syncVersion, phase, sync, serverVersion, paramVersion>>
    BY <1>5, ControlShape DEF trainVars, syncVars
  <2>2. \/ control = "pause" /\ control' = "gather" /\ rollVersion' = rollVersion
        \/ control = "gather" /\ control' = "paused" /\ rollVersion' = rollVersion
        \/ control = "update" /\ control' = "count" /\ rollVersion' = syncVersion
        \/ control = "count" /\ control' = "validated" /\ rollVersion' = rollVersion
        \/ control = "validated" /\ control' = "resume" /\ rollVersion' = rollVersion
        \/ control = "resume" /\ control' = "idle" /\ rollVersion' = rollVersion
        \/ control' = control /\ rollVersion' = rollVersion
    BY <1>5, ControlShape
  <2> QED BY <1>1, <1>2, <2>1, <2>2 DEF Handshake
<1>6. CASE (\E s \in R!Sample : TaskPuts(s)) \/ MainPutsSentinel
  <2>1. /\ UNCHANGED <<paramVersion, trainVars, syncVars>>
        /\ UNCHANGED <<control, rollVersion>>
    BY <1>6 DEF TaskPuts, MainPutsSentinel, MQ!PutSample, R!TaskReported, R!MainSentinel,
       R!taskOnly, R!ctlVars
  <2> QED BY <1>3, <2>1 DEF trainVars, syncVars
<1>7. CASE TrainerAwaitsSample \/ RunnerClears
  <2>1. UNCHANGED <<paramVersion, rollVars, trainVars, syncVars>>
    BY <1>7 DEF TrainerAwaitsSample, RunnerClears, MQ!AwaitSample, MQ!ClearQueue
  <2> QED BY <1>3, <2>1 DEF rollVars, trainVars, syncVars
<1>8. CASE TrainerGetsSample
  <2>1. /\ UNCHANGED <<paramVersion, rollVars, syncVars>> /\ trainVersion' = trainVersion
        /\ phase = "collect" /\ phase' \in {"close", "train", "collect"}
    BY <1>8 DEF TrainerGetsSample, MQ!GetSample, T!Collect
  <2> QED BY <1>1, <2>1 DEF Handshake, rollVars, syncVars
<1>9. CASE TrainerTrains
  <2>1. /\ UNCHANGED <<queueVars, rollVars, syncVars>>
        /\ phase = "train"
        /\ \/ phase' = "log" /\ trainVersion' = trainVersion
           \/ phase' = "await" /\ trainVersion' = trainVersion + 1
    BY <1>9 DEF TrainerTrains, T!Train
  <2> QED BY <1>1, <1>2, <2>1 DEF Handshake, queueVars, rollVars, syncVars
<1>10. CASE TrainerLogs \/ TrainerCloses
  <2>1. /\ UNCHANGED <<paramVersion, rollVars, syncVars>>
        /\ phase \notin {"await", "sync"}
        /\ \/ phase' \in {"collect", "end"} /\ trainVersion' = trainVersion
           \/ phase' = "await" /\ trainVersion' = trainVersion + 1
    BY <1>10 DEF TrainerLogs, TrainerCloses, MQ!GetValidate, T!Log, T!Close, T!CloseAfterSync
  <2> QED BY <1>1, <1>2, <2>1 DEF Handshake, rollVars, syncVars
<1>11. CASE SyncPauses
  <2>1. /\ sync = "idle" /\ control = "idle" /\ phase = "await"
        /\ phase' = "sync" /\ trainVersion' = trainVersion
        /\ sync' = "pausing" /\ syncVersion' = trainVersion /\ serverVersion' = serverVersion
        /\ control' = "pause" /\ rollVersion' = rollVersion /\ paramVersion' = paramVersion
    BY <1>11 DEF SyncPauses, LastSyncOver, T!StartSync, PS!Pause, R!PauseCalled, R!Call, queueVars
  <2> QED BY <1>1, <1>2, <2>1 DEF Handshake
<1>12. CASE SyncUpdatesQueue
  <2>1. /\ control = "paused" /\ sync = "pausing" /\ sync' = "transfer"
        /\ UNCHANGED <<syncVersion, serverVersion>> /\ paramVersion' = syncVersion
        /\ UNCHANGED <<rollVars, trainVars>>
    BY <1>12 DEF SyncUpdatesQueue, PS!UpdateQueue, MQ!UpdateParamVersion
  <2> QED BY <1>1, <1>2, <2>1 DEF Handshake, rollVars, trainVars
<1>13. CASE SyncTransfers
  <2>1. /\ sync = "transfer" /\ sync' = "idle" /\ serverVersion' = syncVersion
        /\ control = "paused" /\ control' = "update" /\ phase' \in {"last", "log"}
        /\ UNCHANGED <<syncVersion, paramVersion, rollVersion, trainVersion>>
    BY <1>13 DEF SyncTransfers, PS!Transfer, R!UpdateCalled, R!Call, T!SyncReturned, queueVars
  <2> QED BY <1>1, <1>2, <2>1 DEF Handshake
<1> QED BY <1>4, <1>5, <1>6, <1>7, <1>8, <1>9, <1>10, <1>11, <1>12, <1>13, StepCases

LEMMA CarriedTypes ==
    ASSUME Rollout, Rollout', [R!Next]_(R!vars)
    PROVE  /\ RP!Load \in Nat /\ RP!Load' \in Nat
           /\ taken \in Nat /\ taken' \in Nat /\ taken' <= TotalSamples + 1
           /\ failures \in Nat /\ failures' \in Nat
<1>1. RP!Load \in Nat /\ RP!Load' \in Nat
  BY RolloutAssumed, RP!LoadType, RP!LoadTypeNext DEF Rollout, RP!Load, RP!Busy
<1> QED BY <1>1, SameSets, FullyAsyncAssumption DEF Rollout, RP!TypeOK

(* What the rollouter carries grows by the sample it takes, by no more.    *)
LEMMA LoadKept ==
    ASSUME Rollout, Rollout', [R!Next]_(R!vars)
    PROVE  \E m \in Nat, t \in 0..(TotalSamples + 1) :
              /\ m = RP!Load' + failures' /\ t = taken'
              /\ \/ t = taken + 1 /\ ~R!Ended /\ t <= TotalSamples /\ m = RP!Load + failures + 1
                 \/ t = taken + 1 /\ ~R!Ended /\ m = RP!Load + failures
                 \/ t = taken /\ m <= RP!Load + failures
<1>1. [RP!Next]_(RP!vars)
  BY SameNext, SameVars
<1>2. PICK l \in Nat, f \in Nat, t \in 0..(TotalSamples + 1) :
         l = RP!Load' /\ f = failures' /\ t = taken'
  <2>1. taken' \in 0..(TotalSamples + 1)
    BY SameSets DEF Rollout, RP!TypeOK
  <2> QED BY <2>1, CarriedTypes
<1>3. RP!Load \in Nat /\ taken \in Nat /\ failures \in Nat /\ TotalSamples \in Nat
  BY CarriedTypes, FullyAsyncAssumption
<1>4. \/ /\ RP!ProcTakePending
         /\ taken' = taken + 1 /\ failures' = failures
         /\ RP!Load' = RP!Load + (IF taken' = RP!DONE THEN 0 ELSE 1)
      \/ RP!Load' = RP!Load /\ UNCHANGED <<taken, failures>>
      \/ /\ taken' = taken
         /\ RP!Load' <= RP!Load
         /\ failures' # failures => failures' = failures + 1 /\ RP!Load' = RP!Load - 1
  BY <1>1, RolloutAssumed, RP!LoadStep DEF Rollout
<1>5. \/ /\ ~R!Ended /\ t = taken + 1 /\ f = failures
         /\ l = RP!Load + (IF t = TotalSamples + 1 THEN 0 ELSE 1)
      \/ l = RP!Load /\ t = taken /\ f = failures
      \/ /\ t = taken /\ l <= RP!Load
         /\ f # failures => f = failures + 1 /\ l = RP!Load - 1
  <2>1. RP!ProcTakePending => ~R!Ended
    BY DEF RP!ProcTakePending, R!Ended
  <2> QED BY <1>2, <1>4, <2>1, SameSets
<1>6. \/ t = taken + 1 /\ ~R!Ended /\ t <= TotalSamples /\ l + f = RP!Load + failures + 1
      \/ t = taken + 1 /\ ~R!Ended /\ l + f = RP!Load + failures
      \/ t = taken /\ l + f <= RP!Load + failures
  <2>1. CASE /\ ~R!Ended /\ t = taken + 1 /\ f = failures
             /\ l = RP!Load + (IF t = TotalSamples + 1 THEN 0 ELSE 1)
    BY <1>3, <2>1
  <2>2. CASE l = RP!Load /\ t = taken /\ f = failures
    BY <1>3, <2>2
  <2>3. CASE /\ t = taken /\ l <= RP!Load
             /\ f # failures => f = failures + 1 /\ l = RP!Load - 1
    BY <1>3, <2>3
  <2> QED BY <1>5, <2>1, <2>2, <2>3
<1>7. l + f \in Nat /\ l + f = RP!Load' + failures'
  <2>1. l + f = RP!Load' + failures'
    BY <1>2, Zenon
  <2> QED BY <2>1
<1>8. PICK m \in Nat : m = l + f
  BY <1>7
<1>9. /\ m = RP!Load' + failures' /\ t = taken'
      /\ \/ t = taken + 1 /\ ~R!Ended /\ t <= TotalSamples /\ m = RP!Load + failures + 1
         \/ t = taken + 1 /\ ~R!Ended /\ m = RP!Load + failures
         \/ t = taken /\ m <= RP!Load + failures
  BY <1>2, <1>6, <1>7, <1>8
<1> QED BY <1>9

LEMMA AccountsStep == SystemInv /\ [Next]_vars => Accounts'
<1> SUFFICES ASSUME SystemInv, [Next]_vars PROVE Accounts'
  OBVIOUS
<1>1. [R!Next]_(R!vars) /\ Rollout /\ Rollout'
  BY StepOfRollouter, RolloutKept DEF SystemInv
<1>2. /\ produced \in Nat /\ consumed \in Nat /\ dropped \in Nat /\ cleared \in Nat
      /\ trainVersion \in Nat /\ queue \in Seq(Item) /\ batch \in Seq(Item)
      /\ Len(queue) \in Nat /\ Len(batch) \in Nat
  BY DEF SystemInv, Kinds
<1>3. RP!Load \in Nat /\ taken \in Nat /\ failures \in Nat /\ TotalSamples \in Nat
  BY <1>1, CarriedTypes, FullyAsyncAssumption
<1>4. PICK m \in Nat, t \in 0..(TotalSamples + 1) :
         /\ m = RP!Load' + failures' /\ t = taken'
         /\ \/ t = taken + 1 /\ ~R!Ended /\ t <= TotalSamples /\ m = RP!Load + failures + 1
            \/ t = taken + 1 /\ ~R!Ended /\ m = RP!Load + failures
            \/ t = taken /\ m <= RP!Load + failures
  BY <1>1, LoadKept
<1>5. Accounts /\ Training
  BY DEF SystemInv
<1>6. R!Ended => R!Ended'
  BY EndedKept
<1> DEFINE Puts == /\ main' = "stream" => Carried' <= taken' /\ Carried' <= TotalSamples
                   /\ main' # "stream" => /\ Carried' <= taken' + 1
                                          /\ Carried' <= TotalSamples + 1 /\ R!Ended'
           Trains == /\ trainVersion' + Len(batch') <= consumed'
                     /\ phase' = "close" => trainVersion' < consumed'
           Kept == produced' = consumed' + dropped' + cleared' + Len(queue')
<1>7. Puts /\ Trains /\ Kept => Accounts'
  BY DEF Accounts
<1>c. Carried = RP!Load + failures + produced
  BY <1>2, <1>3 DEF Carried
<1>d. ASSUME NEW p \in Nat, produced' = p PROVE Carried' = m + p
  <2>1. RP!Load' \in Nat /\ failures' \in Nat
    BY <1>1, CarriedTypes
  <2>2. Carried' = RP!Load' + p + failures'
    BY <1>d DEF Carried
  <2> QED BY <1>4, <2>1, <2>2
<1>a. /\ produced = consumed + dropped + cleared + Len(queue)
      /\ main = "stream" => Carried <= taken /\ Carried <= TotalSamples
      /\ main # "stream" => /\ Carried <= taken + 1 /\ Carried <= TotalSamples + 1
                            /\ R!Ended
  BY <1>5 DEF Accounts
(* What is carried and put, when nothing is put. *)
<1>8. ASSUME produced' = produced, main' = main \/ (main = "stop" /\ main' = "end")
      PROVE  Puts
  <2>1. Carried' = m + produced /\ taken' = t
    BY <1>2, <1>4, <1>8, <1>d
  <2>2. CASE main = "stream"
    <3>1. m + produced <= t /\ m + produced <= TotalSamples
      <4>1. /\ RP!Load + failures + produced <= taken
            /\ RP!Load + failures + produced <= TotalSamples
        BY <1>a, <1>c, <2>2
      <4>2. CASE t = taken + 1 /\ t <= TotalSamples /\ m = RP!Load + failures + 1
        BY <1>2, <1>3, <4>1, <4>2
      <4>3. CASE t \in {taken, taken + 1} /\ m <= RP!Load + failures
        BY <1>2, <1>3, <4>1, <4>3
      <4> QED BY <1>3, <1>4, <4>2, <4>3
    <3> QED BY <1>8, <2>1, <2>2, <3>1
  <2>3. CASE main # "stream"
    <3>1. R!Ended /\ R!Ended' /\ main' # "stream"
      BY <1>5, <1>6, <1>8, <2>3 DEF Accounts
    <3>2. m + produced <= t + 1 /\ m + produced <= TotalSamples + 1
      BY <1>2, <1>3, <1>4, <1>a, <1>c, <2>3, <3>1
    <3> QED BY <2>1, <3>1, <3>2
  <2> QED BY <2>2, <2>3
<1>9. ASSUME UNCHANGED <<trainVersion, batch, phase, consumed>> PROVE Trains
  BY <1>5, <1>9 DEF Accounts
<1>10. CASE Rolls \/ UNCHANGED vars
  <2>1. UNCHANGED <<queueVars, trainVars>> /\ (main' = main \/ (main = "stop" /\ main' = "end"))
    BY <1>10, RollsShape DEF vars, rollVars
  <2>2. UNCHANGED <<queue, produced, consumed, dropped, cleared, trainVersion, batch, phase>>
    BY <2>1 DEF queueVars, trainVars
  <2> QED BY <1>5, <1>7, <1>8, <1>9, <2>1, <2>2 DEF Accounts
<1>11. CASE Control \/ ControlPublishes
  <2>1. UNCHANGED <<queue, produced, consumed, dropped, cleared, trainVersion, batch, phase, main>>
    BY <1>11, ControlShape DEF trainVars
  <2> QED BY <1>5, <1>7, <1>8, <1>9, <2>1 DEF Accounts
<1>12. ASSUME NEW item \in Item, MQ!PutSample(item)
       PROVE  Kept /\ produced' = produced + 1 /\ consumed' = consumed
  <2>1. /\ Len(queue') + dropped' = Len(queue) + dropped + 1
        /\ queue' \in Seq(Item) /\ dropped' \in Nat
        /\ produced' = produced + 1 /\ consumed' = consumed /\ cleared' = cleared
    BY <1>12, PutShape DEF SystemInv
  <2>2. PICK q \in Nat, d \in Nat : q = Len(queue') /\ d = dropped'
    BY <2>1
  <2>3. q + d = Len(queue) + dropped + 1
    BY <2>1, <2>2, Zenon
  <2>4. produced + 1 = consumed + d + cleared + q
    BY <1>2, <1>a, <2>3
  <2> QED BY <2>1, <2>2, <2>4
<1>13. CASE \E s \in R!Sample : TaskPuts(s)
  <2>1. PICK s \in R!Sample : TaskPuts(s)
    BY <1>13
  <2>2. Stamped(s) \in Item
    BY SameSets DEF Stamped, Item, SystemInv, Kinds
  <2>3. /\ Kept /\ produced' = produced + 1 /\ consumed' = consumed
        /\ UNCHANGED <<trainVersion, batch, phase>>
        /\ UNCHANGED <<main, taken, hand, failures>>
    BY <1>12, <2>1, <2>2 DEF TaskPuts, trainVars, R!TaskReported, R!taskOnly, R!feedVars,
       R!procVars
  <2>4. RP!Load' = RP!Load - 1
    <3>1. RP!TaskReported(s) /\ RP!TaskStep(s) /\ s \in RP!Sample
      BY <2>1, SameSets DEF TaskPuts, R!TaskReported, RP!TaskReported, R!taskOnly, RP!taskOnly,
         R!feedVars, RP!feedVars, R!procVars, RP!procVars, R!lockVars, RP!lockVars, R!flagVars,
         RP!flagVars, R!ctlVars, RP!ctlVars, RP!TaskStep
    <3>2. RP!Busy' = RP!Busy - 1
      BY <3>1, <1>1, RolloutAssumed, RP!BusyTask DEF Rollout
    <3>3. RP!Busy \in Nat
      BY <1>1, RolloutTypes
    <3> QED BY <2>3, <3>2, <3>3 DEF RP!Load, RP!NoSample
  <2>5. Carried' = Carried
    <3>1. Carried' = RP!Load' + produced' + failures' /\ Carried = RP!Load + produced + failures
      BY DEF Carried
    <3> QED BY <1>2, <1>3, <2>3, <2>4, <3>1
  <2>6. Puts
    BY <1>a, <1>6, <2>3, <2>5
  <2> QED BY <1>7, <1>9, <2>3, <2>6
<1>14. CASE MainPutsSentinel
  <2>1. Sentinel \in Item
    BY SameSets, VersionsBounded, FullyAsyncAssumption DEF Sentinel, Item
  <2>2. /\ Kept /\ produced' = produced + 1 /\ consumed' = consumed
        /\ UNCHANGED <<trainVersion, batch, phase>> /\ UNCHANGED <<taken, stage, failures>>
        /\ main = "stream" /\ main' = "stop" /\ R!Ended
    BY <1>12, <1>14, <2>1 DEF MainPutsSentinel, trainVars, R!MainSentinel, R!feedVars,
       R!procVars, R!taskVars, R!StreamOver
  <2>3. Carried' = m + (produced + 1)
    <3>1. produced + 1 \in Nat /\ produced' = produced + 1
      BY <1>2, <2>2
    <3> QED BY <1>d, <3>1
  <2>4. m + (produced + 1) <= taken + 1 /\ m + (produced + 1) <= TotalSamples + 1
    <3>1. m <= RP!Load + failures
      BY <1>4, <2>2
    <3>2. /\ RP!Load + failures + produced <= taken
          /\ RP!Load + failures + produced <= TotalSamples
      BY <1>a, <1>c, <2>2
    <3>3. m \in Nat /\ produced \in Nat
      BY <1>2, <1>4
    <3> QED BY <1>3, <3>1, <3>2, <3>3
  <2>5. R!Ended'
    BY <1>6, <2>2
  <2>6. Puts
    BY <2>2, <2>3, <2>4, <2>5
  <2> QED BY <1>7, <1>9, <2>2, <2>6
<1>15. CASE \/ TrainerAwaitsSample \/ TrainerLogs \/ SyncPauses \/ SyncUpdatesQueue
            \/ SyncTransfers
  <2>1. /\ UNCHANGED <<queue, produced, consumed, dropped, cleared, trainVersion, batch, main>>
        /\ phase' # "close" \/ phase' = phase
    BY <1>15 DEF TrainerAwaitsSample, TrainerLogs, SyncPauses, SyncUpdatesQueue, SyncTransfers,
       MQ!AwaitSample, MQ!GetValidate, MQ!UpdateParamVersion, MQ!counters, R!PauseCalled,
       R!UpdateCalled, R!Call, T!Log, T!StartSync, T!SyncReturned, queueVars, rollVars,
       trainVars
  <2> QED BY <1>2, <1>5, <1>7, <1>8, <2>1 DEF Accounts
<1>16. CASE TrainerGetsSample
  <2>1. /\ queue # <<>> /\ queue' = Tail(queue) /\ consumed' = consumed + 1
        /\ UNCHANGED <<produced, dropped, cleared, main>>
    BY <1>16 DEF TrainerGetsSample, MQ!GetSample, MQ!PopLeft, rollVars
  <2>2. Head(queue) \in Item /\ Len(queue') = Len(queue) - 1
    BY <1>2, <2>1
  <2>3. /\ trainVersion' = trainVersion /\ phase = "collect"
        /\ \/ batch' = <<>>
           \/ batch' = Append(batch, Head(queue)) /\ phase' # "close"
    BY <1>16 DEF TrainerGetsSample, T!Collect
  <2>4. Len(batch') \in Nat /\ Len(batch') <= Len(batch) + 1 /\ (phase' = "close" => batch' = <<>>)
    BY <1>2, <2>2, <2>3
  <2>5. Trains
    BY <1>2, <1>5, <2>1, <2>3, <2>4 DEF Accounts
  <2>6. Kept
    BY <1>2, <1>5, <2>1, <2>2 DEF Accounts
  <2> QED BY <1>7, <1>8, <2>1, <2>5, <2>6
<1>17. CASE TrainerTrains
  <2>1. /\ phase = "train" /\ phase' # "close" /\ batch' = <<>>
        /\ trainVersion' \in {trainVersion, trainVersion + 1}
        /\ UNCHANGED <<queue, produced, consumed, dropped, cleared, main>>
    BY <1>17 DEF TrainerTrains, T!Train, queueVars, rollVars
  <2>2. Len(batch) = Required /\ Required \in Nat \ {0} /\ Len(batch') = 0
    BY <1>5, <2>1, FullyAsyncAssumption DEF Training
  <2>3. trainVersion + Len(batch) <= consumed
    BY <1>5 DEF Accounts
  <2>4. PICK v \in {trainVersion, trainVersion + 1} : v = trainVersion'
    BY <2>1
  <2>5. v + 0 <= consumed
    BY <1>2, <2>2, <2>3
  <2>6. Trains
    BY <2>1, <2>2, <2>4, <2>5
  <2> QED BY <1>a, <1>7, <1>8, <2>1, <2>6
<1>18. CASE TrainerCloses
  <2>1. /\ UNCHANGED <<queue, produced, consumed, dropped, cleared, batch, main>>
        /\ phase' # "close"
        /\ \/ phase = "close" /\ trainVersion' \in {trainVersion, trainVersion + 1}
           \/ trainVersion' = trainVersion
    BY <1>18 DEF TrainerCloses, T!Close, T!CloseAfterSync, MQ!GetValidate, MQ!counters, rollVars
  <2>2. phase = "close" => Len(batch) = 0
    BY <1>5 DEF Training
  <2>3. Trains
    BY <1>2, <1>5, <2>1, <2>2 DEF Accounts
  <2> QED BY <1>5, <1>7, <1>8, <2>1, <2>3 DEF Accounts
<1>19. CASE RunnerClears
  <2>1. /\ queue' = <<>> /\ cleared' = cleared + Len(queue)
        /\ UNCHANGED <<produced, consumed, dropped, main, trainVersion, batch, phase>>
    BY <1>19 DEF RunnerClears, MQ!ClearQueue, rollVars, trainVars
  <2>2. Kept
    BY <1>2, <1>5, <2>1 DEF Accounts
  <2> QED BY <1>7, <1>8, <1>9, <2>1, <2>2
<1> QED BY <1>10, <1>11, <1>13, <1>14, <1>15, <1>16, <1>17, <1>18, <1>19, StepCases

LEMMA SystemAtStart == Init => SystemInv
<1> SUFFICES ASSUME Init PROVE SystemInv
  OBVIOUS
<1>1. R!Init /\ RP!Init /\ MQ!InitWith(<<0>>) /\ T!Init /\ PS!Init
  BY SameInit DEF Init
<1>2. Rollout
  BY <1>1, RolloutAtStart
<1>3. Kinds
  <2>1. 0 \in Version /\ MaxRequired \in Nat
    BY Sizes, FullyAsyncAssumption DEF Version
  <2> QED BY <1>1, <2>1 DEF Kinds, MQ!InitWith, R!Init, T!Init, PS!Init, MQ!GetterState
<1>4. Training
  <2>1. phase = "log" /\ batch = <<>> /\ localStep = 1 /\ closing = FALSE
    BY <1>1 DEF T!Init
  <2>2. localStep \in 1..TriggerStep
    BY <2>1, FullyAsyncAssumption
  <2> QED BY <2>1, <2>2 DEF Training, T!Phase
<1>5. Handshake
  BY <1>1 DEF Handshake, T!Init, PS!Init, R!Init, MQ!InitWith
<1>6. Accounts
  <2>1. RP!Live = {} /\ Cardinality({}) = 0
    BY <1>1, FS_EmptySet DEF RP!Init, RP!Live
  <2>2. RP!Load = 0
    BY <1>1, <2>1, SameCardinality DEF RP!Init, RP!Load, RP!Busy, RP!NoSample
  <2>3. Carried = 0
    BY <1>1, <2>2 DEF Carried, RP!Init, MQ!InitWith
  <2> QED BY <1>1, <2>3, FullyAsyncAssumption DEF Accounts, R!Init, MQ!InitWith, T!Init
<1> QED BY <1>2, <1>3, <1>4, <1>5, <1>6 DEF SystemInv

LEMMA SystemKept == SystemInv /\ [Next]_vars => SystemInv'
  BY RolloutKept, KindsStep, TrainingStep, HandshakeStep, AccountsStep DEF SystemInv

LEMMA SystemHolds == Spec => []SystemInv
  BY SystemAtStart, SystemKept, PTL DEF Spec

(* Every variable of the system keeps its type, whatever order its         *)
(* processes run in; no version is numbered past the samples.              *)
THEOREM SystemTypes == Spec => []TypeOK
<1>1. SystemInv => TypeOK
  <2> SUFFICES ASSUME SystemInv PROVE TypeOK
    OBVIOUS
  <2>1. /\ fed \in 0..R!DONE /\ taken \in 0..fed
        /\ cancelQueue \in Seq(R!Sample) /\ stage \in R!Stage /\ blocked \in R!Blocked
        /\ hand \in {R!NoSample} \cup R!Sample
        /\ task \in [R!Sample -> R!TaskState]
        /\ holder \in R!Coroutine \cup {"none"} /\ waiters \in Seq(R!Coroutine)
        /\ staleness \in Nat
    BY SameSets, RolloutTypes DEF SystemInv, Rollout, RP!TypeOK, R!Stage, RP!Stage, R!Reaping,
       RP!Reaping, R!Blocked, RP!Blocked, R!Coroutine, RP!Coroutine
  <2>2. Len(batch) <= Required
    BY FullyAsyncAssumption DEF SystemInv, Training
  <2> QED BY <2>1, <2>2, VersionsBounded DEF TypeOK, SystemInv, Kinds, Training
<1> QED BY <1>1, SystemHolds, PTL

(* A version reaches the trainer, the synchronizer, the queue, the servers *)
(* and the rollouter in this order, and none is ever two synchronizations  *)
(* behind: wait_last_valid() keeps them from overlapping.                  *)
THEOREM VersionsOrdered == Spec => []VersionOrder
<1>1. SystemInv => VersionOrder
  <2> SUFFICES ASSUME SystemInv PROVE VersionOrder
    OBVIOUS
  <2>1. /\ paramVersion \in Nat /\ syncVersion \in Nat /\ serverVersion \in Nat
        /\ trainVersion \in Nat /\ rollVersion \in Nat
    BY RolloutTypes DEF SystemInv, Kinds
  <2> QED BY <2>1 DEF VersionOrder, SystemInv, Handshake
<1> QED BY <1>1, SystemHolds, PTL

(* The rollouter of the system is the rollouter specified alone: the queue *)
(* and the synchronizations it meets are some of those it is ready for.    *)
THEOREM RolloutImplemented == Spec => ImplementsRollouter
<1>1. Init => R!Init
  BY DEF Init
<1>2. SystemInv /\ [Next]_vars => [R!Next]_(R!vars)
  BY StepOfRollouter
<1> QED BY <1>1, <1>2, SystemHolds, PTL DEF Spec, ImplementsRollouter, R!Spec


-----------------------------------------------------------------------------
(* The validations.  One is due for each synchronization, until its        *)
(* update_param_version() has put it; what is waiting and what is due fit  *)
(* the calls of _log_validation_data() that are still to come.             *)
Due == sync # "idle" \/ control \in {"update", "count", "validated"}

Fits(n) == Len(valQueue) <= n /\ (Due => Len(valQueue) < n)

ToLog ==
    /\ phase = "log" => Fits(2)
    /\ phase \in {"collect", "train", "close", "last"} => Fits(1)
    /\ phase = "await" => IF closing THEN Fits(0) ELSE Fits(1)
    /\ phase = "sync" => IF closing THEN Fits(1) ELSE Fits(2)
    /\ phase = "end" => Fits(0)

LEMMA ToLogStep == SystemInv /\ ToLog /\ [Next]_vars => ToLog'
<1> SUFFICES ASSUME SystemInv, ToLog, [Next]_vars PROVE ToLog'
  OBVIOUS
<1>1. Handshake /\ Training /\ valQueue \in Seq(Version) /\ Len(valQueue) \in Nat
  BY DEF SystemInv, Kinds
<1>2. ASSUME UNCHANGED <<valQueue, phase, closing>>, Due' => Due PROVE ToLog'
  BY <1>2 DEF ToLog, Fits
<1>3. CASE Rolls \/ UNCHANGED vars
  <2>1. UNCHANGED <<queueVars, trainVars, syncVars>> /\ control' = control
    BY <1>3, RollsShape DEF vars, rollVars
  <2> QED BY <1>2, <2>1 DEF queueVars, trainVars, syncVars, Due
<1>4. CASE (\E s \in R!Sample : TaskPuts(s)) \/ MainPutsSentinel
  <2>1. UNCHANGED <<valQueue, trainVars, syncVars>> /\ control' = control
    BY <1>4 DEF TaskPuts, MainPutsSentinel, MQ!PutSample, R!TaskReported, R!MainSentinel,
       R!taskOnly, R!ctlVars
  <2> QED BY <1>2, <2>1 DEF trainVars, syncVars, Due
<1>5. CASE Control
  <2>1. /\ UNCHANGED <<phase, closing, sync>>
        /\ \/ control' \in {"gather", "paused"} /\ control \in {"pause", "gather"}
           \/ control' \in {"count", "validated"} /\ control \in {"update", "count"}
           \/ control' \in {"resume", "idle"}
           \/ control' = control
    BY <1>5, ControlShape DEF trainVars, syncVars
  <2>2. valQueue' = valQueue
    BY <1>5 DEF Control, queueVars
  <2> QED BY <1>1, <1>2, <2>1, <2>2 DEF Handshake, Due
<1>6. CASE ControlPublishes
  <2>1. /\ UNCHANGED <<phase, closing, sync>>
        /\ control = "validated" /\ control' = "resume"
        /\ valQueue' = Append(valQueue, rollVersion)
    BY <1>6, ControlShape DEF ControlPublishes, MQ!PutValidate, trainVars, syncVars
  <2>2. Due /\ ~Due' /\ Len(valQueue') = Len(valQueue) + 1
    BY <1>1, <2>1 DEF Due, Handshake
  <2>3. \A n \in {0, 1, 2} : Fits(n) => Fits(n)'
    BY <1>1, <2>2 DEF Fits
  <2> QED BY <2>1, <2>3 DEF ToLog
<1>7. CASE TrainerAwaitsSample \/ RunnerClears
  <2>1. UNCHANGED <<valQueue, rollVars, trainVars, syncVars>>
    BY <1>7 DEF TrainerAwaitsSample, RunnerClears, MQ!AwaitSample, MQ!ClearQueue
  <2> QED BY <1>2, <2>1 DEF rollVars, trainVars, syncVars, Due
<1>8. CASE TrainerGetsSample \/ TrainerTrains
  <2>1. /\ UNCHANGED <<valQueue, rollVars, syncVars>>
        /\ \/ phase = "collect" /\ phase' \in {"close", "train", "collect"}
           \/ phase = "train" /\ phase' \in {"log", "await"} /\ closing' = closing
    BY <1>8 DEF TrainerGetsSample, TrainerTrains, MQ!GetSample, T!Collect, T!Train, queueVars
  <2>2. Due' = Due
    BY <2>1 DEF Due, rollVars, syncVars
  <2>3. (Fits(1) => Fits(1)') /\ (Fits(1) => Fits(2)')
    BY <1>1, <2>1, <2>2 DEF Fits
  <2> QED BY <1>1, <2>1, <2>3 DEF ToLog, Training
<1>9. CASE TrainerLogs \/ TrainerCloses
  <2>1. /\ valQueue' = (IF valQueue = <<>> THEN <<>> ELSE Tail(valQueue))
        /\ UNCHANGED <<rollVars, syncVars>>
    BY <1>9 DEF TrainerLogs, TrainerCloses, MQ!GetValidate
  <2>2. Due' = Due
    BY <2>1 DEF Due, rollVars, syncVars
  <2>3. (valQueue = <<>> /\ valQueue' = <<>>) \/ Len(valQueue') = Len(valQueue) - 1
    BY <1>1, <2>1
  <2>4. (Fits(2) => Fits(1)') /\ (Fits(1) /\ ~Due => Fits(0)')
    BY <1>1, <2>2, <2>3 DEF Fits
  <2>5. CASE TrainerLogs
    BY <2>4, <2>5 DEF ToLog, TrainerLogs, T!Log
  <2>6. CASE TrainerCloses
    <3>1. phase \in {"close", "last"} /\ phase' \in {"await", "end"} /\ closing' = closing
      BY <2>6 DEF TrainerCloses, T!Close, T!CloseAfterSync
    <3>2. ~Due
      BY <2>6 DEF TrainerCloses, LastSyncOver, Due
    <3>3. closing
      BY <1>1, <3>1 DEF Training
    <3> QED BY <2>4, <3>1, <3>2, <3>3 DEF ToLog
  <2> QED BY <1>9, <2>5, <2>6
<1>10. CASE SyncPauses
  <2>1. /\ ~Due /\ phase = "await" /\ phase' = "sync" /\ UNCHANGED <<closing, valQueue>>
    BY <1>10 DEF SyncPauses, LastSyncOver, Due, T!StartSync, queueVars
  <2>2. (Fits(0) => Fits(1)') /\ (Fits(1) => Fits(2)')
    BY <1>1, <2>1 DEF Fits
  <2> QED BY <2>1, <2>2 DEF ToLog
<1>11. CASE SyncUpdatesQueue
  <2>1. UNCHANGED <<valQueue, trainVars>> /\ sync = "pausing"
    BY <1>11 DEF SyncUpdatesQueue, PS!UpdateQueue, MQ!UpdateParamVersion
  <2> QED BY <1>2, <2>1 DEF trainVars, Due
<1>12. CASE SyncTransfers
  <2>1. /\ sync = "transfer" /\ UNCHANGED <<closing, valQueue>>
        /\ phase = "sync" /\ phase' = (IF closing THEN "last" ELSE "log")
    BY <1>12 DEF SyncTransfers, PS!Transfer, T!SyncReturned, queueVars
  <2>2. Due
    BY <2>1 DEF Due
  <2>3. (Fits(1) => Fits(1)') /\ (Fits(2) => Fits(2)')
    BY <1>1, <2>1, <2>2 DEF Fits
  <2> QED BY <2>1, <2>3 DEF ToLog
<1> QED BY <1>3, <1>4, <1>5, <1>6, <1>7, <1>8, <1>9, <1>10, <1>11, <1>12, StepCases

(* The validation of every synchronization is logged before the trainer    *)
(* ends, though one call of _log_validation_data() logs at most one: never *)
(* do more than two wait, and none is left at the end.                     *)
THEOREM AllValidationsLogged == Spec => []ValidationsLogged
<1>1. Init => ToLog
  BY DEF Init, MQ!InitWith, T!Init, PS!Init, R!Init, ToLog, Fits, Due
<1>2. Spec => []ToLog
  BY <1>1, ToLogStep, SystemHolds, PTL DEF Spec
<1>3. SystemInv /\ ToLog => ValidationsLogged
  <2> SUFFICES ASSUME SystemInv, ToLog PROVE ValidationsLogged
    OBVIOUS
  <2>1. valQueue \in Seq(Version) /\ Len(valQueue) \in Nat /\ phase \in T!Phase
    BY DEF SystemInv, Kinds, Training
  <2> QED BY <2>1 DEF ToLog, Fits, ValidationsLogged, T!Phase
<1> QED BY <1>2, <1>3, SystemHolds, PTL

-----------------------------------------------------------------------------
(* The end of the stream.  Until the marker is put none is queued and the  *)
(* training loop is open; after it, no task is live that could put.        *)
Streaming ==
    main = "stream" => ~closing /\ \A i \in 1..Len(queue) : ~IsSentinel(queue[i])

EndInv == Streaming /\ EndOfStream

LEMMA EndStep == SystemInv /\ EndInv /\ [Next]_vars => EndInv'
<1> SUFFICES ASSUME SystemInv, EndInv, [Next]_vars PROVE EndInv'
  OBVIOUS
<1>1. /\ queue \in Seq(Item) /\ Len(queue) \in Nat /\ Training /\ Accounts /\ Rollout'
      /\ Streaming /\ EndOfStream
  BY RolloutKept DEF SystemInv, Kinds, EndInv
<1>2. /\ stage' = "done" => R!Live' = {}
      /\ main # "stream" => R!Ended /\ (stage' = "done" => stage = "done")
  <2>1. stage' = "done" => RP!Live' = {}
    BY <1>1 DEF Rollout, RP!Placed
  <2>2. R!Live' = RP!Live'
    BY DEF R!Live, RP!Live, R!Sample, RP!Sample
  <2>3. main # "stream" => R!Ended
    BY <1>1 DEF Accounts
  <2> QED BY <2>1, <2>2, <2>3, EndedKept
<1>3. ASSUME queue' = queue \/ queue' = <<>> \/ (queue # <<>> /\ queue' = Tail(queue)),
             main' = "stream" => main = "stream" /\ ~closing',
             main' # "stream" => main # "stream"
      PROVE  EndInv'
  <2>1. Len(queue') \in Nat /\ (queue' = <<>> => Len(queue') = 0)
    BY <1>1, <1>3
  <2>2. \A i \in 1..Len(queue') : \E j \in 1..Len(queue) :
            queue'[i] = queue[j] /\ (i = Len(queue') <=> j = Len(queue))
    <3>1. CASE queue' = queue \/ queue' = <<>>
      BY <1>1, <3>1
    <3>2. CASE queue # <<>> /\ queue' = Tail(queue)
      <4>1. /\ Len(queue') = Len(queue) - 1
            /\ \A i \in 1..Len(queue') : i + 1 \in 1..Len(queue) /\ queue'[i] = queue[i + 1]
        BY <1>1, <3>2
      <4> QED BY <1>1, <4>1
    <3> QED BY <1>3, <3>1, <3>2
  <2>3. Streaming'
    <3>1. CASE main' = "stream"
      <4>1. main = "stream" /\ ~closing'
        BY <1>3, <3>1
      <4>2. \A j \in 1..Len(queue) : ~IsSentinel(queue[j])
        BY <1>1, <4>1 DEF Streaming
      <4>3. \A i \in 1..Len(queue') : ~IsSentinel(queue'[i])
        BY <2>2, <4>2
      <4> QED BY <4>1, <4>3 DEF Streaming
    <3> QED BY <3>1 DEF Streaming
  <2>4. EndOfStream'
    <3> SUFFICES ASSUME main' # "stream", stage' = "done"
                 PROVE  /\ \A i \in 1..(Len(queue') - 1) : ~IsSentinel(queue'[i])
                        /\ queue' = <<>> \/ IsSentinel(queue'[Len(queue')])
      BY <1>2 DEF EndOfStream
    <3>1. main # "stream" /\ stage = "done"
      BY <1>2, <1>3
    <3>2. /\ \A j \in 1..(Len(queue) - 1) : ~IsSentinel(queue[j])
          /\ queue = <<>> \/ IsSentinel(queue[Len(queue)])
      BY <1>1, <3>1 DEF EndOfStream
    <3>3. \A i \in 1..(Len(queue') - 1) : ~IsSentinel(queue'[i])
      <4> TAKE i \in 1..(Len(queue') - 1)
      <4>1. i \in 1..Len(queue') /\ i # Len(queue')
        BY <2>1
      <4>2. PICK j \in 1..Len(queue) : queue'[i] = queue[j] /\ j # Len(queue)
        BY <2>2, <4>1
      <4> QED BY <1>1, <3>2, <4>2
    <3>4. CASE Len(queue') # 0
      <4>1. Len(queue') \in 1..Len(queue')
        BY <2>1, <3>4
      <4>2. PICK j \in 1..Len(queue) : queue'[Len(queue')] = queue[j] /\ j = Len(queue)
        BY <2>2, <4>1
      <4> QED BY <1>1, <3>2, <3>3, <4>2
    <3>5. CASE Len(queue') = 0
      BY <1>1, <1>3, <3>3, <3>5
    <3> QED BY <3>4, <3>5
  <2> QED BY <2>3, <2>4 DEF EndInv
<1>4. ASSUME queue' = queue \/ queue' = <<>>, closing' = closing,
             main' = main \/ (main = "stop" /\ main' = "end")
      PROVE  EndInv'
  BY <1>1, <1>3, <1>4 DEF Streaming
<1>5. CASE Rolls \/ UNCHANGED vars
  <2>1. UNCHANGED <<queueVars, trainVars>> /\ (main' = main \/ (main = "stop" /\ main' = "end"))
    BY <1>5, RollsShape DEF vars, rollVars
  <2> QED BY <1>4, <2>1 DEF queueVars, trainVars
<1>6. CASE Control \/ ControlPublishes
  BY <1>4, <1>6, ControlShape DEF trainVars
<1>7. CASE \/ TrainerAwaitsSample \/ TrainerTrains \/ TrainerLogs \/ SyncPauses
           \/ SyncUpdatesQueue \/ SyncTransfers \/ TrainerCloses \/ RunnerClears
  <2>1. (queue' = queue \/ queue' = <<>>) /\ closing' = closing /\ main' = main
    BY <1>7 DEF TrainerAwaitsSample, TrainerTrains, TrainerLogs, SyncPauses, SyncUpdatesQueue,
       SyncTransfers, TrainerCloses, RunnerClears, MQ!AwaitSample, MQ!GetValidate,
       MQ!UpdateParamVersion, MQ!ClearQueue, R!PauseCalled, R!UpdateCalled, R!Call, T!Log,
       T!Train, T!StartSync, T!SyncReturned, T!Close, T!CloseAfterSync, queueVars, rollVars,
       trainVars
  <2> QED BY <1>4, <2>1
<1>8. CASE TrainerGetsSample
  <2>1. /\ queue # <<>> /\ queue' = Tail(queue) /\ main' = main
        /\ closing' = IsSentinel(Head(queue))
    BY <1>8 DEF TrainerGetsSample, MQ!GetSample, MQ!PopLeft, T!Collect, rollVars
  <2>2. Head(queue) = queue[1] /\ 1 \in 1..Len(queue)
    BY <1>1, <2>1
  <2> QED BY <1>1, <1>3, <2>1, <2>2 DEF Streaming
<1>9. CASE \E s \in R!Sample : TaskPuts(s)
  <2>1. PICK s \in R!Sample : TaskPuts(s)
    BY <1>9
  <2>2. /\ Stamped(s) \in Item /\ ~IsSentinel(Stamped(s))
    BY SameSets, FullyAsyncAssumption DEF Stamped, Item, SystemInv, Kinds, IsSentinel
  <2>3. /\ UNCHANGED <<main, closing, stage>> /\ task[s] = "reporting"
        /\ MQ!PutSample(Stamped(s))
    BY <2>1 DEF TaskPuts, trainVars, R!TaskReported, R!taskOnly, R!procVars
  <2>4. s \in R!Live
    BY <2>3, SameSets
  <2>5. ~(main # "stream" /\ stage = "done")
    BY <1>1, <2>4 DEF EndOfStream
  <2>6. \/ queue' = Append(queue, Stamped(s))
        \/ queue' = Append(Tail(queue), Stamped(s)) /\ queue # <<>>
    BY <2>2, <2>3, PutShape DEF SystemInv
  <2>7. main = "stream" => \A i \in 1..Len(queue') : ~IsSentinel(queue'[i])
    <3> SUFFICES ASSUME main = "stream", NEW i \in 1..Len(queue') PROVE ~IsSentinel(queue'[i])
      OBVIOUS
    <3>1. \A j \in 1..Len(queue) : ~IsSentinel(queue[j])
      BY <1>1 DEF Streaming
    <3>2. queue'[i] = Stamped(s) \/ \E j \in 1..Len(queue) : queue'[i] = queue[j]
      BY <1>1, <2>2, <2>6
    <3> QED BY <2>2, <3>1, <3>2
  <2> QED BY <1>1, <2>3, <2>5, <2>7 DEF EndInv, Streaming, EndOfStream
<1>10. CASE MainPutsSentinel
  <2>1. Sentinel \in Item /\ IsSentinel(Sentinel)
    BY SameSets, VersionsBounded, FullyAsyncAssumption DEF Sentinel, Item, IsSentinel
  <2>2. main = "stream" /\ main' = "stop" /\ MQ!PutSample(Sentinel)
    BY <1>10 DEF MainPutsSentinel, R!MainSentinel
  <2>3. \/ queue' = Append(queue, Sentinel)
        \/ queue' = Append(Tail(queue), Sentinel) /\ queue # <<>>
    BY <2>1, <2>2, PutShape DEF SystemInv
  <2>4. \A j \in 1..Len(queue) : ~IsSentinel(queue[j])
    BY <1>1, <2>2 DEF Streaming
  <2>5. /\ queue'[Len(queue')] = Sentinel
        /\ \A i \in 1..(Len(queue') - 1) : \E j \in 1..Len(queue) : queue'[i] = queue[j]
    BY <1>1, <2>1, <2>3
  <2>6. \A i \in 1..(Len(queue') - 1) : ~IsSentinel(queue'[i])
    BY <2>4, <2>5
  <2> QED BY <1>2, <2>1, <2>2, <2>5, <2>6 DEF EndInv, Streaming, EndOfStream
<1> QED BY <1>5, <1>6, <1>7, <1>8, <1>9, <1>10, StepCases

LEMMA EndAtStart == Init => EndInv
  BY DEF Init, MQ!InitWith, T!Init, R!Init, EndInv, Streaming, EndOfStream

(* The end marker is the last item of the stream, unless the processor     *)
(* died: no task that could still put a sample is live behind it.          *)
THEOREM StreamEnds == Spec => []EndOfStream
<1>1. Spec => []EndInv
  BY EndAtStart, EndStep, SystemHolds, PTL DEF Spec
<1> QED BY <1>1, PTL DEF EndInv

-----------------------------------------------------------------------------
(* The first wait of the processor.  Until done_tasks is assigned, it has  *)
(* either not awaited anything yet, and nobody else has run, or it waits   *)
(* for the tasks, holding the lock: pause() cannot clear them.             *)
Underway == {"check", "setPaused", "fetch", "submit"} \cup R!Reaping

(* The processor never comes to an empty pending_queue before that: what   *)
(* the feeder puts first is more than it may take.                         *)
NeverStarved ==
    \/ MaxConcurrent < PendingCapacity
    \/ MaxRequired <= PendingCapacity
    \/ TotalSamples < PendingCapacity

FirstRun ==
    /\ blocked = "no" /\ stage \in Underway
    /\ queue = <<>> /\ phase \in {"log", "collect"}
    /\ holder = "none" /\ waiters = <<>> /\ control = "idle" /\ main = "stream"
    /\ fed = R!Smaller(R!DONE, PendingCapacity) /\ staleness = taken
    /\ cancelQueue = <<>> /\ failed = 0 /\ reapable = 0
    /\ \A s \in R!Sample : task[s] = IF s <= taken /\ s # hand THEN "created" ELSE "none"
    /\ paused => stage = "drain"
    /\ IF stage \in {"limit", "submit"} THEN hand = taken /\ 1 <= taken /\ taken <= TotalSamples
                                        ELSE hand = R!NoSample
    /\ stage \in {"check", "fetch"} => taken <= MaxConcurrent /\ taken <= TotalSamples
    /\ stage = "fetch" => taken < MaxRequired
    /\ stage = "submit" => taken <= MaxConcurrent
    /\ stage \in {"setPaused", "drain", "finish"} => 1 <= taken

FirstWait ==
    /\ ~doneBound => FirstRun \/ (blocked = "tasks" /\ stage \in Underway)
    /\ failed > 0 => failures > 0
    /\ stage = "crashed" => failures > 0

(* It holds when fit() starts.                                            *)
LEMMA FirstAtStart == Init => FirstWait
<1> SUFFICES ASSUME Init PROVE FirstWait
  OBVIOUS
<1>1. MQ!InitWith(<<0>>) /\ R!Init /\ T!Init
  BY DEF Init
<1>2. queue = <<>> /\ phase = "log"
  BY <1>1 DEF MQ!InitWith, T!Init
<1>3. \A s \in R!Sample : task[s] = IF s <= taken /\ s # hand THEN "created" ELSE "none"
  BY <1>1, FullyAsyncAssumption DEF R!Init, R!Sample
<1>4. /\ blocked = "no" /\ stage = "check" /\ hand = R!NoSample /\ holder = "none" /\ waiters = <<>>
      /\ control = "idle" /\ main = "stream" /\ fed = R!Smaller(R!DONE, PendingCapacity)
      /\ staleness = 0 /\ taken = 0 /\ cancelQueue = <<>> /\ failed = 0 /\ reapable = 0 /\ ~paused
      /\ failures = 0
  BY <1>1 DEF R!Init
<1>5. 0 <= MaxConcurrent /\ 0 <= TotalSamples
  BY Sizes, FullyAsyncAssumption
<1>6. FirstRun
  BY <1>2, <1>3, <1>4, <1>5 DEF FirstRun, Underway
<1> QED BY <1>4, <1>6 DEF FirstWait

(* What the processor counts in its first run: it made a task of every     *)
(* sample it took, but for the one in its hand.                            *)
LEMMA FirstActive ==
    ASSUME SystemInv, FirstRun
    PROVE  /\ R!ActiveCount \in Nat
           /\ stage \in {"limit", "submit"} => R!ActiveCount = taken - 1
           /\ stage \in {"drain", "finish"} => R!ActiveCount > 0
<1>1. taken \in Nat /\ TotalSamples \in Nat \ {0}
  BY RolloutTypes, FullyAsyncAssumption DEF SystemInv
<1>2. R!ActiveCount = Cardinality(R!Live)
  <2>1. R!Cardinality(R!Live) = Cardinality(R!Live)
    BY SameCardinality
  <2>2. IsFiniteSet(R!Live)
    <3>1. IsFiniteSet(1..TotalSamples)
      BY <1>1, FS_Interval
    <3> QED BY <3>1, SameSets, FS_Subset
  <2>3. Cardinality(R!Live) \in Nat
    BY <2>2, FS_CardinalityType
  <2> QED BY <2>1, <2>3 DEF R!ActiveCount, FirstRun
<1>3. IsFiniteSet(R!Live) /\ Cardinality(R!Live) \in Nat
  <2>1. IsFiniteSet(1..TotalSamples)
    BY <1>1, FS_Interval
  <2>2. IsFiniteSet(R!Live)
    BY <2>1, SameSets, FS_Subset
  <2> QED BY <2>2, FS_CardinalityType
<1>4. R!Live = {s \in 1..TotalSamples : s <= taken /\ s # hand}
  BY SameSets DEF FirstRun
<1>5. CASE stage \in {"limit", "submit"}
  <2>1. hand = taken /\ 1 <= taken /\ taken <= TotalSamples
    BY <1>5 DEF FirstRun
  <2>2. R!Live = 1..(taken - 1)
    BY <1>1, <1>4, <2>1
  <2>3. Cardinality(1..(taken - 1)) = taken - 1
    BY <1>1, <2>1, FS_Interval
  <2> QED BY <1>2, <1>5, <2>1, <2>2, <2>3, <1>1
<1>6. CASE stage \in {"drain", "finish"}
  <2>1. hand = 0 /\ 1 <= taken
    BY <1>6, SameSets DEF FirstRun
  <2>2. 1 \in R!Live
    BY <1>1, <1>4, <2>1
  <2>3. Cardinality(R!Live) # 0
    BY <1>3, <2>2, FS_EmptySet
  <2> QED BY <1>2, <1>3, <1>6, <2>3
<1> QED BY <1>2, <1>3, <1>5, <1>6

(* While the processor is in its first run nobody else of its event loop   *)
(* runs, and the trainer has nothing to train on.                          *)
LEMMA FirstAlone ==
    ASSUME SystemInv, FirstRun, [Next]_vars
    PROVE  Processor \/ (UNCHANGED <<rollVars, queue>> /\ phase' \in {"log", "collect"})
<1>1. /\ ~R!Yielded /\ blocked = "no" /\ control = "idle" /\ main = "stream" /\ ~R!Ended
      /\ queue = <<>> /\ phase \in {"log", "collect"}
      /\ \A s \in R!Sample : task[s] \in {"none", "created"}
  BY DEF FirstRun, R!Yielded, R!Ended, Underway, R!Reaping
<1>2. CASE Feeder \/ Monitor \/ MainStops \/ MainPutsSentinel
  BY <1>1, <1>2 DEF Feeder, Monitor, MainStops, MainPutsSentinel, R!Feed, R!MonitorCheckRunning,
     R!MonitorSkip, R!MonitorAwaitLock, R!MonitorRecover, R!AwaitLock, R!MainStop,
     R!MainSentinel, R!StreamOver
<1>3. CASE \E s \in R!Sample : TaskMoves(s) \/ TaskPuts(s) \/ TaskFails(s)
  BY <1>1, <1>3 DEF TaskMoves, TaskPuts, TaskFails, R!TaskStart, R!ServerInterrupt,
     R!TaskCancelled, R!TaskGenerated, R!TaskReported, R!TaskFails
<1>4. CASE Control \/ ControlPublishes
  BY <1>1, <1>4 DEF Control, ControlPublishes, Updates, R!ControlPause, R!ControlGathered,
     R!ControlUpdate, R!ControlReset, R!ControlResume, R!AwaitLock, R!ControlPublished
<1>5. CASE TrainerAwaitsSample \/ TrainerLogs
  BY <1>1, <1>5 DEF TrainerAwaitsSample, TrainerLogs, MQ!AwaitSample, MQ!GetValidate, T!Log,
     trainVars
<1>6. CASE TrainerGetsSample \/ TrainerTrains
  BY <1>1, <1>6 DEF TrainerGetsSample, TrainerTrains, MQ!GetSample, T!Train
<1>7. CASE SyncPauses \/ SyncUpdatesQueue \/ SyncTransfers \/ TrainerCloses \/ RunnerClears
  BY <1>1, <1>7 DEF SyncPauses, SyncUpdatesQueue, SyncTransfers, TrainerCloses, RunnerClears,
     T!StartSync, T!SyncReturned, T!Close, T!CloseAfterSync, Ended
<1>8. CASE UNCHANGED vars
  BY <1>1, <1>8 DEF vars, queueVars, trainVars
<1> QED BY <1>1, <1>2, <1>3, <1>4, <1>5, <1>6, <1>7, <1>8 DEF Next, Terminated

(* A step of the processor in its first run goes on with it, or waits for  *)
(* the tasks.                                                              *)
LEMMA FirstProcessor ==
    ASSUME SystemInv, FirstRun, Processor, NeverStarved
    PROVE  /\ FirstRun' \/ (blocked' = "tasks" /\ stage' \in Underway)
           /\ UNCHANGED <<failed, failures, doneBound>>
<1> USE DEF R!feedVars, R!procVars, R!taskVars, R!lockVars, R!flagVars, R!ctlVars, R!procOnly
<1>1. /\ UNCHANGED queueVars /\ UNCHANGED trainVars
      /\ blocked = "no" /\ stage \in Underway /\ holder = "none" /\ waiters = <<>>
      /\ queue = <<>> /\ phase \in {"log", "collect"} /\ cancelQueue = <<>>
      /\ staleness = taken
  BY DEF Processor, FirstRun
<1>2. /\ queue' = queue /\ phase' = phase /\ Len(queue) = 0
  BY <1>1 DEF queueVars, trainVars
<1>3. /\ taken \in Nat /\ TotalSamples \in Nat \ {0} /\ MaxConcurrent \in Nat \ {0}
      /\ MaxRequired \in Nat \ {0} /\ MaxConcurrent <= MaxRequired /\ PendingCapacity \in Nat \ {0}
  BY RolloutTypes, Sizes, FullyAsyncAssumption DEF SystemInv
<1>4. R!ActiveCount \in Nat /\ (stage \in {"limit", "submit"} => R!ActiveCount = taken - 1)
      /\ (stage \in {"drain", "finish"} => R!ActiveCount > 0)
  BY FirstActive
<1>5. R!Release => holder' = "none" /\ waiters' = <<>>
  BY <1>1 DEF R!Release
<1>6. CASE R!ProcCheck(QueueSize)
  <2>1. /\ stage = "check" /\ stage' \in {"setPaused", "fetch"}
        /\ UNCHANGED <<blocked, hand, doneBound, holder, waiters, fed, taken, cancelQueue, task, stamp,
              reapable, failed, failures, paused, staleness, control, main>>
    BY <1>6 DEF R!ProcCheck
  <2>2. IF staleness >= MaxRequired THEN stage' = "setPaused" ELSE stage' = "fetch"
    BY <1>1, <1>2, <1>3, <1>6, <2>1 DEF R!ProcCheck, R!ShouldPause, QueueSize, FirstRun
  <2>3. FirstRun'
    BY <1>1, <1>2, <1>3, <2>1, <2>2 DEF FirstRun, Underway, R!Reaping
  <2> QED BY <2>1, <2>3
<1>7. CASE R!ProcLeaveLoop
  <2>1. ~R!LoopGoesOn /\ stage \in R!Reaping
    BY <1>7 DEF R!ProcLeaveLoop
  <2>2. stage = "limit" /\ taken <= MaxConcurrent
    BY <1>3, <1>4, <2>1 DEF R!LoopGoesOn, R!Reaping
  <2>3. /\ stage' = "submit"
        /\ UNCHANGED <<blocked, hand, doneBound, holder, waiters, fed, taken, cancelQueue, task, stamp,
              reapable, failed, failures, paused, staleness, control, main>>
    BY <1>7, <2>2 DEF R!ProcLeaveLoop, R!NextStage
  <2>4. FirstRun'
    BY <1>1, <1>2, <1>3, <2>2, <2>3 DEF FirstRun, Underway
  <2> QED BY <2>3, <2>4
<1>8. CASE R!ProcSetPaused
  <2>1. /\ stage = "setPaused" /\ stage' = "drain" /\ blocked' = "no" /\ R!Release
        /\ UNCHANGED <<hand, doneBound, fed, taken, cancelQueue, task, stamp,
              reapable, failed, failures, staleness, control, main>>
    BY <1>8 DEF R!ProcSetPaused
  <2>2. FirstRun'
    BY <1>1, <1>2, <1>3, <1>5, <2>1 DEF FirstRun, Underway, R!Reaping
  <2> QED BY <2>1, <2>2
<1>9. CASE R!ProcAwaitTasks
  BY <1>1, <1>9 DEF R!ProcAwaitTasks
<1>10. CASE R!ProcTakePending
  <2>1. /\ stage = "fetch" /\ blocked' = "no" /\ taken' = taken + 1 /\ staleness' = staleness + 1
        /\ hand' = IF taken + 1 = TotalSamples + 1 THEN 0 ELSE taken + 1
        /\ stage' = IF taken + 1 = TotalSamples + 1 THEN "finish" ELSE "limit"
        /\ UNCHANGED <<doneBound, holder, waiters, fed, cancelQueue, task, stamp,
              reapable, failed, failures, paused, control, main>>
    BY <1>10, SameSets DEF R!ProcTakePending, R!IsDone
  <2>2. taken <= TotalSamples /\ hand = 0 /\ ~paused
        /\ \A s \in R!Sample : task[s] = IF s <= taken /\ s # hand THEN "created" ELSE "none"
    BY <2>1, SameSets DEF FirstRun
  <2>3. \A s \in R!Sample : task'[s] = IF s <= taken' /\ s # hand' THEN "created" ELSE "none"
    <3> SUFFICES ASSUME NEW s \in 1..TotalSamples
                 PROVE task[s] = IF s <= taken' /\ s # hand' THEN "created" ELSE "none"
      BY <2>1, SameSets
    <3>1. task[s] = IF s <= taken THEN "created" ELSE "none"
      BY <2>2, SameSets
    <3>2. s <= taken' /\ s # hand' <=> s <= taken
      BY <1>3, <2>1, <2>2
    <3> QED BY <3>1, <3>2
  <2>4. IF stage' = "limit" THEN hand' = taken' /\ 1 <= taken' /\ taken' <= TotalSamples
                            ELSE hand' = 0 /\ stage' = "finish" /\ 1 <= taken'
    BY <1>3, <2>1, <2>2
  <2>5. FirstRun'
    BY <1>1, <1>2, <2>1, <2>2, <2>3, <2>4, SameSets DEF FirstRun, Underway, R!Reaping
  <2> QED BY <2>1, <2>5
<1>11. CASE R!ProcSubmit
  <2>1. /\ stage = "submit" /\ stage' = "check" /\ blocked' = "no" /\ hand' = 0 /\ R!Release
        /\ task' = [task EXCEPT ![hand] = "created"]
        /\ UNCHANGED <<doneBound, fed, taken, cancelQueue, reapable, failed, failures, paused,
              staleness, control, main>>
    BY <1>11, SameSets DEF R!ProcSubmit
  <2>2. /\ hand = taken /\ taken <= TotalSamples /\ taken <= MaxConcurrent /\ ~paused
        /\ task \in [R!Sample -> R!TaskState]
    BY <2>1, RolloutTypes DEF FirstRun, SystemInv
  <2>3. \A s \in R!Sample : task'[s] = IF s <= taken' /\ s # hand' THEN "created" ELSE "none"
    <3> SUFFICES ASSUME NEW s \in 1..TotalSamples
                 PROVE task'[s] = IF s <= taken THEN "created" ELSE "none"
      BY <2>1, SameSets
    <3>1. task[s] = IF s <= taken /\ s # hand THEN "created" ELSE "none"
      BY SameSets DEF FirstRun
    <3>2. task'[s] = IF s = hand THEN "created" ELSE task[s]
      BY <2>1, <2>2, SameSets
    <3> QED BY <1>3, <2>2, <3>1, <3>2
  <2>4. FirstRun'
    BY <1>1, <1>2, <1>5, <2>1, <2>2, <2>3, SameSets DEF FirstRun, Underway
  <2> QED BY <2>1, <2>4
<1>12. CASE R!ProcAwaitPending
  <2>1. stage = "fetch" /\ fed = taken
    BY <1>12 DEF R!ProcAwaitPending
  <2>2. taken <= MaxConcurrent /\ taken <= TotalSamples /\ taken < MaxRequired
        /\ fed = IF TotalSamples + 1 < PendingCapacity THEN TotalSamples + 1 ELSE PendingCapacity
    BY <2>1, SameSets DEF FirstRun, R!Smaller
  <2> QED BY <1>3, <2>1, <2>2 DEF NeverStarved
<1>13. CASE R!ProcNothingToReap
  <2>1. stage \in R!Reaping /\ R!LoopGoesOn /\ R!ActiveCount = 0
    BY <1>1, <1>13 DEF R!ProcNothingToReap, R!ProcEnters, R!NeedsLock, R!Reaping
  <2> QED BY <1>3, <1>4, <2>1 DEF R!LoopGoesOn
<1>14. CASE \/ R!ProcAwaitLock \/ R!ProcReap \/ R!ProcAwaitCondition \/ R!ProcResumed
            \/ R!ProcTakeCancelled
  <2>1. stage # "hold"
    BY <1>1 DEF Underway, R!Reaping
  <2>2. paused => stage = "drain"
    BY DEF FirstRun
  <2> QED BY <1>1, <1>14, <2>1, <2>2 DEF R!ProcAwaitLock, R!Enqueue, R!Enters, R!ProcReap,
             R!ProcAwaitCondition, R!ProcResumed, R!ProcTakeCancelled
<1> QED BY <1>6, <1>7, <1>8, <1>9, <1>10, <1>11, <1>12, <1>13, <1>14 DEF Processor

(* done_tasks stays assigned.                                              *)
LEMMA DoneStays == [R!Next]_(R!vars) /\ doneBound => doneBound'
<1> SUFFICES ASSUME [R!Next]_(R!vars), doneBound PROVE doneBound'
  OBVIOUS
<1> USE DEF R!feedVars, R!procVars, R!taskVars, R!lockVars, R!flagVars, R!ctlVars, R!procOnly,
        R!taskOnly, R!monitorOnly
<1>1. CASE R!ProcessorStep
  BY <1>1 DEF R!ProcessorStep, R!ProcCheck, R!ProcLeaveLoop, R!ProcAwaitLock, R!ProcSetPaused,
     R!ProcAwaitTasks, R!ProcNothingToReap, R!ProcReap, R!BindDone, R!ProcAwaitCondition,
     R!ProcResumed, R!ProcTakeCancelled, R!ProcAwaitPending, R!ProcTakePending, R!ProcSubmit
<1>2. CASE R!Feed \/ R!MainStep \/ \E c \in {"monitor", "control", "main"} : R!AwaitLock(c)
  BY <1>2 DEF R!Feed, R!MainStep, R!MainSentinel, R!MainStop, R!AwaitLock
<1>3. CASE \E s \in R!Sample : R!TaskStep(s)
  BY <1>3 DEF R!TaskStep, R!TaskStart, R!ServerInterrupt, R!TaskCancelled, R!TaskGenerated,
     R!TaskReported, R!TaskFails
<1>4. CASE R!ControlStep
  BY <1>4 DEF R!ControlStep, R!PauseCalled, R!UpdateCalled, R!Call, R!ControlPause,
     R!ControlGathered, R!ControlUpdate, R!ControlReset, R!ControlPublished, R!ControlResume
<1>5. CASE R!MonitorStep
  BY <1>5 DEF R!MonitorStep, R!MonitorCheckRunning, R!MonitorSkip, R!MonitorAwaitLock,
     R!MonitorRecover
<1>6. CASE UNCHANGED R!vars
  BY <1>6 DEF R!vars
<1> QED BY <1>1, <1>2, <1>3, <1>4, <1>5, <1>6 DEF R!Next, R!Terminated

(* What the first run reads, nobody else changes.                          *)
LEMMA FirstFramed ==
    ASSUME FirstRun, UNCHANGED <<rollVars, queue>>, phase' \in {"log", "collect"}
    PROVE  FirstRun'
<1>1. UNCHANGED <<blocked, stage, queue, holder, waiters, control, main, fed, taken, staleness,
                  cancelQueue, failed, reapable, task, hand, paused>>
  BY DEF rollVars
<1> QED BY <1>1 DEF FirstRun, Underway

(* A wait for the tasks ends with done_tasks assigned.                     *)
LEMMA TasksAwaited ==
    ASSUME [R!Next]_(R!vars), blocked = "tasks"
    PROVE  UNCHANGED <<blocked, stage, doneBound>> \/ R!ProcReap
<1> USE DEF R!feedVars, R!procVars, R!taskVars, R!lockVars, R!flagVars, R!ctlVars, R!procOnly,
        R!taskOnly, R!monitorOnly
<1>1. CASE R!ProcessorStep
  BY <1>1 DEF R!ProcessorStep, R!ProcCheck, R!ProcLeaveLoop, R!ProcAwaitLock, R!ProcSetPaused,
     R!ProcAwaitTasks, R!ProcNothingToReap, R!ProcAwaitCondition, R!ProcResumed,
     R!ProcTakeCancelled, R!ProcAwaitPending, R!ProcTakePending, R!ProcSubmit, R!ProcEnters
<1>2. CASE R!Feed \/ R!MainStep \/ \E c \in {"monitor", "control", "main"} : R!AwaitLock(c)
  BY <1>2 DEF R!Feed, R!MainStep, R!MainSentinel, R!MainStop, R!AwaitLock
<1>3. CASE \E s \in R!Sample : R!TaskStep(s)
  BY <1>3 DEF R!TaskStep, R!TaskStart, R!ServerInterrupt, R!TaskCancelled, R!TaskGenerated,
     R!TaskReported, R!TaskFails
<1>4. CASE R!ControlStep
  BY <1>4 DEF R!ControlStep, R!PauseCalled, R!UpdateCalled, R!Call, R!ControlPause,
     R!ControlGathered, R!ControlUpdate, R!ControlReset, R!ControlPublished, R!ControlResume,
     R!Notify
<1>5. CASE R!MonitorStep
  BY <1>5 DEF R!MonitorStep, R!MonitorCheckRunning, R!MonitorSkip, R!MonitorAwaitLock,
     R!MonitorRecover, R!Notify
<1>6. CASE UNCHANGED R!vars
  BY <1>6 DEF R!vars
<1> QED BY <1>1, <1>2, <1>3, <1>4, <1>5, <1>6 DEF R!Next, R!Terminated

(* Who adds to the failed tasks, and who ends the processor early.         *)
LEMMA FailuresShape ==
    ASSUME SystemInv, [R!Next]_(R!vars)
    PROVE  /\ failed' > 0 => failures' > 0 \/ (failed > 0 /\ failures' = failures)
           /\ failures > 0 => failures' > 0
           /\ stage' = "crashed" =>
                 \/ stage = "crashed"
                 \/ R!ProcReap /\ failed > 0
                 \/ R!ProcNothingToReap /\ ~doneBound
<1> USE DEF R!feedVars, R!procVars, R!taskVars, R!lockVars, R!flagVars, R!ctlVars, R!procOnly,
        R!taskOnly, R!monitorOnly
<1>0. failures \in Nat /\ failed \in Nat
  BY DEF SystemInv, Rollout, RP!TypeOK
<1>1. CASE R!ProcessorStep
  <2>1. UNCHANGED failures /\ (UNCHANGED failed \/ failed' = 0)
    BY <1>1 DEF R!ProcessorStep, R!ProcCheck, R!ProcLeaveLoop, R!ProcAwaitLock, R!ProcSetPaused,
     R!ProcAwaitTasks, R!ProcNothingToReap, R!ProcAwaitCondition, R!ProcResumed, R!ProcReap,
     R!ProcTakeCancelled, R!ProcAwaitPending, R!ProcTakePending, R!ProcSubmit
  <2>2. stage' = "crashed" => stage = "crashed" \/ (R!ProcReap /\ failed > 0)
                                \/ (R!ProcNothingToReap /\ ~doneBound)
    BY <1>1 DEF R!ProcessorStep, R!ProcCheck, R!ProcLeaveLoop, R!ProcAwaitLock, R!ProcSetPaused,
     R!ProcAwaitTasks, R!ProcNothingToReap, R!ProcAwaitCondition, R!ProcResumed, R!ProcReap,
     R!ProcTakeCancelled, R!ProcAwaitPending, R!ProcTakePending, R!ProcSubmit, R!NextStage,
     R!Reaping
  <2> QED BY <1>0, <2>1, <2>2
<1>2. CASE R!Feed \/ R!MainStep \/ \E c \in {"monitor", "control", "main"} : R!AwaitLock(c)
  BY <1>0, <1>2 DEF R!Feed, R!MainStep, R!MainSentinel, R!MainStop, R!AwaitLock
<1>3. CASE \E s \in R!Sample : R!TaskStep(s)
  BY <1>0, <1>3 DEF R!TaskStep, R!TaskStart, R!ServerInterrupt, R!TaskCancelled, R!TaskGenerated,
     R!TaskReported, R!TaskFails
<1>4. CASE R!ControlStep
  BY <1>0, <1>4 DEF R!ControlStep, R!PauseCalled, R!UpdateCalled, R!Call, R!ControlPause,
     R!ControlGathered, R!ControlUpdate, R!ControlReset, R!ControlPublished, R!ControlResume
<1>5. CASE R!MonitorStep
  BY <1>0, <1>5 DEF R!MonitorStep, R!MonitorCheckRunning, R!MonitorSkip, R!MonitorAwaitLock,
     R!MonitorRecover
<1>6. CASE UNCHANGED R!vars
  BY <1>0, <1>6 DEF R!vars
<1> QED BY <1>1, <1>2, <1>3, <1>4, <1>5, <1>6 DEF R!Next, R!Terminated

(* Every step of the system keeps the first wait safe.                     *)
LEMMA FirstStep ==
    ASSUME SystemInv, FirstWait, [Next]_vars, NeverStarved
    PROVE  FirstWait'
<1>1. [R!Next]_(R!vars)
  BY StepOfRollouter
<1>2. failed \in Nat /\ failures \in Nat
  BY DEF SystemInv, Rollout, RP!TypeOK
<1>3. ~doneBound' => FirstRun' \/ (blocked' = "tasks" /\ stage' \in Underway)
  <2>1. CASE doneBound
    BY <1>1, <2>1, DoneStays
  <2>2. CASE ~doneBound /\ blocked = "tasks"
    <3>1. stage \in Underway
      BY <2>2 DEF FirstWait, FirstRun
    <3>2. UNCHANGED <<blocked, stage, doneBound>> \/ R!ProcReap
      BY <1>1, <2>2, TasksAwaited
    <3> QED BY <2>2, <3>1, <3>2 DEF R!ProcReap, R!BindDone
  <2>3. CASE ~doneBound /\ FirstRun
    <3>1. CASE Processor
      BY <2>3, <3>1, FirstProcessor
    <3>2. CASE UNCHANGED <<rollVars, queue>> /\ phase' \in {"log", "collect"}
      BY <2>3, <3>2, FirstFramed
    <3> QED BY <2>3, <3>1, <3>2, FirstAlone
  <2> QED BY <2>1, <2>2, <2>3 DEF FirstWait
<1>4. failed' > 0 => failures' > 0
  BY <1>1, <1>2, FailuresShape DEF FirstWait
<1>5. stage' = "crashed" => failures' > 0
  <2> SUFFICES ASSUME stage' = "crashed" PROVE failures > 0
    BY <1>1, FailuresShape
  <2>1. ~(R!ProcNothingToReap /\ ~doneBound)
    <3> SUFFICES ASSUME R!ProcNothingToReap, ~doneBound PROVE FALSE
      OBVIOUS
    <3>1. R!ProcEnters /\ stage \in R!Reaping /\ R!ActiveCount = 0
      BY DEF R!ProcNothingToReap
    <3>2. FirstRun
      BY <3>1 DEF FirstWait, R!ProcEnters
    <3>3. R!LoopGoesOn
      BY <3>1, <3>2 DEF FirstRun, R!ProcEnters, R!NeedsLock, R!Reaping
    <3> QED BY <3>1, <3>2, <3>3, FirstActive, FullyAsyncAssumption, Sizes DEF R!LoopGoesOn
  <2> QED BY <1>1, <2>1, FailuresShape DEF FirstWait
<1> QED BY <1>3, <1>4, <1>5 DEF FirstWait

(* The processor ends before DONE only for a generation that raised: what  *)
(* pause() clears behind its back never makes it read an unbound           *)
(* done_tasks, provided pending_queue, of 128 in the code, holds more than *)
(* max_concurrent_samples, or max_required_samples, or all of them.        *)
THEOREM ProcessorLives ==
    ASSUME NeverStarved
    PROVE  Spec => []ProcessorSurvives
<1>1. SystemInv /\ FirstWait /\ [Next]_vars => FirstWait'
  BY FirstStep
<1>2. FirstWait => ProcessorSurvives
  BY DEF FirstWait, ProcessorSurvives
<1> QED BY <1>1, <1>2, FirstAtStart, SystemHolds, PTL DEF Spec

-----------------------------------------------------------------------------
(* Every sample goes through the fully asynchronous trainer once, forward  *)
(* only: the system implements SampleFlow.  The invariant behind it is     *)
(* that a sample is in one place at a time: not fetched yet, with the      *)
(* rollouter, in the queue, in the trainer's batch, or gone.               *)

(* The samples of a sequence of items, and that none is in it twice.       *)
Ids(q) == {q[i].id : i \in 1..Len(q)}
Once(q) == \A i, j \in 1..Len(q) : q[i].id = q[j].id => i = j

LEMMA AppendOnce ==
    ASSUME NEW q \in Seq(Item), NEW item \in Item
    PROVE  /\ Ids(Append(q, item)) = Ids(q) \cup {item.id}
           /\ Once(q) /\ item.id \notin Ids(q) => Once(Append(q, item))
<1> DEFINE r == Append(q, item)
           n == Len(q)
<1>1. /\ n \in Nat /\ Len(r) = n + 1 /\ r[n + 1] = item
      /\ \A i \in 1..n : r[i] = q[i]
  OBVIOUS
<1>2. 1..Len(r) = 1..n \cup {n + 1}
  BY <1>1
<1> HIDE DEF r, n
<1>3. Ids(r) = {r[i].id : i \in 1..n} \cup {item.id}
  BY <1>1, <1>2 DEF Ids
<1>4. {r[i].id : i \in 1..n} = Ids(q)
  BY <1>1 DEF Ids, n
<1>5. ASSUME Once(q), item.id \notin Ids(q), NEW i \in 1..Len(r), NEW j \in 1..Len(r),
             r[i].id = r[j].id
      PROVE  i = j
  <2>1. CASE i \in 1..n /\ j \in 1..n
    BY <1>1, <1>5, <2>1 DEF Once, n
  <2>2. \A k \in 1..n : r[k].id # item.id
    BY <1>1, <1>5 DEF Ids, n
  <2> QED BY <1>1, <1>2, <1>5, <2>1, <2>2
<1>6. Once(q) /\ item.id \notin Ids(q) => Once(r)
  BY <1>5 DEF Once
<1> QED BY <1>3, <1>4, <1>6 DEF r

LEMMA TailOnce ==
    ASSUME NEW q \in Seq(Item), q # <<>>, Once(q)
    PROVE  /\ Head(q) \in Item /\ Head(q).id \in Ids(q)
           /\ Once(Tail(q)) /\ Ids(Tail(q)) = Ids(q) \ {Head(q).id}
<1> DEFINE r == Tail(q)
           n == Len(r)
<1>1. /\ n \in Nat /\ Len(q) = n + 1 /\ Head(q) = q[1] /\ Head(q) \in Item
      /\ \A i \in 1..n : r[i] = q[i + 1]
  OBVIOUS
<1>2. 1 \in 1..Len(q) /\ \A i \in 1..n : i + 1 \in 1..Len(q) /\ i + 1 # 1
  BY <1>1
<1>3. \A k \in 1..Len(q) : k = 1 \/ \E i \in 1..n : k = i + 1
  <2> TAKE k \in 1..Len(q)
  <2>1. CASE k # 1
    <3>1. k - 1 \in 1..n /\ k = (k - 1) + 1
      BY <1>1, <2>1
    <3> QED BY <3>1
  <2> QED BY <2>1
<1> HIDE DEF r, n
<1>4. Head(q).id \in Ids(q)
  BY <1>1, <1>2 DEF Ids
<1>5. Once(r)
  <2> SUFFICES ASSUME NEW i \in 1..n, NEW j \in 1..n, r[i].id = r[j].id PROVE i = j
    BY DEF Once, n
  <2>1. i + 1 = j + 1
    BY <1>1, <1>2 DEF Once
  <2> QED BY <1>1, <2>1
<1>6. Ids(r) = Ids(q) \ {Head(q).id}
  <2>1. ASSUME NEW i \in 1..n PROVE r[i].id \in Ids(q) /\ r[i].id # Head(q).id
    BY <1>1, <1>2 DEF Ids, Once
  <2>2. ASSUME NEW k \in 1..Len(q), q[k].id # Head(q).id PROVE q[k].id \in Ids(r)
    BY <1>1, <1>3, <2>2 DEF Ids, n
  <2> QED BY <2>1, <2>2 DEF Ids, n
<1> QED BY <1>1, <1>4, <1>5, <1>6 DEF r

(* As many samples as items, when none is there twice.                     *)
LEMMA CountIds ==
    ASSUME NEW q \in Seq(Item)
    PROVE  /\ IsFiniteSet(Ids(q)) /\ Cardinality(Ids(q)) \in Nat
           /\ Cardinality(Ids(q)) <= Len(q)
           /\ Once(q) => Cardinality(Ids(q)) = Len(q)
<1> DEFINE S == 1..Len(q)
           f == [i \in S |-> q[i].id]
<1>1. Len(q) \in Nat
  OBVIOUS
<1>2. IsFiniteSet(S) /\ Cardinality(S) = Len(q)
  <2>1. Cardinality(1..Len(q)) = IF 1 > Len(q) THEN 0 ELSE Len(q) - 1 + 1
    BY <1>1, FS_Interval
  <2> QED BY <1>1, <2>1, FS_Interval
<1>3. Ids(q) = {q[i].id : i \in S} /\ (Once(q) <=> \A i, j \in S : q[i].id = q[j].id => i = j)
  BY DEF Ids, Once
<1>4. f \in [S -> Ids(q)] /\ \A i \in S : f[i] = q[i].id
  BY <1>3
<1> HIDE DEF S, f
<1>5. f \in Surjection(S, Ids(q))
  BY <1>3, <1>4 DEF Surjection
<1>6. ASSUME Once(q) PROVE f \in Injection(S, Ids(q))
  <2>1. \A i, j \in S : f[i] = f[j] => i = j
    BY <1>3, <1>4, <1>6
  <2> QED BY <1>4, <2>1 DEF Injection, IsInjective
<1>7. /\ IsFiniteSet(Ids(q)) /\ Cardinality(Ids(q)) <= Cardinality(S)
      /\ Cardinality(Ids(q)) = Cardinality(S) <=> f \in Injection(S, Ids(q))
  BY <1>2, <1>5, FS_Surjection
<1> QED BY <1>2, <1>6, <1>7, FS_CardinalityType

-----------------------------------------------------------------------------
(* A sample is in one place.                                               *)
OnePlace ==
    /\ Once(queue) /\ Once(batch)
    /\ Ids(queue) \subseteq 0..taken /\ Ids(queue) \cap RP!Rolling = {}
    /\ Ids(batch) \subseteq 1..taken /\ Ids(batch) \cap RP!Rolling = {}
    /\ Ids(batch) \cap Ids(queue) = {}

LEMMA RollingMoves ==
    ASSUME SystemInv, [Next]_vars
    PROVE  \/ /\ taken' = taken + 1 /\ taken' \in 1..(TotalSamples + 1)
              /\ RP!Rolling' = RP!Rolling \cup ({taken'} \ {TotalSamples + 1})
           \/ \E s \in RP!Rolling : /\ taken' = taken /\ RP!Rolling' = RP!Rolling \ {s}
                                    /\ task'[s] = "none"
                                    /\ task[s] = "reporting" \/ RP!TaskFails(s)
           \/ taken' = taken /\ RP!Rolling' = RP!Rolling
<1>1. [RP!Next]_(RP!vars) /\ RP!TypeOK'
  BY StepOfRollouter, SameNext, SameVars, RolloutKept DEF Rollout
<1> QED BY <1>1, RolloutAssumed, RP!RollingStep, SameSets DEF SystemInv, Rollout

LEMMA RollingWithin ==
    ASSUME SystemInv
    PROVE  RP!Rolling \subseteq 1..TotalSamples /\ \A s \in RP!Rolling : s <= taken
  BY RolloutAssumed, RP!RollingTaken, SameSets DEF SystemInv, Rollout

(* The sample that is put leaves the rollouter.                            *)
LEMMA PutLeaves ==
    ASSUME SystemInv, NEW s \in R!Sample, TaskPuts(s)
    PROVE  /\ s \in RP!Rolling /\ RP!Rolling' = RP!Rolling \ {s} /\ taken' = taken
           /\ Stamped(s) \in Item /\ Stamped(s).id = s
<1>1. /\ task \in [R!Sample -> R!TaskState] /\ RP!NoDoubleSubmit
  BY RolloutTypes DEF SystemInv, Rollout
<1>2. /\ task[s] = "reporting" /\ task' = [task EXCEPT ![s] = "none"]
      /\ UNCHANGED <<taken, hand, cancelQueue>>
  BY DEF TaskPuts, R!TaskReported, R!taskOnly, R!feedVars, R!procVars
<1>3. s \in RP!Live /\ RP!Live' = RP!Live \ {s}
  BY <1>1, <1>2, SameSets DEF RP!Live
<1>4. s # hand /\ s \notin {cancelQueue[i] : i \in 1..Len(cancelQueue)}
  BY <1>1, <1>2, SameSets, FullyAsyncAssumption DEF RP!NoDoubleSubmit
<1>5. Stamped(s) \in Item /\ Stamped(s).id = s
  BY SameSets DEF Stamped, Item, SystemInv, Kinds
<1> QED BY <1>2, <1>3, <1>4, <1>5 DEF RP!Rolling

(* What a put does to the samples of the queue: a full queue loses one.    *)
LEMMA PutIds ==
    ASSUME SystemInv, Once(queue), NEW item \in Item, MQ!PutSample(item), item.id \notin Ids(queue)
    PROVE  /\ Once(queue')
           /\ \/ Ids(queue') = Ids(queue) \cup {item.id}
              \/ /\ Len(queue) = MaxRequired /\ queue # <<>> /\ Head(queue).id \in Ids(queue)
                 /\ Ids(queue') = (Ids(queue) \ {Head(queue).id}) \cup {item.id}
<1>1. queue \in Seq(Item) /\ Kinds
  BY DEF SystemInv, Kinds
<1>2. \/ queue' = Append(queue, item)
      \/ /\ queue' = Append(Tail(queue), item) /\ queue # <<>>
         /\ Len(queue) = MaxRequired
  BY <1>1, PutShape
<1>3. CASE queue' = Append(queue, item)
  BY <1>1, <1>3, AppendOnce
<1>4. CASE /\ queue' = Append(Tail(queue), item) /\ queue # <<>>
           /\ Len(queue) = MaxRequired
  <2>1. Tail(queue) \in Seq(Item)
    BY <1>1, <1>4
  <2>2. /\ Head(queue).id \in Ids(queue) /\ Once(Tail(queue))
        /\ Ids(Tail(queue)) = Ids(queue) \ {Head(queue).id}
    BY <1>1, <1>4, TailOnce
  <2> QED BY <1>4, <2>1, <2>2, AppendOnce
<1> QED BY <1>2, <1>3, <1>4

LEMMA OnePlaceStep ==
    ASSUME SystemInv, SystemInv', Streaming, OnePlace, [Next]_vars
    PROVE  OnePlace'
<1>1. /\ queue \in Seq(Item) /\ batch \in Seq(Item) /\ taken \in Nat /\ taken' \in Nat
      /\ R!NoSample = 0 /\ TotalSamples \in Nat /\ taken' <= TotalSamples + 1
  BY RolloutTypes, SameSets, FullyAsyncAssumption DEF SystemInv, Kinds, Rollout, RP!TypeOK
<1>2. RP!Rolling \subseteq 1..TotalSamples /\ \A s \in RP!Rolling : s <= taken
  BY RollingWithin
<1>3. /\ taken' \in {taken, taken + 1}
      /\ \A s \in RP!Rolling' : s \in RP!Rolling \/ s = taken + 1
  BY RollingMoves
(* What was within what is taken, and not with the rollouter, stays so. *)
<1>4. \A S \in SUBSET (0..taken) : S \cap RP!Rolling = {} =>
         S \subseteq 0..taken' /\ S \cap RP!Rolling' = {}
  BY <1>1, <1>3
<1>5. \A S \in SUBSET (1..taken) : S \subseteq 1..taken'
  BY <1>1, <1>3
<1>6. /\ Ids(queue) \in SUBSET (0..taken) /\ Ids(queue) \cap RP!Rolling = {}
      /\ Ids(batch) \in SUBSET (1..taken) /\ Ids(batch) \cap RP!Rolling = {}
      /\ Ids(batch) \in SUBSET (0..taken) /\ Once(queue) /\ Once(batch)
      /\ Ids(batch) \cap Ids(queue) = {}
  BY <1>1 DEF OnePlace
<1>7. Ids(<<>>) = {} /\ Once(<<>>)
  BY DEF Ids, Once
<1>8. ASSUME queue' = queue \/ queue' = <<>>, batch' = batch \/ batch' = <<>> PROVE OnePlace'
  <2>1. /\ Once(queue') /\ Once(batch') /\ Ids(queue') \subseteq Ids(queue)
        /\ Ids(batch') \subseteq Ids(batch)
    BY <1>6, <1>7, <1>8
  <2> QED BY <1>4, <1>5, <1>6, <2>1 DEF OnePlace, Ids, Once
<1>9. CASE Rolls \/ UNCHANGED vars
  <2>1. UNCHANGED <<queueVars, trainVars>>
    BY <1>9, RollsShape DEF vars
  <2> QED BY <1>8, <2>1 DEF queueVars, trainVars
<1>10. CASE Control \/ ControlPublishes
  BY <1>8, <1>10, ControlShape DEF trainVars
<1>11. CASE \/ TrainerAwaitsSample \/ TrainerTrains \/ TrainerLogs \/ SyncPauses
            \/ SyncUpdatesQueue \/ SyncTransfers \/ TrainerCloses \/ RunnerClears
  <2>1. (queue' = queue \/ queue' = <<>>) /\ (batch' = batch \/ batch' = <<>>)
    BY <1>11 DEF TrainerAwaitsSample, TrainerTrains, TrainerLogs, SyncPauses, SyncUpdatesQueue,
       SyncTransfers, TrainerCloses, RunnerClears, MQ!AwaitSample, MQ!GetValidate,
       MQ!UpdateParamVersion, MQ!ClearQueue, T!Log, T!Train, T!StartSync, T!SyncReturned,
       T!Close, T!CloseAfterSync, queueVars, trainVars
  <2> QED BY <1>8, <2>1
<1>12. CASE \E s \in R!Sample : TaskPuts(s)
  <2>1. PICK s \in R!Sample : TaskPuts(s)
    BY <1>12
  <2>2. /\ s \in RP!Rolling /\ RP!Rolling' = RP!Rolling \ {s} /\ taken' = taken
        /\ Stamped(s) \in Item /\ Stamped(s).id = s
    BY <2>1, PutLeaves
  <2>3. MQ!PutSample(Stamped(s)) /\ batch' = batch
    BY <2>1 DEF TaskPuts, trainVars
  <2>4. s \notin Ids(queue) /\ s \in 1..taken /\ s \notin Ids(batch)
    BY <1>1, <1>2, <1>6, <2>2
  <2>5. Once(queue') /\ Ids(queue') \subseteq Ids(queue) \cup {s}
    BY <1>6, <2>2, <2>3, <2>4, PutIds
  <2>6. /\ Ids(queue') \subseteq 0..taken /\ Ids(queue') \cap RP!Rolling' = {}
        /\ Ids(batch) \cap Ids(queue') = {} /\ Ids(batch) \cap RP!Rolling' = {}
    BY <1>6, <2>2, <2>4, <2>5
  <2> QED BY <1>6, <2>2, <2>3, <2>5, <2>6 DEF OnePlace
<1>13. CASE MainPutsSentinel
  <2>1. Sentinel \in Item /\ Sentinel.id = 0
    BY SameSets, VersionsBounded, FullyAsyncAssumption DEF Sentinel, Item
  <2>2. main = "stream" /\ MQ!PutSample(Sentinel) /\ batch' = batch
    BY <1>13 DEF MainPutsSentinel, R!MainSentinel, trainVars
  <2>3. 0 \notin Ids(queue)
    BY <1>1, <2>2 DEF Streaming, IsSentinel, Ids
  <2>4. Once(queue') /\ Ids(queue') \subseteq Ids(queue) \cup {0}
    BY <1>6, <2>1, <2>2, <2>3, PutIds
  <2>5. Ids(queue) \cup {0} \in SUBSET (0..taken) /\ (Ids(queue) \cup {0}) \cap RP!Rolling = {}
    BY <1>1, <1>2, <1>6
  <2>6. /\ Ids(queue) \cup {0} \subseteq 0..taken' /\ (Ids(queue) \cup {0}) \cap RP!Rolling' = {}
        /\ Ids(batch) \subseteq 1..taken' /\ Ids(batch) \cap RP!Rolling' = {}
    BY <1>4, <1>5, <1>6, <2>5
  <2>7. /\ Ids(queue') \subseteq 0..taken' /\ Ids(queue') \cap RP!Rolling' = {}
        /\ Ids(batch) \cap Ids(queue') = {}
    BY <1>1, <1>6, <2>4, <2>6
  <2> QED BY <1>6, <2>2, <2>4, <2>6, <2>7 DEF OnePlace
<1>14. CASE TrainerGetsSample
  <2>1. /\ queue # <<>> /\ queue' = Tail(queue) /\ UNCHANGED rollVars
        /\ batch' = (IF IsSentinel(Head(queue)) THEN <<>> ELSE Append(batch, Head(queue)))
    BY <1>14 DEF TrainerGetsSample, MQ!GetSample, MQ!PopLeft, T!Collect
  <2>2. taken' = taken /\ RP!Rolling' = RP!Rolling
    BY <2>1 DEF rollVars, RP!Rolling, RP!Live
  <2>3. /\ Head(queue) \in Item /\ Head(queue).id \in Ids(queue)
        /\ Once(queue') /\ Ids(queue') = Ids(queue) \ {Head(queue).id}
    BY <1>1, <1>6, <2>1, TailOnce
  <2>4. CASE IsSentinel(Head(queue))
    BY <1>6, <1>7, <2>1, <2>2, <2>3, <2>4 DEF OnePlace
  <2>5. CASE ~IsSentinel(Head(queue))
    <3>1. Head(queue).id # 0 /\ Head(queue).id \in 1..taken
      BY <1>1, <1>6, <2>3, <2>5 DEF IsSentinel
    <3>2. Head(queue).id \notin Ids(batch) /\ Head(queue).id \notin RP!Rolling
      BY <1>6, <2>3
    <3>3. Ids(batch') = Ids(batch) \cup {Head(queue).id} /\ Once(batch')
      BY <1>1, <1>6, <2>1, <2>3, <2>5, <3>2, AppendOnce
    <3> QED BY <1>6, <2>2, <2>3, <3>1, <3>2, <3>3 DEF OnePlace
  <2> QED BY <2>4, <2>5
<1> QED BY <1>9, <1>10, <1>11, <1>12, <1>13, <1>14, StepCases

LEMMA OnePlaceAtStart == Init => OnePlace
  BY DEF Init, MQ!InitWith, T!Init, R!Init, OnePlace, Once, Ids

LEMMA OnePlaceHolds == Spec => [](SystemInv /\ EndInv /\ OnePlace)
<1>1. SystemInv /\ EndInv /\ OnePlace /\ [Next]_vars => OnePlace'
  BY SystemKept, OnePlaceStep DEF EndInv
<1> QED BY <1>1, EndAtStart, EndStep, OnePlaceAtStart, SystemHolds, PTL DEF Spec

-----------------------------------------------------------------------------
(* The state of SampleFlow that the system is in.                          *)

Source == {s \in R!Sample : s > taken}
Queued == Ids(queue) \ {0}

LEMMA FlowRolling == R!Live \cup InHand \cup Interrupted = RP!Rolling
<1>1. InHand = {hand} \ {RP!NoSample}
  BY SameSets DEF InHand
<1> QED BY <1>1, SameSets DEF RP!Rolling, Interrupted

LEMMA FlowRollingNext == (R!Live \cup InHand \cup Interrupted = RP!Rolling)'
  BY FlowRolling, PTL

LEMMA FlowQueued == QueuedSamples = Queued
  BY SameSets DEF QueuedSamples, Queued, Ids

LEMMA FlowQueuedNext == (QueuedSamples = Queued)'
  BY FlowQueued, PTL

LEMMA SameFlowCardinality == \A S : Flow!Cardinality(S) = Cardinality(S)
  BY DEF Flow!Cardinality, Cardinality

(* A step that changes none of it is no step of SampleFlow.                *)
LEMMA FlowStutters ==
    ASSUME Source' = Source, RP!Rolling' = RP!Rolling, Queued' = Queued,
           Ids(batch') = Ids(batch), trained' = trained
    PROVE  UNCHANGED Flow!vars
  BY FlowRolling, FlowRollingNext, FlowQueued, FlowQueuedNext DEF Flow!vars, Source, Ids

(* A report is left only by put_sample().                                  *)
LEMMA ReportsKept ==
    ASSUME SystemInv, Rolls, NEW s \in R!Sample, task[s] = "reporting"
    PROVE  task'[s] = "reporting"
<1> USE DEF R!feedVars, R!procVars, R!taskVars, R!lockVars, R!flagVars, R!ctlVars, R!procOnly,
        R!taskOnly, R!monitorOnly
<1>1. task \in [R!Sample -> R!TaskState]
  BY RolloutTypes DEF SystemInv
<1>2. CASE \E r \in R!Sample : TaskMoves(r) \/ TaskFails(r)
  <2>1. PICK r \in R!Sample : \/ R!TaskStart(r) \/ R!ServerInterrupt(r) \/ R!TaskCancelled(r)
                              \/ R!TaskGenerated(r) \/ R!TaskFails(r)
    BY <1>2 DEF TaskMoves, TaskFails
  <2>2. /\ task[r] # "reporting"
        /\ \E t \in R!TaskState : task' = [task EXCEPT ![r] = t]
    BY <2>1 DEF R!TaskStart, R!ServerInterrupt, R!TaskCancelled, R!TaskGenerated, R!TaskFails,
       R!TaskState
  <2> QED BY <1>1, <2>2
<1>3. CASE R!ProcSubmit
  <2>1. hand # s
    <3>1. stage = "submit" /\ RP!Placed /\ RP!NoDoubleSubmit
      BY <1>3 DEF R!ProcSubmit, SystemInv, Rollout
    <3>2. hand # RP!NoSample /\ task[hand] = "none"
      BY <3>1 DEF RP!Placed, RP!NoDoubleSubmit
    <3> QED BY <3>2
  <2> QED BY <1>1, <1>3, <2>1 DEF R!ProcSubmit
<1>4. CASE Processor /\ ~R!ProcSubmit
  BY <1>4 DEF Processor, R!ProcCheck, R!ProcLeaveLoop, R!ProcAwaitLock, R!ProcSetPaused,
     R!ProcAwaitTasks, R!ProcNothingToReap, R!ProcReap, R!ProcAwaitCondition, R!ProcResumed,
     R!ProcTakeCancelled, R!ProcAwaitPending, R!ProcTakePending
<1>5. CASE Feeder \/ MainStops
  BY <1>5 DEF Feeder, MainStops, R!Feed, R!MainStop, R!AwaitLock
<1>6. CASE Monitor
  BY <1>6 DEF Monitor, R!MonitorCheckRunning, R!MonitorSkip, R!MonitorAwaitLock,
     R!MonitorRecover, R!AwaitLock
<1> QED BY <1>2, <1>3, <1>4, <1>5, <1>6 DEF Rolls

(* The rollouter takes samples from the dataset, and loses the failing.    *)
LEMMA FlowRolls ==
    ASSUME SystemInv, SystemInv', Rolls, [Next]_vars
    PROVE  [Flow!Next]_(Flow!vars)
<1>1. UNCHANGED <<queue, batch, trained>>
  BY RollsShape DEF queueVars, trainVars
<1>2. Queued' = Queued /\ Ids(batch') = Ids(batch)
  BY <1>1 DEF Queued, Ids
<1>3. /\ taken \in Nat /\ TotalSamples \in Nat /\ R!Sample = 1..TotalSamples
  BY RolloutTypes, SameSets, FullyAsyncAssumption DEF SystemInv
<1>4. CASE /\ taken' = taken + 1 /\ taken' \in 1..(TotalSamples + 1)
           /\ RP!Rolling' = RP!Rolling \cup ({taken'} \ {TotalSamples + 1})
  <2>1. CASE taken = TotalSamples
    <3>1. Source = {} /\ Source' = {} /\ RP!Rolling' = RP!Rolling
      BY <1>3, <1>4, <2>1, SameSets DEF Source, R!Sample
    <3> QED BY <1>1, <1>2, <3>1, FlowStutters
  <2>2. CASE taken # TotalSamples
    <3>1. /\ taken + 1 \in Source /\ Source' = Source \ {taken + 1}
          /\ RP!Rolling' = RP!Rolling \cup {taken + 1}
      BY <1>3, <1>4, <2>2 DEF Source, R!Sample
    <3>2. Flow!Fetch
      BY <1>1, <1>2, <3>1, FlowRolling, FlowRollingNext, FlowQueued, FlowQueuedNext
         DEF Flow!Fetch, Source, Ids
    <3> QED BY <3>2 DEF Flow!Next
  <2> QED BY <2>1, <2>2
<1>5. CASE \E s \in RP!Rolling : /\ taken' = taken /\ RP!Rolling' = RP!Rolling \ {s}
                                 /\ task'[s] = "none"
                                 /\ task[s] = "reporting" \/ RP!TaskFails(s)
  <2>1. PICK s \in RP!Rolling : /\ taken' = taken /\ RP!Rolling' = RP!Rolling \ {s}
                                /\ task'[s] = "none"
                                /\ task[s] = "reporting" \/ RP!TaskFails(s)
    BY <1>5
  <2>2. s \in R!Sample
    BY <1>3, RollingWithin
  <2>3. RP!TaskFails(s)
    BY <2>1, <2>2, ReportsKept
  <2>4. MaxFailures > 0
    <3>1. failures < MaxFailures /\ failures \in Nat /\ MaxFailures \in Nat
      BY <2>3, RolloutTypes, FullyAsyncAssumption DEF RP!TaskFails, SystemInv
    <3> QED BY <3>1
  <2>5. Source' = Source
    BY <2>1 DEF Source, R!Sample
  <2>6. Flow!Fail
    BY <1>1, <1>2, <2>1, <2>4, <2>5, FlowRolling, FlowRollingNext, FlowQueued, FlowQueuedNext
       DEF Flow!Fail, Source, Ids
  <2> QED BY <2>6 DEF Flow!Next
<1>6. CASE taken' = taken /\ RP!Rolling' = RP!Rolling
  <2>1. Source' = Source
    BY <1>6 DEF Source, R!Sample
  <2> QED BY <1>1, <1>2, <1>6, <2>1, FlowStutters
<1> QED BY <1>4, <1>5, <1>6, RollingMoves

(* Unless the rollouter rolls, its samples are left alone, but for a put.  *)
LEMMA FlowStays ==
    ASSUME UNCHANGED <<taken, cancelQueue, hand, task>>
    PROVE  Source' = Source /\ RP!Rolling' = RP!Rolling
  BY DEF Source, R!Sample, RP!Rolling, RP!Live, RP!Sample

(* A full queue that a sample overflows holds it and the rest but one: no  *)
(* more than the marker is no sample.                                      *)
LEMMA FlowOverflows ==
    ASSUME SystemInv, OnePlace, Len(queue) = MaxRequired, queue # <<>>,
           NEW lost, lost = {Head(queue).id} \ {0}
    PROVE  lost \in SUBSET Queued /\ Flow!Overflow(lost)
<1>1. queue \in Seq(Item) /\ Once(queue) /\ Head(queue).id \in Ids(queue)
  BY TailOnce DEF SystemInv, Kinds, OnePlace
<1>2. lost \in SUBSET Queued
  BY <1>1 DEF Queued
<1>3. CASE lost = {}
  BY <1>2, <1>3 DEF Flow!Overflow
<1>4. CASE lost # {}
  <2>1. lost = {Head(queue).id} /\ Cardinality(lost) = 1
    <3>1. lost = {Head(queue).id}
      BY <1>4
    <3> QED BY <3>1, FS_Singleton
  <2>2. IsFiniteSet(Ids(queue)) /\ Cardinality(Ids(queue)) = MaxRequired
    BY <1>1, CountIds
  <2>3. /\ Cardinality(Queued) \in Nat /\ MaxRequired \in Nat
        /\ Cardinality(Queued) = IF 0 \in Ids(queue) THEN MaxRequired - 1 ELSE MaxRequired
    <3>1. IsFiniteSet(Queued) /\ Cardinality(Queued) \in Nat
      BY <2>2, FS_RemoveElement, FS_CardinalityType DEF Queued
    <3> QED BY <2>2, <3>1, FS_RemoveElement, Sizes DEF Queued
  <2>4. Cardinality(Queued) + 1 >= MaxRequired
    BY <2>3
  <2> QED BY <1>2, <2>1, <2>4, FlowQueued, SameFlowCardinality DEF Flow!Overflow
<1> QED BY <1>3, <1>4

LEMMA FlowPuts ==
    ASSUME SystemInv, OnePlace, NEW s \in R!Sample, TaskPuts(s)
    PROVE  Flow!Next
<1>1. /\ s \in RP!Rolling /\ RP!Rolling' = RP!Rolling \ {s} /\ taken' = taken
      /\ Stamped(s) \in Item /\ Stamped(s).id = s
  BY PutLeaves
<1>2. s # 0 /\ s \notin Ids(queue)
  BY <1>1, SameSets, FullyAsyncAssumption DEF OnePlace
<1>3. MQ!PutSample(Stamped(s)) /\ UNCHANGED <<batch, trained>>
  BY DEF TaskPuts, trainVars
<1>4. Source' = Source /\ Ids(batch') = Ids(batch)
  BY <1>1, <1>3 DEF Source, R!Sample, Ids
<1>5. \E lost \in SUBSET Queued : Flow!Overflow(lost) /\ Queued' = (Queued \ lost) \cup {s}
  <2>1. \/ Ids(queue') = Ids(queue) \cup {s}
        \/ /\ Len(queue) = MaxRequired /\ queue # <<>> /\ Head(queue).id \in Ids(queue)
           /\ Ids(queue') = (Ids(queue) \ {Head(queue).id}) \cup {s}
    BY <1>1, <1>2, <1>3, PutIds DEF OnePlace
  <2>2. CASE Ids(queue') = Ids(queue) \cup {s}
    <3>1. Flow!Overflow({}) /\ Queued' = (Queued \ {}) \cup {s}
      BY <1>2, <2>2 DEF Queued, Flow!Overflow
    <3> QED BY <3>1
  <2>3. CASE /\ Len(queue) = MaxRequired /\ queue # <<>> /\ Head(queue).id \in Ids(queue)
             /\ Ids(queue') = (Ids(queue) \ {Head(queue).id}) \cup {s}
    <3> DEFINE lost == {Head(queue).id} \ {0}
    <3>1. lost \in SUBSET Queued /\ Flow!Overflow(lost)
      BY <2>3, FlowOverflows
    <3>2. Queued' = (Queued \ lost) \cup {s}
      BY <1>2, <2>3 DEF Queued
    <3> QED BY <3>1, <3>2
  <2> QED BY <2>1, <2>2, <2>3
<1>6. Flow!Deliver
  BY <1>1, <1>3, <1>4, <1>5, FlowRolling, FlowRollingNext, FlowQueued, FlowQueuedNext
     DEF Flow!Deliver, Source, Ids
<1> QED BY <1>6 DEF Flow!Next

LEMMA FlowEnds ==
    ASSUME SystemInv, Streaming, OnePlace, MainPutsSentinel
    PROVE  Flow!Next
<1>1. Sentinel \in Item /\ Sentinel.id = 0
  BY SameSets, VersionsBounded, FullyAsyncAssumption DEF Sentinel, Item
<1>2. /\ main = "stream" /\ MQ!PutSample(Sentinel) /\ UNCHANGED <<batch, trained>>
      /\ UNCHANGED <<taken, cancelQueue, hand, task>>
  BY DEF MainPutsSentinel, R!MainSentinel, trainVars, R!feedVars, R!procVars, R!taskVars
<1>3. 0 \notin Ids(queue)
  BY <1>2, SameSets DEF Streaming, IsSentinel, Ids
<1>4. Source' = Source /\ RP!Rolling' = RP!Rolling /\ Ids(batch') = Ids(batch)
  BY <1>2, FlowStays DEF Ids
<1>5. \E lost \in SUBSET Queued : Flow!Overflow(lost) /\ Queued' = Queued \ lost
  <2>1. \/ Ids(queue') = Ids(queue) \cup {0}
        \/ /\ Len(queue) = MaxRequired /\ queue # <<>> /\ Head(queue).id \in Ids(queue)
           /\ Ids(queue') = (Ids(queue) \ {Head(queue).id}) \cup {0}
    BY <1>1, <1>2, <1>3, PutIds DEF OnePlace
  <2>2. CASE Ids(queue') = Ids(queue) \cup {0}
    <3>1. Flow!Overflow({}) /\ Queued' = Queued \ {}
      BY <2>2 DEF Queued, Flow!Overflow
    <3> QED BY <3>1
  <2>3. CASE /\ Len(queue) = MaxRequired /\ queue # <<>> /\ Head(queue).id \in Ids(queue)
             /\ Ids(queue') = (Ids(queue) \ {Head(queue).id}) \cup {0}
    <3> DEFINE lost == {Head(queue).id} \ {0}
    <3>1. lost \in SUBSET Queued /\ Flow!Overflow(lost)
      BY <2>3, FlowOverflows
    <3>2. Queued' = Queued \ lost
      BY <2>3 DEF Queued
    <3> QED BY <3>1, <3>2
  <2> QED BY <2>1, <2>2, <2>3
<1>6. Flow!DeliverEnd
  BY <1>2, <1>4, <1>5, FlowRolling, FlowRollingNext, FlowQueued, FlowQueuedNext
     DEF Flow!DeliverEnd, Source, Ids
<1> QED BY <1>6 DEF Flow!Next

(* The trainer collects the oldest sample, or drops its batch at the end.  *)
LEMMA FlowCollects ==
    ASSUME SystemInv, OnePlace, TrainerGetsSample
    PROVE  Flow!Next
<1>1. /\ phase = "collect" /\ queue # <<>> /\ queue' = Tail(queue) /\ trained' = trained
      /\ UNCHANGED <<taken, cancelQueue, hand, task>>
      /\ batch' = (IF IsSentinel(Head(queue)) THEN <<>> ELSE Append(batch, Head(queue)))
  BY DEF TrainerGetsSample, MQ!GetSample, MQ!PopLeft, T!Collect, rollVars
<1>2. /\ queue \in Seq(Item) /\ batch \in Seq(Item) /\ Len(batch) < Required
      /\ Once(queue) /\ Once(batch) /\ Required \in Nat /\ Len(batch) \in Nat
  BY <1>1, FullyAsyncAssumption DEF SystemInv, Kinds, Training, OnePlace
<1>3. /\ Head(queue) \in Item /\ Head(queue).id \in Ids(queue)
      /\ Ids(queue') = Ids(queue) \ {Head(queue).id}
  BY <1>1, <1>2, TailOnce
<1>4. Source' = Source /\ RP!Rolling' = RP!Rolling
  BY <1>1, FlowStays
<1>5. Cardinality(Ids(batch)) < Required
  BY <1>2, CountIds
<1>6. CASE IsSentinel(Head(queue))
  <2>1. Head(queue).id = 0 /\ batch' = <<>>
    BY <1>1, <1>6, SameSets DEF IsSentinel
  <2>2. Queued' = Queued /\ Ids(batch') = {}
    BY <1>3, <2>1 DEF Queued, Ids
  <2>3. Flow!Abandon
    BY <1>1, <1>4, <1>5, <2>2, FlowRolling, FlowRollingNext, FlowQueued, FlowQueuedNext,
       SameFlowCardinality DEF Flow!Abandon, Source, Ids
  <2> QED BY <2>3 DEF Flow!Next
<1>7. CASE ~IsSentinel(Head(queue))
  <2>1. Head(queue).id # 0 /\ batch' = Append(batch, Head(queue))
    BY <1>1, <1>7, SameSets DEF IsSentinel
  <2>2. /\ Head(queue).id \in Queued /\ Queued' = Queued \ {Head(queue).id}
        /\ Ids(batch') = Ids(batch) \cup {Head(queue).id}
    BY <1>2, <1>3, <2>1, AppendOnce DEF Queued
  <2>3. Flow!Collect
    BY <1>1, <1>4, <1>5, <2>2, FlowRolling, FlowRollingNext, FlowQueued, FlowQueuedNext,
       SameFlowCardinality DEF Flow!Collect, Source, Ids
  <2> QED BY <2>3 DEF Flow!Next
<1> QED BY <1>6, <1>7

LEMMA FlowTrains ==
    ASSUME SystemInv, OnePlace, TrainerTrains
    PROVE  Flow!Next
<1>1. /\ phase = "train" /\ trained' = trained \cup Ids(batch) /\ batch' = <<>>
      /\ UNCHANGED <<queue, taken, cancelQueue, hand, task>>
  BY DEF TrainerTrains, T!Train, queueVars, rollVars, Ids
<1>2. batch \in Seq(Item) /\ Len(batch) = Required /\ Once(batch)
  BY <1>1 DEF SystemInv, Kinds, Training, OnePlace
<1>3. Cardinality(Ids(batch)) = Required /\ Ids(batch') = {}
  BY <1>1, <1>2, CountIds DEF Ids
<1>4. Source' = Source /\ RP!Rolling' = RP!Rolling /\ Queued' = Queued
  BY <1>1, FlowStays DEF Queued, Ids
<1>5. Flow!TrainBatch
  BY <1>1, <1>3, <1>4, FlowRolling, FlowRollingNext, FlowQueued, FlowQueuedNext,
     SameFlowCardinality DEF Flow!TrainBatch, Source, Ids
<1> QED BY <1>5 DEF Flow!Next

LEMMA FlowClears ==
    ASSUME RunnerClears
    PROVE  Flow!Next
<1>1. queue' = <<>> /\ UNCHANGED <<batch, trained, taken, cancelQueue, hand, task>>
  BY DEF RunnerClears, MQ!ClearQueue, rollVars, trainVars
<1>2. Queued' = {} /\ Ids(batch') = Ids(batch) /\ Source' = Source /\ RP!Rolling' = RP!Rolling
  BY <1>1, FlowStays DEF Queued, Ids
<1>3. Flow!Clear
  BY <1>1, <1>2, FlowRolling, FlowRollingNext, FlowQueued, FlowQueuedNext
     DEF Flow!Clear, Source, Ids
<1> QED BY <1>3 DEF Flow!Next

LEMMA FlowStep ==
    ASSUME SystemInv, SystemInv', EndInv, OnePlace, [Next]_vars
    PROVE  [Flow!Next]_(Flow!vars)
<1>1. ASSUME UNCHANGED <<queue, batch, trained, taken, cancelQueue, hand, task>>
      PROVE  UNCHANGED Flow!vars
  <2>1. /\ Source' = Source /\ RP!Rolling' = RP!Rolling /\ Queued' = Queued
        /\ Ids(batch') = Ids(batch) /\ trained' = trained
    BY <1>1, FlowStays DEF Queued, Ids
  <2> QED BY <2>1, FlowStutters
<1>2. CASE Control \/ ControlPublishes
  BY <1>1, <1>2, ControlShape DEF trainVars
<1>3. CASE TrainerAwaitsSample \/ TrainerLogs \/ SyncUpdatesQueue \/ TrainerCloses
  BY <1>1, <1>3 DEF TrainerAwaitsSample, TrainerLogs, SyncUpdatesQueue, TrainerCloses,
     MQ!AwaitSample, MQ!GetValidate, MQ!UpdateParamVersion, T!Log, T!Close, T!CloseAfterSync,
     trainVars, rollVars
<1>4. CASE SyncPauses \/ SyncTransfers
  BY <1>1, <1>4 DEF SyncPauses, SyncTransfers, T!StartSync, T!SyncReturned, R!PauseCalled,
     R!UpdateCalled, R!Call, R!feedVars, R!procVars, R!taskVars, queueVars
<1>5. CASE UNCHANGED vars
  BY <1>1, <1>5 DEF vars, queueVars, rollVars, trainVars
<1>6. CASE Rolls
  BY <1>6, FlowRolls
<1>7. CASE \/ (\E s \in R!Sample : TaskPuts(s)) \/ MainPutsSentinel \/ TrainerGetsSample
           \/ TrainerTrains \/ RunnerClears
  BY <1>7, FlowPuts, FlowEnds, FlowCollects, FlowTrains, FlowClears DEF EndInv
<1> QED BY <1>2, <1>3, <1>4, <1>5, <1>6, <1>7, StepCases

(* The system implements SampleFlow: every sample is fetched once, and     *)
(* from there goes forward only, through the rollouter, the queue and one  *)
(* batch of exactly required_samples; none is lost but to a failure, a put *)
(* on a full queue, or the end of the stream.                              *)
THEOREM FlowImplemented == Spec => ImplementsSampleFlow
<1>1. Init => Flow!Init
  <2> SUFFICES ASSUME Init PROVE Flow!Init
    OBVIOUS
  <2>1. /\ taken = 0 /\ hand = 0 /\ cancelQueue = <<>> /\ R!Live = {}
        /\ queue = <<>> /\ batch = <<>> /\ trained = {}
    BY SameSets DEF Init, R!Init, MQ!InitWith, T!Init, R!NoSample
  <2>2. Source = R!Sample
    BY <2>1, SameSets DEF Source
  <2>3. InHand = {} /\ Interrupted = {} /\ QueuedSamples = {} /\ Ids(batch) = {}
    BY <2>1, SameSets DEF InHand, Interrupted, QueuedSamples, Ids
  <2> QED BY <2>1, <2>2, <2>3 DEF Flow!Init, Source, Ids
<1>2. SystemInv /\ SystemInv' /\ EndInv /\ OnePlace /\ [Next]_vars => [Flow!Next]_(Flow!vars)
  BY FlowStep
<1> QED BY <1>1, <1>2, OnePlaceHolds, PTL DEF Spec, ImplementsSampleFlow, Flow!Spec

-----------------------------------------------------------------------------
(* Staleness control, for every threshold: how many samples are under way, *)
(* how many versions a sample can be behind the one it is trained on, and, *)
(* with a threshold of 0, that training is on-policy.                      *)

-----------------------------------------------------------------------------
(* The samples under way are those with the rollouter and those queued.    *)
LEMMA InFlightIs == SystemInv => InFlight = RP!Load + Cardinality(Queued)
<1> SUFFICES ASSUME SystemInv PROVE InFlight = RP!Load + Cardinality(Queued)
  OBVIOUS
<1>1. /\ hand \in R!Sample \cup {0} /\ Len(cancelQueue) \in Nat /\ RP!Busy \in Nat
  BY RolloutTypes, SameSets DEF SystemInv
<1>2. Cardinality(InHand) = (IF hand = 0 THEN 0 ELSE 1)
  BY Zenon, SameSets, FS_EmptySet, FS_Singleton DEF InHand
<1>3. RP!Busy = Cardinality(R!Live) + Len(cancelQueue)
  BY SameSets, SameCardinality DEF RP!Busy
<1>4. IsFiniteSet(R!Live) /\ Cardinality(R!Live) \in Nat
  <2>1. R!Live \in SUBSET (1..TotalSamples) /\ TotalSamples \in Int
    BY SameSets, FullyAsyncAssumption
  <2>2. IsFiniteSet(1..TotalSamples)
    BY <2>1, FS_Interval
  <2> QED BY Zenon, <2>1, <2>2, FS_Subset, FS_CardinalityType
<1>5. Cardinality(Queued) \in Nat
  <2>1. IsFiniteSet(Queued)
    BY Zenon, CountIds, FS_RemoveElement DEF Queued, SystemInv, Kinds
  <2> QED BY <2>1, FS_CardinalityType
<1>6. RP!Load = RP!Busy + Cardinality(InHand)
  BY <1>2, SameSets DEF RP!Load
<1>7. Cardinality(InHand) \in Nat
  BY <1>2
<1>8. InFlight = Cardinality(R!Live) + Cardinality(InHand) + Len(cancelQueue)
                    + Cardinality(Queued)
  BY FlowQueued DEF InFlight
<1> QED BY <1>1, <1>3, <1>4, <1>5, <1>6, <1>7, <1>8

LEMMA InFlightNext == SystemInv' => (InFlight = RP!Load + Cardinality(Queued))'
<1>1. SystemInv => InFlight = RP!Load + Cardinality(Queued)
  BY InFlightIs
<1> QED BY <1>1, PTL

LEMMA QueuedFinite == SystemInv => IsFiniteSet(Queued) /\ Cardinality(Queued) \in Nat
                                   /\ Cardinality(Queued) <= Len(queue)
<1> SUFFICES ASSUME SystemInv
             PROVE  /\ IsFiniteSet(Queued) /\ Cardinality(Queued) \in Nat
                    /\ Cardinality(Queued) <= Len(queue)
  OBVIOUS
<1>1. /\ IsFiniteSet(Ids(queue)) /\ Cardinality(Ids(queue)) \in Nat
      /\ Cardinality(Ids(queue)) <= Len(queue) /\ Len(queue) \in Nat
  BY CountIds DEF SystemInv, Kinds
<1>2. Queued \in SUBSET Ids(queue)
  BY DEF Queued
<1>3. /\ IsFiniteSet(Queued) /\ Cardinality(Queued) \in Nat
      /\ Cardinality(Queued) <= Cardinality(Ids(queue))
  BY <1>1, <1>2, FS_Subset, FS_CardinalityType
<1> QED BY <1>1, <1>3

LEMMA QueuedFiniteNext == SystemInv' => (IsFiniteSet(Queued) /\ Cardinality(Queued) \in Nat
                                         /\ Cardinality(Queued) <= Len(queue))'
<1>1. SystemInv => IsFiniteSet(Queued) /\ Cardinality(Queued) \in Nat
                   /\ Cardinality(Queued) <= Len(queue)
  BY QueuedFinite
<1> QED BY <1>1, PTL

(* Only a fetch adds to what is under way: a put moves a sample.           *)
LEMMA FlightStep ==
    ASSUME SystemInv, SystemInv', EndInv, OnePlace, [Next]_vars
    PROVE  \E l, q \in Nat :
              /\ l = RP!Load' /\ q = Cardinality(Queued')
              /\ \/ /\ RP!ProcTakePending /\ l <= RP!Load + 1 /\ q = Cardinality(Queued)
                 \/ /\ ~RP!ProcTakePending
                    /\ l + q <= RP!Load + Cardinality(Queued)
                    /\ TrainerGetsSample /\ ~IsSentinel(Head(queue)) =>
                          l = RP!Load /\ q = Cardinality(Queued) - 1
<1>1. /\ IsFiniteSet(Queued) /\ Cardinality(Queued) \in Nat /\ RP!Load \in Nat /\ RP!Busy \in Nat
      /\ taken \in Nat
  BY QueuedFinite, RolloutTypes DEF SystemInv
<1>2. RP!Load' \in Nat /\ Cardinality(Queued') \in Nat
  BY CarriedTypes, StepOfRollouter, QueuedFiniteNext DEF SystemInv
<1>3. PICK l \in Nat, q \in Nat : l = RP!Load' /\ q = Cardinality(Queued')
  BY <1>2
<1>4. [RP!Next]_(RP!vars) /\ Rollout /\ Rollout'
  BY StepOfRollouter, SameNext, SameVars, RolloutKept DEF SystemInv
<1>5. ASSUME NEW S, Queued' = S, S \subseteq Queued PROVE q <= Cardinality(Queued)
  BY <1>1, <1>3, <1>5, FS_Subset
<1>6. ASSUME UNCHANGED <<taken, cancelQueue, hand, task>>
      PROVE  l = RP!Load /\ ~RP!ProcTakePending
  <2>1. RP!Load' = RP!Load
    BY <1>6 DEF RP!Load, RP!Busy, RP!Live, RP!Sample, RP!NoSample
  <2> QED BY <1>1, <1>3, <1>6, <2>1 DEF RP!ProcTakePending
<1> DEFINE Goal == \/ /\ RP!ProcTakePending /\ l <= RP!Load + 1 /\ q = Cardinality(Queued)
                   \/ /\ ~RP!ProcTakePending
                      /\ l + q <= RP!Load + Cardinality(Queued)
                      /\ TrainerGetsSample /\ ~IsSentinel(Head(queue)) =>
                            l = RP!Load /\ q = Cardinality(Queued) - 1
<1>7. CASE Rolls
  <2>1. queue' = queue /\ ~TrainerGetsSample
    <3>1. queue' = queue /\ consumed' = consumed
      BY <1>7, RollsShape DEF queueVars
    <3>2. TrainerGetsSample => consumed' = consumed + 1 /\ consumed \in Nat
      BY DEF TrainerGetsSample, MQ!GetSample, SystemInv, Kinds
    <3> QED BY <3>1, <3>2
  <2>2. q = Cardinality(Queued)
    BY <1>3, <2>1 DEF Queued, Ids
  <2>3. \/ RP!ProcTakePending /\ RP!Load' = RP!Load + (IF taken' = RP!DONE THEN 0 ELSE 1)
        \/ ~RP!ProcTakePending /\ RP!Load' <= RP!Load
    <3>1. RP!ProcSubmit => ~RP!ProcTakePending
      BY DEF RP!ProcSubmit, RP!ProcTakePending
    <3> QED BY <1>1, <1>3, <1>4, <3>1, RolloutAssumed, RP!LoadStep DEF Rollout
  <2>4. \/ RP!ProcTakePending /\ l <= RP!Load + 1
        \/ ~RP!ProcTakePending /\ l <= RP!Load
    BY <1>1, <1>3, <2>3
  <2>5. Goal
    BY <1>1, <2>1, <2>2, <2>4
  <2> QED BY <1>3, <2>5
<1>8. CASE \E s \in R!Sample : TaskPuts(s)
  <2>1. PICK s \in R!Sample : TaskPuts(s)
    BY <1>8
  <2>2. /\ s \in RP!Rolling /\ taken' = taken /\ Stamped(s) \in Item /\ Stamped(s).id = s
    BY <2>1, PutLeaves
  <2>3. s \notin Ids(queue) /\ MQ!PutSample(Stamped(s)) /\ batch' = batch /\ consumed' = consumed
    BY <2>1, <2>2 DEF OnePlace, TaskPuts, MQ!PutSample, trainVars
  <2>4. Ids(queue') \subseteq Ids(queue) \cup {s}
    BY <2>2, <2>3, PutIds DEF OnePlace
  <2>5. q <= Cardinality(Queued) + 1
    <3>1. Queued' \in SUBSET (Queued \cup {s})
      BY <2>4 DEF Queued
    <3>2. /\ IsFiniteSet(Queued \cup {s})
          /\ Cardinality(Queued \cup {s}) \in {Cardinality(Queued), Cardinality(Queued) + 1}
      BY <1>1, FS_AddElement
    <3>3. q <= Cardinality(Queued \cup {s})
      BY <1>3, <3>1, <3>2, FS_Subset
    <3> QED BY <1>1, <3>2, <3>3
  <2>6. l = RP!Load - 1
    <3>1. RP!TaskReported(s) /\ RP!TaskStep(s) /\ hand' = hand /\ s \in RP!Sample
      BY <2>1, SameSets DEF TaskPuts, R!TaskReported, RP!TaskReported, RP!TaskStep, R!taskOnly,
         RP!taskOnly, R!feedVars, RP!feedVars, R!procVars, RP!procVars, R!lockVars,
         RP!lockVars, R!flagVars, RP!flagVars, R!ctlVars, RP!ctlVars
    <3>2. RP!Busy' = RP!Busy - 1
      BY <1>4, <3>1, RolloutAssumed, RP!BusyTask DEF Rollout
    <3>3. PICK b \in Int : b = RP!Busy'
      BY <1>1, <3>2
    <3>4. RP!Busy \in Nat /\ RP!Busy' \in Nat /\ hand' = hand
      BY <1>1, <1>4, <3>1, RolloutAssumed, RP!LoadTypeNext DEF Rollout, RP!Busy
    <3>5. \/ RP!Load' = RP!Busy' /\ RP!Load = RP!Busy
          \/ RP!Load' = RP!Busy' + 1 /\ RP!Load = RP!Busy + 1
      BY <3>4 DEF RP!Load, RP!Busy, RP!NoSample
    <3>6. \/ l = b /\ RP!Load = RP!Busy
          \/ l = b + 1 /\ RP!Load = RP!Busy + 1
      BY Zenon, <1>3, <3>3, <3>5
    <3>7. b = RP!Busy - 1
      BY <3>2, <3>3
    <3> QED BY <1>1, <3>6, <3>7
  <2>7. ~RP!ProcTakePending /\ ~TrainerGetsSample
    <3>1. RP!ProcTakePending => taken' = taken + 1
      BY DEF RP!ProcTakePending
    <3>2. TrainerGetsSample => consumed' = consumed + 1 /\ consumed \in Nat
      BY DEF TrainerGetsSample, MQ!GetSample, SystemInv, Kinds
    <3> QED BY <1>1, <2>2, <2>3, <3>1, <3>2
  <2>8. Goal
    BY <1>1, <2>5, <2>6, <2>7
  <2> QED BY <1>3, <2>8
<1>9. ASSUME UNCHANGED <<taken, cancelQueue, hand, task>>, Ids(queue') \subseteq Ids(queue) \cup {0},
             ~TrainerGetsSample
      PROVE  Goal
  <2>1. q <= Cardinality(Queued)
    BY Zenon, <1>5, <1>9 DEF Queued
  <2> QED BY <1>1, <1>6, <1>9, <2>1
<1>10. CASE MainPutsSentinel
  <2>1. /\ main = "stream" /\ MQ!PutSample(Sentinel) /\ UNCHANGED <<taken, cancelQueue, hand, task>>
        /\ Sentinel \in Item /\ Sentinel.id = 0
    BY <1>10, SameSets, VersionsBounded, FullyAsyncAssumption DEF MainPutsSentinel,
       R!MainSentinel, R!feedVars, R!procVars, R!taskVars, Sentinel, Item
  <2>2. 0 \notin Ids(queue)
    BY <2>1, SameSets DEF EndInv, Streaming, IsSentinel, Ids
  <2>3. Ids(queue') \subseteq Ids(queue) \cup {0}
    BY <2>1, <2>2, PutIds DEF OnePlace
  <2>4. ~TrainerGetsSample
    <3>1. consumed' = consumed
      BY <2>1 DEF MQ!PutSample
    <3> QED BY <3>1 DEF TrainerGetsSample, MQ!GetSample, SystemInv, Kinds
  <2> QED BY <1>3, <1>9, <2>1, <2>3, <2>4
<1>11. CASE TrainerGetsSample
  <2>1. /\ queue # <<>> /\ queue' = Tail(queue) /\ UNCHANGED <<taken, cancelQueue, hand, task>>
    BY <1>11 DEF TrainerGetsSample, MQ!GetSample, MQ!PopLeft, rollVars
  <2>2. /\ Head(queue).id \in Ids(queue) /\ Ids(queue') = Ids(queue) \ {Head(queue).id}
    BY Zenon, <2>1, TailOnce DEF SystemInv, Kinds, OnePlace
  <2>3. q <= Cardinality(Queued)
    BY Zenon, <1>5, <2>2 DEF Queued
  <2>4. ~IsSentinel(Head(queue)) => q = Cardinality(Queued) - 1
    <3> SUFFICES ASSUME ~IsSentinel(Head(queue)) PROVE q = Cardinality(Queued) - 1
      OBVIOUS
    <3>1. Head(queue).id \in Queued /\ Queued' = Queued \ {Head(queue).id}
      BY <2>2, SameSets DEF IsSentinel, Queued
    <3> QED BY Zenon, <1>1, <1>3, <3>1, FS_RemoveElement
  <2>5. Goal
    BY <1>1, <1>6, <2>1, <2>3, <2>4
  <2> QED BY <1>3, <2>5
<1>12. CASE \/ Control \/ ControlPublishes \/ TrainerAwaitsSample \/ TrainerTrains \/ TrainerLogs
            \/ SyncPauses \/ SyncUpdatesQueue \/ SyncTransfers \/ TrainerCloses
            \/ RunnerClears \/ UNCHANGED vars
  <2>1. UNCHANGED <<taken, cancelQueue, hand, task, consumed>> /\ queue' \in {queue, <<>>}
    <3>1. CASE Control \/ ControlPublishes
      BY <3>1, ControlShape
    <3>2. CASE \/ TrainerAwaitsSample \/ TrainerTrains \/ TrainerLogs \/ SyncUpdatesQueue
               \/ TrainerCloses \/ RunnerClears \/ UNCHANGED vars
      BY <3>2 DEF TrainerAwaitsSample, TrainerTrains, TrainerLogs, SyncUpdatesQueue,
         TrainerCloses, RunnerClears, MQ!AwaitSample, MQ!GetValidate, MQ!UpdateParamVersion,
         MQ!ClearQueue, MQ!counters, vars, queueVars, rollVars
    <3>3. CASE SyncPauses \/ SyncTransfers
      BY <3>3 DEF SyncPauses, SyncTransfers, R!PauseCalled, R!UpdateCalled, R!Call, R!feedVars,
         R!procVars, R!taskVars, queueVars
    <3> QED BY <1>12, <3>1, <3>2, <3>3
  <2>2. Ids(queue') \subseteq Ids(queue) \cup {0}
    BY <2>1 DEF Ids
  <2>3. ~TrainerGetsSample
    BY <2>1 DEF TrainerGetsSample, MQ!GetSample, SystemInv, Kinds
  <2> QED BY <1>3, <1>9, <2>1, <2>2, <2>3
<1> QED BY <1>7, <1>8, <1>10, <1>11, <1>12, StepCases

-----------------------------------------------------------------------------
(* staleness_samples covers what is under way but for the sample in the    *)
(* processor's hand, which a reset does not see; and a fetch is decided    *)
(* only under the limit.                                                   *)
StalInv ==
    /\ RP!Load + Cardinality(Queued) <= staleness + 1
    /\ RP!Load + Cardinality(Queued) <= MaxRequired + (IF stage = "fetch" THEN 0 ELSE 1)

(* The reset writes what was counted and what is queued.                   *)
LEMMA ResetWrites ==
    ASSUME SystemInv, [Next]_vars, control = "count", control' = "validated"
    PROVE  /\ staleness' = counted + Len(queue) /\ stage' = stage
           /\ UNCHANGED <<taken, cancelQueue, hand, task, queue>>
<1>1. CASE Control \/ ControlPublishes
  <2>1. R!ControlReset(QueueSize)
    BY <1>1 DEF Control, ControlPublishes, R!ControlPause, R!ControlGathered, Updates,
       R!ControlUpdate, R!ControlResume, R!AwaitLock, R!ControlPublished, R!ctlVars
  <2> QED BY <1>1, <2>1, ControlShape DEF R!ControlReset, R!Stale, QueueSize
<1>2. CASE Rolls
  BY <1>2, RollsShape
<1>3. CASE (\E s \in R!Sample : TaskPuts(s)) \/ MainPutsSentinel
  BY <1>3 DEF TaskPuts, MainPutsSentinel, R!TaskReported, R!MainSentinel, R!taskOnly, R!ctlVars
<1>4. CASE \/ TrainerAwaitsSample \/ TrainerGetsSample \/ TrainerTrains \/ TrainerLogs
           \/ SyncUpdatesQueue \/ TrainerCloses \/ RunnerClears \/ UNCHANGED vars
  BY <1>4 DEF TrainerAwaitsSample, TrainerGetsSample, TrainerTrains, TrainerLogs,
     SyncUpdatesQueue, TrainerCloses, RunnerClears, vars, rollVars
<1>5. CASE SyncPauses \/ SyncTransfers
  BY <1>5 DEF SyncPauses, SyncTransfers, R!PauseCalled, R!UpdateCalled, R!Call
<1> QED BY <1>1, <1>2, <1>3, <1>4, <1>5, StepCases

LEMMA StalStep ==
    ASSUME SystemInv, SystemInv', EndInv, OnePlace, StalInv, [Next]_vars
    PROVE  StalInv'
<1>1. PICK l \in Nat, q \in Nat :
         /\ l = RP!Load' /\ q = Cardinality(Queued')
         /\ \/ /\ RP!ProcTakePending /\ l <= RP!Load + 1 /\ q = Cardinality(Queued)
            \/ /\ ~RP!ProcTakePending
               /\ l + q <= RP!Load + Cardinality(Queued)
               /\ TrainerGetsSample /\ ~IsSentinel(Head(queue)) =>
                     l = RP!Load /\ q = Cardinality(Queued) - 1
  BY FlightStep
<1>2. /\ Cardinality(Queued) \in Nat /\ RP!Load \in Nat /\ RP!Busy \in Nat
      /\ staleness \in Nat /\ counted \in Nat /\ MaxRequired \in Nat
  BY QueuedFinite, RolloutTypes, Sizes DEF SystemInv
<1>3. PICK st \in Nat : st = staleness'
  <2>1. staleness' \in Nat
    BY DEF SystemInv, Rollout, RP!TypeOK
  <2> QED BY <2>1
<1>4. [RP!Next]_(RP!vars) /\ Rollout
  BY StepOfRollouter, SameNext, SameVars DEF SystemInv
<1> DEFINE New == /\ l + q <= st + 1
                  /\ l + q <= MaxRequired + 1
                  /\ stage' = "fetch" => l + q <= MaxRequired
<1>5. ASSUME RP!ProcTakePending PROVE New
  <2>1. stage = "fetch" /\ stage' # "fetch" /\ staleness' = staleness + 1
    BY <1>5 DEF RP!ProcTakePending
  <2>2. st = staleness + 1 /\ l <= RP!Load + 1 /\ q = Cardinality(Queued)
    BY <1>1, <1>3, <1>5, <2>1
  <2>3. RP!Load + Cardinality(Queued) <= MaxRequired
    BY <1>2, <2>1 DEF StalInv
  <2>4. RP!Load + Cardinality(Queued) <= staleness + 1
    BY DEF StalInv
  <2>5. l + q <= st + 1 /\ l + q <= MaxRequired + 1
    BY <1>2, <2>2, <2>3, <2>4
  <2> QED BY <2>1, <2>5
<1>6. ASSUME ~RP!ProcTakePending PROVE New
  <2>0. l + q <= RP!Load + Cardinality(Queued)
    BY <1>1, <1>6
  <2>1. CASE control = "count" /\ control' = "validated" /\ stage' = stage
    <3>1. staleness' = counted + Len(queue)
      BY <2>1, ResetWrites
    <3>2. st = counted + Len(queue)
      BY <1>3, <3>1
    <3>3. RP!Load <= RP!Busy + 1 /\ RP!Busy <= counted
      BY <1>2, <1>4, <2>1 DEF Rollout, RP!Counted, RP!Load
    <3>4. Cardinality(Queued) <= Len(queue) /\ Len(queue) \in Nat
      <4>1. queue \in Seq(Item)
        BY DEF SystemInv, Kinds
      <4> QED BY <4>1, QueuedFinite
    <3>5. l + q <= st + 1
      BY <1>2, <2>0, <3>2, <3>3, <3>4
    <3>6. l + q <= MaxRequired + 1 /\ (stage = "fetch" => l + q <= MaxRequired)
      BY <1>2, <2>0 DEF StalInv
    <3> QED BY <2>1, <3>5, <3>6
  <2>2. CASE /\ staleness' = staleness
             /\ stage' = "fetch" => stage = "fetch" \/ ~(staleness >= MaxRequired)
    <3>1. st = staleness
      BY <1>3, <2>2
    <3>2. l + q <= st + 1 /\ l + q <= MaxRequired + 1
      BY <1>2, <2>0, <3>1 DEF StalInv
    <3>3. stage = "fetch" \/ ~(staleness >= MaxRequired) => l + q <= MaxRequired
      BY <1>2, <2>0 DEF StalInv
    <3> QED BY <2>2, <3>2, <3>3
  <2>3. \/ control = "count" /\ control' = "validated" /\ stage' = stage
        \/ /\ staleness' = staleness
           /\ stage' = "fetch" => stage = "fetch" \/ ~(staleness >= MaxRequired)
    BY <1>4, <1>6, RolloutAssumed, RP!WhoStales
  <2> QED BY <2>1, <2>2, <2>3
<1>7. New
  BY <1>5, <1>6
<1>8. /\ RP!Load' + Cardinality(Queued') = l + q /\ staleness' = st
  BY <1>1, <1>3
<1>9. /\ l + q <= st + 1
      /\ l + q <= MaxRequired + (IF stage' = "fetch" THEN 0 ELSE 1)
  BY <1>2, <1>7
<1> QED BY <1>8, <1>9, Zenon DEF StalInv

LEMMA StalAtStart == Init => StalInv
<1> SUFFICES ASSUME Init PROVE StalInv
  OBVIOUS
<1>1. SystemInv /\ InFlight = RP!Load + Cardinality(Queued)
  BY SystemAtStart, InFlightIs
<1>2. /\ RP!Live = {} /\ hand = 0 /\ cancelQueue = <<>> /\ queue = <<>> /\ staleness = 0
  BY SameSets DEF Init, R!Init, MQ!InitWith
<1>3. Queued = {}
  BY <1>2 DEF Queued, Ids
<1>4. Cardinality(Queued) = 0 /\ RP!Busy = 0
  <2>1. Cardinality({}) = 0
    BY FS_EmptySet
  <2> QED BY <1>2, <1>3, <2>1, SameCardinality DEF RP!Busy
<1>5. RP!Load = 0
  BY <1>2, <1>4 DEF RP!Load, RP!NoSample
<1> QED BY <1>2, <1>4, <1>5, Sizes DEF StalInv

LEMMA StalHolds == Spec => [](SystemInv /\ StalInv)
<1>1. /\ SystemInv /\ SystemInv' /\ EndInv /\ OnePlace /\ StalInv /\ [Next]_vars => StalInv'
  BY StalStep
<1> QED BY <1>1, StalAtStart, OnePlaceHolds, PTL DEF Spec

(* Staleness control: whatever the pauses interrupt and the resets recount *)
(* staleness_samples misses at most the sample in the processor's hand,    *)
(* and no more than max_required_samples + 1 samples are ever under way.   *)
THEOREM StalenessCovered == Spec => []StalenessCovers
<1>1. SystemInv /\ StalInv => StalenessCovers
  <2> SUFFICES ASSUME SystemInv, StalInv PROVE StalenessCovers
    OBVIOUS
  <2>1. InFlight = RP!Load + Cardinality(Queued) /\ InFlight \in Nat /\ MaxRequired \in Nat
    BY InFlightIs, QueuedFinite, RolloutTypes, Sizes DEF SystemInv
  <2>2. InFlight <= staleness + 1
    BY <2>1 DEF StalInv
  <2>3. InFlight <= MaxRequired + 1
    BY <2>1 DEF StalInv
  <2> QED BY <2>2, <2>3 DEF StalenessCovers
<1> QED BY <1>1, StalHolds, PTL

-----------------------------------------------------------------------------
(* The age of a sample.  The trainer has passed Passed samples, Batched of *)
(* them since its last version, and one at place p of the queue will be    *)
(* the Passed + p-th.  Told is the version that no sample put from now on  *)
(* is more than one behind.                                                *)
Batched == Required * (localStep - 1) + Len(batch)
Passed == PerVersion * trainVersion + Batched
Told == IF control \in {"pause", "gather"} THEN syncVersion - 1 ELSE syncVersion
Limit(v) == PerVersion * (v + 2) + MaxRequired

FreshQueue(q, n) == \A p \in 1..Len(q) : n + p <= Limit(q[p].ver)

FreshReports == \A s \in R!Sample : task[s] = "reporting" => Told <= stamp[s] + 1

FreshInv ==
    ~closing =>
        /\ FreshQueue(queue, Passed)
        /\ \A i \in 1..Len(batch) : PerVersion * trainVersion + 1 <= Limit(batch[i].ver)

LEMMA PassedWithin ==
    ASSUME SystemInv
    PROVE  /\ Passed \in Nat /\ Told \in Nat /\ Told <= rollVersion + 1
           /\ Batched \in Nat /\ Batched <= PerVersion
           /\ PerVersion * trainVersion \in Nat
           /\ PerVersion * trainVersion <= Passed
           /\ Passed <= PerVersion * (Told + 1)
<1> DEFINE P == PerVersion
           c == Required * (localStep - 1)
<1>1. /\ P \in Nat /\ Required \in Nat \ {0} /\ TriggerStep \in Nat \ {0}
      /\ P = Required * TriggerStep
      /\ trainVersion \in Nat /\ syncVersion \in Nat /\ rollVersion \in Nat /\ Len(batch) \in Nat
      /\ localStep \in 1..TriggerStep
  BY Sizes, FullyAsyncAssumption, RolloutTypes DEF PerVersion, SystemInv, Kinds, Training
<1>2. c \in Nat /\ c <= Required * (TriggerStep - 1) /\ (localStep = 1 => c = 0)
  <2>1. localStep - 1 \in Nat /\ localStep - 1 <= TriggerStep - 1 /\ TriggerStep - 1 \in Nat
    BY <1>1
  <2> QED BY <1>1, <2>1
<1>3. Required * (TriggerStep - 1) + Required = P
  BY <1>1
<1>4. Len(batch) <= Required /\ (phase \in {"await", "sync"} => localStep = 1 /\ Len(batch) = 0)
  BY <1>1 DEF SystemInv, Training
<1>5. P * trainVersion \in Nat /\ P * syncVersion \in Nat /\ P * (syncVersion + 1) = P * syncVersion + P
  BY <1>1
<1> HIDE DEF P, c
<1>7. Batched = c + Len(batch) /\ Passed = P * trainVersion + Batched
  BY DEF Passed, Batched, P, c
<1>8. Batched \in Nat /\ Batched <= P
  BY <1>1, <1>2, <1>3, <1>4, <1>7
<1>6. Passed \in Nat /\ P * trainVersion <= Passed
  BY <1>1, <1>5, <1>7, <1>8
<1>9. CASE control \in {"pause", "gather"}
  <2>1. phase = "sync" /\ trainVersion = syncVersion /\ syncVersion = rollVersion + 1
    BY <1>1, <1>9 DEF SystemInv, Handshake
  <2>2. Told = syncVersion - 1
    BY <1>9 DEF Told
  <2>3. Told \in Nat /\ Told = rollVersion /\ Told + 1 = syncVersion
    BY <1>1, <2>1, <2>2
  <2>4. Passed = P * syncVersion
    BY <1>2, <1>4, <1>5, <1>7, <2>1
  <2> QED BY <1>1, <1>5, <1>6, <1>8, <2>3, <2>4 DEF P
<1>10. CASE control \notin {"pause", "gather"}
  <2>1. Told = syncVersion
    BY <1>10 DEF Told
  <2>2. syncVersion <= rollVersion + 1
    BY <1>1 DEF SystemInv, Handshake
  <2>3. Passed <= P * syncVersion + P
    <3>1. CASE phase = "await"
      <4>1. trainVersion = syncVersion + 1 /\ c = 0 /\ Len(batch) = 0
        BY <1>2, <1>4, <3>1 DEF SystemInv, Handshake
      <4> QED BY <1>1, <1>5, <1>7, <4>1
    <3>2. CASE phase # "await"
      <4>1. trainVersion = syncVersion
        BY <3>2 DEF SystemInv, Handshake
      <4> QED BY <1>1, <1>2, <1>5, <1>7, <1>8, <4>1
    <3> QED BY <3>1, <3>2
  <2> QED BY <1>1, <1>5, <1>6, <1>8, <2>1, <2>2, <2>3 DEF P
<1> QED BY <1>9, <1>10

(* What is put now, at any place of the queue, is fresh there.             *)
LEMMA PutFresh ==
    ASSUME SystemInv, NEW v \in Nat, Told <= v + 1, NEW p \in Nat, p <= MaxRequired
    PROVE  Passed + p <= Limit(v)
<1>1. /\ Passed \in Nat /\ Told \in Nat /\ PerVersion \in Nat /\ MaxRequired \in Nat
      /\ Passed <= PerVersion * (Told + 1)
  BY PassedWithin, Sizes
<1>2. PerVersion * (Told + 1) <= PerVersion * (v + 2)
  BY <1>1
<1>3. PerVersion * (v + 2) \in Nat /\ PerVersion * (Told + 1) \in Nat
  BY <1>1
<1> QED BY <1>1, <1>2, <1>3 DEF Limit

LEMMA LimitType == \A v \in Nat : Limit(v) \in Nat
  BY Sizes DEF Limit

LEMMA ItemVersion == \A item \in Item : item.ver \in Nat
<1>1. Version \subseteq Nat
  BY FullyAsyncAssumption DEF Version
<1> QED BY Zenon, <1>1 DEF Item

LEMMA FreshAppend ==
    ASSUME NEW q \in Seq(Item), NEW item \in Item, NEW n \in Nat, FreshQueue(q, n),
           n + (Len(q) + 1) <= Limit(item.ver)
    PROVE  FreshQueue(Append(q, item), n)
<1> DEFINE r == Append(q, item)
<1>1. /\ Len(q) \in Nat /\ Len(r) = Len(q) + 1 /\ r[Len(q) + 1] = item
      /\ \A i \in 1..Len(q) : r[i] = q[i]
  OBVIOUS
<1> HIDE DEF r
<1>2. ASSUME NEW p \in 1..Len(r) PROVE n + p <= Limit(r[p].ver)
  <2>1. CASE p \in 1..Len(q)
    BY Zenon, <1>1, <2>1 DEF FreshQueue
  <2>2. CASE p = Len(q) + 1
    BY <1>1, <2>2
  <2> QED BY <1>1, <2>1, <2>2
<1> QED BY <1>2 DEF FreshQueue, r

LEMMA FreshTail ==
    ASSUME NEW q \in Seq(Item), q # <<>>, NEW n \in Nat, FreshQueue(q, n)
    PROVE  /\ Head(q) \in Item /\ n + 1 <= Limit(Head(q).ver)
           /\ FreshQueue(Tail(q), n + 1) /\ FreshQueue(Tail(q), n)
<1> DEFINE r == Tail(q)
<1>1. /\ Len(r) \in Nat /\ Len(q) = Len(r) + 1 /\ Head(q) = q[1] /\ Head(q) \in Item
      /\ \A i \in 1..Len(r) : r[i] = q[i + 1] /\ r[i] \in Item
  OBVIOUS
<1>2. 1 \in 1..Len(q) /\ \A i \in 1..Len(r) : i + 1 \in 1..Len(q)
  BY <1>1
<1> HIDE DEF r
<1>3. n + 1 <= Limit(Head(q).ver)
  BY <1>1, <1>2 DEF FreshQueue
<1>4. ASSUME NEW p \in 1..Len(r)
      PROVE  (n + 1) + p <= Limit(r[p].ver) /\ n + p <= Limit(r[p].ver)
  <2>1. n + (p + 1) <= Limit(q[p + 1].ver)
    BY <1>2 DEF FreshQueue
  <2>2. r[p].ver \in Nat
    BY <1>1, ItemVersion
  <2>3. Limit(r[p].ver) \in Nat
    BY Zenon, <2>2, LimitType
  <2>4. n + (p + 1) <= Limit(r[p].ver)
    BY <1>1, <2>1
  <2> QED BY <1>1, <2>3, <2>4
<1> QED BY <1>1, <1>3, <1>4 DEF FreshQueue, r

(* Told goes up only when pause() has gathered every task.                 *)
LEMMA ToldStep ==
    ASSUME SystemInv, [Next]_vars
    PROVE  \/ Told' = Told
           \/ R!Live = {} /\ task' = task
<1>1. CASE Control \/ ControlPublishes
  <2>1. syncVersion' = syncVersion
    BY <1>1, ControlShape DEF syncVars
  <2>2. CASE control = "gather" /\ control' = "paused"
    <3>1. R!ControlGathered
      BY <1>1, <2>2 DEF Control, ControlPublishes, R!ControlPause, Updates, R!ControlUpdate,
         R!ControlReset, R!ControlResume, R!AwaitLock, R!ControlPublished, R!ctlVars
    <3> QED BY <3>1 DEF R!ControlGathered
  <2>3. CASE ~(control = "gather" /\ control' = "paused")
    BY <1>1, <2>1, <2>3, ControlShape DEF Told
  <2> QED BY <2>2, <2>3
<1>2. CASE SyncPauses
  <2>1. /\ sync = "idle" /\ phase = "await" /\ control = "idle" /\ control' = "pause"
        /\ syncVersion' = trainVersion
    BY <1>2 DEF SyncPauses, LastSyncOver, PS!Pause, T!StartSync, R!PauseCalled, R!Call
  <2>2. trainVersion = syncVersion + 1 /\ syncVersion \in Nat
    BY <2>1 DEF SystemInv, Handshake, Kinds
  <2>3. Told' = trainVersion - 1 /\ Told = syncVersion
    BY <2>1 DEF Told
  <2> QED BY <2>2, <2>3
<1>3. CASE SyncTransfers
  <2>1. syncVersion' = syncVersion /\ control = "paused" /\ control' = "update"
    BY <1>3 DEF SyncTransfers, PS!Transfer, R!UpdateCalled, R!Call
  <2> QED BY <2>1 DEF Told
<1>4. CASE \/ Rolls \/ (\E s \in R!Sample : TaskPuts(s)) \/ MainPutsSentinel
           \/ TrainerAwaitsSample \/ TrainerGetsSample \/ TrainerTrains \/ TrainerLogs
           \/ SyncUpdatesQueue \/ TrainerCloses \/ RunnerClears \/ UNCHANGED vars
  <2>1. syncVersion' = syncVersion /\ control' = control
    <3>1. CASE Rolls
      BY <3>1, RollsShape DEF syncVars
    <3>2. CASE (\E s \in R!Sample : TaskPuts(s)) \/ MainPutsSentinel
      BY <3>2 DEF TaskPuts, MainPutsSentinel, R!TaskReported, R!MainSentinel, R!taskOnly,
         R!ctlVars, syncVars
    <3>3. CASE \/ TrainerAwaitsSample \/ TrainerGetsSample \/ TrainerTrains \/ TrainerLogs
               \/ SyncUpdatesQueue \/ TrainerCloses \/ RunnerClears \/ UNCHANGED vars
      BY <3>3 DEF TrainerAwaitsSample, TrainerGetsSample, TrainerTrains, TrainerLogs,
         SyncUpdatesQueue, PS!UpdateQueue, TrainerCloses, RunnerClears, vars, rollVars, syncVars
    <3> QED BY <1>4, <3>1, <3>2, <3>3
  <2> QED BY <2>1 DEF Told
<1> QED BY <1>1, <1>2, <1>3, <1>4, StepCases

LEMMA FreshReportsStep ==
    ASSUME SystemInv, SystemInv', FreshReports, [Next]_vars
    PROVE  FreshReports'
<1>1. [RP!Next]_(RP!vars) /\ RP!TypeOK
  BY StepOfRollouter, SameNext, SameVars DEF SystemInv, Rollout
<1>2. /\ task \in [R!Sample -> R!TaskState] /\ stamp \in [R!Sample -> Version]
      /\ rollVersion \in Nat /\ Told \in Nat /\ Told <= rollVersion + 1
  BY Zenon, RolloutTypes, PassedWithin DEF SystemInv, Kinds
<1>3. SUFFICES ASSUME NEW s \in R!Sample, task'[s] = "reporting"
               PROVE  Told' <= stamp'[s] + 1
  BY DEF FreshReports, R!Sample
<1>4. CASE \E r \in RP!Sample : RP!TaskGenerated(r) \/ RP!TaskReported(r)
  <2>1. PICK r \in R!Sample : RP!TaskGenerated(r) \/ RP!TaskReported(r)
    BY <1>4, SameSets
  <2>2. Told' = Told
    <3>1. R!Live # {}
      BY <2>1, SameSets DEF RP!TaskGenerated, RP!TaskReported
    <3> QED BY <3>1, ToldStep
  <2>3. CASE RP!TaskGenerated(r) /\ r = s
    <3>1. stamp'[s] = rollVersion
      BY <1>2, <2>3 DEF RP!TaskGenerated
    <3> QED BY <1>2, <2>2, <3>1
  <2>4. CASE ~(RP!TaskGenerated(r) /\ r = s)
    <3>1. task[s] = "reporting" /\ stamp'[s] = stamp[s]
      BY <1>2, <1>3, <2>1, <2>4 DEF RP!TaskGenerated, RP!TaskReported
    <3> QED BY <2>2, <3>1 DEF FreshReports
  <2> QED BY <2>3, <2>4
<1>5. CASE stamp' = stamp /\ \A r \in RP!Sample : task'[r] = "reporting" => task[r] = "reporting"
  <2>1. task[s] = "reporting"
    BY <1>3, <1>5, SameSets
  <2>2. Told' = Told
    <3>1. R!Live # {}
      BY <2>1, SameSets
    <3> QED BY <3>1, ToldStep
  <2> QED BY <1>5, <2>1, <2>2 DEF FreshReports
<1> QED BY <1>1, <1>4, <1>5, RolloutAssumed, RP!WhoStamps

(* The trainer passes a sample by collecting it, and by nothing else.      *)
LEMMA PassedGets ==
    ASSUME SystemInv, TrainerGetsSample, ~closing'
    PROVE  /\ ~closing /\ ~IsSentinel(Head(queue))
           /\ Passed' = Passed + 1 /\ Batched' = Batched + 1 /\ trainVersion' = trainVersion
           /\ queue # <<>> /\ queue' = Tail(queue)
           /\ Head(queue) \in Item /\ batch' = Append(batch, Head(queue))
<1>1. /\ trainVersion \in Nat /\ Len(batch) \in Nat /\ localStep \in 1..TriggerStep
      /\ PerVersion \in Nat /\ Required \in Nat \ {0} /\ TriggerStep \in Nat \ {0}
      /\ batch \in Seq(Item)
  BY Sizes, FullyAsyncAssumption DEF SystemInv, Kinds, Training
<1>2. /\ phase = "collect" /\ UNCHANGED <<localStep, trainVersion>>
      /\ batch' = IF IsSentinel(Head(queue)) THEN <<>> ELSE Append(batch, Head(queue))
      /\ closing' = IsSentinel(Head(queue)) /\ Head(queue) \in Item
      /\ queue # <<>> /\ queue' = Tail(queue)
  BY DEF TrainerGetsSample, T!Collect, MQ!GetSample, MQ!PopLeft, SystemInv, Kinds
<1>3. ~closing /\ ~IsSentinel(Head(queue)) /\ batch' = Append(batch, Head(queue))
  BY <1>2 DEF SystemInv, Training
<1>4. Len(batch') = Len(batch) + 1
  BY <1>1, <1>2, <1>3
<1>5. PICK b \in Nat : b = Len(batch') /\ b = Len(batch) + 1
  BY <1>1, <1>4
<1>6. Batched' = Required * (localStep - 1) + b
  BY <1>2, <1>5 DEF Batched
<1>7. Batched' = Batched + 1 /\ Batched \in Nat
  <2>1. PICK c \in Nat : c = Required * (localStep - 1)
    BY <1>1
  <2>2. Batched = c + Len(batch) /\ Batched' = c + b
    BY <1>6, <2>1 DEF Batched
  <2> QED BY <1>1, <1>5, <2>2
<1>8. Passed' = Passed + 1
  <2>1. PICK v \in Nat : v = PerVersion * trainVersion
    BY <1>1
  <2>2. Passed = v + Batched /\ Passed' = v + (Batched + 1)
    BY <1>2, <1>7, <2>1 DEF Passed, PerVersion
  <2> QED BY <1>7, <2>1, <2>2
<1> QED BY <1>2, <1>3, <1>7, <1>8

LEMMA PassedTrains ==
    ASSUME SystemInv, TrainerTrains
    PROVE  /\ phase = "train" /\ Passed' = Passed /\ batch' = <<>> /\ closing' = closing
           /\ \/ phase' = "log" /\ trainVersion' = trainVersion /\ Batched' = Batched
              \/ phase' = "await" /\ Batched' = 0 /\ Batched = PerVersion
<1>1. /\ trainVersion \in Nat /\ localStep \in 1..TriggerStep
      /\ PerVersion \in Nat /\ Required \in Nat \ {0} /\ TriggerStep \in Nat \ {0}
      /\ PerVersion = Required * TriggerStep
  BY Sizes, FullyAsyncAssumption DEF SystemInv, Kinds, Training, PerVersion
<1>2. /\ phase = "train" /\ batch' = <<>> /\ closing' = closing
      /\ \/ /\ localStep < TriggerStep /\ phase' = "log"
            /\ localStep' = localStep + 1 /\ trainVersion' = trainVersion
         \/ /\ ~(localStep < TriggerStep) /\ phase' = "await"
            /\ localStep' = 1 /\ trainVersion' = trainVersion + 1
  BY DEF TrainerTrains, T!Train, T!NoSyncYet
<1>3. Len(batch) = Required /\ Len(<<>>) = 0
  BY <1>2 DEF SystemInv, Training
<1>4. PICK v \in Nat, c \in Nat : v = PerVersion * trainVersion /\ c = Required * (localStep - 1)
  BY <1>1
<1>5. Batched = c + Required /\ Passed = v + Batched
  BY <1>3, <1>4 DEF Passed, Batched
<1>6. CASE localStep < TriggerStep
  <2>1. Batched' = Required * ((localStep + 1) - 1) + 0
    BY <1>2, <1>3, <1>6 DEF Batched
  <2>2. Required * ((localStep + 1) - 1) = c + Required
    BY <1>1, <1>4
  <2>3. Batched' = Batched
    BY <1>1, <1>4, <1>5, <2>1, <2>2
  <2>4. Passed' = Passed
    BY <1>2, <1>6, <2>3 DEF Passed, PerVersion
  <2> QED BY <1>2, <1>6, <2>3, <2>4
<1>7. CASE ~(localStep < TriggerStep)
  <2>1. Batched' = Required * (1 - 1) + 0
    BY <1>2, <1>3, <1>7 DEF Batched
  <2>2. Batched = PerVersion
    <3>1. localStep = TriggerStep
      BY <1>1, <1>7
    <3> QED BY <1>1, <1>4, <1>5, <3>1
  <2>3. PerVersion * (trainVersion + 1) = v + PerVersion /\ Required * (1 - 1) = 0
    BY <1>1, <1>4
  <2>4. Batched' = 0
    BY <2>1, <2>3
  <2>5. Passed' = PerVersion * (trainVersion + 1) + 0
    BY <1>2, <1>7, <2>4 DEF Passed, PerVersion
  <2>6. Passed' = Passed
    BY <1>1, <1>5, <2>2, <2>3, <2>5
  <2> QED BY <1>2, <1>7, <2>2, <2>4, <2>6
<1> QED BY <1>6, <1>7

(* The steps that neither put nor collect nor train.                       *)
Beside ==
    \/ Rolls \/ Control \/ ControlPublishes \/ TrainerAwaitsSample \/ TrainerLogs
    \/ SyncPauses \/ SyncUpdatesQueue \/ SyncTransfers \/ TrainerCloses \/ RunnerClears
    \/ UNCHANGED vars

LEMMA BesideShape ==
    ASSUME SystemInv, Beside, ~closing'
    PROVE  /\ UNCHANGED <<trainVersion, localStep, batch, closing>>
           /\ queue' = queue
<1>1. CASE Rolls
  BY <1>1, RollsShape DEF queueVars, trainVars
<1>2. CASE Control \/ ControlPublishes
  BY <1>2, ControlShape DEF trainVars
<1>3. CASE TrainerAwaitsSample \/ TrainerLogs \/ SyncUpdatesQueue \/ UNCHANGED vars
  BY <1>3 DEF TrainerAwaitsSample, TrainerLogs, SyncUpdatesQueue, MQ!AwaitSample,
     MQ!GetValidate, MQ!UpdateParamVersion, T!Log, trainVars, vars, queueVars
<1>4. CASE SyncPauses \/ SyncTransfers
  BY <1>4 DEF SyncPauses, SyncTransfers, T!StartSync, T!SyncReturned, queueVars
<1>5. CASE TrainerCloses
  <2>1. phase \in {"close", "last"} /\ closing' = closing
    BY <1>5 DEF TrainerCloses, T!Close, T!CloseAfterSync
  <2> QED BY <2>1 DEF SystemInv, Training
<1>6. CASE RunnerClears
  <2>1. phase = "end" /\ closing' = closing
    BY <1>6 DEF RunnerClears, Ended, trainVars
  <2> QED BY <2>1 DEF SystemInv, Training
<1> QED BY <1>1, <1>2, <1>3, <1>4, <1>5, <1>6 DEF Beside

LEMMA FreshStep ==
    ASSUME SystemInv, FreshReports, FreshInv, [Next]_vars
    PROVE  FreshInv'
<1> SUFFICES ASSUME ~closing'
             PROVE  /\ FreshQueue(queue', Passed')
                    /\ \A i \in 1..Len(batch') :
                          PerVersion * trainVersion' + 1 <= Limit(batch'[i].ver)
  BY DEF FreshInv, FreshQueue, Limit, PerVersion, MaxRequired
<1>1. /\ queue \in Seq(Item) /\ batch \in Seq(Item) /\ Passed \in Nat /\ Told \in Nat
      /\ PerVersion * trainVersion \in Nat /\ PerVersion * trainVersion <= Passed
      /\ Told <= rollVersion + 1 /\ rollVersion \in Nat
      /\ Len(queue) \in Nat /\ MaxRequired \in Nat /\ Len(queue) <= MaxRequired
  BY PassedWithin, RolloutTypes, Sizes DEF SystemInv, Kinds
<1>2. CASE Beside
  <2>1. UNCHANGED <<trainVersion, localStep, batch, closing, queue>>
    BY <1>2, BesideShape
  <2>2. Passed' = Passed
    BY <2>1 DEF Passed, Batched, PerVersion
  <2> QED BY <2>1, <2>2 DEF FreshInv
<1>3. ASSUME NEW item \in Item, MQ!PutSample(item), Told <= item.ver + 1,
             UNCHANGED <<trainVersion, localStep, batch, closing>>
      PROVE  /\ FreshQueue(queue', Passed')
             /\ \A i \in 1..Len(batch') :
                   PerVersion * trainVersion' + 1 <= Limit(batch'[i].ver)
  <2>1. Passed' = Passed
    BY <1>3 DEF Passed, Batched, PerVersion
  <2>2. FreshQueue(queue, Passed) /\ item.ver \in Nat /\ Told <= item.ver + 1
    BY <1>3, ItemVersion DEF FreshInv
  <2>3. FreshQueue(queue', Passed)
    <3>1. CASE queue' = Append(queue, item) /\ Len(queue) < MaxRequired
      <4>1. Passed + (Len(queue) + 1) <= Limit(item.ver)
        <5>1. Len(queue) + 1 \in Nat /\ Len(queue) + 1 <= MaxRequired
          BY <1>1, <3>1
        <5> QED BY <2>2, <5>1, PutFresh
      <4> QED BY <1>1, <2>2, <3>1, <4>1, FreshAppend
    <3>2. CASE /\ queue' = Append(Tail(queue), item) /\ queue # <<>> /\ Len(queue) = MaxRequired
      <4>1. Tail(queue) \in Seq(Item) /\ Len(Tail(queue)) + 1 = MaxRequired
        BY <1>1, <3>2
      <4>2. Passed + (Len(Tail(queue)) + 1) <= Limit(item.ver)
        <5>1. Len(Tail(queue)) + 1 \in Nat /\ Len(Tail(queue)) + 1 <= MaxRequired
          BY <1>1, <4>1
        <5> QED BY <2>2, <5>1, PutFresh
      <4>3. FreshQueue(Tail(queue), Passed)
        BY <1>1, <2>2, <3>2, FreshTail
      <4> QED BY Zenon, <1>1, <3>2, <4>1, <4>2, <4>3, FreshAppend
    <3> QED BY <1>3, <3>1, <3>2, PutShape DEF SystemInv
  <2> QED BY <1>3, <2>1, <2>3 DEF FreshInv
<1>4. CASE \E s \in R!Sample : TaskPuts(s)
  <2>1. PICK s \in R!Sample : TaskPuts(s)
    BY <1>4
  <2>2. /\ Stamped(s) \in Item /\ MQ!PutSample(Stamped(s))
        /\ UNCHANGED <<trainVersion, localStep, batch, closing>>
    BY <2>1, PutLeaves DEF TaskPuts, trainVars
  <2>3. Told <= Stamped(s).ver + 1
    BY <2>1 DEF FreshReports, TaskPuts, R!TaskReported, Stamped
  <2> QED BY <1>3, <2>2, <2>3
<1>5. CASE MainPutsSentinel
  <2>1. /\ Sentinel \in Item /\ MQ!PutSample(Sentinel) /\ Sentinel.ver = rollVersion
        /\ UNCHANGED <<trainVersion, localStep, batch, closing>>
    BY <1>5, SameSets, VersionsBounded, FullyAsyncAssumption DEF MainPutsSentinel, trainVars,
       Sentinel, Item
  <2> QED BY <1>1, <1>3, <2>1
<1>6. CASE TrainerGetsSample
  <2>1. /\ ~closing /\ Passed' = Passed + 1 /\ trainVersion' = trainVersion
        /\ queue # <<>> /\ queue' = Tail(queue)
        /\ Head(queue) \in Item /\ batch' = Append(batch, Head(queue))
    BY <1>6, PassedGets
  <2>2. /\ FreshQueue(Tail(queue), Passed + 1) /\ Passed + 1 <= Limit(Head(queue).ver)
        /\ Limit(Head(queue).ver) \in Nat
    BY Zenon, <1>1, <2>1, FreshTail, ItemVersion, LimitType DEF FreshInv
  <2>3. PerVersion * trainVersion + 1 <= Limit(Head(queue).ver)
    BY <1>1, <2>2
  <2>4. /\ Len(batch') = Len(batch) + 1 /\ batch'[Len(batch) + 1] = Head(queue)
        /\ Len(batch) \in Nat /\ \A i \in 1..Len(batch) : batch'[i] = batch[i]
    BY <1>1, <2>1
  <2>5. ASSUME NEW i \in 1..Len(batch')
        PROVE  PerVersion * trainVersion + 1 <= Limit(batch'[i].ver)
    <3>1. CASE i \in 1..Len(batch)
      BY <2>1, <2>4, <3>1 DEF FreshInv
    <3>2. CASE i = Len(batch) + 1
      BY <2>3, <2>4, <3>2
    <3> QED BY <2>4, <3>1, <3>2
  <2>6. FreshQueue(queue', Passed')
    BY <2>1, <2>2
  <2> QED BY <2>1, <2>5, <2>6
<1>7. CASE TrainerTrains
  <2>1. Passed' = Passed /\ batch' = <<>> /\ ~closing /\ queue' = queue
    BY <1>7, PassedTrains DEF TrainerTrains, queueVars
  <2> QED BY <2>1 DEF FreshInv
<1> QED BY <1>2, <1>4, <1>5, <1>6, <1>7, StepCases DEF Beside

(* Bounded staleness: no sample is trained on more than LagBound versions  *)
(* after the one it is stamped with, for every threshold, batch size and   *)
(* trigger step, with partial rollout or without.                          *)
THEOREM FreshTrained == Spec => []FreshEnough
<1>1. Init => FreshReports /\ FreshInv
  BY DEF Init, R!Init, T!Init, MQ!InitWith, FreshReports, FreshInv, FreshQueue
<1>2. /\ SystemInv /\ SystemInv' /\ FreshReports /\ FreshInv /\ [Next]_vars
           => FreshReports' /\ FreshInv'
  BY FreshReportsStep, FreshStep
<1>3. SystemInv /\ FreshInv => FreshEnough
  <2> SUFFICES ASSUME SystemInv, FreshInv, phase = "train", NEW i \in 1..Len(batch)
               PROVE  trainVersion <= batch[i].ver + LagBound
    BY DEF FreshEnough
  <2>1. /\ ~closing /\ batch[i].ver \in Nat /\ trainVersion \in Nat
        /\ PerVersion \in Nat \ {0} /\ MaxRequired \in Nat \ {0}
    BY ItemVersion, Sizes DEF SystemInv, Training, Kinds
  <2>2. PICK v \in Nat : v = batch[i].ver
    BY <2>1
  <2>3. PerVersion * trainVersion + 1 <= PerVersion * (v + 2) + MaxRequired
    BY <2>1, <2>2 DEF FreshInv, Limit
  <2>4. (MaxRequired - 1) \div PerVersion \in Nat
    BY <2>1, DivAtLeast
  <2>5. CASE trainVersion <= v + 2
    BY <2>1, <2>2, <2>4, <2>5 DEF LagBound
  <2>6. CASE ~(trainVersion <= v + 2)
    <3>1. PICK k \in Nat : trainVersion = v + 2 + k
      <4>1. trainVersion - (v + 2) \in Nat /\ trainVersion = v + 2 + (trainVersion - (v + 2))
        BY <2>1, <2>2, <2>6
      <4> QED BY <4>1
    <3>2. PerVersion * trainVersion = PerVersion * (v + 2) + k * PerVersion
      BY <2>1, <3>1
    <3>3. k * PerVersion <= MaxRequired - 1
      <4>1. PerVersion * (v + 2) \in Nat /\ k * PerVersion \in Nat
        BY <2>1
      <4> QED BY <2>1, <2>3, <3>2, <4>1
    <3>4. k <= (MaxRequired - 1) \div PerVersion
      BY <2>1, <3>3, DivAtLeast
    <3> QED BY <2>2, <2>4, <3>1, <3>4 DEF LagBound
  <2> QED BY <2>5, <2>6
<1> QED BY <1>1, <1>2, <1>3, SystemHolds, PTL DEF Spec

-----------------------------------------------------------------------------
(* Synchronous training: staleness_threshold = 0.  Then the queue is as    *)
(* long as one version takes, and so many samples and no more are claimed  *)
(* for a version: collected, under way, or, from the training step that    *)
(* ends a version until its update_param_version() is over, all of them.   *)

Waiting == phase \in {"await", "sync"} \/ control \in {"update", "count"}
Claimed == Batched + (IF Waiting THEN PerVersion ELSE 0)

SyncInv ==
    ~closing =>
        /\ control \in {"update", "count"} => phase \in {"log", "collect"}
        /\ Claimed + (RP!Load + Cardinality(Queued)) <= staleness
        /\ Claimed + (RP!Load + Cardinality(Queued)) <= MaxRequired
        /\ stage = "fetch" => Claimed + (RP!Load + Cardinality(Queued)) < MaxRequired

LEMMA SyncSize == StaleNum = 0 => MaxRequired = PerVersion
<1> SUFFICES ASSUME StaleNum = 0 PROVE MaxRequired = PerVersion
  OBVIOUS
<1>1. /\ PerVersion \in Nat /\ MaxRequired \in Nat /\ StaleDen \in Nat \ {0}
      /\ PerVersion <= MaxRequired
  BY Sizes, FullyAsyncAssumption
<1>2. MaxRequired = (PerVersion * StaleDen) \div StaleDen
  BY <1>1 DEF MaxRequired
<1>3. StaleDen * MaxRequired <= PerVersion * StaleDen
  <2> DEFINE a == PerVersion * StaleDen
  <2>1. a \in Nat
    BY <1>1
  <2> HIDE DEF a
  <2>2. StaleDen * (a \div StaleDen) <= a
    BY <1>1, <2>1
  <2> QED BY <1>2, <2>2 DEF a
<1>4. ASSUME PerVersion < MaxRequired PROVE FALSE
  <2>1. StaleDen * (PerVersion + 1) <= StaleDen * MaxRequired
    BY <1>1, <1>4
  <2>2. StaleDen * (PerVersion + 1) = PerVersion * StaleDen + StaleDen
    BY <1>1
  <2>3. PerVersion * StaleDen \in Nat
    BY <1>1
  <2> QED BY <1>1, <1>3, <2>1, <2>2, <2>3
<1> QED BY <1>1, <1>4

(* Nothing is under way while the weights are being synchronized.          *)
LEMMA WaitingEmpty ==
    StaleNum = 0 /\ SystemInv /\ SyncInv /\ ~closing /\ Waiting =>
        /\ Batched = 0 /\ batch = <<>> /\ RP!Load = 0 /\ Cardinality(Queued) = 0
        /\ R!Live = {} /\ Queued = {} /\ hand = 0
<1> SUFFICES ASSUME StaleNum = 0, SystemInv, SyncInv, ~closing, Waiting
             PROVE  /\ Batched = 0 /\ batch = <<>> /\ RP!Load = 0 /\ Cardinality(Queued) = 0
                    /\ R!Live = {} /\ Queued = {} /\ hand = 0
  OBVIOUS
<1>1. /\ MaxRequired = PerVersion /\ PerVersion \in Nat /\ Batched \in Nat
      /\ RP!Load \in Nat /\ RP!Busy \in Nat /\ IsFiniteSet(Queued) /\ Cardinality(Queued) \in Nat
  BY SyncSize, Sizes, PassedWithin, QueuedFinite, RolloutTypes DEF SystemInv
<1>2. Claimed = Batched + PerVersion
  BY DEF Claimed
<1>3. Batched = 0 /\ RP!Load = 0 /\ Cardinality(Queued) = 0
  BY <1>1, <1>2 DEF SyncInv
<1>4. Queued = {}
  BY <1>1, <1>3, FS_EmptySet
<1>5. RP!Busy = 0 /\ hand = 0
  BY <1>1, <1>3 DEF RP!Load, RP!NoSample
<1>6. R!Live = {}
  <2>1. IsFiniteSet(R!Live) /\ Cardinality(R!Live) \in Nat
    <3>1. R!Live \in SUBSET (1..TotalSamples) /\ IsFiniteSet(1..TotalSamples)
      BY SameSets, FullyAsyncAssumption, FS_Interval
    <3> QED BY Zenon, <3>1, FS_Subset, FS_CardinalityType
  <2>2. RP!Busy = Cardinality(R!Live) + Len(cancelQueue) /\ Len(cancelQueue) \in Nat
    BY SameSets, SameCardinality, RolloutTypes DEF RP!Busy, SystemInv
  <2>3. Cardinality(R!Live) = 0
    BY <1>5, <2>1, <2>2
  <2> QED BY <2>1, <2>3, FS_EmptySet
<1>7. batch = <<>>
  <2>1. /\ Required \in Nat \ {0} /\ localStep - 1 \in Nat /\ Len(batch) \in Nat
        /\ batch \in Seq(Item)
    BY FullyAsyncAssumption DEF SystemInv, Training, Kinds
  <2>2. PICK c \in Nat : c = Required * (localStep - 1)
    BY <2>1
  <2>3. Len(batch) = 0
    BY <1>3, <2>1, <2>2 DEF Batched
  <2> QED BY <2>1, <2>3
<1> QED BY <1>3, <1>4, <1>5, <1>6, <1>7

LEMMA WaitingEmptyNext ==
    StaleNum = 0 /\ SystemInv' /\ SyncInv' /\ ~closing' /\ Waiting' =>
        R!Live' = {} /\ Queued' = {} /\ batch' = <<>>
<1>1. StaleNum = 0 /\ SystemInv /\ SyncInv /\ ~closing /\ Waiting =>
         R!Live = {} /\ Queued = {} /\ batch = <<>>
  BY WaitingEmpty
<1>2. (StaleNum = 0 /\ SystemInv /\ SyncInv /\ ~closing /\ Waiting =>
         R!Live = {} /\ Queued = {} /\ batch = <<>>)'
  BY <1>1, PTL
<1> QED BY <1>2

(* How the claims move: a collected sample is claimed in place of one      *)
(* under way, the training step that ends a version claims the next, and   *)
(* the end of update_param_version() gives it up.                          *)
LEMMA ClaimedStep ==
    ASSUME StaleNum = 0, SystemInv, OnePlace, SyncInv, [Next]_vars, ~closing'
    PROVE  /\ ~closing
           /\ control' \in {"update", "count"} => phase' \in {"log", "collect"}
           /\ \/ control = "count" /\ control' = "validated" /\ Claimed' = Batched
              \/ /\ control' = control \/ control # "count"
                 /\ TrainerGetsSample /\ ~IsSentinel(Head(queue)) /\ Claimed' = Claimed + 1
              \/ /\ control' = control \/ control # "count"
                 /\ Claimed' = Claimed
<1>1. /\ Batched \in Nat /\ PerVersion \in Nat
  BY PassedWithin, Sizes
<1>2. ASSUME UNCHANGED <<localStep, batch>>, Waiting' <=> Waiting PROVE Claimed' = Claimed
  BY <1>2 DEF Claimed, Batched, PerVersion
<1>3. CASE Beside
  <2>1. UNCHANGED <<localStep, batch, closing>> /\ ~closing
    BY <1>3, BesideShape
  <2>2. CASE Rolls \/ UNCHANGED vars
    <3>1. control' = control /\ phase' = phase
      BY <2>2, RollsShape DEF vars, rollVars, trainVars
    <3> QED BY <1>2, <2>1, <3>1 DEF Waiting, SyncInv
  <2>3. CASE Control \/ ControlPublishes
    <3>1. /\ phase' = phase
          /\ \/ control = "pause" /\ control' = "gather"
             \/ control = "gather" /\ control' = "paused"
             \/ control = "update" /\ control' = "count"
             \/ control = "count" /\ control' = "validated"
             \/ control = "validated" /\ control' = "resume"
             \/ control = "resume" /\ control' = "idle"
             \/ control' = control
      BY <2>3, ControlShape DEF trainVars
    <3>2. CASE control = "count" /\ control' = "validated"
      <4>1. ~Waiting'
        BY <2>1, <3>1, <3>2 DEF Waiting, SyncInv
      <4>2. Claimed' = Batched + 0
        BY <2>1, <4>1 DEF Claimed, Batched, PerVersion
      <4> QED BY <1>1, <2>1, <3>2, <4>2
    <3>3. CASE ~(control = "count" /\ control' = "validated")
      BY <1>2, <2>1, <3>1, <3>3 DEF Waiting, SyncInv
    <3> QED BY <3>2, <3>3
  <2>4. CASE TrainerAwaitsSample \/ TrainerLogs \/ SyncUpdatesQueue
    <3>1. control' = control /\ (phase' = phase \/ (phase = "log" /\ phase' = "collect"))
      BY <2>4 DEF TrainerAwaitsSample, TrainerLogs, T!Log, SyncUpdatesQueue, rollVars, trainVars
    <3> QED BY <1>2, <2>1, <3>1 DEF Waiting, SyncInv
  <2>5. CASE SyncPauses
    <3>1. /\ control = "idle" /\ control' = "pause" /\ phase = "await" /\ phase' = "sync"
      BY <2>5 DEF SyncPauses, LastSyncOver, T!StartSync, R!PauseCalled, R!Call
    <3> QED BY <1>2, <2>1, <3>1 DEF Waiting
  <2>6. CASE SyncTransfers
    <3>1. /\ control = "paused" /\ control' = "update" /\ phase = "sync" /\ phase' = "log"
      BY <2>1, <2>6 DEF SyncTransfers, T!SyncReturned, R!UpdateCalled, R!Call
    <3> QED BY <1>2, <2>1, <3>1 DEF Waiting
  <2>7. CASE TrainerCloses \/ RunnerClears
    <3>1. phase \in {"close", "last", "end"}
      BY <2>7 DEF TrainerCloses, RunnerClears, Ended, T!Close, T!CloseAfterSync
    <3> QED BY <2>1, <3>1 DEF SystemInv, Training
  <2> QED BY <1>3, <2>2, <2>3, <2>4, <2>5, <2>6, <2>7 DEF Beside
<1>4. CASE (\E s \in R!Sample : TaskPuts(s)) \/ MainPutsSentinel
  <2>1. UNCHANGED <<localStep, batch, closing, phase, control>>
    BY <1>4 DEF TaskPuts, MainPutsSentinel, R!TaskReported, R!MainSentinel, R!taskOnly,
       R!ctlVars, trainVars
  <2> QED BY <1>2, <2>1 DEF Waiting, SyncInv
<1>5. CASE TrainerGetsSample
  <2>1. /\ ~closing /\ ~IsSentinel(Head(queue)) /\ Batched' = Batched + 1
        /\ queue # <<>> /\ control' = control /\ phase = "collect"
        /\ phase' \in {"collect", "train"}
    BY <1>5, PassedGets DEF TrainerGetsSample, T!Collect, rollVars
  <2>2. Queued # {}
    <3>1. Head(queue).id \in Ids(queue)
      BY <2>1, TailOnce DEF SystemInv, Kinds, OnePlace
    <3> QED BY <2>1, <3>1, SameSets DEF Queued, IsSentinel
  <2>3. ~Waiting
    BY <2>1, <2>2, WaitingEmpty
  <2>4. ~Waiting'
    BY <2>1, <2>3 DEF Waiting
  <2>5. Claimed = Batched /\ Claimed' = Batched + 1
    <3>1. Claimed = Batched + 0
      BY <2>3 DEF Claimed
    <3>2. Claimed' = (Batched + 1) + 0
      BY <2>1, <2>4 DEF Claimed
    <3> QED BY <1>1, <3>1, <3>2
  <2> QED BY <1>5, <2>1, <2>3, <2>5 DEF Waiting
<1>6. CASE TrainerTrains
  <2>1. control' = control /\ ~closing
    BY <1>6, PassedTrains DEF TrainerTrains, rollVars
  <2>2. phase = "train" /\ control \notin {"update", "count"} /\ ~Waiting
    BY <1>6, <2>1, PassedTrains DEF SyncInv, Waiting
  <2>3. Claimed = Batched
    <3>1. Claimed = Batched + 0
      BY <2>2 DEF Claimed
    <3> QED BY <1>1, <3>1
  <2>4. CASE phase' = "log" /\ Batched' = Batched
    <3>1. ~Waiting'
      BY <2>1, <2>2, <2>4 DEF Waiting
    <3>2. Claimed' = Batched + 0
      BY <2>4, <3>1 DEF Claimed
    <3> QED BY <1>1, <2>1, <2>2, <2>3, <3>2
  <2>5. CASE phase' = "await" /\ Batched' = 0 /\ Batched = PerVersion
    <3>1. Waiting'
      BY <2>5 DEF Waiting
    <3>2. Claimed' = 0 + PerVersion
      BY <2>5, <3>1 DEF Claimed, PerVersion
    <3> QED BY <1>1, <2>1, <2>2, <2>3, <2>5, <3>2
  <2> QED BY <1>6, <2>4, <2>5, PassedTrains
<1> QED BY <1>3, <1>4, <1>5, <1>6, StepCases DEF Beside

LEMMA SyncStep ==
    ASSUME StaleNum = 0, SystemInv, SystemInv', EndInv, OnePlace, SyncInv, [Next]_vars
    PROVE  SyncInv'
<1> SUFFICES ASSUME ~closing'
             PROVE  /\ control' \in {"update", "count"} => phase' \in {"log", "collect"}
                    /\ Claimed' + (RP!Load' + Cardinality(Queued')) <= staleness'
                    /\ Claimed' + (RP!Load' + Cardinality(Queued')) <= MaxRequired
                    /\ stage' = "fetch" =>
                          Claimed' + (RP!Load' + Cardinality(Queued')) < MaxRequired
  BY Zenon DEF SyncInv
<1>1. PICK l \in Nat, q \in Nat :
         /\ l = RP!Load' /\ q = Cardinality(Queued')
         /\ \/ /\ RP!ProcTakePending /\ l <= RP!Load + 1 /\ q = Cardinality(Queued)
            \/ /\ ~RP!ProcTakePending
               /\ l + q <= RP!Load + Cardinality(Queued)
               /\ TrainerGetsSample /\ ~IsSentinel(Head(queue)) =>
                     l = RP!Load /\ q = Cardinality(Queued) - 1
  BY FlightStep
<1>2. /\ ~closing
      /\ control' \in {"update", "count"} => phase' \in {"log", "collect"}
      /\ \/ control = "count" /\ control' = "validated" /\ Claimed' = Batched
         \/ /\ control' = control \/ control # "count"
            /\ TrainerGetsSample /\ ~IsSentinel(Head(queue)) /\ Claimed' = Claimed + 1
         \/ /\ control' = control \/ control # "count"
            /\ Claimed' = Claimed
  BY ClaimedStep
<1>3. /\ Cardinality(Queued) \in Nat /\ RP!Load \in Nat /\ Batched \in Nat /\ PerVersion \in Nat
      /\ staleness \in Nat /\ counted \in Nat /\ MaxRequired \in Nat \ {0}
  <2>1. Cardinality(Queued) \in Nat /\ Batched \in Nat
    BY QueuedFinite, PassedWithin
  <2>2. RP!Load \in Nat /\ staleness \in Nat /\ counted \in Nat
    BY RolloutTypes DEF SystemInv
  <2> QED BY <2>1, <2>2, Sizes
<1>4. Claimed \in Nat /\ Batched <= Claimed
  BY <1>3 DEF Claimed
<1>5. PICK st \in Nat, c \in Nat : st = staleness' /\ c = Claimed'
  <2>1. staleness' \in Nat
    BY DEF SystemInv, Rollout, RP!TypeOK
  <2>2. Claimed' \in Nat
    BY <1>2, <1>3, <1>4
  <2> QED BY <2>1, <2>2
<1>6. [RP!Next]_(RP!vars)
  BY StepOfRollouter, SameNext, SameVars
<1> DEFINE Old == Claimed + (RP!Load + Cardinality(Queued))
           New == c + (l + q)
           Goal == New <= st /\ New <= MaxRequired /\ (stage' = "fetch" => New < MaxRequired)
<1>7. Old <= staleness /\ Old <= MaxRequired /\ (stage = "fetch" => Old < MaxRequired)
  BY <1>2 DEF SyncInv
<1>8. ASSUME control = "count", control' = "validated", Claimed' = Batched PROVE Goal
  <2>1. Batched = 0 /\ RP!Load = 0 /\ Cardinality(Queued) = 0
    BY <1>2, <1>8, WaitingEmpty DEF Waiting
  <2>2. ~RP!ProcTakePending
    BY <1>8 DEF RP!ProcTakePending, RP!ctlVars
  <2>3. c = 0 /\ l + q <= 0
    BY <1>1, <1>3, <1>5, <1>8, <2>1, <2>2
  <2> QED BY <1>3, <2>3
<1>9. ASSUME Claimed' = Claimed, RP!ProcTakePending PROVE Goal
  <2>1. stage = "fetch" /\ stage' # "fetch" /\ staleness' = staleness + 1
    BY <1>9 DEF RP!ProcTakePending
  <2>2. st = staleness + 1 /\ l <= RP!Load + 1 /\ q = Cardinality(Queued) /\ c = Claimed
    BY <1>1, <1>5, <1>9, <2>1
  <2>3. Old < MaxRequired
    BY <1>7, <2>1
  <2>4. New <= st /\ New <= MaxRequired
    BY <1>3, <1>4, <1>7, <2>2, <2>3
  <2> QED BY <2>1, <2>4
<1>10. ASSUME ~RP!ProcTakePending, c + (l + q) <= Old, ~(control = "count" /\ control' = "validated")
       PROVE  Goal
  <2>1. /\ staleness' = staleness
        /\ stage' = "fetch" => stage = "fetch" \/ ~(staleness >= MaxRequired)
    BY <1>6, <1>10, RolloutAssumed, RP!WhoStales
  <2>2. st = staleness
    BY <1>5, <2>1
  <2>3. New <= st /\ New <= MaxRequired
    BY <1>3, <1>4, <1>7, <1>10, <2>2
  <2>4. stage = "fetch" \/ ~(staleness >= MaxRequired) => New < MaxRequired
    BY <1>3, <1>4, <1>7, <1>10
  <2> QED BY <2>1, <2>3, <2>4
<1>11. ASSUME TrainerGetsSample, ~IsSentinel(Head(queue)), Claimed' = Claimed + 1,
              ~(control = "count" /\ control' = "validated")
       PROVE  Goal
  <2>1. ~RP!ProcTakePending
    <3>1. taken' = taken /\ taken \in Nat
      BY <1>11, RolloutTypes DEF TrainerGetsSample, rollVars, SystemInv
    <3> QED BY <3>1 DEF RP!ProcTakePending
  <2>2. c = Claimed + 1 /\ l = RP!Load /\ q = Cardinality(Queued) - 1
    BY <1>1, <1>5, <1>11, <2>1
  <2>3. c + (l + q) <= Old
    BY <1>3, <1>4, <2>2
  <2> QED BY <1>10, <1>11, <2>1, <2>3
<1>12. ASSUME Claimed' = Claimed, ~RP!ProcTakePending,
              ~(control = "count" /\ control' = "validated")
       PROVE  Goal
  <2>1. l + q <= RP!Load + Cardinality(Queued) /\ c = Claimed
    BY <1>1, <1>5, <1>12
  <2>2. c + (l + q) <= Old
    BY <1>3, <1>4, <2>1
  <2> QED BY <1>10, <1>12, <2>2
<1>13. Goal
  <2> HIDE DEF Goal
  <2>1. CASE control = "count" /\ control' = "validated" /\ Claimed' = Batched
    BY <1>8, <2>1
  <2>2. CASE /\ ~(control = "count" /\ control' = "validated")
             /\ TrainerGetsSample /\ ~IsSentinel(Head(queue)) /\ Claimed' = Claimed + 1
    BY <1>11, <2>2
  <2>3. CASE ~(control = "count" /\ control' = "validated") /\ Claimed' = Claimed
    BY <1>9, <1>12, <2>3
  <2>4. control' = control \/ control # "count" => ~(control = "count" /\ control' = "validated")
    OBVIOUS
  <2> QED BY <1>2, <2>1, <2>2, <2>3, <2>4
<1>14. Claimed' + (RP!Load' + Cardinality(Queued')) = New /\ staleness' = st
  BY <1>1, <1>5
<1> HIDE DEF New
<1> QED BY <1>2, <1>13, <1>14, Zenon

LEMMA SyncAtStart == Init => SyncInv
<1> SUFFICES ASSUME Init PROVE SyncInv
  OBVIOUS
<1>1. SystemInv /\ StalInv
  BY SystemAtStart, StalAtStart
<1>2. /\ RP!Live = {} /\ hand = 0 /\ cancelQueue = <<>> /\ queue = <<>> /\ staleness = 0
      /\ control = "idle" /\ phase = "log" /\ batch = <<>> /\ localStep = 1 /\ stage = "check"
  BY SameSets DEF Init, R!Init, MQ!InitWith, T!Init
<1>3. Queued = {}
  BY <1>2 DEF Queued, Ids
<1>4. Cardinality(Queued) = 0 /\ RP!Busy = 0
  <2>1. Cardinality({}) = 0
    BY FS_EmptySet
  <2> QED BY <1>2, <1>3, <2>1, SameCardinality DEF RP!Busy
<1>5. RP!Load = 0
  BY <1>2, <1>4 DEF RP!Load, RP!NoSample
<1>6. Batched = 0
  <2>1. Required * (1 - 1) = 0 /\ Len(<<>>) = 0
    BY FullyAsyncAssumption
  <2> QED BY <1>2, <2>1 DEF Batched
<1>7. Claimed = 0
  <2>1. ~Waiting
    BY <1>2 DEF Waiting
  <2> QED BY <1>6, <2>1 DEF Claimed
<1> QED BY <1>2, <1>4, <1>5, <1>7, Sizes DEF SyncInv

(* All that a batch will be made of carries the version it will train.     *)
AllOf(q, v) == \A i \in 1..Len(q) : IsSentinel(q[i]) \/ q[i].ver = v

Current ==
    ~closing =>
        /\ \A s \in R!Sample : task[s] = "reporting" => stamp[s] = trainVersion
        /\ AllOf(queue, trainVersion)
        /\ \A i \in 1..Len(batch) : batch[i].ver = trainVersion

LEMMA AllOfAppend ==
    ASSUME NEW q \in Seq(Item), NEW item \in Item, NEW v, AllOf(q, v),
           IsSentinel(item) \/ item.ver = v
    PROVE  AllOf(Append(q, item), v)
<1> DEFINE r == Append(q, item)
<1>1. /\ Len(q) \in Nat /\ Len(r) = Len(q) + 1 /\ r[Len(q) + 1] = item
      /\ \A i \in 1..Len(q) : r[i] = q[i]
  OBVIOUS
<1> HIDE DEF r
<1>2. ASSUME NEW i \in 1..Len(r) PROVE IsSentinel(r[i]) \/ r[i].ver = v
  <2>1. CASE i \in 1..Len(q)
    BY <1>1, <2>1 DEF AllOf, IsSentinel
  <2>2. CASE i = Len(q) + 1
    BY <1>1, <2>2
  <2> QED BY <1>1, <2>1, <2>2
<1> QED BY <1>2 DEF AllOf, r

LEMMA AllOfTail ==
    ASSUME NEW q \in Seq(Item), q # <<>>, NEW v, AllOf(q, v)
    PROVE  AllOf(Tail(q), v) /\ (IsSentinel(Head(q)) \/ Head(q).ver = v)
<1> DEFINE r == Tail(q)
<1>1. /\ Len(r) \in Nat /\ Len(q) = Len(r) + 1 /\ Head(q) = q[1]
      /\ \A i \in 1..Len(r) : r[i] = q[i + 1]
  OBVIOUS
<1>2. 1 \in 1..Len(q) /\ \A i \in 1..Len(r) : i + 1 \in 1..Len(q)
  BY <1>1
<1> HIDE DEF r
<1> QED BY <1>1, <1>2 DEF AllOf, IsSentinel, r

(* A generation ends only when the trainer has the rollouter's version.    *)
LEMMA GeneratesCurrent ==
    ASSUME StaleNum = 0, SystemInv, SyncInv, ~closing, R!Live # {}
    PROVE  rollVersion = trainVersion
<1>1. ~Waiting
  BY WaitingEmpty
<1>2. phase \notin {"await", "sync"} /\ control # "update"
  BY <1>1 DEF Waiting
<1> QED BY <1>2 DEF SystemInv, Handshake

(* A version ends with nothing under way, so nothing is left behind by it. *)
LEMMA VersionEnds ==
    ASSUME StaleNum = 0, SystemInv', SyncInv', ~closing', Waiting'
    PROVE  Current'
<1>1. R!Live' = {} /\ Queued' = {} /\ batch' = <<>>
  BY WaitingEmptyNext
<1>2. \A s \in R!Sample : task'[s] = "none"
  BY <1>1 DEF R!Live, R!Sample
<1>3. \A i \in 1..Len(queue') : IsSentinel(queue'[i])
  BY Zenon, <1>1, SameSets DEF Queued, Ids, IsSentinel
<1>4. 1..Len(batch') = {}
  BY <1>1
<1> QED BY <1>2, <1>3, <1>4 DEF Current, AllOf, IsSentinel, R!Sample, R!NoSample

LEMMA ReportsCurrent ==
    ASSUME StaleNum = 0, SystemInv, SystemInv', SyncInv, ~closing, Current, [Next]_vars,
           NEW s \in R!Sample, task'[s] = "reporting"
    PROVE  stamp'[s] = trainVersion
<1>1. [RP!Next]_(RP!vars) /\ RP!TypeOK
  BY StepOfRollouter, SameNext, SameVars DEF SystemInv, Rollout
<1>2. task \in [R!Sample -> R!TaskState] /\ stamp \in [R!Sample -> Version]
  BY Zenon, RolloutTypes DEF SystemInv, Kinds
<1>3. CASE \E r \in RP!Sample : RP!TaskGenerated(r) \/ RP!TaskReported(r)
  <2>1. PICK r \in R!Sample : RP!TaskGenerated(r) \/ RP!TaskReported(r)
    BY <1>3, SameSets
  <2>2. CASE RP!TaskGenerated(r) /\ r = s
    <3>1. stamp'[s] = rollVersion /\ R!Live # {}
      BY <1>2, <2>2, SameSets DEF RP!TaskGenerated
    <3> QED BY <3>1, GeneratesCurrent
  <2>3. CASE ~(RP!TaskGenerated(r) /\ r = s)
    <3>1. task[s] = "reporting" /\ stamp'[s] = stamp[s]
      BY <1>2, <2>1, <2>3 DEF RP!TaskGenerated, RP!TaskReported
    <3> QED BY <3>1 DEF Current
  <2> QED BY <2>2, <2>3
<1>4. CASE stamp' = stamp /\ \A r \in RP!Sample : task'[r] = "reporting" => task[r] = "reporting"
  <2>1. task[s] = "reporting"
    BY <1>4, SameSets
  <2> QED BY <1>4, <2>1 DEF Current
<1> QED BY <1>1, <1>3, <1>4, RolloutAssumed, RP!WhoStamps

LEMMA CurrentStep ==
    ASSUME StaleNum = 0, SystemInv, SystemInv', OnePlace, SyncInv, SyncInv', Current,
           [Next]_vars
    PROVE  Current'
<1> SUFFICES ASSUME ~closing', ~Waiting' PROVE Current'
  BY VersionEnds DEF Current
<1>1. ~closing /\ queue \in Seq(Item) /\ batch \in Seq(Item)
  BY ClaimedStep DEF SystemInv, Kinds
<1>2. AllOf(queue, trainVersion) /\ \A i \in 1..Len(batch) : batch[i].ver = trainVersion
  BY <1>1 DEF Current
<1>3. SUFFICES /\ trainVersion' = trainVersion
               /\ AllOf(queue', trainVersion)
               /\ \A i \in 1..Len(batch') : batch'[i].ver = trainVersion
  <2>1. \A s \in R!Sample : task'[s] = "reporting" => stamp'[s] = trainVersion
    BY <1>1, ReportsCurrent
  <2> QED BY <1>3, <2>1 DEF Current, AllOf, IsSentinel, R!Sample, R!NoSample
<1>4. ASSUME NEW item \in Item, MQ!PutSample(item),
             IsSentinel(item) \/ item.ver = trainVersion
      PROVE  AllOf(queue', trainVersion)
  <2>1. CASE queue' = Append(queue, item)
    BY <1>1, <1>2, <1>4, <2>1, AllOfAppend
  <2>2. CASE queue' = Append(Tail(queue), item) /\ queue # <<>>
    <3>1. Tail(queue) \in Seq(Item) /\ AllOf(Tail(queue), trainVersion)
      BY <1>1, <1>2, <2>2, AllOfTail
    <3> QED BY Zenon, <1>4, <2>2, <3>1, AllOfAppend
  <2> QED BY <1>4, <2>1, <2>2, PutShape DEF SystemInv
<1>5. CASE Beside
  BY <1>2, <1>5, BesideShape
<1>6. CASE \E s \in R!Sample : TaskPuts(s)
  <2>1. PICK s \in R!Sample : TaskPuts(s)
    BY <1>6
  <2>2. /\ Stamped(s) \in Item /\ MQ!PutSample(Stamped(s))
        /\ UNCHANGED <<trainVersion, batch>>
    BY <2>1, PutLeaves DEF TaskPuts, trainVars
  <2>3. Stamped(s).ver = trainVersion
    BY <1>1, <2>1 DEF Current, TaskPuts, R!TaskReported, Stamped
  <2> QED BY <1>2, <1>4, <2>2, <2>3
<1>7. CASE MainPutsSentinel
  <2>1. /\ Sentinel \in Item /\ MQ!PutSample(Sentinel) /\ IsSentinel(Sentinel)
        /\ UNCHANGED <<trainVersion, batch>>
    BY <1>7, SameSets, VersionsBounded, FullyAsyncAssumption DEF MainPutsSentinel, trainVars,
       Sentinel, Item, IsSentinel
  <2> QED BY <1>2, <1>4, <2>1
<1>8. CASE TrainerGetsSample
  <2>1. /\ ~IsSentinel(Head(queue)) /\ trainVersion' = trainVersion
        /\ queue # <<>> /\ queue' = Tail(queue)
        /\ Head(queue) \in Item /\ batch' = Append(batch, Head(queue))
    BY <1>8, PassedGets
  <2>2. AllOf(Tail(queue), trainVersion) /\ Head(queue).ver = trainVersion
    BY <1>1, <1>2, <2>1, AllOfTail
  <2>3. /\ Len(batch') = Len(batch) + 1 /\ batch'[Len(batch) + 1] = Head(queue)
        /\ Len(batch) \in Nat /\ \A i \in 1..Len(batch) : batch'[i] = batch[i]
    BY <1>1, <2>1
  <2>4. ASSUME NEW i \in 1..Len(batch') PROVE batch'[i].ver = trainVersion
    <3>1. CASE i \in 1..Len(batch)
      BY <1>2, <2>3, <3>1
    <3>2. CASE i = Len(batch) + 1
      BY <2>2, <2>3, <3>2
    <3> QED BY <2>3, <3>1, <3>2
  <2> QED BY <2>1, <2>2, <2>4
<1>9. CASE TrainerTrains
  <2>1. batch' = <<>> /\ queue' = queue /\ trainVersion' = trainVersion
    BY <1>9, PassedTrains DEF TrainerTrains, queueVars, Waiting, T!Train, T!NoSyncYet
  <2> QED BY <1>2, <2>1
<1> QED BY <1>5, <1>6, <1>7, <1>8, <1>9, StepCases DEF Beside

LEMMA SyncHolds ==
    ASSUME StaleNum = 0
    PROVE  Spec => [](SystemInv /\ EndInv /\ SyncInv /\ Current)
<1>1. Init => Current
  BY DEF Init, R!Init, T!Init, MQ!InitWith, Current, AllOf
<1>2. SystemInv /\ SystemInv' /\ EndInv /\ OnePlace /\ SyncInv /\ [Next]_vars => SyncInv'
  BY SyncStep
<1>3. /\ SystemInv /\ SystemInv' /\ OnePlace /\ SyncInv /\ SyncInv' /\ Current /\ [Next]_vars
          => Current'
  BY CurrentStep
<1> QED BY <1>1, <1>2, <1>3, SyncAtStart, OnePlaceHolds, PTL DEF Spec

(* With staleness_threshold = 0 training is on-policy: every batch was     *)
(* generated with exactly the version it trains, with partial rollout or   *)
(* without.                                                                *)
THEOREM OnPolicyTraining ==
    ASSUME StaleNum = 0
    PROVE  Spec => []OnPolicy
<1>1. SystemInv /\ Current => OnPolicy
  BY DEF SystemInv, Training, Current, OnPolicy
<1> QED BY <1>1, SyncHolds, PTL

(* From gather() to the end of the transfer no generation is live: pause() *)
(* has awaited them all, and what would start one needs a sample in the    *)
(* processor's hand, of which there is none.                               *)
Quiet == control = "paused" => R!Live = {}

LEMMA QuietStep ==
    ASSUME StaleNum = 0, SystemInv, SystemInv', EndInv, SyncInv, Quiet, [Next]_vars
    PROVE  Quiet'
<1> SUFFICES ASSUME control' = "paused" PROVE R!Live' = {}
  BY DEF Quiet
<1>1. [RP!Next]_(RP!vars)
  BY StepOfRollouter, SameNext, SameVars
<1>2. CASE control # "paused"
  <2>1. RP!ControlGathered
    BY <1>1, <1>2, RolloutAssumed, RP!WhoGathers
  <2>2. RP!Live = {} /\ task' = task
    BY <2>1 DEF RP!ControlGathered
  <2> QED BY <2>2, SameSets DEF R!Live
<1>3. CASE control = "paused"
  <2>1. R!Live = {} /\ phase = "sync"
    BY <1>3 DEF Quiet, SystemInv, Handshake
  <2>2. ~RP!ProcSubmit
    <3>1. CASE ~closing
      <4>1. hand = 0
        BY <2>1, <3>1, WaitingEmpty DEF Waiting
      <4> QED BY <4>1, SameSets DEF RP!ProcSubmit, RP!Placed, SystemInv, Rollout
    <3>2. CASE closing
      <4>1. stage \in {"done", "crashed"}
        BY <3>2 DEF EndInv, Streaming, SystemInv, Accounts, R!Ended
      <4> QED BY <4>1 DEF RP!ProcSubmit
    <3> QED BY <3>1, <3>2
  <2>3. \A s \in RP!Sample : ~RP!TaskStep(s)
    BY <2>1, RolloutAssumed, SameSets, RP!TaskStepShape DEF SystemInv, Rollout
  <2>4. task' = task
    <3>1. CASE RP!ProcTakeCancelled \/ RP!ProcTakePending
      BY <3>1 DEF RP!ProcTakeCancelled, RP!ProcTakePending, RP!taskVars
    <3> QED BY <1>1, <2>2, <2>3, <3>1, RolloutAssumed, RP!WhoMovesSamples
  <2> QED BY <2>1, <2>4 DEF R!Live
<1> QED BY <1>2, <1>3

(* Synchronous training waits for every generation before the weights move *)
(* (README.md of fully_async_policy, on staleness_threshold = 0).          *)
THEOREM QuietTransfer ==
    ASSUME StaleNum = 0
    PROVE  Spec => []QuiescentTransfer
<1>1. Init => Quiet
  BY DEF Init, R!Init, Quiet
<1>2. SystemInv /\ SystemInv' /\ EndInv /\ SyncInv /\ Quiet /\ [Next]_vars => Quiet'
  BY QuietStep
<1>3. SystemInv /\ Quiet => QuiescentTransfer
  BY DEF SystemInv, Handshake, Quiet, QuiescentTransfer
<1> QED BY <1>1, <1>2, <1>3, SyncHolds, PTL DEF Spec
-----------------------------------------------------------------------------
(* Synchronous training in which no generation raises.  Nothing is ever    *)
(* interrupted then, the queue never overflows, and what is fetched is     *)
(* trained on, but for less than a batch at the end.                       *)

(* Where a generation raises is what the model bounds by MaxFailures.      *)
Unfailed == failures = 0 /\ FirstWait

LEMMA UnfailedStep ==
    ASSUME MaxFailures = 0, NeverStarved, SystemInv, Unfailed, [Next]_vars
    PROVE  Unfailed'
<1>1. [RP!Next]_(RP!vars) /\ FirstWait'
  BY StepOfRollouter, SameNext, SameVars, FirstStep DEF Unfailed
<1>2. CASE RP!ProcTakeCancelled \/ RP!ProcTakePending \/ RP!ProcSubmit
  BY <1>1, <1>2 DEF RP!ProcTakeCancelled, RP!ProcTakePending, RP!ProcSubmit, RP!taskVars, Unfailed
<1>3. CASE \E s \in RP!Sample : RP!TaskStep(s)
  BY <1>1, <1>3 DEF RP!TaskStep, RP!TaskStart, RP!ServerInterrupt, RP!TaskCancelled,
     RP!TaskGenerated, RP!TaskReported, RP!TaskFails, Unfailed
<1>4. CASE failures' = failures
  BY <1>1, <1>4 DEF Unfailed
<1> QED BY <1>1, <1>2, <1>3, <1>4, RolloutAssumed, RP!WhoMovesSamples

(* A stream that is over has no task, and every sample was taken.          *)
LEMMA StreamIsOver ==
    ASSUME SystemInv, EndInv, Unfailed, RP!Drained, main # "stream" \/ closing \/ R!Ended
    PROVE  /\ stage = "done" /\ R!Live = {} /\ hand = 0
           /\ taken = TotalSamples + 1
<1>1. R!Ended
  BY DEF EndInv, Streaming, SystemInv, Accounts
<1>2. stage = "done"
  BY <1>1 DEF R!Ended, Unfailed, FirstWait
<1> QED BY <1>2, SameSets DEF SystemInv, Rollout, RP!Placed, RP!Drained

-----------------------------------------------------------------------------
(* The servers are paused only while nothing is generated, and the monitor *)
(* does not restart the rollout under a synchronization.                   *)
Calm ==
    /\ cancelQueue = <<>> /\ \A s \in R!Sample : task[s] # "interrupted"
    /\ RP!Untriggered /\ RP!Owned
    /\ ~closing =>
          /\ serverPaused => /\ paused /\ R!Live = {}
                             /\ stage \notin RP!Submitting /\ control \in RP!Between
          /\ control \in RP!Between => monitor # "recover"
          /\ RP!MonitorFirst

(* While a version is awaited, staleness_samples is at its limit.          *)
LEMMA WaitingStale ==
    ASSUME StaleNum = 0, SystemInv, SyncInv, ~closing, Waiting
    PROVE  staleness >= MaxRequired /\ stage \notin RP!Submitting
<1>1. /\ MaxRequired = PerVersion /\ PerVersion \in Nat /\ staleness \in Nat
      /\ Batched = 0 /\ RP!Load = 0 /\ Cardinality(Queued) = 0 /\ hand = 0
  BY SyncSize, Sizes, RolloutTypes, WaitingEmpty DEF SystemInv
<1>2. Claimed + (RP!Load + Cardinality(Queued)) = MaxRequired
  BY <1>1 DEF Claimed
<1>3. stage # "fetch"
  BY <1>1, <1>2 DEF SyncInv
<1>4. stage \notin {"limit", "submit"}
  BY <1>1, SameSets DEF SystemInv, Rollout, RP!Placed
<1> QED BY <1>1, <1>2, <1>3, <1>4 DEF SyncInv, RP!Submitting

(* So the monitor decides to recover only between synchronizations.        *)
LEMMA RecoversIdle ==
    ASSUME StaleNum = 0, SystemInv, SyncInv, Calm, ~closing, NEW size, RP!Recovers(size)
    PROVE  control = "idle"
<1>1. trigger /\ ~(staleness >= MaxRequired)
  BY DEF RP!Recovers, RP!ShouldPause
<1>2. control \notin {"paused", "update", "count", "validated", "resume"}
  BY <1>1 DEF Calm, RP!Untriggered, RP!Between
<1>3. control \in {"pause", "gather"} => phase = "sync"
  BY DEF SystemInv, Handshake
<1>4. control \notin {"pause", "gather"}
  BY <1>1, <1>3, WaitingStale DEF Waiting
<1>5. control \in RP!Phases
  BY RolloutTypes DEF SystemInv
<1> QED BY <1>2, <1>4, <1>5 DEF RP!Phases

(* No task is created and none changes while none is live.                 *)
LEMMA LiveStays ==
    ASSUME SystemInv, [Next]_vars, R!Live = {}, stage # "submit"
    PROVE  R!Live' = {}
<1>1. [RP!Next]_(RP!vars)
  BY StepOfRollouter, SameNext, SameVars
<1>2. ~RP!ProcSubmit /\ \A s \in RP!Sample : ~RP!TaskStep(s)
  BY RolloutAssumed, SameSets, RP!TaskStepShape DEF SystemInv, Rollout, RP!ProcSubmit
<1>3. task' = task
  <2>1. CASE RP!ProcTakeCancelled \/ RP!ProcTakePending
    BY <2>1 DEF RP!ProcTakeCancelled, RP!ProcTakePending, RP!taskVars
  <2> QED BY <1>1, <1>2, <2>1, RolloutAssumed, RP!WhoMovesSamples
<1> QED BY <1>3 DEF R!Live

LEMMA NothingCancelled ==
    ASSUME SystemInv, Calm, [Next]_vars, serverPaused => R!Live = {}
    PROVE  cancelQueue' = <<>> /\ \A s \in R!Sample : task'[s] # "interrupted"
<1>1. [RP!Next]_(RP!vars) /\ RP!TypeOK
  BY StepOfRollouter, SameNext, SameVars DEF SystemInv, Rollout
<1>2. /\ cancelQueue = <<>> /\ \A s \in R!Sample : task[s] # "interrupted"
      /\ task \in [R!Sample -> R!TaskState] /\ R!Sample = RP!Sample
  BY SameSets, RolloutTypes DEF Calm, SystemInv
<1>3. ~RP!ProcTakeCancelled
  BY <1>2 DEF RP!ProcTakeCancelled
<1>4. CASE RP!ProcTakePending
  BY <1>2, <1>4 DEF RP!ProcTakePending, RP!taskVars
<1>5. CASE RP!ProcSubmit
  BY <1>2, <1>5 DEF RP!ProcSubmit
<1>6. CASE \E s \in RP!Sample : RP!TaskStep(s)
  <2>1. PICK s \in RP!Sample : RP!TaskStep(s)
    BY <1>6
  <2>2. s \in R!Live
    BY <1>1, <2>1, RolloutAssumed, SameSets, RP!TaskStepShape
  <2>3. ~serverPaused
    BY <2>2
  <2> QED BY <1>2, <2>1, <2>3 DEF RP!TaskStep, RP!TaskStart, RP!ServerInterrupt,
             RP!TaskCancelled, RP!TaskGenerated, RP!TaskReported, RP!TaskFails
<1>7. CASE UNCHANGED <<cancelQueue, task>>
  BY <1>2, <1>7
<1> QED BY <1>1, <1>3, <1>4, <1>5, <1>6, <1>7, RolloutAssumed, RP!WhoMovesSamples

LEMMA CalmStep ==
    ASSUME StaleNum = 0, SystemInv, SystemInv', EndInv, OnePlace, SyncInv, Unfailed,
           RP!Drained, Calm, [Next]_vars
    PROVE  Calm'
<1>1. [RP!Next]_(RP!vars) /\ RP!TypeOK /\ RP!LockHeld /\ control \in RP!Phases
  BY StepOfRollouter, SameNext, SameVars, RolloutTypes DEF SystemInv, Rollout
<1>2. serverPaused => R!Live = {}
  BY StreamIsOver DEF Calm
<1>3. cancelQueue' = <<>> /\ \A s \in R!Sample : task'[s] # "interrupted"
  BY <1>2, NothingCancelled
<1>4. RP!Untriggered' /\ RP!Owned'
  BY <1>1, RolloutAssumed, RP!UntriggeredStep, RP!OwnedStep DEF Calm
<1>5. ASSUME ~closing'
      PROVE  /\ serverPaused' => /\ paused' /\ R!Live' = {}
                                 /\ stage' \notin RP!Submitting /\ control' \in RP!Between
             /\ control' \in RP!Between => monitor' # "recover"
             /\ RP!MonitorFirst'
  <2>0. ~closing
    BY <1>5, ClaimedStep
  <2>1. /\ serverPaused => /\ paused /\ R!Live = {}
                           /\ stage \notin RP!Submitting /\ control \in RP!Between
        /\ control \in RP!Between => monitor # "recover"
        /\ RP!MonitorFirst /\ RP!Owned
    BY <2>0 DEF Calm
  <2>2. \A size : RP!Recovers(size) => control = "idle"
    BY <2>0, RecoversIdle
  <2>3. \A size : RP!MonitorAwaitLock(size) => control = "idle"
    BY <2>2 DEF RP!MonitorAwaitLock
  <2>4. RP!MonitorFirst'
    BY <1>1, <2>1, <2>3, RolloutAssumed, RP!MonitorFirstStep
  <2>5. CASE RP!ControlPause
    <3>1. /\ control = "pause" /\ holder \in {"none", "control"}
          /\ paused' = TRUE /\ control' = "gather"
          /\ UNCHANGED <<task, stage, monitor>>
      BY <2>5 DEF RP!ControlPause, RP!Pausing, RP!Enters, RP!procVars, RP!taskVars
    <3>2. Waiting
      BY <3>1 DEF Waiting, SystemInv, Handshake
    <3>3. R!Live = {} /\ stage \notin RP!Submitting
      BY <2>0, <3>2, WaitingEmpty, WaitingStale
    <3>4. R!Live' = {} /\ stage' \notin RP!Submitting
      BY <3>1, <3>3 DEF R!Live, R!Sample, RP!Submitting
    <3>5. monitor # "recover"
      BY <2>1, <3>1 DEF RP!MonitorFirst
    <3> QED BY <2>4, <3>1, <3>4, <3>5 DEF RP!Between
  <2>6. CASE RP!ControlResume
    BY <2>4, <2>6 DEF RP!ControlResume, RP!Between
  <2>7. CASE /\ serverPaused' = serverPaused
             /\ control' \in RP!Between <=> control \in RP!Between
             /\ \/ paused' \in {paused, TRUE}
                \/ \E size \in 0..MaxRequired : RP!MonitorRecover(size)
             /\ stage' \in RP!Submitting => stage \in RP!Submitting \/ ~paused
    <3>1. ASSUME control \in RP!Between, NEW size, RP!MonitorRecover(size) PROVE FALSE
      <4>1. RP!Recovers(size) \/ monitor = "recover"
        BY <3>1 DEF RP!MonitorRecover
      <4>2. control # "idle"
        BY <3>1 DEF RP!Between
      <4> QED BY <2>1, <2>2, <3>1, <4>1, <4>2
    <3>2. ASSUME serverPaused PROVE paused' /\ R!Live' = {} /\ stage' \notin RP!Submitting
      <4>1. /\ paused /\ R!Live = {} /\ stage \notin RP!Submitting /\ control \in RP!Between
        BY <2>1, <3>2
      <4>2. paused' /\ stage' \notin RP!Submitting
        BY Zenon, <2>7, <3>1, <4>1
      <4>3. stage # "submit"
        BY <4>1 DEF RP!Submitting
      <4> QED BY <4>1, <4>2, <4>3, LiveStays
    <3>3. ASSUME control \in RP!Between PROVE monitor' # "recover"
      <4>1. \A size : ~RP!MonitorAwaitLock(size)
        BY <2>3, <3>3 DEF RP!Between
      <4>2. monitor # "recover"
        BY <2>1, <3>3
      <4> QED BY <1>1, <4>1, <4>2, RolloutAssumed, RP!WhoRecovers
    <3> QED BY <2>1, <2>4, <2>7, <3>2, <3>3
  <2> QED BY Zenon, <1>1, <2>5, <2>6, <2>7, RolloutAssumed, RP!WhoPauses
<1> QED BY <1>3, <1>4, <1>5 DEF Calm, R!Sample

-----------------------------------------------------------------------------
(* What the samples claimed and those under way come to together: only a   *)
(* fetch of a sample adds to it.                                           *)
Pledged == Claimed + (RP!Load + Cardinality(Queued))

LEMMA PledgedStep ==
    ASSUME StaleNum = 0, SystemInv, SystemInv', EndInv, OnePlace, SyncInv, [Next]_vars, ~closing'
    PROVE  /\ ~closing /\ Pledged \in Nat /\ Pledged' \in Nat
           /\ ~RP!ProcTakePending \/ taken' = TotalSamples + 1 => Pledged' <= Pledged
<1>1. PICK l \in Nat, q \in Nat :
         /\ l = RP!Load' /\ q = Cardinality(Queued')
         /\ \/ /\ RP!ProcTakePending /\ l <= RP!Load + 1 /\ q = Cardinality(Queued)
            \/ /\ ~RP!ProcTakePending
               /\ l + q <= RP!Load + Cardinality(Queued)
               /\ TrainerGetsSample /\ ~IsSentinel(Head(queue)) =>
                     l = RP!Load /\ q = Cardinality(Queued) - 1
  BY FlightStep
<1>2. /\ ~closing
      /\ \/ control = "count" /\ control' = "validated" /\ Claimed' = Batched
         \/ TrainerGetsSample /\ ~IsSentinel(Head(queue)) /\ Claimed' = Claimed + 1
         \/ Claimed' = Claimed
  BY ClaimedStep
<1>3. /\ Cardinality(Queued) \in Nat /\ RP!Load \in Nat /\ Batched \in Nat /\ PerVersion \in Nat
      /\ taken \in Nat
  <2>1. Cardinality(Queued) \in Nat /\ Batched \in Nat
    BY QueuedFinite, PassedWithin
  <2>2. RP!Load \in Nat /\ taken \in Nat
    BY RolloutTypes DEF SystemInv
  <2> QED BY <2>1, <2>2, Sizes
<1>4. Claimed \in Nat /\ Batched <= Claimed
  BY <1>3 DEF Claimed
<1>5. PICK c \in Nat : c = Claimed'
  BY <1>2, <1>3, <1>4
<1>6. [RP!Next]_(RP!vars) /\ Rollout /\ Rollout'
  BY StepOfRollouter, SameNext, SameVars, RolloutKept DEF SystemInv
<1> DEFINE Old == Claimed + (RP!Load + Cardinality(Queued))
           New == c + (l + q)
<1>7. ASSUME RP!ProcTakePending, taken' = TotalSamples + 1 PROVE New <= Old
  <2>1. RP!Load' = RP!Load + (IF taken' = RP!DONE THEN 0 ELSE 1)
    <3>1. ~RP!ProcSubmit
      BY <1>7 DEF RP!ProcSubmit, RP!ProcTakePending
    <3> QED BY <1>6, <1>7, <3>1, RolloutAssumed, RP!LoadStep DEF Rollout
  <2>2. l = RP!Load + 0
    BY <1>1, <1>7, <2>1, SameSets
  <2>3. l = RP!Load /\ q = Cardinality(Queued)
    BY <1>1, <1>3, <1>7, <2>2
  <2>4. ~TrainerGetsSample
    <3>1. taken' = taken + 1
      BY <1>7 DEF RP!ProcTakePending
    <3>2. TrainerGetsSample => taken' = taken
      BY DEF TrainerGetsSample, rollVars
    <3> QED BY <1>3, <3>1, <3>2
  <2>5. c <= Claimed
    BY <1>2, <1>3, <1>4, <1>5, <2>4
  <2> QED BY <1>3, <1>4, <2>3, <2>5
<1>8. ASSUME ~RP!ProcTakePending PROVE New <= Old
  <2>1. CASE TrainerGetsSample /\ ~IsSentinel(Head(queue)) /\ Claimed' = Claimed + 1
    <3>1. c = Claimed + 1 /\ l = RP!Load /\ q = Cardinality(Queued) - 1
      BY <1>1, <1>5, <1>8, <2>1
    <3> QED BY <1>3, <1>4, <3>1
  <2>2. CASE Claimed' = Batched \/ Claimed' = Claimed
    <3>1. c <= Claimed /\ l + q <= RP!Load + Cardinality(Queued)
      BY <1>1, <1>3, <1>4, <1>5, <1>8, <2>2
    <3> QED BY <1>3, <1>4, <3>1
  <2> QED BY <1>2, <2>1, <2>2
<1>9. Pledged = Old /\ Pledged' = New /\ Old \in Nat /\ New \in Nat
  BY <1>1, <1>3, <1>4, <1>5 DEF Pledged
<1> HIDE DEF Old, New
<1> QED BY <1>2, <1>7, <1>8, <1>9

(* The last fetch, of the end marker, leaves room for it in the queue.     *)
LastRoom == ~closing /\ taken = TotalSamples + 1 => Pledged < MaxRequired

LEMMA LastRoomStep ==
    ASSUME StaleNum = 0, SystemInv, SystemInv', EndInv, OnePlace, SyncInv, LastRoom, [Next]_vars
    PROVE  LastRoom'
<1> SUFFICES ASSUME ~closing', taken' = TotalSamples + 1 PROVE Pledged' < MaxRequired
  BY DEF LastRoom, MaxRequired, PerVersion
<1>1. ~closing /\ Pledged \in Nat /\ Pledged' \in Nat /\ Pledged' <= Pledged
  BY PledgedStep
<1>2. Pledged < MaxRequired
  <2>1. CASE taken = TotalSamples + 1
    BY <1>1, <2>1 DEF LastRoom
  <2>2. CASE taken # TotalSamples + 1
    <3>1. RP!ProcTakePending
      <4>1. [RP!Next]_(RP!vars)
        BY StepOfRollouter, SameNext, SameVars
      <4>2. taken' # taken
        BY <2>2
      <4>3. ~RP!ProcTakeCancelled /\ ~RP!ProcSubmit
        BY <4>2 DEF RP!ProcTakeCancelled, RP!ProcSubmit, RP!feedVars
      <4>4. \A s \in RP!Sample : ~RP!TaskStep(s)
        BY <4>2, RolloutAssumed, RP!TaskStepShape DEF SystemInv, Rollout
      <4> QED BY <4>1, <4>2, <4>3, <4>4, RolloutAssumed, RP!WhoMovesSamples
    <3>2. stage = "fetch"
      BY <3>1 DEF RP!ProcTakePending
    <3> QED BY <1>1, <3>2 DEF SyncInv, Pledged
  <2> QED BY <2>1, <2>2
<1>3. MaxRequired \in Nat
  BY Sizes
<1> QED BY <1>1, <1>2, <1>3

(* A queue without the marker holds a sample for each of its items.        *)
LEMMA FullQueue ==
    ASSUME SystemInv, OnePlace, Streaming, main = "stream", Len(queue) = MaxRequired
    PROVE  Cardinality(Queued) = MaxRequired
<1>1. 0 \notin Ids(queue)
  BY SameSets DEF Streaming, IsSentinel, Ids
<1>2. Queued = Ids(queue)
  BY <1>1 DEF Queued
<1>3. queue \in Seq(Item) /\ Once(queue)
  BY DEF SystemInv, Kinds, OnePlace
<1>4. Cardinality(Ids(queue)) = Len(queue)
  BY <1>3, CountIds
<1> QED BY <1>2, <1>4

(* So no put finds the queue full.                                         *)
LEMMA NoOverflow ==
    ASSUME StaleNum = 0, SystemInv, EndInv, OnePlace, SyncInv, Unfailed, RP!Drained, LastRoom,
           ~closing, (\E s \in R!Sample : TaskPuts(s)) \/ MainPutsSentinel
    PROVE  Len(queue) # MaxRequired
<1> SUFFICES ASSUME Len(queue) = MaxRequired PROVE FALSE
  OBVIOUS
<1>0. /\ Batched \in Nat /\ PerVersion \in Nat /\ RP!Load \in Nat /\ RP!Busy \in Nat
      /\ MaxRequired \in Nat
  <2>1. Batched \in Nat
    BY PassedWithin
  <2>2. RP!Load \in Nat /\ RP!Busy \in Nat
    BY RolloutTypes DEF SystemInv
  <2> QED BY <2>1, <2>2, Sizes
<1>1. /\ Claimed \in Nat /\ RP!Load \in Nat /\ RP!Busy \in Nat /\ MaxRequired \in Nat
  BY <1>0 DEF Claimed
<1>2. CASE \E s \in R!Sample : TaskPuts(s)
  <2>1. PICK s \in R!Sample : TaskPuts(s)
    BY <1>2
  <2>2. s \in R!Live
    BY <2>1, SameSets DEF TaskPuts, R!TaskReported
  <2>3. main = "stream"
    BY <2>2, StreamIsOver
  <2>4. Cardinality(Queued) = MaxRequired
    BY <2>3, FullQueue DEF EndInv
  <2>5. RP!Load # 0
    <3>1. IsFiniteSet(R!Live) /\ Cardinality(R!Live) \in Nat
      <4>1. R!Live \in SUBSET (1..TotalSamples) /\ IsFiniteSet(1..TotalSamples)
        BY SameSets, FullyAsyncAssumption, FS_Interval
      <4> QED BY Zenon, <4>1, FS_Subset, FS_CardinalityType
    <3>2. Cardinality(R!Live) # 0
      BY <2>2, <3>1, FS_EmptySet
    <3>3. RP!Busy = Cardinality(R!Live) + Len(cancelQueue) /\ Len(cancelQueue) \in Nat
      BY SameSets, SameCardinality, RolloutTypes DEF RP!Busy, SystemInv
    <3>4. RP!Busy # 0
      BY <3>1, <3>2, <3>3
    <3> QED BY <1>1, <3>4 DEF RP!Load
  <2>6. Claimed + (RP!Load + Cardinality(Queued)) <= MaxRequired
    BY DEF SyncInv
  <2> QED BY <1>1, <2>4, <2>5, <2>6
<1>3. CASE MainPutsSentinel
  <2>1. main = "stream" /\ R!Ended
    BY <1>3 DEF MainPutsSentinel, R!MainSentinel, R!StreamOver
  <2>2. Cardinality(Queued) = MaxRequired
    BY <2>1, FullQueue DEF EndInv
  <2>3. taken = TotalSamples + 1
    BY <2>1, StreamIsOver
  <2>4. Claimed + (RP!Load + Cardinality(Queued)) < MaxRequired
    BY <2>3 DEF LastRoom, Pledged
  <2> QED BY <1>1, <2>2, <2>4
<1> QED BY <1>2, <1>3

-----------------------------------------------------------------------------
(* What was fetched is under way, collected or trained on.                 *)
Placed == RP!Rolling \cup Queued \cup Ids(batch) \cup trained

Kept == ~closing => \A s \in R!Sample : s <= taken => s \in Placed

(* A step that fetches nothing and loses nothing.                          *)
LEMMA KeptBy ==
    ASSUME Kept, ~closing, taken' = taken, Placed \subseteq Placed'
    PROVE  Kept'
  BY DEF Kept, R!Sample

LEMMA KeptRolls ==
    ASSUME SystemInv, Unfailed, MaxFailures = 0, Kept, ~closing, [Next]_vars, Rolls
    PROVE  Kept'
<1>1. /\ taken \in Nat /\ failures = 0 /\ UNCHANGED <<queue, batch, trained>>
      /\ R!Sample = 1..TotalSamples /\ TotalSamples \in Nat
  BY RolloutTypes, RollsShape, SameSets, FullyAsyncAssumption
     DEF SystemInv, Unfailed, queueVars, trainVars
<1>2. Queued' = Queued /\ Ids(batch') = Ids(batch)
  BY <1>1 DEF Queued, Ids
<1>3. CASE /\ taken' = taken + 1
           /\ RP!Rolling' = RP!Rolling \cup ({taken'} \ {TotalSamples + 1})
  <2> SUFFICES ASSUME NEW s \in 1..TotalSamples, s <= taken' PROVE s \in Placed'
    BY <1>1 DEF Kept, R!Sample
  <2>1. CASE s = taken'
    BY <1>1, <1>3, <2>1 DEF Placed
  <2>2. CASE s <= taken
    <3>1. s \in Placed
      BY <1>1, <2>2 DEF Kept
    <3> QED BY <1>1, <1>2, <1>3, <3>1 DEF Placed
  <2> QED BY <1>1, <1>3, <2>1, <2>2
<1>4. CASE \E s \in RP!Rolling : /\ task'[s] = "none"
                                 /\ task[s] = "reporting" \/ RP!TaskFails(s)
  <2>1. PICK s \in RP!Rolling : /\ task'[s] = "none"
                                /\ task[s] = "reporting" \/ RP!TaskFails(s)
    BY <1>4
  <2>2. ~RP!TaskFails(s)
    BY <1>1 DEF RP!TaskFails
  <2>3. s \in R!Sample
    BY <1>1, RollingWithin
  <2> QED BY <2>1, <2>2, <2>3, ReportsKept
<1>5. CASE taken' = taken /\ RP!Rolling' = RP!Rolling
  BY <1>1, <1>2, <1>5, KeptBy DEF Placed
<1> QED BY <1>3, <1>4, <1>5, RollingMoves

(* A put moves a sample into a queue that has room for it.                 *)
LEMMA KeptPuts ==
    ASSUME SystemInv, OnePlace, Kept, ~closing, Len(queue) # MaxRequired,
           NEW s \in R!Sample, TaskPuts(s)
    PROVE  Kept'
<1>1. /\ s \in RP!Rolling /\ RP!Rolling' = RP!Rolling \ {s} /\ taken' = taken
      /\ Stamped(s) \in Item /\ Stamped(s).id = s
  BY PutLeaves
<1>2. MQ!PutSample(Stamped(s)) /\ UNCHANGED <<batch, trained>>
  BY DEF TaskPuts, trainVars
<1>3. Once(queue) /\ s \notin Ids(queue) /\ s # 0
  BY <1>1, SameSets, FullyAsyncAssumption DEF OnePlace
<1>4. Ids(queue') = Ids(queue) \cup {s}
  BY <1>1, <1>2, <1>3, PutIds
<1>5. Placed \subseteq Placed'
  <2>1. Queued' = Queued \cup {s} /\ Ids(batch') = Ids(batch)
    BY Zenon, <1>2, <1>3, <1>4 DEF Queued, Ids
  <2> QED BY <1>1, <1>2, <2>1 DEF Placed
<1> QED BY <1>1, <1>5, KeptBy

LEMMA KeptEnds ==
    ASSUME SystemInv, EndInv, OnePlace, Kept, ~closing, Len(queue) # MaxRequired,
           MainPutsSentinel
    PROVE  Kept'
<1>1. Sentinel \in Item /\ Sentinel.id = 0
  BY SameSets, VersionsBounded, FullyAsyncAssumption DEF Sentinel, Item
<1>2. /\ main = "stream" /\ MQ!PutSample(Sentinel) /\ UNCHANGED <<batch, trained>>
      /\ UNCHANGED <<taken, cancelQueue, hand, task>>
  BY DEF MainPutsSentinel, R!MainSentinel, trainVars, R!feedVars, R!procVars, R!taskVars
<1>3. Once(queue) /\ 0 \notin Ids(queue)
  BY <1>2, SameSets DEF OnePlace, EndInv, Streaming, IsSentinel, Ids
<1>4. Ids(queue') = Ids(queue) \cup {0}
  BY <1>1, <1>2, <1>3, PutIds
<1>5. Queued' = Queued /\ Ids(batch') = Ids(batch) /\ RP!Rolling' = RP!Rolling
  BY Zenon, <1>2, <1>4, FlowStays DEF Queued, Ids
<1> QED BY <1>2, <1>5, KeptBy DEF Placed

LEMMA KeptStep ==
    ASSUME StaleNum = 0, MaxFailures = 0, SystemInv, EndInv, OnePlace, SyncInv, Unfailed,
           RP!Drained, LastRoom, Kept, [Next]_vars
    PROVE  Kept'
<1> SUFFICES ASSUME ~closing' PROVE Kept'
  BY DEF Kept
<1>1. ~closing /\ queue \in Seq(Item) /\ batch \in Seq(Item) /\ Once(queue)
  BY ClaimedStep DEF SystemInv, Kinds, OnePlace
<1>2. CASE Rolls
  BY <1>1, <1>2, KeptRolls
<1>3. CASE (\E s \in R!Sample : TaskPuts(s)) \/ MainPutsSentinel
  <2>1. Len(queue) # MaxRequired
    BY <1>1, <1>3, NoOverflow
  <2> QED BY <1>1, <1>3, <2>1, KeptPuts, KeptEnds
<1>4. CASE Beside /\ ~Rolls
  <2>1. queue' = queue /\ batch' = batch
    BY <1>4, BesideShape
  <2>2. trained' = trained /\ UNCHANGED <<taken, cancelQueue, hand, task>>
    <3>1. CASE Control \/ ControlPublishes
      BY <3>1, ControlShape DEF trainVars
    <3>2. CASE \/ TrainerAwaitsSample \/ TrainerLogs \/ SyncUpdatesQueue \/ TrainerCloses
               \/ RunnerClears \/ UNCHANGED vars
      BY <3>2 DEF TrainerAwaitsSample, TrainerLogs, SyncUpdatesQueue, TrainerCloses,
         RunnerClears, T!Log, T!Close, T!CloseAfterSync, trainVars, rollVars, vars
    <3>3. CASE SyncPauses \/ SyncTransfers
      BY <3>3 DEF SyncPauses, SyncTransfers, T!StartSync, T!SyncReturned, R!PauseCalled,
         R!UpdateCalled, R!Call, R!feedVars, R!procVars, R!taskVars
    <3> QED BY <1>4, <3>1, <3>2, <3>3 DEF Beside
  <2>3. Placed' = Placed
    BY <2>1, <2>2, FlowStays DEF Placed, Queued, Ids
  <2> QED BY <1>1, <2>2, <2>3, KeptBy
<1>5. CASE TrainerGetsSample
  <2>1. /\ ~IsSentinel(Head(queue)) /\ queue # <<>> /\ queue' = Tail(queue)
        /\ Head(queue) \in Item /\ batch' = Append(batch, Head(queue))
    BY <1>5, PassedGets
  <2>2. trained' = trained /\ UNCHANGED <<taken, cancelQueue, hand, task>>
    BY <1>5 DEF TrainerGetsSample, T!Collect, rollVars
  <2>3. Ids(queue') = Ids(queue) \ {Head(queue).id}
    BY <1>1, <2>1, TailOnce
  <2>4. Ids(batch') = Ids(batch) \cup {Head(queue).id}
    BY <1>1, <2>1, AppendOnce
  <2>5. Placed \subseteq Placed'
    BY <2>2, <2>3, <2>4, FlowStays DEF Placed, Queued
  <2> QED BY <1>1, <2>2, <2>5, KeptBy
<1>6. CASE TrainerTrains
  <2>1. /\ trained' = trained \cup Ids(batch) /\ queue' = queue
        /\ UNCHANGED <<taken, cancelQueue, hand, task>>
    BY <1>6 DEF TrainerTrains, T!Train, queueVars, rollVars, Ids
  <2>2. Placed \subseteq Placed'
    BY <2>1, FlowStays DEF Placed, Queued, Ids
  <2> QED BY <1>1, <2>1, <2>2, KeptBy
<1> QED BY <1>2, <1>3, <1>4, <1>5, <1>6, StepCases DEF Beside

(* The end marker drops what was collected: less than a batch, and nothing *)
(* else is left.                                                           *)
AtClose == closing => Cardinality(R!Sample \ trained) < Required

(* Only the trainer trains, and only the end marker closes its loop.       *)
LEMMA TrainedStays ==
    ASSUME [Next]_vars, phase # "train"
    PROVE  trained' = trained
<1>1. CASE Rolls \/ UNCHANGED vars
  BY <1>1, RollsShape DEF trainVars, vars
<1>2. CASE Control \/ ControlPublishes
  BY <1>2, ControlShape DEF trainVars
<1>3. CASE \/ (\E s \in R!Sample : TaskPuts(s)) \/ MainPutsSentinel \/ TrainerAwaitsSample
           \/ TrainerGetsSample \/ TrainerTrains \/ TrainerLogs
  BY <1>3 DEF TaskPuts, MainPutsSentinel, TrainerAwaitsSample, TrainerGetsSample, TrainerTrains,
     TrainerLogs, T!Collect, T!Train, T!Log, trainVars
<1>4. CASE \/ SyncPauses \/ SyncUpdatesQueue \/ SyncTransfers \/ TrainerCloses \/ RunnerClears
  BY <1>4 DEF SyncPauses, SyncUpdatesQueue, SyncTransfers, TrainerCloses, RunnerClears,
     T!StartSync, T!SyncReturned, T!Close, T!CloseAfterSync, trainVars
<1> QED BY <1>1, <1>2, <1>3, <1>4, StepCases

LEMMA WhoCloses ==
    ASSUME [Next]_vars, ~closing, closing'
    PROVE  TrainerGetsSample
<1>1. CASE Rolls \/ UNCHANGED vars
  BY Zenon, <1>1, RollsShape DEF trainVars, vars
<1>2. CASE Control \/ ControlPublishes
  BY Zenon, <1>2, ControlShape DEF trainVars
<1>3. CASE \/ (\E s \in R!Sample : TaskPuts(s)) \/ MainPutsSentinel \/ TrainerAwaitsSample
           \/ TrainerTrains \/ TrainerLogs
  BY Zenon, <1>3 DEF TaskPuts, MainPutsSentinel, TrainerAwaitsSample, TrainerTrains,
     TrainerLogs, T!Train, T!Log, trainVars
<1>4. CASE \/ SyncPauses \/ SyncUpdatesQueue \/ SyncTransfers \/ TrainerCloses \/ RunnerClears
  BY Zenon, <1>4 DEF SyncPauses, SyncUpdatesQueue, SyncTransfers, TrainerCloses, RunnerClears,
     T!StartSync, T!SyncReturned, T!Close, T!CloseAfterSync, trainVars
<1> QED BY <1>1, <1>2, <1>3, <1>4, StepCases

LEMMA AtCloseStep ==
    ASSUME SystemInv, EndInv, Unfailed, RP!Drained, Calm, Kept, AtClose, [Next]_vars
    PROVE  AtClose'
<1> SUFFICES ASSUME closing' PROVE Cardinality(R!Sample \ trained') < Required
  BY DEF AtClose, R!Sample
<1>1. CASE closing
  <2>1. phase \in {"close", "await", "sync", "last", "end"}
    BY <1>1 DEF SystemInv, Training
  <2>2. trained' = trained
    BY <2>1, TrainedStays
  <2> QED BY <1>1, <2>2 DEF AtClose
<1>2. CASE ~closing
  <2>1. TrainerGetsSample
    BY <1>2, WhoCloses
  <2>2. /\ queue # <<>> /\ IsSentinel(Head(queue)) /\ phase = "collect" /\ trained' = trained
    BY <2>1 DEF TrainerGetsSample, MQ!GetSample, T!Collect
  <2>3. queue \in Seq(Item) /\ batch \in Seq(Item) /\ Len(batch) < Required /\ Len(batch) \in Nat
    BY <2>2 DEF SystemInv, Kinds, Training
  <2>4. /\ Len(queue) \in Nat \ {0} /\ Head(queue) = queue[1]
    BY <2>2, <2>3
  <2>5. main # "stream"
    BY <2>2, <2>4 DEF EndInv, Streaming
  <2>6. stage = "done" /\ R!Live = {} /\ hand = 0 /\ taken = TotalSamples + 1
    BY <2>5, StreamIsOver
  <2>7. RP!Rolling = {}
    BY <2>6, SameSets DEF Calm, RP!Rolling
  <2>8. Queued = {}
    <3>1. Len(queue) = 1
      <4>1. \A i \in 1..(Len(queue) - 1) : ~IsSentinel(queue[i])
        BY <2>5, <2>6 DEF EndInv, EndOfStream
      <4>2. Len(queue) # 1 => 1 \in 1..(Len(queue) - 1)
        <5>1. PICK n \in Nat \ {0} : n = Len(queue)
          BY <2>4
        <5>2. n # 1 => 1 \in 1..(n - 1)
          OBVIOUS
        <5> QED BY <5>1, <5>2
      <4>3. IsSentinel(queue[1])
        BY <2>2, <2>4
      <4> QED BY <4>1, <4>2, <4>3, Zenon
    <3>2. Ids(queue) = {queue[1].id}
      BY <3>1 DEF Ids
    <3> QED BY <2>2, <2>4, <3>2, SameSets DEF Queued, IsSentinel
  <2>9. R!Sample \ trained \in SUBSET Ids(batch)
    <3>1. \A s \in R!Sample : s <= taken
      BY <2>6, SameSets, FullyAsyncAssumption
    <3> QED BY <1>2, <2>7, <2>8, <3>1 DEF Kept, Placed
  <2>10. /\ Cardinality(R!Sample \ trained) \in Nat
         /\ Cardinality(R!Sample \ trained) <= Len(batch)
    <3>1. /\ IsFiniteSet(Ids(batch)) /\ Cardinality(Ids(batch)) \in Nat
          /\ Cardinality(Ids(batch)) <= Len(batch)
      BY <2>3, CountIds
    <3>2. /\ IsFiniteSet(R!Sample \ trained)
          /\ Cardinality(R!Sample \ trained) <= Cardinality(Ids(batch))
      BY <2>9, <3>1, FS_Subset
    <3> QED BY <2>3, <3>1, <3>2, FS_CardinalityType
  <2> QED BY <2>2, <2>3, <2>10, FullyAsyncAssumption
<1> QED BY <1>1, <1>2


LEMMA LossAtStart == Init => Unfailed /\ RP!Drained /\ Calm /\ LastRoom /\ Kept /\ AtClose
<1> SUFFICES ASSUME Init PROVE Unfailed /\ RP!Drained /\ Calm /\ LastRoom /\ Kept /\ AtClose
  OBVIOUS
<1>1. MQ!InitWith(<<0>>) /\ R!Init /\ T!Init
  BY DEF Init
<1>2. Unfailed
  BY <1>1, FirstAtStart DEF Unfailed, R!Init
<1>3. /\ taken = 0 /\ stage = "check" /\ cancelQueue = <<>> /\ control = "idle"
      /\ monitor # "recover" /\ ~serverPaused /\ waiters = <<>> /\ holder = "none"
      /\ \A s \in R!Sample : task[s] = "none"
  BY <1>1 DEF R!Init
<1>4. ~closing
  BY <1>1 DEF T!Init
<1>5. RP!Drained /\ AtClose
  BY <1>3, <1>4 DEF RP!Drained, AtClose
<1>6. RP!Owned
  <2>1. ~RP!Queued("control")
    BY <1>3 DEF RP!Queued
  <2> QED BY <1>3, <2>1 DEF RP!Owned
<1>7. Calm
  BY <1>3, <1>4, <1>6 DEF Calm, RP!Untriggered, RP!Between, RP!MonitorFirst
<1>8. LastRoom
  BY <1>3, FullyAsyncAssumption DEF LastRoom
<1>9. Kept
  <2>1. \A s \in R!Sample : ~(s <= 0)
    BY SameSets, FullyAsyncAssumption
  <2> QED BY <1>3, <2>1 DEF Kept
<1> QED BY <1>2, <1>5, <1>7, <1>8, <1>9

LEMMA LossHolds ==
    ASSUME StaleNum = 0, MaxFailures = 0, NeverStarved
    PROVE  Spec => [](SystemInv /\ Calm /\ AtClose)
<1>1. SystemInv /\ Unfailed /\ [Next]_vars => Unfailed'
  BY UnfailedStep
<1>2. SystemInv /\ RP!Drained /\ [Next]_vars => RP!Drained'
  <2> SUFFICES ASSUME SystemInv, RP!Drained, [Next]_vars PROVE RP!Drained'
    OBVIOUS
  <2>1. [RP!Next]_(RP!vars)
    BY StepOfRollouter, SameNext, SameVars
  <2> QED BY <2>1, RolloutAssumed, RP!DrainedStep
<1>3. SystemInv /\ SystemInv' /\ EndInv /\ OnePlace /\ SyncInv /\ Unfailed /\ RP!Drained
        /\ Calm /\ [Next]_vars => Calm'
  BY CalmStep
<1>4. SystemInv /\ SystemInv' /\ EndInv /\ OnePlace /\ SyncInv /\ LastRoom
        /\ [Next]_vars => LastRoom'
  BY LastRoomStep
<1>5. SystemInv /\ EndInv /\ OnePlace /\ SyncInv /\ Unfailed /\ RP!Drained /\ LastRoom
        /\ Kept /\ [Next]_vars => Kept'
  BY KeptStep
<1>6. SystemInv /\ EndInv /\ Unfailed /\ RP!Drained /\ Calm /\ Kept /\ AtClose
        /\ [Next]_vars => AtClose'
  BY AtCloseStep
<1> QED BY <1>1, <1>2, <1>3, <1>4, <1>5, <1>6, LossAtStart, SyncHolds, OnePlaceHolds, PTL
        DEF Spec

(* In synchronous training with generations that succeed nothing is lost:  *)
(* of a run that ends, fewer than one batch was not trained on, with       *)
(* partial rollout or without.  The queue never overflows, no sample is    *)
(* left with the processor when it ends, and none is cancelled behind it.  *)
THEOREM NothingLostInSync ==
    ASSUME StaleNum = 0, MaxFailures = 0, NeverStarved
    PROVE  Spec => []NothingLost
<1>1. SystemInv /\ AtClose => NothingLost
  BY DEF SystemInv, Training, AtClose, NothingLost
<1> QED BY <1>1, LossHolds, PTL

(* README.md of fully_async_policy, on async_training.partial_rollout: it  *)
(* "only actually takes effect when staleness_threshold>0".  In            *)
(* synchronous training no generation is ever interrupted.                 *)
NeverInterrupts == cancelQueue = <<>> /\ \A s \in R!Sample : task[s] # "interrupted"

THEOREM PartialRolloutIdle ==
    ASSUME StaleNum = 0, MaxFailures = 0, NeverStarved
    PROVE  Spec => []NeverInterrupts
<1>1. Calm => NeverInterrupts
  BY DEF Calm, NeverInterrupts
<1> QED BY <1>1, LossHolds, PTL

=============================================================================
