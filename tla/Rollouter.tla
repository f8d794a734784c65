----------------------------- MODULE Rollouter -----------------------------
(***************************************************************************)
(* The FullyAsyncRollouter actor of fully_async_rollouter.py: one event    *)
(* loop that runs the feeder, the processor, the tasks the processor       *)
(* creates, the monitor, the main coroutine, and the pause /               *)
(* update_param_version / resume calls of a parameter synchronization (the *)
(* "control" coroutine; they run one after the other).  They share one     *)
(* asyncio.Lock and its Condition.                                         *)
(*                                                                         *)
(* An asyncio coroutine runs until it awaits something that is not ready,  *)
(* so each action is what a coroutine does from one such point to the      *)
(* next.  Only the processor takes several actions in a row (the message   *)
(* queue, another actor, moves between them); while it runs, no other      *)
(* coroutine of the loop does (Yielded).                                   *)
(*                                                                         *)
(* The servers that generate are reached through RPCs: they complete,      *)
(* interrupt or fail a generation at any time.                             *)
(***************************************************************************)
EXTENDS Naturals, Sequences, FiniteSets

CONSTANTS TotalSamples,    \* total_rollout_steps
          PendingCapacity, \* pending_queue's maxsize, 128 in the code
          MaxRequired,     \* max_required_samples, and max_queue_size
          MaxConcurrent,   \* max_concurrent_samples
          PartialRollout,  \* async_training.partial_rollout
          MaxFailures,     \* bound: generations that raise
          MaxVersion       \* bound: parameter synchronizations

ASSUME RolloutAssumption ==
    /\ TotalSamples \in Nat \ {0}
    /\ PendingCapacity \in Nat \ {0}
    /\ MaxRequired \in Nat \ {0}
    /\ MaxConcurrent \in 1..MaxRequired
    /\ PartialRollout \in BOOLEAN
    /\ MaxFailures \in Nat
    /\ MaxVersion \in Nat

Sample == 1..TotalSamples
DONE == TotalSamples + 1
NoSample == 0

VARIABLES
    fed,           \* items put in pending_queue: the samples, then DONE
    taken,         \* items got from it; it holds taken+1 .. fed
    cancelQueue,   \* cancel_queue
    stage,         \* where _processor_worker is
    blocked,       \* what it awaits there
    hand,          \* rollout_sample, between its queue and its task
    doneBound,     \* done_tasks has been assigned
    task,          \* the live task of each sample, by what it awaits
    stamp,         \* param_version written to a generated sample
    reapable,      \* tasks that returned and are still in active_tasks
    failed,        \* tasks that raised and are still in active_tasks
    failures,      \* generations that raised so far
    holder,        \* the coroutine that holds self.lock
    waiters,       \* those queued for it, first come first served
    paused,        \* self.paused
    staleness,     \* staleness_samples
    trigger,       \* monitor_loop_trigger
    running,       \* self.running
    rollVersion,   \* current_param_version
    control,       \* where the pause/update/resume calls are
    counted,       \* tasks and cancelled samples counted by update_param_version
    monitor,       \* where _async_monitor_loop is
    main,          \* where _streaming_generation_main is
    serverPaused   \* the generation servers' paused flag

feedVars == <<fed, taken>>
procVars == <<stage, blocked, hand, doneBound>>
taskVars == <<task, stamp, reapable, failed, failures>>
lockVars == <<holder, waiters>>
flagVars == <<paused, trigger, running, serverPaused>>
ctlVars  == <<control, counted, rollVersion>>
vars == <<feedVars, cancelQueue, procVars, taskVars, lockVars, flagVars,
          staleness, ctlVars, monitor, main>>

Coroutine == {"processor", "monitor", "control", "main"}
Reaping == {"drain", "limit", "finish"}
Stage == {"check", "setPaused", "hold", "fetch", "submit", "done", "crashed"} \cup Reaping
Blocked == {"no", "lock", "tasks", "condition", "notified", "pending"}
TaskState == {"none", "created", "generating", "interrupted", "reporting"}

Smaller(a, b) == IF a < b THEN a ELSE b

(* fit() has created the coroutines, the feeder has filled pending_queue,  *)
(* the monitor sleeps, and the processor is about to run.  The initial     *)
(* synchronization is over.                                                *)
Init ==
    /\ fed = Smaller(DONE, PendingCapacity) /\ taken = 0
    /\ cancelQueue = <<>>
    /\ stage = "check" /\ blocked = "no" /\ hand = NoSample /\ doneBound = FALSE
    /\ task = [s \in Sample |-> "none"] /\ stamp = [s \in Sample |-> 0]
    /\ reapable = 0 /\ failed = 0 /\ failures = 0
    /\ holder = "none" /\ waiters = <<>>
    /\ paused = FALSE /\ trigger = TRUE /\ running = TRUE /\ serverPaused = FALSE
    /\ staleness = 0
    /\ control = "idle" /\ counted = 0 /\ rollVersion = 0
    /\ monitor = "sleep"
    /\ main = "stream"

Live == {s \in Sample : task[s] # "none"}
ActiveCount == Cardinality(Live) + reapable + failed     \* len(self.active_tasks)

(* Mutant: > for >=. *)
ShouldPauseLate(queueSize) == queueSize > MaxRequired \/ staleness > MaxRequired

ShouldPause(queueSize) == queueSize >= MaxRequired \/ staleness >= MaxRequired

Ended == stage \in {"done", "crashed"}
Yielded == blocked # "no" \/ Ended

-----------------------------------------------------------------------------
(* asyncio.Lock: a release hands the lock to the first waiter.             *)

Queued(c) == \E i \in 1..Len(waiters) : waiters[i] = c

(* c enters its critical section: the lock is free, or was handed to it. *)
Enters(c) == holder \in {"none", c}

Release ==
    /\ holder' = IF waiters = <<>> THEN "none" ELSE Head(waiters)
    /\ waiters' = IF waiters = <<>> THEN <<>> ELSE Tail(waiters)

Keep(c) == holder' = c /\ UNCHANGED waiters

Enqueue(c) ==
    /\ ~Enters(c) /\ ~Queued(c)
    /\ waiters' = Append(waiters, c)
    /\ UNCHANGED holder

(* Mutant: nobody is notified. *)
NotifyNobody == UNCHANGED blocked

(* self.condition.notify_all(); the processor is the only one to wait.  *)
Notify == blocked' = IF blocked = "condition" THEN "notified" ELSE blocked

-----------------------------------------------------------------------------
(* _feed_samples.                                                          *)

(* The feeder goes on until pending_queue is full again. *)
Feed ==
    /\ Yielded
    /\ fed' = Smaller(DONE, taken + PendingCapacity)
    /\ fed' # fed
    /\ UNCHANGED <<taken, cancelQueue, procVars, taskVars, lockVars, flagVars,
                   staleness, ctlVars, monitor, main>>

-----------------------------------------------------------------------------
(* _processor_worker.                                                      *)

procOnly == <<feedVars, cancelQueue, taskVars, flagVars, staleness, ctlVars,
              monitor, main>>

ProcCheck(queueSize) ==
    /\ stage = "check" /\ blocked = "no"
    /\ stage' = IF paused \/ ShouldPause(queueSize) THEN "setPaused" ELSE "fetch"
    /\ UNCHANGED <<blocked, hand, doneBound, lockVars, procOnly>>

(* Mutants: the limit is off by one; the end does not wait for the tasks. *)
LoopGoesOnLate ==
    \/ stage \in {"drain", "finish"} /\ ActiveCount > 0
    \/ stage = "limit" /\ ActiveCount > MaxConcurrent

LoopGoesOnUnlessDone ==
    \/ stage = "drain" /\ ActiveCount > 0
    \/ stage = "limit" /\ ActiveCount >= MaxConcurrent

(* The loops that reap: what keeps each going, and what follows it. *)
LoopGoesOn ==
    \/ stage \in {"drain", "finish"} /\ ActiveCount > 0
    \/ stage = "limit" /\ ActiveCount >= MaxConcurrent

NextStage == [drain |-> "hold", limit |-> "submit", finish |-> "done"]

ProcLeaveLoop ==
    /\ stage \in Reaping /\ blocked = "no"
    /\ ~LoopGoesOn
    /\ stage' = NextStage[stage]
    /\ UNCHANGED <<blocked, hand, doneBound, lockVars, procOnly>>

NeedsLock == LoopGoesOn \/ stage \in {"setPaused", "hold", "submit"}

(* The lock is taken: queue for it. *)
ProcAwaitLock ==
    /\ blocked \in {"no", "notified"} /\ NeedsLock
    /\ Enqueue("processor")
    /\ blocked' = "lock"
    /\ UNCHANGED <<stage, hand, doneBound, procOnly>>

ProcEnters ==
    \/ blocked \in {"no", "notified"} /\ NeedsLock /\ holder = "none"
    \/ blocked = "lock" /\ holder = "processor"

ProcSetPaused ==
    /\ stage = "setPaused" /\ ProcEnters
    /\ paused' = TRUE
    /\ stage' = "drain"
    /\ blocked' = "no"
    /\ Release
    /\ UNCHANGED <<hand, doneBound, feedVars, cancelQueue, taskVars, trigger,
                   running, serverPaused, staleness, ctlVars, monitor, main>>

(* asyncio.wait(active_tasks, FIRST_COMPLETED), with the lock held. *)
ProcAwaitTasks ==
    /\ stage \in Reaping /\ ProcEnters
    /\ ActiveCount > 0
    /\ blocked' = "tasks"
    /\ Keep("processor")
    /\ UNCHANGED <<stage, hand, doneBound, procOnly>>

(* While the processor queued for the lock, pause() cleared active_tasks.  *)
(* It goes over done_tasks, which the first such time has no value: an     *)
(* UnboundLocalError ends the processor.                                   *)
ProcNothingToReap ==
    /\ stage \in Reaping /\ ProcEnters
    /\ ActiveCount = 0
    /\ stage' = IF doneBound THEN stage ELSE "crashed"
    /\ blocked' = "no"
    /\ Release
    /\ UNCHANGED <<hand, doneBound, procOnly>>

(* Mutant: the loop reads done_tasks, the wait assigns another name. *)
BindNothing == UNCHANGED doneBound

BindDone == doneBound' = TRUE

(* The wait returns every task that has ended; awaiting one that raised    *)
(* raises in the processor.                                                *)
ProcReap ==
    /\ blocked = "tasks"
    /\ reapable + failed > 0
    /\ reapable' = 0 /\ failed' = 0
    /\ BindDone
    /\ stage' = IF failed > 0 THEN "crashed" ELSE stage
    /\ blocked' = "no"
    /\ Release
    /\ UNCHANGED <<hand, task, stamp, failures, feedVars, cancelQueue, flagVars,
                   staleness, ctlVars, monitor, main>>

(* while self.paused: await self.condition.wait(), which releases the lock. *)
ProcAwaitCondition ==
    /\ stage \in {"hold", "submit"} /\ ProcEnters
    /\ paused
    /\ blocked' = "condition"
    /\ Release
    /\ UNCHANGED <<stage, hand, doneBound, procOnly>>

ProcResumed ==
    /\ stage = "hold" /\ ProcEnters
    /\ ~paused
    /\ stage' = "check"
    /\ blocked' = "no"
    /\ Release
    /\ UNCHANGED <<hand, doneBound, procOnly>>

(* Mutant: the sample taken stays in cancel_queue. *)
PeekCancelled == hand' = Head(cancelQueue) /\ UNCHANGED cancelQueue

GetCancelled == hand' = Head(cancelQueue) /\ cancelQueue' = Tail(cancelQueue)

(* An interrupted sample goes first, and was counted before. *)
ProcTakeCancelled ==
    /\ stage = "fetch" /\ blocked = "no"
    /\ cancelQueue # <<>>
    /\ GetCancelled
    /\ stage' = "limit"
    /\ UNCHANGED <<blocked, doneBound, feedVars, taskVars, lockVars, flagVars,
                   staleness, ctlVars, monitor, main>>

ProcAwaitPending ==
    /\ stage = "fetch" /\ blocked = "no"
    /\ cancelQueue = <<>> /\ fed = taken
    /\ blocked' = "pending"
    /\ UNCHANGED <<stage, hand, doneBound, lockVars, procOnly>>

(* Mutant: DONE is taken for a sample. *)
IsDoneNever(item) == item > DONE

IsDone(item) == item = DONE

(* The DONE marker counts as a stale sample too. *)
ProcTakePending ==
    /\ stage = "fetch" /\ fed > taken
    /\ \/ blocked = "pending"
       \/ blocked = "no" /\ cancelQueue = <<>>
    /\ taken' = taken + 1
    /\ staleness' = staleness + 1
    /\ blocked' = "no"
    /\ hand' = IF IsDone(taken') THEN NoSample ELSE taken'
    /\ stage' = IF IsDone(taken') THEN "finish" ELSE "limit"
    /\ UNCHANGED <<fed, doneBound, cancelQueue, taskVars, lockVars, flagVars,
                   ctlVars, monitor, main>>

ProcSubmit ==
    /\ stage = "submit" /\ ProcEnters
    /\ ~paused
    /\ task' = [task EXCEPT ![hand] = "created"]
    /\ hand' = NoSample
    /\ stage' = "check"
    /\ blocked' = "no"
    /\ Release
    /\ UNCHANGED <<stamp, reapable, failed, failures, doneBound, feedVars,
                   cancelQueue, flagVars, staleness, ctlVars, monitor, main>>

-----------------------------------------------------------------------------
(* _process_single_sample_streaming, one per sample in flight.             *)

taskOnly == <<feedVars, procVars, lockVars, flagVars, staleness, ctlVars,
              monitor, main>>

(* The request reaches the servers: paused ones return it at once. *)
TaskStart(s) ==
    /\ Yielded
    /\ task[s] = "created"
    /\ task' = [task EXCEPT ![s] = IF serverPaused THEN "interrupted" ELSE "generating"]
    /\ UNCHANGED <<stamp, reapable, failed, failures, cancelQueue, taskOnly>>

(* cancel() stops what the servers are generating. *)
ServerInterrupt(s) ==
    /\ serverPaused
    /\ task[s] = "generating"
    /\ task' = [task EXCEPT ![s] = "interrupted"]
    /\ UNCHANGED <<stamp, reapable, failed, failures, cancelQueue, taskOnly>>

(* Mutant: an interrupted sample is not put back. *)
PutBackNothing(s) == UNCHANGED cancelQueue

PutBack(s) == cancelQueue' = Append(cancelQueue, s)

TaskCancelled(s) ==
    /\ Yielded
    /\ task[s] = "interrupted"
    /\ PutBack(s)
    /\ task' = [task EXCEPT ![s] = "none"]
    /\ reapable' = reapable + 1
    /\ UNCHANGED <<stamp, failed, failures, taskOnly>>

(* The generation is complete: stamp the sample, call put_sample. *)
TaskGenerated(s) ==
    /\ Yielded
    /\ task[s] = "generating"
    /\ task' = [task EXCEPT ![s] = "reporting"]
    /\ stamp' = [stamp EXCEPT ![s] = rollVersion]
    /\ UNCHANGED <<reapable, failed, failures, cancelQueue, taskOnly>>

(* put_sample has returned, and so does the task. *)
TaskReported(s) ==
    /\ task[s] = "reporting"
    /\ task' = [task EXCEPT ![s] = "none"]
    /\ stamp' = [stamp EXCEPT ![s] = 0]
    /\ reapable' = reapable + 1
    /\ UNCHANGED <<failed, failures, cancelQueue, taskOnly>>

(* The generation raises, in an agent loop, a tool, a reward or a server. *)
TaskFails(s) ==
    /\ failures < MaxFailures
    /\ task[s] = "generating"
    /\ task' = [task EXCEPT ![s] = "none"]
    /\ failed' = failed + 1
    /\ failures' = failures + 1
    /\ UNCHANGED <<stamp, reapable, cancelQueue, taskOnly>>

-----------------------------------------------------------------------------
(* pause(), update_param_version(), resume().                              *)

Pausing == control = "pause"
Updating == control = "update"
Resuming == control = "resume"

(* The calls arrive: pause() alone, then update_param_version() and the    *)
(* resume() that depends on its result.                                    *)
Call(from, method) ==
    /\ control = from
    /\ control' = method
    /\ UNCHANGED <<feedVars, cancelQueue, procVars, taskVars, lockVars, flagVars,
                   staleness, counted, rollVersion, monitor, main>>

PauseCalled == Call("idle", "pause")
UpdateCalled == Call("paused", "update")

(* Mutant: pause() gathers after it has left the lock. *)
GatherUnlocked == Release

GatherLocked == Keep("control")

(* pause() has the lock; with partial rollout it cancels every generation. *)
ControlPause ==
    /\ Yielded /\ Pausing /\ Enters("control")
    /\ paused' = TRUE
    /\ serverPaused' = PartialRollout
    /\ control' = "gather"
    /\ GatherLocked
    /\ UNCHANGED <<feedVars, cancelQueue, procVars, taskVars, trigger, running,
                   staleness, counted, rollVersion, monitor, main>>

(* Every active task has ended: gather(return_exceptions=True) swallows    *)
(* what they raised.                                                       *)
ControlGathered ==
    /\ Yielded /\ control = "gather"
    /\ Live = {}
    /\ reapable' = 0 /\ failed' = 0
    /\ trigger' = FALSE
    /\ control' = "paused"
    /\ Release
    /\ UNCHANGED <<feedVars, cancelQueue, procVars, task, stamp, failures, paused,
                   running, serverPaused, staleness, counted, rollVersion, monitor, main>>

(* Mutant: cancel_queue is not counted. *)
NotQueuedActiveOnly == ActiveCount

NotQueued == ActiveCount + Len(cancelQueue)

(* update_param_version() counts the tasks and the cancelled samples, then *)
(* awaits the message queue for its size, the lock held.                   *)
ControlUpdate(version) ==
    /\ Yielded /\ Updating /\ Enters("control")
    /\ rollVersion' = version
    /\ counted' = NotQueued
    /\ control' = "count"
    /\ Keep("control")
    /\ UNCHANGED <<feedVars, cancelQueue, procVars, taskVars, flagVars, staleness,
                   monitor, main>>

(* Mutants: the queue is not counted; the count is not written. *)
StaleTasksOnly(queueSize) == counted
StaleUnchanged(queueSize) == staleness

Stale(queueSize) == counted + queueSize

ControlReset(queueSize) ==
    /\ Yielded /\ control = "count"
    /\ staleness' = Stale(queueSize)
    /\ counted' = 0
    /\ control' = "validated"
    /\ UNCHANGED <<feedVars, cancelQueue, procVars, taskVars, lockVars, flagVars,
                   rollVersion, monitor, main>>

(* put_validate has returned. *)
ControlPublished ==
    /\ Yielded /\ control = "validated"
    /\ control' = "resume"
    /\ Release
    /\ UNCHANGED <<feedVars, cancelQueue, procVars, taskVars, flagVars, staleness,
                   counted, rollVersion, monitor, main>>

ControlResume ==
    /\ Yielded /\ Resuming /\ Enters("control")
    /\ serverPaused' = FALSE
    /\ paused' = FALSE
    /\ trigger' = TRUE
    /\ control' = "idle"
    /\ Notify
    /\ Release
    /\ UNCHANGED <<feedVars, cancelQueue, stage, hand, doneBound, taskVars, running,
                   staleness, counted, rollVersion, monitor, main>>

-----------------------------------------------------------------------------
(* _async_monitor_loop.                                                    *)

monitorOnly == <<feedVars, cancelQueue, stage, hand, doneBound, taskVars, trigger,
                 running, serverPaused, staleness, ctlVars, main>>

MonitorCheckRunning ==
    /\ Yielded /\ monitor = "top" /\ Enters("monitor")
    /\ monitor' = IF running THEN "sleep" ELSE "end"
    /\ Release
    /\ UNCHANGED <<paused, blocked, monitorOnly>>

(* It wakes and decides to recover the rollout, or not, and only then      *)
(* asks for the lock.                                                      *)
Recovers(queueSize) == trigger /\ ~ShouldPause(queueSize)

MonitorSkip(queueSize) ==
    /\ Yielded /\ monitor = "sleep"
    /\ ~Recovers(queueSize)
    /\ monitor' = "top"
    /\ UNCHANGED <<paused, blocked, lockVars, monitorOnly>>

MonitorAwaitLock(queueSize) ==
    /\ Yielded /\ monitor = "sleep"
    /\ Recovers(queueSize)
    /\ Enqueue("monitor")
    /\ monitor' = "recover"
    /\ UNCHANGED <<paused, blocked, monitorOnly>>

MonitorRecover(queueSize) ==
    /\ Yielded
    /\ \/ monitor = "sleep" /\ Recovers(queueSize) /\ holder = "none"
       \/ monitor = "recover" /\ holder = "monitor"
    /\ paused' = FALSE
    /\ monitor' = "top"
    /\ Notify
    /\ Release
    /\ UNCHANGED monitorOnly

-----------------------------------------------------------------------------
(* _streaming_generation_main, from the end of the processor.              *)

(* Mutants: the marker follows the feeder; it follows only a processor     *)
(* that has not raised.                                                    *)
StreamFed == fed = DONE /\ Yielded
StreamDone == stage = "done"

StreamOver == Ended

MainSentinel ==
    /\ main = "stream" /\ StreamOver
    /\ main' = "stop"
    /\ UNCHANGED <<feedVars, cancelQueue, procVars, taskVars, lockVars, flagVars,
                   staleness, ctlVars, monitor>>

MainStop ==
    /\ main = "stop" /\ Enters("main")
    /\ running' = FALSE
    /\ main' = "end"
    /\ Release
    /\ UNCHANGED <<feedVars, cancelQueue, procVars, taskVars, paused, trigger,
                   serverPaused, staleness, ctlVars, monitor>>

(* The coroutines that reach an `async with self.lock` find it taken. *)
AwaitLock(c) ==
    /\ Yielded
    /\ \/ c = "monitor" /\ monitor = "top"
       \/ c = "control" /\ (Pausing \/ Updating \/ Resuming)
       \/ c = "main" /\ main = "stop"
    /\ Enqueue(c)
    /\ UNCHANGED <<feedVars, cancelQueue, procVars, taskVars, flagVars, staleness,
                   ctlVars, monitor, main>>

Finished == main = "end" /\ monitor = "end"

-----------------------------------------------------------------------------
(* The rollouter among any queue and any trainer: the queue reports any    *)
(* size it can have, and a synchronization may come at any time, the next  *)
(* when the last one is over.                                              *)

ProcessorStep ==
    \/ \E size \in 0..MaxRequired : ProcCheck(size)
    \/ ProcLeaveLoop
    \/ ProcAwaitLock
    \/ ProcSetPaused
    \/ ProcAwaitTasks
    \/ ProcNothingToReap
    \/ ProcReap
    \/ ProcAwaitCondition
    \/ ProcResumed
    \/ ProcTakeCancelled
    \/ ProcAwaitPending
    \/ ProcTakePending
    \/ ProcSubmit

TaskStep(s) ==
    \/ TaskStart(s)
    \/ ServerInterrupt(s)
    \/ TaskCancelled(s)
    \/ TaskGenerated(s)
    \/ TaskReported(s)
    \/ TaskFails(s)

ControlStep ==
    \/ rollVersion < MaxVersion /\ PauseCalled
    \/ UpdateCalled
    \/ ControlPause
    \/ ControlGathered
    \/ ControlUpdate(rollVersion + 1)
    \/ \E size \in 0..MaxRequired : ControlReset(size)
    \/ ControlPublished
    \/ ControlResume

MonitorStep ==
    \/ MonitorCheckRunning
    \/ \E size \in 0..MaxRequired :
          MonitorSkip(size) \/ MonitorAwaitLock(size) \/ MonitorRecover(size)

(* fit() has returned and no synchronization is left: no deadlock. *)
Terminated ==
    /\ Finished /\ control = "idle" /\ rollVersion = MaxVersion
    /\ UNCHANGED vars

MainStep == MainSentinel \/ MainStop

Next ==
    \/ Feed
    \/ ProcessorStep
    \/ \E s \in Sample : TaskStep(s)
    \/ ControlStep
    \/ MonitorStep
    \/ MainStep
    \/ \E c \in {"monitor", "control", "main"} : AwaitLock(c)
    \/ Terminated

Spec == Init /\ [][Next]_vars

-----------------------------------------------------------------------------
Phases == {"idle", "pause", "gather", "paused", "update", "count", "validated", "resume"}

TypeOK ==
    /\ fed \in 0..DONE /\ taken \in 0..DONE
    /\ cancelQueue \in Seq(Sample)
    /\ stage \in Stage /\ blocked \in Blocked
    /\ hand \in Sample \cup {NoSample}
    /\ doneBound \in BOOLEAN
    /\ task \in [Sample -> TaskState]
    /\ stamp \in [Sample -> Nat]
    /\ reapable \in Nat /\ failed \in Nat /\ failures \in Nat
    /\ holder \in Coroutine \cup {"none"}
    /\ waiters \in Seq(Coroutine)
    /\ paused \in BOOLEAN /\ trigger \in BOOLEAN
    /\ running \in BOOLEAN /\ serverPaused \in BOOLEAN
    /\ staleness \in Nat /\ counted \in Nat /\ rollVersion \in Nat
    /\ control \in Phases
    /\ monitor \in {"sleep", "top", "recover", "end"}
    /\ main \in {"stream", "stop", "end"}

(* No more generations are in flight than the servers are sized for,       *)
(* however pauses, reaps and submissions interleave.                       *)
ActiveBound == ActiveCount <= MaxConcurrent

(* No lost wake-up: the processor sleeps on the condition only while the   *)
(* rollout is paused, so whoever unpauses it also wakes it.                *)
NoLostWakeup == blocked = "condition" => paused

(* A sample is in at most one place of the rollouter, once: in the         *)
(* processor's hand, in one live task, or in cancel_queue once.  So an     *)
(* interrupted sample is never generated twice at a time.                  *)
NoDoubleSubmit ==
    /\ \A i \in 1..Len(cancelQueue) :
          /\ task[cancelQueue[i]] = "none"
          /\ cancelQueue[i] # hand
          /\ cancelQueue[i] <= taken
          /\ \A j \in 1..Len(cancelQueue) : cancelQueue[i] = cancelQueue[j] => i = j
    /\ hand # NoSample => task[hand] = "none" /\ hand <= taken
    /\ \A s \in Live : s <= taken

(* gather() waits for a set of tasks fixed when it is called: while pause() *)
(* gathers, tasks end and none is added, so what pause() clears from       *)
(* active_tasks has ended.                                                 *)
GatherOnlyShrinks == [][control = "gather" => Live' \subseteq Live]_vars
=============================================================================
