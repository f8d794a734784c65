-------------------------- MODULE RollouterProofs --------------------------
(***************************************************************************)
(* The rollouter's invariants, for every number of samples, every queue    *)
(* and concurrency limit, with and without partial rollout, among any      *)
(* queue and any synchronizations.                                         *)
(***************************************************************************)
EXTENDS Rollouter, FiniteSetTheorems, TLAPS

(* The small parts of actions are expanded everywhere.                     *)
USE DEF BindDone, GetCancelled, IsDone, PutBack, Call, GatherLocked, NotQueued, Stale,
        StreamOver

(* The coroutines that a release can hand the lock to are those queued.    *)
LEMMA ReleaseType ==
    ASSUME holder \in Coroutine \cup {"none"}, waiters \in Seq(Coroutine), Release
    PROVE  holder' \in Coroutine \cup {"none"} /\ waiters' \in Seq(Coroutine)
  BY DEF Release

LEMMA EnqueueType ==
    ASSUME holder \in Coroutine \cup {"none"}, waiters \in Seq(Coroutine),
           NEW c \in Coroutine, Enqueue(c)
    PROVE  holder' \in Coroutine \cup {"none"} /\ waiters' \in Seq(Coroutine)
  BY DEF Enqueue

LEMMA KeepType ==
    ASSUME holder \in Coroutine \cup {"none"}, waiters \in Seq(Coroutine),
           NEW c \in Coroutine, Keep(c)
    PROVE  holder' \in Coroutine \cup {"none"} /\ waiters' \in Seq(Coroutine)
  BY DEF Keep

(* The live tasks are finitely many, so what is active can be counted.     *)
LEMMA LiveFinite ==
    /\ IsFiniteSet(Live)
    /\ Cardinality(Live) \in Nat
<1>1. IsFiniteSet(Sample)
  BY FS_Interval, RolloutAssumption DEF Sample
<1>2. Live \subseteq Sample
  BY DEF Live
<1> QED BY <1>1, <1>2, FS_Subset, FS_CardinalityType

-----------------------------------------------------------------------------
(* Every variable keeps its type, whatever order the coroutines run in.    *)
LEMMA TypeStep == TypeOK /\ [Next]_vars => TypeOK'
<1> SUFFICES ASSUME TypeOK, [Next]_vars PROVE TypeOK'
  OBVIOUS
<1> USE DEF TypeOK, feedVars, procVars, taskVars, lockVars, flagVars, ctlVars, procOnly,
        taskOnly, monitorOnly, Stage, Reaping, Blocked, Phases
<1>1. ASSUME Feed PROVE TypeOK'
  <2>1. fed' \in 0..DONE
    BY <1>1, RolloutAssumption DEF Feed, Smaller, DONE
  <2> QED BY <1>1, <2>1 DEF Feed
<1>2. ASSUME NEW size \in 0..MaxRequired, ProcCheck(size) PROVE TypeOK'
  BY <1>2 DEF ProcCheck
<1>3. ASSUME ProcLeaveLoop PROVE TypeOK'
  BY <1>3 DEF ProcLeaveLoop, NextStage
<1>4. ASSUME ProcAwaitLock PROVE TypeOK'
  BY <1>4, EnqueueType DEF ProcAwaitLock, Coroutine
<1>5. ASSUME ProcSetPaused PROVE TypeOK'
  BY <1>5, ReleaseType DEF ProcSetPaused
<1>6. ASSUME ProcAwaitTasks PROVE TypeOK'
  BY <1>6, KeepType DEF ProcAwaitTasks, Coroutine
<1>7. ASSUME ProcNothingToReap PROVE TypeOK'
  BY <1>7, ReleaseType DEF ProcNothingToReap
<1>8. ASSUME ProcReap PROVE TypeOK'
  BY <1>8, ReleaseType DEF ProcReap
<1>9. ASSUME ProcAwaitCondition PROVE TypeOK'
  BY <1>9, ReleaseType DEF ProcAwaitCondition
<1>10. ASSUME ProcResumed PROVE TypeOK'
  BY <1>10, ReleaseType DEF ProcResumed
<1>11. ASSUME ProcTakeCancelled PROVE TypeOK'
  <2>1. hand' \in Sample /\ cancelQueue' \in Seq(Sample)
    BY <1>11 DEF ProcTakeCancelled
  <2> QED BY <1>11, <2>1 DEF ProcTakeCancelled
<1>12. ASSUME ProcAwaitPending PROVE TypeOK'
  BY <1>12 DEF ProcAwaitPending
<1>13. ASSUME ProcTakePending PROVE TypeOK'
  <2>1. taken' \in 0..DONE /\ taken' \in Nat \ {0}
    BY <1>13, RolloutAssumption DEF ProcTakePending, DONE
  <2>2. hand' \in Sample \cup {NoSample}
    BY <1>13, <2>1, RolloutAssumption DEF ProcTakePending, DONE, Sample
  <2> QED BY <1>13, <2>1, <2>2 DEF ProcTakePending
<1>14. ASSUME ProcSubmit PROVE TypeOK'
  <2>1. task' \in [Sample -> TaskState]
    BY <1>14 DEF ProcSubmit, TaskState
  <2>2. holder' \in Coroutine \cup {"none"} /\ waiters' \in Seq(Coroutine)
    BY <1>14, ReleaseType DEF ProcSubmit
  <2> QED BY <1>14, <2>1, <2>2 DEF ProcSubmit
<1>15. ASSUME NEW s \in Sample, TaskStep(s) PROVE TypeOK'
  <2>1. task' \in [Sample -> TaskState]
    BY <1>15 DEF TaskStep, TaskStart, ServerInterrupt, TaskCancelled, TaskGenerated,
       TaskReported, TaskFails, TaskState
  <2>2. cancelQueue' \in Seq(Sample)
    <3>1. CASE TaskCancelled(s)
      BY <3>1 DEF TaskCancelled
    <3>2. CASE ~TaskCancelled(s)
      BY <1>15, <3>2 DEF TaskStep, TaskStart, ServerInterrupt, TaskGenerated,
         TaskReported, TaskFails
    <3> QED BY <3>1, <3>2
  <2>3. stamp' \in [Sample -> Nat]
    BY <1>15 DEF TaskStep, TaskStart, ServerInterrupt, TaskCancelled, TaskGenerated,
       TaskReported, TaskFails
  <2>4. /\ reapable' \in {reapable, reapable + 1}
        /\ failed' \in {failed, failed + 1}
        /\ failures' \in {failures, failures + 1}
    <3> HIDE DEF TypeOK
    <3>1. CASE TaskStart(s) \/ ServerInterrupt(s) \/ TaskGenerated(s)
      BY <3>1 DEF TaskStart, ServerInterrupt, TaskGenerated
    <3>2. CASE TaskCancelled(s) \/ TaskReported(s)
      BY <3>2 DEF TaskCancelled, TaskReported
    <3>3. CASE TaskFails(s)
      BY <3>3 DEF TaskFails
    <3> QED BY <1>15, <3>1, <3>2, <3>3 DEF TaskStep
  <2>5. UNCHANGED taskOnly
    BY <1>15 DEF TaskStep, TaskStart, ServerInterrupt, TaskCancelled, TaskGenerated,
       TaskReported, TaskFails
  <2> QED BY <2>1, <2>2, <2>3, <2>4, <2>5
<1>16. ASSUME PauseCalled \/ UpdateCalled PROVE TypeOK'
  <2>1. CASE PauseCalled
    BY <2>1 DEF PauseCalled
  <2>2. CASE UpdateCalled
    BY <2>2 DEF UpdateCalled
  <2> QED BY <1>16, <2>1, <2>2
<1>17. ASSUME ControlPause PROVE TypeOK'
  <2>1. holder' \in Coroutine \cup {"none"} /\ waiters' \in Seq(Coroutine)
    BY <1>17, KeepType DEF ControlPause, Coroutine
  <2> QED BY <1>17, <2>1, RolloutAssumption DEF ControlPause
<1>18. ASSUME ControlGathered PROVE TypeOK'
  <2>1. holder' \in Coroutine \cup {"none"} /\ waiters' \in Seq(Coroutine)
    BY <1>18, ReleaseType DEF ControlGathered
  <2>2. trigger' \in BOOLEAN
    BY <1>18 DEF ControlGathered
  <2> QED BY <1>18, <2>1, <2>2 DEF ControlGathered
<1>19. ASSUME ControlUpdate(rollVersion + 1) PROVE TypeOK'
  <2>1. counted' \in Nat
    BY <1>19, LiveFinite DEF ControlUpdate, ActiveCount
  <2>2. holder' \in Coroutine \cup {"none"} /\ waiters' \in Seq(Coroutine)
    BY <1>19, KeepType DEF ControlUpdate, Coroutine
  <2> QED BY <1>19, <2>1, <2>2 DEF ControlUpdate
<1>20. ASSUME NEW size \in 0..MaxRequired, ControlReset(size) PROVE TypeOK'
  BY <1>20, RolloutAssumption DEF ControlReset
<1>21. ASSUME ControlPublished PROVE TypeOK'
  BY <1>21, ReleaseType DEF ControlPublished
<1>22. ASSUME ControlResume PROVE TypeOK'
  <2>1. holder' \in Coroutine \cup {"none"} /\ waiters' \in Seq(Coroutine)
    BY <1>22, ReleaseType DEF ControlResume
  <2>2. blocked' \in Blocked /\ control' \in Phases
    BY <1>22 DEF ControlResume, Notify
  <2>3. paused' \in BOOLEAN /\ trigger' \in BOOLEAN /\ serverPaused' \in BOOLEAN
    BY <1>22 DEF ControlResume
  <2> QED BY <1>22, <2>1, <2>2, <2>3 DEF ControlResume
<1>23. ASSUME MonitorCheckRunning PROVE TypeOK'
  BY <1>23, ReleaseType DEF MonitorCheckRunning
<1>24. ASSUME NEW size \in 0..MaxRequired, MonitorSkip(size) PROVE TypeOK'
  BY <1>24 DEF MonitorSkip
<1>25. ASSUME NEW size \in 0..MaxRequired, MonitorAwaitLock(size) PROVE TypeOK'
  BY <1>25, EnqueueType DEF MonitorAwaitLock, Coroutine
<1>26. ASSUME NEW size \in 0..MaxRequired, MonitorRecover(size) PROVE TypeOK'
  <2>1. holder' \in Coroutine \cup {"none"} /\ waiters' \in Seq(Coroutine)
    BY <1>26, ReleaseType DEF MonitorRecover
  <2>2. paused' \in BOOLEAN
    BY <1>26 DEF MonitorRecover
  <2> QED BY <1>26, <2>1, <2>2 DEF MonitorRecover, Notify
<1>27. ASSUME MainSentinel PROVE TypeOK'
  BY <1>27 DEF MainSentinel
<1>28. ASSUME MainStop PROVE TypeOK'
  <2>1. holder' \in Coroutine \cup {"none"} /\ waiters' \in Seq(Coroutine)
    BY <1>28, ReleaseType DEF MainStop
  <2>2. running' \in BOOLEAN
    BY <1>28 DEF MainStop
  <2> QED BY <1>28, <2>1, <2>2 DEF MainStop
<1>29. ASSUME NEW c \in {"monitor", "control", "main"}, AwaitLock(c) PROVE TypeOK'
  BY <1>29, EnqueueType DEF AwaitLock, Coroutine
<1>30. ASSUME UNCHANGED vars PROVE TypeOK'
  BY <1>30 DEF vars
<1> QED
  BY <1>1, <1>2, <1>3, <1>4, <1>5, <1>6, <1>7, <1>8, <1>9, <1>10, <1>11, <1>12, <1>13,
     <1>14, <1>15, <1>16, <1>17, <1>18, <1>19, <1>20, <1>21, <1>22, <1>23, <1>24, <1>25,
     <1>26, <1>27, <1>28, <1>29, <1>30
  DEF Next, ProcessorStep, ControlStep, MonitorStep, MainStep, Terminated

LEMMA TypeAtStart == Init => TypeOK
<1> SUFFICES ASSUME Init PROVE TypeOK
  OBVIOUS
<1>1. fed \in 0..DONE /\ taken \in 0..DONE
  BY RolloutAssumption DEF Init, DONE, Smaller
<1>2. task \in [Sample -> TaskState] /\ stamp \in [Sample -> Nat]
  BY DEF Init, TaskState
<1>3. /\ holder \in Coroutine \cup {"none"} /\ waiters \in Seq(Coroutine)
      /\ cancelQueue \in Seq(Sample)
      /\ stage \in Stage /\ blocked \in Blocked /\ control \in Phases
  BY DEF Init, Coroutine, Stage, Blocked, Phases
<1> QED BY <1>1, <1>2, <1>3 DEF Init, TypeOK, NoSample

THEOREM TypeCorrect == Spec => []TypeOK
  BY TypeAtStart, TypeStep, PTL DEF Spec

-----------------------------------------------------------------------------
(* What the steps may do to the state the next theorems are about.  A      *)
(* processor's step is one of its actions, so each lemma goes over them    *)
(* once and the theorems only over what is left.                           *)

(* Whoever unpauses notifies; only a paused processor goes to wait.        *)
LEMMA WhoUnpauses ==
    [Next]_vars => \/ ControlResume \/ \E size \in 0..MaxRequired : MonitorRecover(size)
                   \/ ProcAwaitCondition
                   \/ paused' = TRUE
                   \/ paused' = paused /\ blocked' \in {blocked, "no", "lock", "tasks", "pending"}
<1> SUFFICES ASSUME [Next]_vars
             PROVE  \/ ControlResume \/ \E size \in 0..MaxRequired : MonitorRecover(size)
                    \/ ProcAwaitCondition
                    \/ paused' = TRUE
                    \/ paused' = paused /\ blocked' \in {blocked, "no", "lock", "tasks", "pending"}
  OBVIOUS
<1> USE DEF procVars, flagVars, procOnly, taskOnly, monitorOnly
<1>1. CASE ProcessorStep
  BY <1>1 DEF ProcessorStep, ProcCheck, ProcLeaveLoop, ProcAwaitLock, ProcSetPaused,
     ProcAwaitTasks, ProcNothingToReap, ProcReap, ProcAwaitCondition, ProcResumed,
     ProcTakeCancelled, ProcAwaitPending, ProcTakePending, ProcSubmit
<1>2. CASE Feed \/ (\E s \in Sample : TaskStep(s)) \/ MainStep
             \/ \E c \in {"monitor", "control", "main"} : AwaitLock(c)
  BY <1>2 DEF Feed, TaskStep, TaskStart, ServerInterrupt, TaskCancelled, TaskGenerated,
     TaskReported, TaskFails, MainStep, MainSentinel, MainStop, AwaitLock
<1>3. CASE ControlStep
  BY <1>3 DEF ControlStep, PauseCalled, UpdateCalled, ControlPause, ControlGathered,
     ControlUpdate, ControlReset, ControlPublished
<1>4. CASE MonitorStep
  BY <1>4 DEF MonitorStep, MonitorCheckRunning, MonitorSkip, MonitorAwaitLock
<1>5. CASE UNCHANGED vars
  BY <1>5 DEF vars
<1> QED BY <1>1, <1>2, <1>3, <1>4, <1>5 DEF Next, Terminated

(* The processor never sleeps on the condition while the rollout is not    *)
(* paused.                                                                 *)
THEOREM WakeupsKept == Spec => []NoLostWakeup
<1>1. Init => NoLostWakeup
  BY DEF Init, NoLostWakeup
<1>2. TypeOK /\ NoLostWakeup /\ [Next]_vars => NoLostWakeup'
  <2> SUFFICES ASSUME TypeOK, NoLostWakeup, [Next]_vars PROVE NoLostWakeup'
    OBVIOUS
  <2>1. CASE ControlResume \/ \E size \in 0..MaxRequired : MonitorRecover(size)
    BY <2>1 DEF ControlResume, MonitorRecover, Notify, NoLostWakeup
  <2>2. CASE ProcAwaitCondition
    BY <2>2 DEF ProcAwaitCondition, procOnly, flagVars, NoLostWakeup
  <2>3. CASE paused' = TRUE
    BY <2>3 DEF NoLostWakeup
  <2>4. CASE paused' = paused /\ blocked' \in {blocked, "no", "lock", "tasks", "pending"}
    BY <2>4 DEF NoLostWakeup
  <2> QED BY <2>1, <2>2, <2>3, <2>4, WhoUnpauses
<1> QED BY <1>1, <1>2, TypeCorrect, PTL DEF Spec

-----------------------------------------------------------------------------
(* A synchronization that gathers, counts or publishes holds the lock, and *)
(* so does a processor that waits for its tasks.                           *)
LockHeld ==
    /\ control \in {"gather", "count", "validated"} => holder = "control"
    /\ blocked = "tasks" => holder = "processor"

LEMMA LockHeldStep == TypeOK /\ LockHeld /\ [Next]_vars => LockHeld'
<1> SUFFICES ASSUME TypeOK, LockHeld, [Next]_vars PROVE LockHeld'
  OBVIOUS
<1> USE DEF LockHeld, procVars, lockVars, ctlVars, procOnly, taskOnly, monitorOnly
<1>1. CASE ProcessorStep
  <2>1. CASE ProcAwaitTasks \/ ProcReap
    BY <2>1 DEF ProcAwaitTasks, ProcReap, ProcEnters, Keep, Release
  <2>2. CASE ProcSetPaused \/ ProcNothingToReap \/ ProcAwaitCondition \/ ProcResumed \/ ProcSubmit
    BY <2>2 DEF ProcSetPaused, ProcNothingToReap, ProcAwaitCondition, ProcResumed, ProcSubmit,
       ProcEnters, Release
  <2>3. CASE ProcLeaveLoop \/ (\E size \in 0..MaxRequired : ProcCheck(size))
               \/ ProcAwaitLock \/ ProcTakeCancelled \/ ProcAwaitPending \/ ProcTakePending
    BY <2>3 DEF ProcLeaveLoop, ProcCheck, ProcAwaitLock, ProcTakeCancelled, ProcAwaitPending,
       ProcTakePending, Enqueue
  <2> QED BY <1>1, <2>1, <2>2, <2>3 DEF ProcessorStep
<1>2. CASE Feed \/ (\E s \in Sample : TaskStep(s)) \/ MainStep
             \/ \E c \in {"monitor", "control", "main"} : AwaitLock(c)
  BY <1>2 DEF Feed, TaskStep, TaskStart, ServerInterrupt, TaskCancelled, TaskGenerated,
     TaskReported, TaskFails, MainStep, MainSentinel, MainStop, AwaitLock, Enters, Enqueue, Release
<1>3. CASE ControlStep
  BY <1>3 DEF ControlStep, PauseCalled, UpdateCalled, ControlPause, ControlGathered,
     ControlUpdate, ControlReset, ControlPublished, ControlResume, Enters, Keep, Release, Notify,
     Pausing, Updating, Resuming
<1>4. CASE MonitorStep
  BY <1>4 DEF MonitorStep, MonitorCheckRunning, MonitorSkip, MonitorAwaitLock, MonitorRecover,
     Enters, Enqueue, Release, Notify
<1>5. CASE UNCHANGED vars
  BY <1>5 DEF vars
<1> QED BY <1>1, <1>2, <1>3, <1>4, <1>5 DEF Next, Terminated

LEMMA LockIsHeld == Spec => []LockHeld
<1>1. Init => LockHeld
  BY DEF Init, LockHeld
<1> QED BY <1>1, LockHeldStep, TypeCorrect, PTL DEF Spec

(* While pause() gathers no task is added: the processor needs the lock.   *)
THEOREM GatherShrinks == Spec => GatherOnlyShrinks
<1>1. TypeOK /\ LockHeld /\ [Next]_vars => [control = "gather" => Live' \subseteq Live]_vars
  <2> SUFFICES ASSUME TypeOK, LockHeld, [Next]_vars, control = "gather" PROVE Live' \subseteq Live
    OBVIOUS
  <2> USE DEF taskVars, procOnly, taskOnly, monitorOnly
  <2>1. holder = "control"
    BY DEF LockHeld
  <2>2. CASE ProcessorStep
    <3>1. ~ProcSubmit
      BY <2>1 DEF ProcSubmit, ProcEnters
    <3>2. task' = task
      BY <2>2, <3>1 DEF ProcessorStep, ProcCheck, ProcLeaveLoop, ProcAwaitLock, ProcSetPaused,
         ProcAwaitTasks, ProcNothingToReap, ProcReap, ProcAwaitCondition, ProcResumed,
         ProcTakeCancelled, ProcAwaitPending, ProcTakePending
    <3> QED BY <3>2 DEF Live
  <2>3. CASE \E s \in Sample : TaskStep(s)
    <3>1. PICK s \in Sample : TaskStep(s)
      BY <2>3
    <3>2. \E t \in TaskState : task[s] # "none" /\ task' = [task EXCEPT ![s] = t]
      BY <3>1 DEF TaskStep, TaskStart, ServerInterrupt, TaskCancelled, TaskGenerated,
         TaskReported, TaskFails, TaskState
    <3> QED BY <3>2 DEF Live, TypeOK
  <2>4. CASE Feed \/ MainStep \/ MonitorStep \/ ControlStep
               \/ \E c \in {"monitor", "control", "main"} : AwaitLock(c)
    <3>1. task' = task
      BY <2>4 DEF Feed, MainStep, MainSentinel, MainStop, AwaitLock, MonitorStep,
         MonitorCheckRunning, MonitorSkip, MonitorAwaitLock, MonitorRecover, ControlStep,
         PauseCalled, UpdateCalled, ControlPause, ControlGathered, ControlUpdate, ControlReset,
         ControlPublished, ControlResume
    <3> QED BY <3>1 DEF Live
  <2>5. CASE UNCHANGED vars
    BY <2>5 DEF vars, Live
  <2> QED BY <2>2, <2>3, <2>4, <2>5 DEF Next, Terminated
<1> QED BY <1>1, LockIsHeld, TypeCorrect, PTL DEF Spec, GatherOnlyShrinks

-----------------------------------------------------------------------------
(* A task's step changes the task alone.  An interrupted sample goes to    *)
(* cancel_queue when its task ends, and a task that ends stays among the   *)
(* active ones until it is reaped.                                         *)
LEMMA TaskStepShape ==
    ASSUME TypeOK, NEW s \in Sample, TaskStep(s)
    PROVE  /\ s \in Live
           /\ UNCHANGED <<hand, taken, stage>>
           /\ \E t \in TaskState :
                /\ task' = [task EXCEPT ![s] = t]
                /\ \/ cancelQueue' = cancelQueue
                   \/ cancelQueue' = Append(cancelQueue, s) /\ t = "none"
                /\ t = "none" => \/ reapable' = reapable + 1 /\ failed' = failed
                                 \/ reapable' = reapable /\ failed' = failed + 1
                /\ t # "none" => reapable' = reapable /\ failed' = failed
<1> USE DEF TypeOK, taskOnly, feedVars, procVars, TaskState, Live
<1>1. CASE TaskStart(s) \/ ServerInterrupt(s)
  BY <1>1 DEF TaskStart, ServerInterrupt
<1>2. CASE TaskGenerated(s)
  BY <1>2 DEF TaskGenerated
<1>3. CASE TaskCancelled(s)
  BY <1>3 DEF TaskCancelled
<1>4. CASE TaskReported(s)
  BY <1>4 DEF TaskReported
<1>5. CASE TaskFails(s)
  BY <1>5 DEF TaskFails
<1> QED BY <1>1, <1>2, <1>3, <1>4, <1>5 DEF TaskStep

LEMMA WhoMovesSamples ==
    [Next]_vars => \/ ProcTakeCancelled \/ ProcTakePending \/ ProcSubmit
                   \/ \E s \in Sample : TaskStep(s)
                   \/ UNCHANGED <<cancelQueue, hand, taken, task, failures>>
<1> SUFFICES ASSUME [Next]_vars
             PROVE  \/ ProcTakeCancelled \/ ProcTakePending \/ ProcSubmit
                    \/ \E s \in Sample : TaskStep(s)
                    \/ UNCHANGED <<cancelQueue, hand, taken, task, failures>>
  OBVIOUS
<1> USE DEF feedVars, procVars, taskVars, procOnly, monitorOnly
<1>1. CASE ProcessorStep
  BY <1>1 DEF ProcessorStep, ProcCheck, ProcLeaveLoop, ProcAwaitLock, ProcSetPaused,
     ProcAwaitTasks, ProcNothingToReap, ProcReap, ProcAwaitCondition, ProcResumed,
     ProcAwaitPending
<1>2. CASE Feed \/ MainStep \/ \E c \in {"monitor", "control", "main"} : AwaitLock(c)
  BY <1>2 DEF Feed, MainStep, MainSentinel, MainStop, AwaitLock
<1>3. CASE ControlStep
  BY <1>3 DEF ControlStep, PauseCalled, UpdateCalled, ControlPause, ControlGathered,
     ControlUpdate, ControlReset, ControlPublished, ControlResume
<1>4. CASE MonitorStep
  BY <1>4 DEF MonitorStep, MonitorCheckRunning, MonitorSkip, MonitorAwaitLock, MonitorRecover
<1>5. CASE UNCHANGED vars
  BY <1>5 DEF vars
<1> QED BY <1>1, <1>2, <1>3, <1>4, <1>5 DEF Next, Terminated

(* A sample is in one place of the rollouter at a time, and once.          *)
LEMMA OnceStep == TypeOK /\ TypeOK' /\ NoDoubleSubmit /\ [Next]_vars => NoDoubleSubmit'
<1> SUFFICES ASSUME TypeOK, TypeOK', NoDoubleSubmit, [Next]_vars PROVE NoDoubleSubmit'
  OBVIOUS
<1>0. /\ taken \in Nat /\ NoSample = 0
      /\ cancelQueue \in Seq(Sample) /\ Sample \subseteq Nat \ {0}
      /\ task \in [Sample -> TaskState]
  <2>1. Sample \subseteq Nat \ {0} /\ DONE \in Nat
    BY RolloutAssumption DEF Sample, DONE
  <2>2. /\ taken \in 0..DONE /\ cancelQueue \in Seq(Sample)
        /\ task \in [Sample -> TaskState]
    BY DEF TypeOK
  <2> QED BY <2>1, <2>2 DEF NoSample
<1>1. CASE ProcTakeCancelled
  <2>1. /\ cancelQueue # <<>> /\ hand' = cancelQueue[1]
        /\ cancelQueue' = Tail(cancelQueue)
        /\ UNCHANGED <<taken, task>>
    BY <1>0, <1>1 DEF ProcTakeCancelled, feedVars, taskVars
  <2>2. /\ Len(cancelQueue') = Len(cancelQueue) - 1 /\ Len(cancelQueue) \in Nat \ {0}
        /\ \A i \in 1..Len(cancelQueue') : cancelQueue'[i] = cancelQueue[i + 1]
    BY <1>0, <2>1
  <2>3. \A i \in 1..Len(cancelQueue') :
           /\ i + 1 \in 1..Len(cancelQueue) /\ i + 1 # 1
           /\ 1 \in 1..Len(cancelQueue)
    BY <2>2
  <2> QED BY <2>1, <2>2, <2>3 DEF NoDoubleSubmit, Live
<1>2. CASE ProcTakePending
  <2>1. /\ taken' = taken + 1 /\ hand' \in {NoSample, taken + 1}
        /\ UNCHANGED <<cancelQueue, task>>
    BY <1>0, <1>2 DEF ProcTakePending, taskVars
  <2>2. hand' # NoSample => task[hand'] = "none"
    <3>1. hand' # NoSample => hand' \in Sample /\ hand' = taken + 1
      BY <2>1 DEF TypeOK
    <3>2. \A s \in Live : s # taken + 1
      BY <1>0 DEF NoDoubleSubmit, Live
    <3> QED BY <3>1, <3>2 DEF Live
  <2>3. \A i \in 1..Len(cancelQueue) : cancelQueue[i] # hand' /\ cancelQueue[i] <= taken'
    <3>1. \A i \in 1..Len(cancelQueue) : cancelQueue[i] \in Nat \ {0} /\ cancelQueue[i] <= taken
      BY <1>0 DEF NoDoubleSubmit
    <3> QED BY <1>0, <2>1, <3>1
  <2>4. \A s \in Live : s <= taken'
    BY <1>0, <2>1 DEF NoDoubleSubmit, Live
  <2>5. hand' # NoSample => hand' <= taken'
    BY <1>0, <2>1
  <2> QED BY <2>1, <2>2, <2>3, <2>4, <2>5 DEF NoDoubleSubmit, Live
<1>3. CASE ProcSubmit
  <2>1. /\ task' = [task EXCEPT ![hand] = "created"] /\ hand' = NoSample
        /\ UNCHANGED <<cancelQueue, taken>>
    BY <1>3 DEF ProcSubmit, feedVars
  <2>2. \A i \in 1..Len(cancelQueue) :
           /\ cancelQueue[i] \in Sample /\ cancelQueue[i] # NoSample
           /\ task'[cancelQueue[i]] = "none"
    BY <1>0, <2>1 DEF NoDoubleSubmit
  <2>3. \A s \in Sample : task'[s] # "none" => s <= taken
    BY <1>0, <2>1 DEF NoDoubleSubmit, Live
  <2> QED BY <2>1, <2>2, <2>3 DEF NoDoubleSubmit, Live
<1>4. CASE \E s \in Sample : TaskStep(s)
  <2>1. PICK s \in Sample : TaskStep(s)
    BY <1>4
  <2>2. PICK t \in TaskState :
           /\ s \in Live /\ UNCHANGED <<hand, taken>>
           /\ task' = [task EXCEPT ![s] = t]
           /\ \/ cancelQueue' = cancelQueue
              \/ cancelQueue' = Append(cancelQueue, s) /\ t = "none"
    BY <2>1, TaskStepShape
  <2>3. s <= taken /\ s # hand /\ \A i \in 1..Len(cancelQueue) : cancelQueue[i] # s
    BY <1>0, <2>2 DEF NoDoubleSubmit, Live
  <2>4. /\ hand' # NoSample => task'[hand'] = "none" /\ hand' <= taken'
        /\ \A r \in Live' : r <= taken'
    BY <1>0, <2>2, <2>3 DEF NoDoubleSubmit, Live
  <2>5. CASE cancelQueue' = cancelQueue
    BY <1>0, <2>2, <2>3, <2>4, <2>5 DEF NoDoubleSubmit
  <2>6. CASE cancelQueue' = Append(cancelQueue, s) /\ t = "none"
    <3>1. /\ Len(cancelQueue') = Len(cancelQueue) + 1 /\ Len(cancelQueue) \in Nat
          /\ \A i \in 1..Len(cancelQueue) : cancelQueue'[i] = cancelQueue[i]
          /\ cancelQueue'[Len(cancelQueue) + 1] = s
      BY <1>0, <2>6
    <3>2. \A i \in 1..Len(cancelQueue') : i \in 1..Len(cancelQueue) \/ i = Len(cancelQueue) + 1
      BY <3>1
    <3>3. task'[s] = "none"
      BY <1>0, <2>2, <2>6
    <3>4. \A i \in 1..Len(cancelQueue') :
             /\ task'[cancelQueue'[i]] = "none"
             /\ cancelQueue'[i] # hand'
             /\ cancelQueue'[i] <= taken'
      BY <1>0, <2>2, <2>3, <3>1, <3>2, <3>3 DEF NoDoubleSubmit
    <3>5. \A i, j \in 1..Len(cancelQueue') : cancelQueue'[i] = cancelQueue'[j] => i = j
      BY <2>3, <3>1, <3>2 DEF NoDoubleSubmit
    <3> QED BY <2>4, <3>4, <3>5 DEF NoDoubleSubmit
  <2> QED BY <2>2, <2>5, <2>6
<1>5. CASE UNCHANGED <<cancelQueue, hand, taken, task, failures>>
  BY <1>5 DEF NoDoubleSubmit, Live
<1> QED BY <1>1, <1>2, <1>3, <1>4, <1>5, WhoMovesSamples

THEOREM SubmittedOnce == Spec => []NoDoubleSubmit
<1>1. Init => NoDoubleSubmit
  BY DEF Init, NoDoubleSubmit, NoSample, Live
<1> QED BY <1>1, OnceStep, TypeCorrect, PTL DEF Spec

-----------------------------------------------------------------------------
(* The processor submits only when it has seen fewer active tasks than the *)
(* limit, and until it does, nothing adds one.                             *)
Admitted ==
    /\ ActiveCount <= MaxConcurrent
    /\ stage = "submit" => ActiveCount < MaxConcurrent

LEMMA WhoChangesActive ==
    [Next]_vars => \/ ProcSubmit \/ ProcReap \/ ControlGathered \/ ProcLeaveLoop
                   \/ \E s \in Sample : TaskStep(s)
                   \/ /\ UNCHANGED <<task, reapable, failed>>
                      /\ stage' = "submit" => stage = "submit"
<1> SUFFICES ASSUME [Next]_vars
             PROVE  \/ ProcSubmit \/ ProcReap \/ ControlGathered \/ ProcLeaveLoop
                    \/ \E s \in Sample : TaskStep(s)
                    \/ /\ UNCHANGED <<task, reapable, failed>>
                       /\ stage' = "submit" => stage = "submit"
  OBVIOUS
<1> USE DEF procVars, taskVars, procOnly, monitorOnly
<1>1. CASE ProcessorStep
  BY <1>1 DEF ProcessorStep, ProcCheck, ProcAwaitLock, ProcSetPaused, ProcAwaitTasks,
     ProcNothingToReap, ProcAwaitCondition, ProcResumed, ProcTakeCancelled, ProcAwaitPending,
     ProcTakePending
<1>2. CASE Feed \/ MainStep \/ \E c \in {"monitor", "control", "main"} : AwaitLock(c)
  BY <1>2 DEF Feed, MainStep, MainSentinel, MainStop, AwaitLock
<1>3. CASE ControlStep
  BY <1>3 DEF ControlStep, PauseCalled, UpdateCalled, ControlPause, ControlUpdate,
     ControlReset, ControlPublished, ControlResume
<1>4. CASE MonitorStep
  BY <1>4 DEF MonitorStep, MonitorCheckRunning, MonitorSkip, MonitorAwaitLock, MonitorRecover
<1>5. CASE UNCHANGED vars
  BY <1>5 DEF vars
<1> QED BY <1>1, <1>2, <1>3, <1>4, <1>5 DEF Next, Terminated

LEMMA AdmittedStep == TypeOK /\ TypeOK' /\ Admitted /\ [Next]_vars => Admitted'
<1> SUFFICES ASSUME TypeOK, TypeOK', Admitted, [Next]_vars PROVE Admitted'
  OBVIOUS
<1>0. /\ IsFiniteSet(Live) /\ Cardinality(Live) \in Nat
      /\ reapable \in Nat /\ failed \in Nat /\ MaxConcurrent \in Nat \ {0}
      /\ task \in [Sample -> TaskState]
      /\ reapable' \in Nat /\ failed' \in Nat
  <2>1. /\ reapable \in Nat /\ failed \in Nat /\ task \in [Sample -> TaskState]
        /\ reapable' \in Nat /\ failed' \in Nat
    BY DEF TypeOK
  <2>2. MaxConcurrent \in Nat \ {0}
    BY RolloutAssumption
  <2> QED BY <2>1, <2>2, LiveFinite
<1>1. CASE ProcSubmit
  <2>1. /\ task' = [task EXCEPT ![hand] = "created"] /\ stage = "submit" /\ stage' = "check"
        /\ reapable' = reapable /\ failed' = failed
    BY <1>1 DEF ProcSubmit
  <2>2. Live' = Live \/ Live' = Live \cup {hand}
    BY <1>0, <2>1 DEF Live
  <2>3. Cardinality(Live \cup {hand}) \in {Cardinality(Live), Cardinality(Live) + 1}
    BY <1>0, FS_AddElement
  <2>4. Cardinality(Live') \in {Cardinality(Live), Cardinality(Live) + 1}
    BY <2>2, <2>3
  <2> QED BY <1>0, <2>1, <2>4 DEF Admitted, ActiveCount
<1>2. CASE ProcReap \/ ControlGathered
  <2>1. /\ task' = task /\ reapable' = 0 /\ failed' = 0
        /\ stage' = "submit" => stage = "submit"
    BY <1>2 DEF ProcReap, ControlGathered, procVars
  <2>2. Live' = Live
    BY <2>1 DEF Live
  <2> QED BY <1>0, <2>1, <2>2 DEF Admitted, ActiveCount
<1>3. CASE ProcLeaveLoop
  <2>1. UNCHANGED <<task, reapable, failed>>
    BY <1>3 DEF ProcLeaveLoop, procOnly, taskVars
  <2>2. ActiveCount' = ActiveCount
    BY <2>1 DEF ActiveCount, Live
  <2>3. stage' = "submit" => stage = "limit" /\ ~LoopGoesOn
    BY <1>3 DEF ProcLeaveLoop, NextStage, Reaping
  <2> QED BY <1>0, <2>2, <2>3 DEF Admitted, LoopGoesOn, ActiveCount
<1>4. CASE \E s \in Sample : TaskStep(s)
  <2>1. PICK s \in Sample : TaskStep(s)
    BY <1>4
  <2>2. PICK t \in TaskState :
          /\ s \in Live /\ stage' = stage
          /\ task' = [task EXCEPT ![s] = t]
          /\ t = "none" => \/ reapable' = reapable + 1 /\ failed' = failed
                           \/ reapable' = reapable /\ failed' = failed + 1
          /\ t # "none" => reapable' = reapable /\ failed' = failed
    BY <2>1, TaskStepShape
  <2>3. ActiveCount' = ActiveCount
    <3>1. CASE t = "none"
      <4>1. Live' = Live \ {s}
        BY <1>0, <2>2, <3>1 DEF Live
      <4>2. Cardinality(Live \ {s}) = Cardinality(Live) - 1
        BY <1>0, <2>2, FS_RemoveElement
      <4>3. Cardinality(Live') = Cardinality(Live) - 1
        BY <4>1, <4>2
      <4>4. CASE reapable' = reapable + 1 /\ failed' = failed
        BY <1>0, <4>3, <4>4 DEF ActiveCount
      <4>5. CASE reapable' = reapable /\ failed' = failed + 1
        BY <1>0, <4>3, <4>5 DEF ActiveCount
      <4> QED BY <2>2, <3>1, <4>4, <4>5
    <3>2. CASE t # "none"
      <4>1. Live' = Live
        BY <1>0, <2>2, <3>2 DEF Live
      <4>2. reapable' = reapable /\ failed' = failed
        BY <2>2, <3>2
      <4>3. Cardinality(Live') = Cardinality(Live)
        BY <4>1
      <4> QED BY <1>0, <4>2, <4>3 DEF ActiveCount
    <3> QED BY <3>1, <3>2
  <2> QED BY <2>2, <2>3 DEF Admitted
<1>5. CASE UNCHANGED <<task, reapable, failed>> /\ (stage' = "submit" => stage = "submit")
  BY <1>5 DEF Admitted, ActiveCount, Live
<1> QED BY <1>1, <1>2, <1>3, <1>4, <1>5, WhoChangesActive

(* Never more generations are active than the servers are sized for.       *)
THEOREM ActiveBounded == Spec => []ActiveBound
<1>1. Init => Admitted
  <2> SUFFICES ASSUME Init PROVE Admitted
    OBVIOUS
  <2>1. Live = {}
    BY DEF Init, Live
  <2>2. Cardinality(Live) = 0
    BY <2>1, FS_EmptySet
  <2> QED BY <2>2, RolloutAssumption DEF Init, Admitted, ActiveCount
<1>2. Admitted => ActiveBound
  BY DEF Admitted, ActiveBound
<1> QED BY <1>1, <1>2, AdmittedStep, TypeCorrect, PTL DEF Spec

-----------------------------------------------------------------------------
(* For the system the rollouter is part of: where its stages leave it.     *)
(* Between a fetch and a submission the processor has a sample in hand,    *)
(* which only an exception makes it keep; a processor that is done has     *)
(* reaped every task; and no more is taken than was fed.                   *)
Placed ==
    /\ stage \in {"limit", "submit"} => hand # NoSample
    /\ stage \notin {"limit", "submit", "crashed"} => hand = NoSample
    /\ stage = "done" => Live = {}
    /\ taken <= fed

LEMMA PlacedAtStart == Init => Placed
  BY RolloutAssumption DEF Init, Placed, NoSample, Smaller, DONE, Live

LEMMA PlacedStep == TypeOK /\ TypeOK' /\ Placed /\ [Next]_vars => Placed'
<1> SUFFICES ASSUME TypeOK, TypeOK', Placed, [Next]_vars PROVE Placed'
  OBVIOUS
<1>0. /\ taken \in Nat /\ fed \in Nat /\ NoSample \notin Sample /\ taken <= DONE /\ DONE \in Nat
      /\ IsFiniteSet(Live) /\ Cardinality(Live) \in Nat /\ reapable \in Nat /\ failed \in Nat
  BY RolloutAssumption, LiveFinite DEF TypeOK, Sample, DONE, NoSample
<1> USE DEF procVars, taskVars, feedVars, procOnly, taskOnly, monitorOnly
<1>1. CASE ProcLeaveLoop
  <2>1. /\ UNCHANGED <<hand, fed, taken, task>>
        /\ \/ stage = "drain" /\ stage' = "hold"
           \/ stage = "limit" /\ stage' = "submit"
           \/ stage = "finish" /\ stage' = "done" /\ ~(ActiveCount > 0)
    BY <1>1 DEF ProcLeaveLoop, Reaping, NextStage, LoopGoesOn
  <2>2. ~(ActiveCount > 0) => Live = {}
    BY <1>0, FS_EmptySet DEF ActiveCount
  <2>3. Live' = Live
    BY <2>1 DEF Live
  <2> QED BY <2>1, <2>2, <2>3 DEF Placed
<1>2. CASE ProcTakeCancelled
  <2>1. hand' \in Sample /\ stage' = "limit" /\ UNCHANGED <<fed, taken, task>>
    BY <1>2 DEF ProcTakeCancelled, TypeOK
  <2> QED BY <1>0, <2>1 DEF Placed
<1>3. CASE ProcTakePending
  <2>1. /\ taken' = taken + 1 /\ fed > taken /\ fed' = fed
        /\ IF taken' = DONE THEN hand' = NoSample /\ stage' = "finish"
                            ELSE hand' = taken' /\ stage' = "limit"
    BY <1>3 DEF ProcTakePending
  <2>2. hand' # NoSample <=> taken' # DONE
    BY <1>0, <2>1 DEF NoSample
  <2> QED BY <1>0, <2>1, <2>2 DEF Placed
<1>4. CASE ProcSubmit
  BY <1>4 DEF ProcSubmit, Placed
<1>5. CASE ProcSetPaused \/ ProcNothingToReap \/ ProcReap \/ ProcResumed
             \/ \E size \in 0..MaxRequired : ProcCheck(size)
  <2>1. /\ UNCHANGED <<hand, fed, taken, task>>
        /\ \/ stage' \in {stage, "crashed"}
           \/ stage \in {"check", "setPaused", "hold"} /\ stage' \in {"setPaused", "fetch", "drain", "check"}
    BY <1>5 DEF ProcSetPaused, ProcNothingToReap, ProcReap, ProcResumed, ProcCheck
  <2>2. Live' = Live
    BY <2>1 DEF Live
  <2> QED BY <2>1, <2>2 DEF Placed
<1>6. CASE \E s \in Sample : TaskStep(s)
  <2>1. PICK s \in Sample : TaskStep(s)
    BY <1>6
  <2>2. s \in Live /\ UNCHANGED <<hand, taken, stage>>
    BY <2>1, TaskStepShape
  <2>3. fed' = fed
    BY <2>1 DEF TaskStep, TaskStart, ServerInterrupt, TaskCancelled, TaskGenerated, TaskReported,
       TaskFails
  <2> QED BY <2>2, <2>3 DEF Placed
<1>7. CASE Feed
  <2>1. /\ fed' = Smaller(DONE, taken + PendingCapacity) /\ UNCHANGED <<hand, taken, stage, task>>
        /\ PendingCapacity \in Nat
    BY <1>7, RolloutAssumption DEF Feed
  <2>2. taken' <= fed'
    BY <1>0, <2>1 DEF Smaller
  <2>3. Live' = Live
    BY <2>1 DEF Live
  <2> QED BY <2>1, <2>2, <2>3 DEF Placed
<1>8. CASE UNCHANGED <<stage, hand, fed, taken, task>>
  BY <1>8 DEF Placed, Live
<1>9. \/ ProcLeaveLoop \/ ProcTakeCancelled \/ ProcTakePending \/ ProcSubmit
      \/ ProcSetPaused \/ ProcNothingToReap \/ ProcReap \/ ProcResumed
      \/ \E size \in 0..MaxRequired : ProcCheck(size)
      \/ \E s \in Sample : TaskStep(s)
      \/ Feed
      \/ UNCHANGED <<stage, hand, fed, taken, task>>
  <2>1. CASE ProcAwaitLock \/ ProcAwaitTasks \/ ProcAwaitCondition \/ ProcAwaitPending
    BY <2>1 DEF ProcAwaitLock, ProcAwaitTasks, ProcAwaitCondition, ProcAwaitPending
  <2>2. CASE MainStep \/ MonitorStep \/ \E c \in {"monitor", "control", "main"} : AwaitLock(c)
    BY <2>2 DEF MainStep, MainSentinel, MainStop, AwaitLock, MonitorStep, MonitorCheckRunning,
       MonitorSkip, MonitorAwaitLock, MonitorRecover
  <2>3. CASE ControlStep
    BY <2>3 DEF ControlStep, PauseCalled, UpdateCalled, ControlPause, ControlGathered,
       ControlUpdate, ControlReset, ControlPublished, ControlResume
  <2>4. CASE UNCHANGED vars
    BY <2>4 DEF vars
  <2> QED BY <2>1, <2>2, <2>3, <2>4 DEF Next, ProcessorStep, Terminated
<1> QED BY <1>1, <1>2, <1>3, <1>4, <1>5, <1>6, <1>7, <1>8, <1>9

(* A processor that has ended stays so, and a crash is not its end.        *)
LEMMA EndedStays == [Next]_vars /\ Ended => Ended' /\ (stage' = "done" => stage = "done")
<1> SUFFICES ASSUME [Next]_vars, Ended PROVE Ended' /\ (stage' = "done" => stage = "done")
  OBVIOUS
<1> USE DEF Ended, procVars, procOnly, taskOnly, monitorOnly
<1>1. CASE ProcessorStep
  BY <1>1 DEF ProcessorStep, ProcCheck, ProcLeaveLoop, ProcAwaitLock, ProcSetPaused,
     ProcAwaitTasks, ProcNothingToReap, ProcReap, ProcAwaitCondition, ProcResumed,
     ProcTakeCancelled, ProcAwaitPending, ProcTakePending, ProcSubmit, Reaping
<1>2. CASE Feed \/ (\E s \in Sample : TaskStep(s)) \/ MainStep
             \/ \E c \in {"monitor", "control", "main"} : AwaitLock(c)
  BY <1>2 DEF Feed, TaskStep, TaskStart, ServerInterrupt, TaskCancelled, TaskGenerated,
     TaskReported, TaskFails, MainStep, MainSentinel, MainStop, AwaitLock
<1>3. CASE ControlStep
  BY <1>3 DEF ControlStep, PauseCalled, UpdateCalled, ControlPause, ControlGathered,
     ControlUpdate, ControlReset, ControlPublished, ControlResume
<1>4. CASE MonitorStep
  BY <1>4 DEF MonitorStep, MonitorCheckRunning, MonitorSkip, MonitorAwaitLock, MonitorRecover
<1>5. CASE UNCHANGED vars
  BY <1>5 DEF vars
<1> QED BY <1>1, <1>2, <1>3, <1>4, <1>5 DEF Next, Terminated

-----------------------------------------------------------------------------
(* What the rollouter has of the samples: those with a task or interrupted, *)
(* and the one in the processor's hand.  Only a fetch adds to them, and    *)
(* only a task that reports or raises takes one away.                      *)
Busy == Cardinality(Live) + Len(cancelQueue)
Load == Busy + (IF hand = NoSample THEN 0 ELSE 1)

LEMMA LoadType == TypeOK => Busy \in Nat /\ Load \in Nat
  BY LiveFinite DEF TypeOK, Busy, Load

LEMMA LoadTypeNext == TypeOK' => (Busy \in Nat /\ Load \in Nat)'
<1>1. TypeOK => Busy \in Nat /\ Load \in Nat
  BY LoadType
<1> QED BY <1>1, PTL

(* A task's step: a task that ends is counted no more, unless its sample   *)
(* is put back.                                                            *)
LEMMA BusyTask ==
    ASSUME TypeOK, NEW s \in Sample, TaskStep(s)
    PROVE  /\ Busy' <= Busy
           /\ TaskReported(s) => Busy' = Busy - 1
           /\ TaskFails(s) => Busy' = Busy - 1
           /\ failures' # failures => Busy' = Busy - 1 /\ failures' = failures + 1
<1>0. /\ IsFiniteSet(Live) /\ Cardinality(Live) \in Nat /\ task \in [Sample -> TaskState]
      /\ cancelQueue \in Seq(Sample) /\ failures \in Nat
  BY LiveFinite DEF TypeOK
<1>1. CASE TaskStart(s) \/ ServerInterrupt(s) \/ TaskGenerated(s)
  <2>1. /\ task[s] # "none" /\ UNCHANGED <<cancelQueue, failures>>
        /\ \E t \in TaskState \ {"none"} : task' = [task EXCEPT ![s] = t]
        /\ ~TaskReported(s) /\ ~TaskFails(s)
    <3>1. CASE TaskStart(s)
      BY <1>0, <3>1 DEF TaskStart, TaskState, TaskReported, TaskFails
    <3>2. CASE ServerInterrupt(s)
      BY <1>0, <3>2 DEF ServerInterrupt, TaskState, TaskReported, TaskFails
    <3>3. CASE TaskGenerated(s)
      BY <1>0, <3>3 DEF TaskGenerated, TaskState, TaskReported, TaskFails
    <3> QED BY <1>1, <3>1, <3>2, <3>3
  <2>2. Live' = Live
    BY <1>0, <2>1 DEF Live
  <2> QED BY <1>0, <2>1, <2>2 DEF Busy
<1>2. CASE TaskCancelled(s) \/ TaskReported(s) \/ TaskFails(s)
  <2>1. task[s] # "none" /\ task' = [task EXCEPT ![s] = "none"]
    BY <1>2 DEF TaskCancelled, TaskReported, TaskFails
  <2>2. Live' = Live \ {s} /\ s \in Live
    BY <1>0, <2>1 DEF Live
  <2>3. Cardinality(Live') = Cardinality(Live) - 1
    BY <1>0, <2>2, FS_RemoveElement
  <2>4. CASE TaskCancelled(s)
    <3>1. Len(cancelQueue') = Len(cancelQueue) + 1 /\ failures' = failures
      BY <1>0, <2>4 DEF TaskCancelled
    <3>2. ~TaskReported(s) /\ ~TaskFails(s)
      BY <2>4 DEF TaskCancelled, TaskReported, TaskFails
    <3> QED BY <1>0, <2>3, <3>1, <3>2 DEF Busy
  <2>5. CASE TaskReported(s) \/ TaskFails(s)
    <3>1. cancelQueue' = cancelQueue /\ failures' \in {failures, failures + 1}
      BY <2>5 DEF TaskReported, TaskFails
    <3> QED BY <1>0, <2>3, <3>1 DEF Busy
  <2> QED BY <1>2, <2>4, <2>5
<1> QED BY <1>1, <1>2 DEF TaskStep
LEMMA LoadStep ==
    ASSUME TypeOK, TypeOK', NoDoubleSubmit, Placed, [Next]_vars
    PROVE  \/ /\ ProcTakePending
              /\ taken' = taken + 1 /\ failures' = failures
              /\ Busy' = Busy
              /\ hand = NoSample
              /\ Load' = Load + (IF taken' = DONE THEN 0 ELSE 1)
           \/ ProcSubmit /\ Busy' = Busy + 1 /\ Load' = Load /\ UNCHANGED <<taken, failures>>
           \/ /\ ~ProcTakePending
              /\ Busy' <= Busy
              /\ taken' = taken
              /\ Load' <= Load
              /\ failures' # failures => failures' = failures + 1 /\ Load' = Load - 1
<1>0. /\ IsFiniteSet(Live) /\ Cardinality(Live) \in Nat /\ task \in [Sample -> TaskState]
      /\ cancelQueue \in Seq(Sample) /\ failures \in Nat /\ taken \in Nat /\ Busy \in Nat
      /\ hand \in Sample \cup {NoSample} /\ hand' \in Sample \cup {NoSample}
  <2>1. IsFiniteSet(Live) /\ Cardinality(Live) \in Nat
    BY LiveFinite
  <2>2. Busy \in Nat
    BY LoadType
  <2>3. taken \in Nat
    BY RolloutAssumption DEF TypeOK, DONE
  <2>4. /\ task \in [Sample -> TaskState] /\ cancelQueue \in Seq(Sample) /\ failures \in Nat
        /\ hand \in Sample \cup {NoSample} /\ hand' \in Sample \cup {NoSample}
    BY DEF TypeOK
  <2> QED BY <2>1, <2>2, <2>3, <2>4
<1>s. NoSample \notin Sample
  BY DEF Sample, NoSample
<1>1. CASE ProcTakeCancelled
  <2>1. /\ cancelQueue # <<>> /\ hand' = Head(cancelQueue) /\ cancelQueue' = Tail(cancelQueue)
        /\ stage = "fetch" /\ stage' = "limit" /\ UNCHANGED <<taken, task, failures>>
    BY <1>1 DEF ProcTakeCancelled, feedVars, taskVars
  <2>2. hand = NoSample /\ hand' \in Sample /\ Len(cancelQueue') = Len(cancelQueue) - 1
    BY <1>0, <1>s, <2>1 DEF Placed
  <2>3. Live' = Live /\ ~ProcTakePending
    BY <1>0, <2>1 DEF Live, ProcTakePending
  <2> QED BY <1>0, <2>1, <2>2, <2>3 DEF Busy, Load
<1>2. CASE ProcTakePending
  <2>1. /\ taken' = taken + 1 /\ stage = "fetch"
        /\ hand' = IF taken' = DONE THEN NoSample ELSE taken'
        /\ UNCHANGED <<cancelQueue, task, failures>>
    BY <1>2 DEF ProcTakePending, taskVars
  <2>2. hand = NoSample /\ taken' # NoSample
    BY <1>0, <2>1 DEF Placed, NoSample
  <2>3. Live' = Live
    BY <2>1 DEF Live
  <2> QED BY <1>0, <1>2, <2>1, <2>2, <2>3 DEF Busy, Load
<1>3. CASE ProcSubmit
  <2>1. /\ task' = [task EXCEPT ![hand] = "created"] /\ stage = "submit" /\ hand' = NoSample
        /\ UNCHANGED <<cancelQueue, failures, taken>>
    BY <1>3 DEF ProcSubmit, feedVars
  <2>2. hand # NoSample /\ task[hand] = "none"
    BY <2>1 DEF Placed, NoDoubleSubmit
  <2>3. Live' = Live \cup {hand} /\ hand \notin Live
    BY <1>0, <2>1, <2>2 DEF Live
  <2>4. Cardinality(Live') = Cardinality(Live) + 1
    BY <1>0, <2>3, FS_AddElement
  <2> QED BY <1>0, <1>3, <2>1, <2>2, <2>4 DEF Busy, Load
<1>4. CASE \E s \in Sample : TaskStep(s)
  <2>1. PICK s \in Sample : TaskStep(s)
    BY <1>4
  <2>2. UNCHANGED <<hand, taken>>
    BY <2>1, TaskStepShape
  <2>3. /\ Busy' <= Busy /\ Busy' \in Nat
        /\ failures' # failures => Busy' = Busy - 1 /\ failures' = failures + 1
    BY <2>1, BusyTask, LoadTypeNext
  <2>4. ~ProcTakePending
    BY <1>0, <2>2 DEF ProcTakePending
  <2>5. Busy \in Nat /\ Busy' \in Nat /\ hand' = hand
    BY <1>0, <2>2, <2>3
  <2>6. \/ Load' = Busy' /\ Load = Busy
        \/ Load' = Busy' + 1 /\ Load = Busy + 1
    BY <2>5 DEF Load, Busy, NoSample
  <2> QED BY <2>2, <2>3, <2>4, <2>5, <2>6
<1>5. CASE UNCHANGED <<cancelQueue, hand, taken, task, failures>>
  <2>1. Live' = Live /\ ~ProcTakePending
    BY <1>0, <1>5 DEF Live, ProcTakePending
  <2> QED BY <1>0, <1>5, <2>1 DEF Busy, Load
<1> QED BY <1>1, <1>2, <1>3, <1>4, <1>5, WhoMovesSamples

(* What update_param_version() counted covers all that has a task or is    *)
(* interrupted until it is written: nothing is submitted in between.       *)
Counted == control = "count" => Busy <= counted

LEMMA CountedStep ==
    TypeOK /\ TypeOK' /\ NoDoubleSubmit /\ Placed /\ LockHeld /\ Counted /\ [Next]_vars => Counted'
<1> SUFFICES ASSUME TypeOK, TypeOK', NoDoubleSubmit, Placed, LockHeld, Counted, [Next]_vars,
                    control' = "count"
             PROVE  Busy' <= counted'
  BY DEF Counted
<1>0. Busy \in Nat /\ Busy' \in Nat /\ counted \in Nat
  BY LoadType, LoadTypeNext DEF TypeOK
<1>1. CASE control = "count"
  <2>1. ~ProcSubmit
    BY <1>1 DEF LockHeld, ProcSubmit, ProcEnters
  <2>2. Busy' <= Busy
    BY <1>0, <2>1, LoadStep
  <2>3. counted' = counted
    <3>1. CASE ProcessorStep
      BY <3>1 DEF ProcessorStep, procOnly, ctlVars, ProcCheck, ProcLeaveLoop, ProcAwaitLock,
         ProcSetPaused, ProcAwaitTasks, ProcNothingToReap, ProcReap, ProcAwaitCondition,
         ProcResumed, ProcTakeCancelled, ProcAwaitPending, ProcTakePending, ProcSubmit
    <3>2. CASE Feed \/ (\E s \in Sample : TaskStep(s)) \/ MainStep
                 \/ \E c \in {"monitor", "control", "main"} : AwaitLock(c)
      BY <3>2 DEF Feed, TaskStep, TaskStart, ServerInterrupt, TaskCancelled, TaskGenerated,
         TaskReported, TaskFails, MainStep, MainSentinel, MainStop, AwaitLock, taskOnly, ctlVars
    <3>3. CASE MonitorStep
      BY <3>3 DEF MonitorStep, MonitorCheckRunning, MonitorSkip, MonitorAwaitLock,
         MonitorRecover, monitorOnly, ctlVars
    <3>4. CASE ControlStep
      BY <1>1, <3>4 DEF ControlStep, PauseCalled, UpdateCalled, ControlPause, ControlGathered,
         ControlUpdate, ControlReset, ControlPublished, ControlResume, Pausing, Updating, Resuming
    <3>5. CASE UNCHANGED vars
      BY <3>5 DEF vars, ctlVars
    <3> QED BY <3>1, <3>2, <3>3, <3>4, <3>5 DEF Next, Terminated
  <2> QED BY <1>0, <1>1, <2>2, <2>3 DEF Counted
<1>2. CASE control # "count"
  <2>1. ControlUpdate(rollVersion + 1)
    BY <1>2 DEF Next, Terminated, vars, ctlVars, procOnly, taskOnly, monitorOnly, Feed,
       ProcessorStep, ProcCheck, ProcLeaveLoop, ProcAwaitLock, ProcSetPaused, ProcAwaitTasks,
       ProcNothingToReap, ProcReap, ProcAwaitCondition, ProcResumed, ProcTakeCancelled,
       ProcAwaitPending, ProcTakePending, ProcSubmit, TaskStep, TaskStart, ServerInterrupt,
       TaskCancelled, TaskGenerated, TaskReported, TaskFails, MainStep, MainSentinel, MainStop,
       AwaitLock, MonitorStep, MonitorCheckRunning, MonitorSkip, MonitorAwaitLock, MonitorRecover,
       ControlStep, PauseCalled, UpdateCalled, ControlPause, ControlGathered, ControlReset,
       ControlPublished, ControlResume
  <2>2. /\ counted' = ActiveCount + Len(cancelQueue) /\ cancelQueue' = cancelQueue
        /\ task' = task
    BY <2>1 DEF ControlUpdate, taskVars
  <2>3. Live' = Live /\ Cardinality(Live) \in Nat
    BY <2>2, LiveFinite DEF Live
  <2>4. reapable \in Nat /\ failed \in Nat /\ Len(cancelQueue) \in Nat
    BY DEF TypeOK
  <2> QED BY <2>2, <2>3, <2>4 DEF Busy, ActiveCount
<1> QED BY <1>1, <1>2

(* A version is written to a sample when it is generated, and only then    *)
(* does its task go to report it.                                          *)
LEMMA WhoStamps ==
    ASSUME TypeOK, [Next]_vars
    PROVE  \/ \E s \in Sample : TaskGenerated(s) \/ TaskReported(s)
           \/ /\ stamp' = stamp
              /\ \A s \in Sample : task'[s] = "reporting" => task[s] = "reporting"
<1> USE DEF procOnly, feedVars, procVars, taskVars, lockVars, flagVars, ctlVars, taskOnly,
        monitorOnly
<1>0. task \in [Sample -> TaskState] /\ hand \in Sample \cup {NoSample}
  BY DEF TypeOK
<1>1. CASE ProcSubmit
  BY <1>0, <1>1 DEF ProcSubmit
<1>2. CASE \E s \in Sample : TaskStep(s)
  BY <1>0, <1>2 DEF TaskStep, TaskStart, ServerInterrupt, TaskCancelled, TaskFails
<1>3. CASE ~ProcSubmit /\ ~\E s \in Sample : TaskStep(s)
  <2>1. task' = task /\ stamp' = stamp
    <3>1. CASE ProcessorStep
      BY <1>3, <3>1 DEF ProcessorStep, ProcCheck, ProcLeaveLoop, ProcAwaitLock, ProcSetPaused,
         ProcAwaitTasks, ProcNothingToReap, ProcReap, ProcAwaitCondition, ProcResumed,
         ProcTakeCancelled, ProcAwaitPending, ProcTakePending
    <3>2. CASE ControlStep
      BY <3>2 DEF ControlStep, PauseCalled, UpdateCalled, Call, ControlPause, ControlGathered,
         ControlUpdate, ControlReset, ControlPublished, ControlResume
    <3>3. CASE MonitorStep
      BY <3>3 DEF MonitorStep, MonitorCheckRunning, MonitorSkip, MonitorAwaitLock, MonitorRecover
    <3>4. CASE Feed \/ MainStep \/ \E c \in {"monitor", "control", "main"} : AwaitLock(c)
      BY <3>4 DEF Feed, MainStep, MainSentinel, MainStop, AwaitLock
    <3> QED BY <1>3, <3>1, <3>2, <3>3, <3>4 DEF Next, Terminated, vars
  <2> QED BY <2>1
<1> QED BY <1>1, <1>2, <1>3

(* Only gather() ends a pause() call.                                      *)
LEMMA WhoGathers ==
    [Next]_vars => ControlGathered \/ control' # "paused" \/ control' = control
<1> SUFFICES ASSUME [Next]_vars
             PROVE  ControlGathered \/ control' # "paused" \/ control' = control
  OBVIOUS
<1> USE DEF procOnly, taskOnly, monitorOnly, ctlVars
<1>1. CASE ProcessorStep
  BY <1>1 DEF ProcessorStep, ProcCheck, ProcLeaveLoop, ProcAwaitLock, ProcSetPaused,
     ProcAwaitTasks, ProcNothingToReap, ProcReap, ProcAwaitCondition, ProcResumed,
     ProcTakeCancelled, ProcAwaitPending, ProcTakePending, ProcSubmit
<1>2. CASE Feed \/ MainStep \/ \E c \in {"monitor", "control", "main"} : AwaitLock(c)
  BY <1>2 DEF Feed, MainStep, MainSentinel, MainStop, AwaitLock
<1>3. CASE ControlStep
  BY <1>3 DEF ControlStep, PauseCalled, UpdateCalled, Call, ControlPause, ControlUpdate,
     ControlReset, ControlPublished, ControlResume
<1>4. CASE MonitorStep
  BY <1>4 DEF MonitorStep, MonitorCheckRunning, MonitorSkip, MonitorAwaitLock, MonitorRecover
<1>5. CASE \E s \in Sample : TaskStep(s)
  BY <1>5 DEF TaskStep, TaskStart, ServerInterrupt, TaskCancelled, TaskGenerated,
     TaskReported, TaskFails
<1>6. CASE UNCHANGED vars
  BY <1>6 DEF vars
<1> QED BY <1>1, <1>2, <1>3, <1>4, <1>5, <1>6 DEF Next, Terminated

(* staleness_samples changes by one sample taken and by the reset; the     *)
(* processor goes to fetch only when it is under the limit.                *)
LEMMA WhoStales ==
    [Next]_vars => \/ ProcTakePending
                   \/ control = "count" /\ control' = "validated" /\ stage' = stage
                   \/ /\ staleness' = staleness
                      /\ stage' = "fetch" => stage = "fetch" \/ ~(staleness >= MaxRequired)
<1> SUFFICES ASSUME [Next]_vars
             PROVE  \/ ProcTakePending
                    \/ control = "count" /\ control' = "validated" /\ stage' = stage
                    \/ /\ staleness' = staleness
                       /\ stage' = "fetch" => stage = "fetch" \/ ~(staleness >= MaxRequired)
  OBVIOUS
<1> USE DEF procVars, procOnly, taskOnly, monitorOnly, ctlVars
<1>1. CASE ProcessorStep
  BY <1>1 DEF ProcessorStep, ProcCheck, ShouldPause, ProcLeaveLoop, NextStage, ProcAwaitLock,
     ProcSetPaused, ProcAwaitTasks, ProcNothingToReap, ProcReap, ProcAwaitCondition, ProcResumed,
     ProcTakeCancelled, ProcAwaitPending, ProcSubmit, Reaping
<1>2. CASE Feed \/ (\E s \in Sample : TaskStep(s)) \/ MainStep
             \/ \E c \in {"monitor", "control", "main"} : AwaitLock(c)
  BY <1>2 DEF Feed, TaskStep, TaskStart, ServerInterrupt, TaskCancelled, TaskGenerated,
     TaskReported, TaskFails, MainStep, MainSentinel, MainStop, AwaitLock
<1>3. CASE ControlStep
  BY <1>3 DEF ControlStep, PauseCalled, UpdateCalled, Call, ControlPause, ControlGathered,
     ControlUpdate, ControlReset, ControlPublished, ControlResume
<1>4. CASE MonitorStep
  BY <1>4 DEF MonitorStep, MonitorCheckRunning, MonitorSkip, MonitorAwaitLock, MonitorRecover
<1>5. CASE UNCHANGED vars
  BY <1>5 DEF vars
<1> QED BY <1>1, <1>2, <1>3, <1>4, <1>5 DEF Next, Terminated

-----------------------------------------------------------------------------
(* The samples the rollouter has: each is in one place of it, comes from   *)
(* pending_queue and leaves by being reported or failing.                  *)
Rolling ==
    Live \cup ({hand} \ {NoSample}) \cup {cancelQueue[i] : i \in 1..Len(cancelQueue)}

LEMMA RollingTaken ==
    ASSUME TypeOK, NoDoubleSubmit
    PROVE  Rolling \subseteq Sample /\ \A s \in Rolling : s <= taken
<1>1. cancelQueue \in Seq(Sample) /\ hand \in Sample \cup {NoSample}
  BY DEF TypeOK
<1> QED BY <1>1 DEF NoDoubleSubmit, Rolling, Live

LEMMA RollingStep ==
    ASSUME TypeOK, TypeOK', NoDoubleSubmit, Placed, [Next]_vars
    PROVE  \/ /\ taken' = taken + 1 /\ taken' \in 1..DONE
              /\ Rolling' = Rolling \cup ({taken'} \ {DONE})
           \/ \E s \in Rolling : /\ taken' = taken /\ Rolling' = Rolling \ {s}
                                 /\ task'[s] = "none"
                                 /\ task[s] = "reporting" \/ TaskFails(s)
           \/ taken' = taken /\ Rolling' = Rolling
<1> DEFINE Cancelled == {cancelQueue[i] : i \in 1..Len(cancelQueue)}
           Held == {hand} \ {NoSample}
<1>0. Rolling = Live \cup Held \cup Cancelled /\ Rolling' = Live' \cup Held' \cup Cancelled'
  BY DEF Rolling
<1>1. /\ cancelQueue \in Seq(Sample) /\ task \in [Sample -> TaskState] /\ taken \in Nat
      /\ hand \in Sample \cup {NoSample} /\ NoSample \notin Sample /\ taken' \in 0..DONE
      /\ TotalSamples \in Nat
  BY RolloutAssumption DEF TypeOK, Sample, NoSample, DONE
<1>2. CASE ProcTakeCancelled
  <2>1. /\ cancelQueue # <<>> /\ hand' = Head(cancelQueue) /\ cancelQueue' = Tail(cancelQueue)
        /\ taken' = taken /\ task' = task /\ hand = NoSample
    BY <1>2 DEF ProcTakeCancelled, GetCancelled, feedVars, taskVars, Placed
  <2> DEFINE rest == Tail(cancelQueue)
             Rest == {rest[i] : i \in 1..Len(rest)}
  <2>2. Cancelled = {Head(cancelQueue)} \cup Rest
    <3>1. /\ Head(cancelQueue) = cancelQueue[1] /\ 1 \in 1..Len(cancelQueue)
          /\ Len(rest) \in Nat /\ Len(cancelQueue) = Len(rest) + 1
          /\ \A i \in 1..Len(rest) : rest[i] = cancelQueue[i + 1]
      BY <1>1, <2>1
    <3> HIDE DEF rest
    <3>2. \A i \in 1..Len(rest) : i + 1 \in 1..Len(cancelQueue)
      BY <3>1
    <3>3. ASSUME NEW i \in 1..Len(cancelQueue), i # 1
          PROVE  \E j \in 1..Len(rest) : cancelQueue[i] = rest[j]
      <4>1. i - 1 \in 1..Len(rest) /\ i = (i - 1) + 1
        BY <3>1, <3>3
      <4>2. rest[i - 1] = cancelQueue[i]
        BY <3>1, <4>1
      <4> QED BY <4>1, <4>2
    <3>4. Cancelled \subseteq {Head(cancelQueue)} \cup Rest
      BY <3>1, <3>3
    <3>5. Rest \subseteq Cancelled
      BY <3>1, <3>2
    <3> QED BY <3>1, <3>4, <3>5
  <2>3. Head(cancelQueue) \in Sample
    BY <1>1, <2>1
  <2>4. Held = {} /\ Held' = {Head(cancelQueue)} /\ Live' = Live
    BY <1>1, <2>1, <2>3 DEF Live
  <2>5. Cancelled' = Rest
    BY <2>1
  <2> HIDE DEF Held, Cancelled, Rest
  <2>6. Rolling' = Rolling
    BY <1>0, <2>2, <2>4, <2>5
  <2> QED BY <2>1, <2>6
<1>3. CASE ProcTakePending
  <2>1. /\ taken' = taken + 1 /\ task' = task /\ cancelQueue' = cancelQueue /\ hand = NoSample
        /\ hand' = IF taken' = DONE THEN NoSample ELSE taken'
    BY <1>3 DEF ProcTakePending, IsDone, taskVars, Placed
  <2>2. Held = {} /\ Live' = Live /\ Cancelled' = Cancelled
    BY <2>1 DEF Live
  <2>3. taken' \in 1..DONE
    <3>1. taken' # 0
      BY <1>1, <2>1
    <3> QED BY <1>1, <3>1 DEF DONE
  <2>4. Held' = {taken'} \ {DONE}
    BY <2>1, <2>3 DEF NoSample, DONE
  <2> QED BY <1>0, <2>1, <2>2, <2>3, <2>4
<1>4. CASE ProcSubmit
  <2>1. /\ task' = [task EXCEPT ![hand] = "created"] /\ hand' = NoSample /\ hand # NoSample
        /\ cancelQueue' = cancelQueue /\ taken' = taken
    BY <1>4 DEF ProcSubmit, Placed, feedVars
  <2>2. Live' = Live \cup {hand} /\ Held' = {} /\ Held = {hand} /\ Cancelled' = Cancelled
    BY <1>1, <2>1 DEF Live
  <2> QED BY <1>0, <2>1, <2>2
<1>5. CASE \E s \in Sample : TaskStep(s)
  <2>1. PICK s \in Sample : TaskStep(s)
    BY <1>5
  <2>2. s \in Live /\ taken' = taken /\ Held' = Held
    BY <2>1, TaskStepShape
  <2>3. CASE /\ cancelQueue' = cancelQueue
             /\ \E t \in TaskState \ {"none"} : task' = [task EXCEPT ![s] = t]
    <3>1. Live' = Live
      BY <1>1, <2>2, <2>3 DEF Live
    <3> QED BY <1>0, <2>2, <2>3, <3>1
  <2>4. CASE TaskCancelled(s)
    <3>1. cancelQueue' = Append(cancelQueue, s) /\ task' = [task EXCEPT ![s] = "none"]
      BY <2>4 DEF TaskCancelled, PutBack
    <3>2. Cancelled' = Cancelled \cup {s}
      <4>1. /\ Len(cancelQueue') = Len(cancelQueue) + 1 /\ Len(cancelQueue) \in Nat
            /\ cancelQueue'[Len(cancelQueue) + 1] = s
            /\ \A i \in 1..Len(cancelQueue) : cancelQueue'[i] = cancelQueue[i]
        BY <1>1, <3>1
      <4>2. 1..Len(cancelQueue') = 1..Len(cancelQueue) \cup {Len(cancelQueue) + 1}
        BY <4>1
      <4> QED BY <4>1, <4>2
    <3>3. Live' = Live \ {s}
      BY <1>1, <3>1 DEF Live
    <3> HIDE DEF Cancelled, Held
    <3>4. Live' \cup Held' \cup Cancelled' = Live \cup Held \cup Cancelled
      BY <2>2, <3>2, <3>3
    <3> QED BY <1>0, <2>2, <3>4
  <2>5. CASE TaskReported(s) \/ TaskFails(s)
    <3>1. /\ cancelQueue' = cancelQueue /\ task' = [task EXCEPT ![s] = "none"]
          /\ task[s] = "reporting" \/ TaskFails(s)
      BY <2>5 DEF TaskReported, TaskFails, taskOnly
    <3>2. Live' = Live \ {s} /\ Cancelled' = Cancelled /\ task'[s] = "none"
      BY <1>1, <3>1 DEF Live
    <3>3. s \notin Held /\ s \notin Cancelled
      BY <2>2 DEF NoDoubleSubmit, Live
    <3>4. Rolling' = Rolling \ {s} /\ s \in Rolling
      BY <1>0, <2>2, <3>2, <3>3
    <3> QED BY <2>2, <3>1, <3>2, <3>4
  <2> QED BY <1>1, <2>1, <2>3, <2>4, <2>5 DEF TaskStep, TaskStart, ServerInterrupt,
             TaskGenerated, taskOnly, TaskState
<1>6. CASE UNCHANGED <<cancelQueue, hand, taken, task, failures>>
  BY <1>6 DEF Rolling, Live
<1> QED BY <1>2, <1>3, <1>4, <1>5, <1>6, WhoMovesSamples

-----------------------------------------------------------------------------
(* The lock, and who is where in the queue for it.                         *)

(* A step leaves the lock alone, queues a coroutine for it that asks for   *)
(* it, or is that of a coroutine that has entered: it keeps the lock or    *)
(* releases it.                                                            *)
LockMoves ==
    \/ UNCHANGED lockVars /\ (control' = "idle" => control = "idle")
    \/ \E c \in Coroutine : /\ Enqueue(c) /\ control' = control
                            /\ c = "control" => control # "idle"
    \/ \E c \in Coroutine : /\ Enters(c)
                            /\ Release \/ Keep(c)
                            /\ c = "monitor" => monitor' # "recover"
                            /\ control' = "idle" => control = "idle" \/ (c = "control" /\ Release)
                            /\ c = "control" => Release \/ control' # "idle"

LEMMA LockMovesStep == LockHeld /\ [Next]_vars => LockMoves
<1> SUFFICES ASSUME LockHeld, [Next]_vars PROVE LockMoves
  OBVIOUS
<1> USE DEF procVars, lockVars, ctlVars, procOnly, taskOnly, monitorOnly, Coroutine
<1>1. CASE ProcReap \/ ProcAwaitTasks
  <2>1. /\ Enters("processor") /\ control' = control
        /\ Release \/ Keep("processor")
    BY <1>1 DEF ProcReap, ProcAwaitTasks, ProcEnters, Enters, LockHeld
  <2> QED BY <2>1 DEF LockMoves
<1>2. CASE ProcSetPaused \/ ProcNothingToReap \/ ProcAwaitCondition \/ ProcResumed \/ ProcSubmit
  BY <1>2 DEF ProcSetPaused, ProcNothingToReap, ProcAwaitCondition, ProcResumed, ProcSubmit,
     ProcEnters, Enters, LockMoves
<1>3. CASE ProcLeaveLoop \/ (\E size \in 0..MaxRequired : ProcCheck(size))
             \/ ProcAwaitLock \/ ProcTakeCancelled \/ ProcAwaitPending \/ ProcTakePending
  BY <1>3 DEF ProcLeaveLoop, ProcCheck, ProcAwaitLock, ProcTakeCancelled, ProcAwaitPending,
     ProcTakePending, LockMoves
<1>4. CASE Feed \/ (\E s \in Sample : TaskStep(s)) \/ MainStep
  BY <1>4 DEF Feed, TaskStep, TaskStart, ServerInterrupt, TaskCancelled, TaskGenerated,
     TaskReported, TaskFails, MainStep, MainSentinel, MainStop, LockMoves
<1>5. CASE \E c \in {"monitor", "control", "main"} : AwaitLock(c)
  BY <1>5 DEF AwaitLock, Pausing, Updating, Resuming, LockMoves
<1>6. CASE ControlStep
  <2>1. CASE PauseCalled \/ UpdateCalled \/ \E size \in 0..MaxRequired : ControlReset(size)
    BY <2>1 DEF PauseCalled, UpdateCalled, ControlReset, LockMoves
  <2>2. CASE ControlPause \/ ControlUpdate(rollVersion + 1)
    BY <2>2 DEF ControlPause, ControlUpdate, LockMoves
  <2>3. CASE ControlGathered \/ ControlPublished \/ ControlResume
    <3>1. Enters("control") /\ Release
      BY <2>3 DEF ControlGathered, ControlPublished, ControlResume, Enters, LockHeld
    <3> QED BY <3>1 DEF LockMoves
  <2> QED BY <1>6, <2>1, <2>2, <2>3 DEF ControlStep
<1>7. CASE MonitorStep
  BY <1>7 DEF MonitorStep, MonitorCheckRunning, MonitorSkip, MonitorAwaitLock, MonitorRecover,
     Enters, LockMoves
<1>8. CASE UNCHANGED vars
  BY <1>8 DEF vars, LockMoves
<1> QED BY <1>1, <1>2, <1>3, <1>4, <1>5, <1>6, <1>7, <1>8 DEF Next, ProcessorStep, Terminated

(* A free lock has no waiters; the synchronization's calls are queued for  *)
(* it at most once, and neither hold nor await it between two of them.     *)
Owned ==
    /\ holder = "none" => waiters = <<>>
    /\ holder = "control" => ~Queued("control")
    /\ \A i, j \in 1..Len(waiters) : waiters[i] = "control" /\ waiters[j] = "control" => i = j
    /\ control = "idle" => holder # "control" /\ ~Queued("control")

(* What a release does to the queue.                                       *)
LEMMA ReleaseMoves ==
    ASSUME TypeOK, Release, waiters # <<>>
    PROVE  /\ holder' = waiters[1] /\ 1 \in 1..Len(waiters)
           /\ Len(waiters') \in Nat /\ Len(waiters) = Len(waiters') + 1
           /\ \A i \in 1..Len(waiters') : /\ waiters'[i] = waiters[i + 1]
                                          /\ i + 1 \in 1..Len(waiters) /\ i + 1 # 1
<1>1. waiters \in Seq(Coroutine)
  BY DEF TypeOK
<1>2. /\ holder' = waiters[1] /\ waiters' = Tail(waiters) /\ Len(waiters) \in Nat \ {0}
  BY <1>1 DEF Release
<1>3. /\ Len(waiters') = Len(waiters) - 1
      /\ \A i \in 1..Len(waiters') : waiters'[i] = waiters[i + 1]
  BY <1>1, <1>2
<1>4. PICK n \in Nat : n = Len(waiters') /\ Len(waiters) = n + 1
  <2>1. Len(waiters) - 1 \in Nat /\ Len(waiters) = (Len(waiters) - 1) + 1
    BY <1>2
  <2> QED BY <1>3, <2>1
<1>5. 1 \in 1..(n + 1) /\ \A i \in 1..n : i + 1 \in 1..(n + 1) /\ i + 1 # 1
  OBVIOUS
<1> QED BY <1>2, <1>3, <1>4, <1>5

LEMMA EnqueueMoves ==
    ASSUME TypeOK, NEW c \in Coroutine, Enqueue(c)
    PROVE  /\ holder' = holder /\ holder # "none" /\ holder # c /\ ~Queued(c)
           /\ Len(waiters) \in Nat /\ Len(waiters') = Len(waiters) + 1
           /\ waiters'[Len(waiters) + 1] = c
           /\ \A i \in 1..Len(waiters) : waiters'[i] = waiters[i]
           /\ 1..Len(waiters') = 1..Len(waiters) \cup {Len(waiters) + 1}
<1>1. waiters \in Seq(Coroutine)
  BY DEF TypeOK
<1>2. waiters' = Append(waiters, c) /\ holder' = holder /\ ~Queued(c) /\ holder \notin {"none", c}
  BY DEF Enqueue, Enters
<1>3. /\ Len(waiters) \in Nat /\ Len(waiters') = Len(waiters) + 1
      /\ waiters'[Len(waiters) + 1] = c
      /\ \A i \in 1..Len(waiters) : waiters'[i] = waiters[i]
  BY <1>1, <1>2
<1>4. PICK n \in Nat : n = Len(waiters) /\ Len(waiters') = n + 1
  BY <1>3
<1>5. 1..(n + 1) = 1..n \cup {n + 1}
  BY <1>4
<1> QED BY <1>2, <1>3, <1>4, <1>5

LEMMA OwnedStep == TypeOK /\ LockHeld /\ Owned /\ [Next]_vars => Owned'
<1> SUFFICES ASSUME TypeOK, LockHeld, Owned, [Next]_vars PROVE Owned'
  OBVIOUS
<1>1. CASE UNCHANGED lockVars /\ (control' = "idle" => control = "idle")
  BY <1>1 DEF Owned, Queued, lockVars
<1>2. CASE \E c \in Coroutine : /\ Enqueue(c) /\ control' = control
                                /\ c = "control" => control # "idle"
  <2>1. PICK c \in Coroutine : /\ Enqueue(c) /\ control' = control
                               /\ c = "control" => control # "idle"
    BY <1>2
  <2>2. /\ holder' = holder /\ holder # "none" /\ holder # c /\ ~Queued(c)
        /\ waiters'[Len(waiters) + 1] = c
        /\ \A i \in 1..Len(waiters) : waiters'[i] = waiters[i]
        /\ 1..Len(waiters') = 1..Len(waiters) \cup {Len(waiters) + 1}
    BY <2>1, EnqueueMoves
  <2>3. \A i \in 1..Len(waiters') :
           waiters'[i] = "control" => \/ i \in 1..Len(waiters) /\ waiters[i] = "control"
                                      \/ i = Len(waiters) + 1 /\ c = "control"
    BY <2>2
  <2>4. holder' = "control" \/ control' = "idle" => ~Queued("control")'
    BY <2>1, <2>2, <2>3 DEF Owned, Queued
  <2>5. \A i, j \in 1..Len(waiters') : waiters'[i] = "control" /\ waiters'[j] = "control" => i = j
    BY <2>2, <2>3 DEF Owned, Queued
  <2> QED BY <2>1, <2>2, <2>4, <2>5 DEF Owned
<1>3. CASE \E c \in Coroutine :
              /\ Enters(c)
              /\ Release \/ Keep(c)
              /\ c = "monitor" => monitor' # "recover"
              /\ control' = "idle" => control = "idle" \/ (c = "control" /\ Release)
              /\ c = "control" => Release \/ control' # "idle"
  <2>1. PICK c \in Coroutine :
              /\ Enters(c)
              /\ Release \/ Keep(c)
              /\ control' = "idle" => control = "idle" \/ (c = "control" /\ Release)
              /\ c = "control" => Release \/ control' # "idle"
    BY <1>3
  <2>2. CASE Keep(c) /\ ~Release
    BY <2>1, <2>2 DEF Keep, Enters, Owned, Queued, Coroutine
  <2>3. CASE Release /\ waiters = <<>>
    BY <2>3 DEF Release, Owned, Queued
  <2>4. CASE Release /\ waiters # <<>>
    <3>1. /\ holder' = waiters[1] /\ 1 \in 1..Len(waiters)
          /\ \A i \in 1..Len(waiters') : /\ waiters'[i] = waiters[i + 1]
                                         /\ i + 1 \in 1..Len(waiters) /\ i + 1 # 1
      BY <2>4, ReleaseMoves
    <3>2. holder' = "control" => ~Queued("control")'
      BY <3>1 DEF Owned, Queued
    <3>3. ~Queued("control") => holder' # "control" /\ ~Queued("control")'
      BY <3>1 DEF Queued
    <3>4. control' = "idle" => ~Queued("control")
      BY <2>1, <2>4 DEF Owned, Enters, Queued
    <3>5. holder' # "none"
      BY <3>1 DEF TypeOK, Coroutine
    <3>6. ASSUME NEW i \in 1..Len(waiters'), NEW j \in 1..Len(waiters'),
                 waiters'[i] = "control", waiters'[j] = "control"
          PROVE  i = j
      <4>1. i + 1 = j + 1
        BY <3>1, <3>6 DEF Owned
      <4> QED BY <4>1
    <3> QED BY <3>2, <3>3, <3>4, <3>5, <3>6 DEF Owned
  <2> QED BY <2>1, <2>2, <2>3, <2>4
<1> QED BY <1>1, <1>2, <1>3, LockMovesStep DEF LockMoves

(* A monitor that waits for the lock is ahead of the synchronization.      *)
MonitorFirst ==
    monitor = "recover" =>
        /\ holder \notin {"none", "control"}
        /\ \/ holder = "monitor"
           \/ \E i \in 1..Len(waiters) : /\ waiters[i] = "monitor"
                                         /\ \A j \in 1..i : waiters[j] # "control"

LEMMA WhoRecovers ==
    [Next]_vars => \/ \E size \in 0..MaxRequired : MonitorAwaitLock(size)
                   \/ monitor' # "recover"
                   \/ monitor' = monitor
<1> SUFFICES ASSUME [Next]_vars
             PROVE  \/ \E size \in 0..MaxRequired : MonitorAwaitLock(size)
                    \/ monitor' # "recover"
                    \/ monitor' = monitor
  OBVIOUS
<1> USE DEF procOnly, taskOnly
<1>1. CASE ProcessorStep
  BY <1>1 DEF ProcessorStep, ProcCheck, ProcLeaveLoop, ProcAwaitLock, ProcSetPaused,
     ProcAwaitTasks, ProcNothingToReap, ProcReap, ProcAwaitCondition, ProcResumed,
     ProcTakeCancelled, ProcAwaitPending, ProcTakePending, ProcSubmit
<1>2. CASE Feed \/ (\E s \in Sample : TaskStep(s)) \/ MainStep
             \/ \E c \in {"monitor", "control", "main"} : AwaitLock(c)
  BY <1>2 DEF Feed, TaskStep, TaskStart, ServerInterrupt, TaskCancelled, TaskGenerated,
     TaskReported, TaskFails, MainStep, MainSentinel, MainStop, AwaitLock
<1>3. CASE ControlStep
  BY <1>3 DEF ControlStep, PauseCalled, UpdateCalled, Call, ControlPause, ControlGathered,
     ControlUpdate, ControlReset, ControlPublished, ControlResume
<1>4. CASE MonitorStep
  BY <1>4 DEF MonitorStep, MonitorCheckRunning, MonitorSkip, MonitorRecover
<1>5. CASE UNCHANGED vars
  BY <1>5 DEF vars
<1> QED BY <1>1, <1>2, <1>3, <1>4, <1>5 DEF Next, Terminated

(* It stays ahead, the lock being first come, first served, if it asks for *)
(* it between two synchronizations.                                        *)
LEMMA MonitorFirstStep ==
    ASSUME TypeOK, LockHeld, Owned, MonitorFirst, [Next]_vars,
           (\E size \in 0..MaxRequired : MonitorAwaitLock(size)) => control = "idle"
    PROVE  MonitorFirst'
<1> SUFFICES ASSUME monitor' = "recover"
             PROVE  /\ holder' \notin {"none", "control"}
                    /\ \/ holder' = "monitor"
                       \/ \E i \in 1..Len(waiters') : /\ waiters'[i] = "monitor"
                                                      /\ \A j \in 1..i : waiters'[j] # "control"
  BY DEF MonitorFirst
<1>1. CASE \E size \in 0..MaxRequired : MonitorAwaitLock(size)
  <2>1. Enqueue("monitor") /\ control = "idle" /\ "monitor" \in Coroutine
    BY <1>1 DEF MonitorAwaitLock, Coroutine
  <2>2. /\ holder' = holder /\ holder # "none"
        /\ Len(waiters) \in Nat /\ waiters'[Len(waiters) + 1] = "monitor"
        /\ \A i \in 1..Len(waiters) : waiters'[i] = waiters[i]
        /\ 1..Len(waiters') = 1..Len(waiters) \cup {Len(waiters) + 1}
    BY <2>1, EnqueueMoves
  <2>3. holder # "control" /\ \A i \in 1..Len(waiters) : waiters[i] # "control"
    BY <2>1 DEF Owned, Queued
  <2>4. \A j \in 1..(Len(waiters) + 1) : waiters'[j] # "control"
    <3>1. \A j \in 1..(Len(waiters) + 1) : j \in 1..Len(waiters) \/ j = Len(waiters) + 1
      BY <2>2
    <3> QED BY <2>2, <2>3, <3>1
  <2> QED BY <2>2, <2>3, <2>4
<1>2. CASE monitor' = monitor
  <2>0. /\ holder \notin {"none", "control"}
        /\ \/ holder = "monitor"
           \/ \E i \in 1..Len(waiters) : /\ waiters[i] = "monitor"
                                         /\ \A j \in 1..i : waiters[j] # "control"
    BY <1>2 DEF MonitorFirst
  <2>1. CASE UNCHANGED lockVars
    BY <2>0, <2>1 DEF lockVars
  <2>2. CASE \E c \in Coroutine : Enqueue(c)
    <3>1. PICK c \in Coroutine : Enqueue(c)
      BY <2>2
    <3>2. /\ holder' = holder /\ Len(waiters) \in Nat
          /\ \A i \in 1..Len(waiters) : waiters'[i] = waiters[i]
          /\ 1..Len(waiters') = 1..Len(waiters) \cup {Len(waiters) + 1}
      BY <3>1, EnqueueMoves
    <3>3. \A i \in 1..Len(waiters) : \A j \in 1..i : j \in 1..Len(waiters)
      BY <3>2
    <3> QED BY <2>0, <3>2, <3>3
  <2>3. CASE \E c \in Coroutine : Enters(c) /\ (Release \/ Keep(c)) /\ c # "monitor"
    <3>1. PICK c \in Coroutine : Enters(c) /\ (Release \/ Keep(c)) /\ c # "monitor"
      BY <2>3
    <3>2. holder = c /\ holder # "monitor"
      BY <2>0, <3>1 DEF Enters
    <3>3. PICK i \in 1..Len(waiters) : /\ waiters[i] = "monitor"
                                       /\ \A j \in 1..i : waiters[j] # "control"
      BY <2>0, <3>2
    <3>4. CASE Keep(c)
      BY <2>0, <3>2, <3>3, <3>4 DEF Keep
    <3>5. CASE Release
      <4>1. waiters # <<>>
        BY <3>3
      <4>2. /\ holder' = waiters[1] /\ Len(waiters') \in Nat
            /\ Len(waiters) = Len(waiters') + 1
            /\ \A k \in 1..Len(waiters') : waiters'[k] = waiters[k + 1]
        BY <3>5, <4>1, ReleaseMoves
      <4>3. 1 \in 1..i /\ i \in Nat \ {0}
        BY <3>3
      <4>4. holder' \notin {"none", "control"}
        <5>1. waiters[1] \in Coroutine
          <6>1. waiters \in Seq(Coroutine) /\ 1 \in 1..Len(waiters)
            BY <4>2 DEF TypeOK
          <6> QED BY <6>1
        <5> QED BY <3>3, <4>2, <4>3, <5>1 DEF Coroutine
      <4>5. CASE i = 1
        BY <3>3, <4>2, <4>4, <4>5
      <4>6. CASE i # 1
        <5>1. PICK k \in 1..Len(waiters') : i = k + 1
          <6>1. i - 1 \in 1..Len(waiters') /\ i = (i - 1) + 1
            BY <4>2, <4>3, <4>6
          <6> QED BY <6>1
        <5>2. waiters'[k] = "monitor"
          BY <3>3, <4>2, <5>1
        <5>3. ASSUME NEW j \in 1..k PROVE waiters'[j] # "control"
          <6>1. j + 1 \in 1..i /\ j \in 1..Len(waiters')
            BY <4>2, <5>1
          <6> QED BY <3>3, <4>2, <6>1
        <5> QED BY <4>4, <5>2, <5>3
      <4> QED BY <4>5, <4>6
    <3> QED BY <3>1, <3>4, <3>5
  <2> QED BY <2>1, <2>2, <2>3, LockMovesStep DEF LockMoves
<1> QED BY <1>1, <1>2, WhoRecovers

-----------------------------------------------------------------------------
(* From pause() to resume(): the servers are paused in between and at no   *)
(* other time, and the monitor is told not to recover once pause() has     *)
(* gathered.                                                               *)
Between == {"gather", "paused", "update", "count", "validated", "resume"}
Submitting == {"fetch", "limit", "submit"}

LEMMA WhoPauses ==
    [Next]_vars => \/ ControlPause \/ ControlResume
                   \/ /\ serverPaused' = serverPaused
                      /\ control' \in Between <=> control \in Between
                      /\ \/ paused' \in {paused, TRUE}
                         \/ \E size \in 0..MaxRequired : MonitorRecover(size)
                      /\ stage' \in Submitting => stage \in Submitting \/ ~paused
<1> SUFFICES ASSUME [Next]_vars
             PROVE  \/ ControlPause \/ ControlResume
                    \/ /\ serverPaused' = serverPaused
                       /\ control' \in Between <=> control \in Between
                       /\ \/ paused' \in {paused, TRUE}
                          \/ \E size \in 0..MaxRequired : MonitorRecover(size)
                       /\ stage' \in Submitting => stage \in Submitting \/ ~paused
  OBVIOUS
<1> USE DEF procVars, flagVars, ctlVars, procOnly, taskOnly, monitorOnly
<1>1. CASE ProcessorStep
  <2>1. CASE ProcLeaveLoop
    BY <2>1 DEF ProcLeaveLoop, Submitting, NextStage, Reaping
  <2>2. CASE ProcSetPaused
    BY <2>2 DEF ProcSetPaused, Submitting
  <2>3. CASE ~ProcLeaveLoop /\ ~ProcSetPaused
    BY <1>1, <2>3 DEF ProcessorStep, ProcCheck, ProcAwaitLock, ProcAwaitTasks,
       ProcNothingToReap, ProcReap, ProcAwaitCondition, ProcResumed, ProcTakeCancelled,
       ProcAwaitPending, ProcTakePending, ProcSubmit, Submitting
  <2> QED BY <2>1, <2>2, <2>3
<1>2. CASE Feed \/ (\E s \in Sample : TaskStep(s)) \/ MainStep
             \/ \E c \in {"monitor", "control", "main"} : AwaitLock(c)
  BY <1>2 DEF Feed, TaskStep, TaskStart, ServerInterrupt, TaskCancelled, TaskGenerated,
     TaskReported, TaskFails, MainStep, MainSentinel, MainStop, AwaitLock
<1>3. CASE ControlStep
  BY <1>3 DEF ControlStep, PauseCalled, UpdateCalled, Call, ControlGathered, ControlUpdate,
     ControlReset, ControlPublished, Between, Updating
<1>4. CASE MonitorStep
  <2>1. UNCHANGED <<serverPaused, control, stage>>
    BY <1>4 DEF MonitorStep, MonitorCheckRunning, MonitorSkip, MonitorAwaitLock, MonitorRecover
  <2>2. paused' = paused \/ \E size \in 0..MaxRequired : MonitorRecover(size)
    BY <1>4 DEF MonitorStep, MonitorCheckRunning, MonitorSkip, MonitorAwaitLock
  <2> QED BY <2>1, <2>2
<1>5. CASE UNCHANGED vars
  BY <1>5 DEF vars
<1> QED BY <1>1, <1>2, <1>3, <1>4, <1>5 DEF Next, Terminated

Untriggered == control \in Between \ {"gather"} => ~trigger

LEMMA UntriggeredStep == Untriggered /\ [Next]_vars => Untriggered'
<1> SUFFICES ASSUME Untriggered, [Next]_vars PROVE Untriggered'
  OBVIOUS
<1> USE DEF flagVars, ctlVars, procOnly, taskOnly, monitorOnly, Untriggered, Between
<1>1. CASE ProcessorStep
  BY <1>1 DEF ProcessorStep, ProcCheck, ProcLeaveLoop, ProcAwaitLock, ProcSetPaused,
     ProcAwaitTasks, ProcNothingToReap, ProcReap, ProcAwaitCondition, ProcResumed,
     ProcTakeCancelled, ProcAwaitPending, ProcTakePending, ProcSubmit
<1>2. CASE Feed \/ (\E s \in Sample : TaskStep(s)) \/ MainStep
             \/ \E c \in {"monitor", "control", "main"} : AwaitLock(c)
  BY <1>2 DEF Feed, TaskStep, TaskStart, ServerInterrupt, TaskCancelled, TaskGenerated,
     TaskReported, TaskFails, MainStep, MainSentinel, MainStop, AwaitLock
<1>3. CASE ControlStep
  BY <1>3 DEF ControlStep, PauseCalled, UpdateCalled, Call, ControlPause, ControlGathered,
     ControlUpdate, ControlReset, ControlPublished, ControlResume, Updating
<1>4. CASE MonitorStep
  BY <1>4 DEF MonitorStep, MonitorCheckRunning, MonitorSkip, MonitorAwaitLock, MonitorRecover
<1>5. CASE UNCHANGED vars
  BY <1>5 DEF vars
<1> QED BY <1>1, <1>2, <1>3, <1>4, <1>5 DEF Next, Terminated

(* The processor finishes when it has taken the marker, and takes no more. *)
Drained == stage \in {"finish", "done"} => taken = DONE

LEMMA DrainedStep == Drained /\ [Next]_vars => Drained'
<1> SUFFICES ASSUME Drained, [Next]_vars PROVE Drained'
  OBVIOUS
<1> USE DEF feedVars, procVars, procOnly, taskOnly, monitorOnly, Drained
<1>1. CASE ProcTakePending
  BY <1>1 DEF ProcTakePending, DONE
<1>2. CASE ProcLeaveLoop
  BY <1>2 DEF ProcLeaveLoop, NextStage, Reaping, DONE
<1>3. CASE ProcessorStep /\ ~ProcTakePending /\ ~ProcLeaveLoop
  BY <1>3 DEF ProcessorStep, ProcCheck, ProcAwaitLock, ProcSetPaused, ProcAwaitTasks,
     ProcNothingToReap, ProcReap, ProcAwaitCondition, ProcResumed, ProcTakeCancelled,
     ProcAwaitPending, ProcSubmit, DONE
<1>4. CASE Feed \/ (\E s \in Sample : TaskStep(s)) \/ MainStep
             \/ \E c \in {"monitor", "control", "main"} : AwaitLock(c)
  BY <1>4 DEF Feed, TaskStep, TaskStart, ServerInterrupt, TaskCancelled, TaskGenerated,
     TaskReported, TaskFails, MainStep, MainSentinel, MainStop, AwaitLock, DONE
<1>5. CASE ControlStep
  BY <1>5 DEF ControlStep, PauseCalled, UpdateCalled, Call, ControlPause, ControlGathered,
     ControlUpdate, ControlReset, ControlPublished, ControlResume, DONE
<1>6. CASE MonitorStep
  BY <1>6 DEF MonitorStep, MonitorCheckRunning, MonitorSkip, MonitorAwaitLock, MonitorRecover,
     DONE
<1>7. CASE UNCHANGED vars
  BY <1>7 DEF vars, DONE
<1> QED BY <1>1, <1>2, <1>3, <1>4, <1>5, <1>6, <1>7 DEF Next, Terminated

=============================================================================
