---------------------------- MODULE MessageQueue ----------------------------
(***************************************************************************)
(* The MessageQueue actor of fully_async_policy/message_queue.py.          *)
(*                                                                         *)
(* Every method runs under self._lock and awaits nothing while it holds    *)
(* it, except get_sample, whose Condition.wait releases it.  So each       *)
(* method is one atomic step, and a get that finds the queue empty is two: *)
(* it parks in the condition's wait set and, once notified, tests again.   *)
(* get_queue_size, get_statistics and get_memory_usage change nothing.     *)
(*                                                                         *)
(* Standing alone, the module closes the actor with an environment that    *)
(* calls its methods in any order.  FullyAsync instantiates it and decides *)
(* who calls what.                                                         *)
(***************************************************************************)
EXTENDS Integers, Sequences

CONSTANTS Consumer,       \* callers of get_sample
          MaxQueueSize,   \* self.max_queue_size
          MaxPuts,        \* bound: samples put in a behaviour
          MaxVersion      \* bound: calls of update_param_version

ASSUME QueueAssumption ==
    /\ MaxQueueSize \in Nat \ {0}
    /\ MaxPuts \in Nat
    /\ MaxVersion \in Nat

VARIABLES queue,          \* self.queue
          valQueue,       \* self.val_queue
          paramVersion,   \* self.current_param_version
          open,           \* self.running
          produced,       \* self.total_produced
          consumed,       \* self.total_consumed
          dropped,        \* self.dropped_samples
          cleared,        \* sum of clear_queue's cleared_count, which the code only logs
          getter          \* what each caller of get_sample is doing

counters == <<produced, consumed, dropped, cleared>>
vars == <<queue, valQueue, paramVersion, open, counters, getter>>

GetterState == {"idle", "waiting", "notified"}

InitWith(validations) ==
    /\ queue = <<>>
    /\ valQueue = validations
    /\ paramVersion = 0
    /\ open = TRUE
    /\ produced = 0
    /\ consumed = 0
    /\ dropped = 0
    /\ cleared = 0
    /\ getter = [c \in Consumer |-> "idle"]

Init == InitWith(<<>>)

-----------------------------------------------------------------------------
(* The methods.                                                            *)

(* Mutant: notify() instead of notify_all(). *)
NotifyOne ==
    getter' = IF \E c \in Consumer : getter[c] = "waiting"
              THEN [getter EXCEPT ![CHOOSE c \in Consumer : getter[c] = "waiting"] = "notified"]
              ELSE getter

(* self._consumer_condition.notify_all() *)
NotifyAll ==
    getter' = [c \in Consumer |->
                 IF getter[c] = "waiting" THEN "notified" ELSE getter[c]]

(* Mutant: > for >=. *)
IsFullLate == Len(queue) > MaxQueueSize

IsFull == Len(queue) >= MaxQueueSize

(* Mutant: makes room at the wrong end. *)
MakeRoomNewest == IF IsFull THEN SubSeq(queue, 1, Len(queue) - 1) ELSE queue

(* put_sample(sample) makes room by dropping the oldest sample. *)
MakeRoom == IF IsFull THEN Tail(queue) ELSE queue

PutSample(sample) ==
    /\ queue' = Append(MakeRoom, sample)
    /\ dropped' = dropped + (IF IsFull THEN 1 ELSE 0)
    /\ produced' = produced + 1
    /\ NotifyAll
    /\ UNCHANGED <<valQueue, paramVersion, open, consumed, cleared>>

(* get_sample() is entered, or tests its loop condition again. *)
Getting(c) == getter[c] \in {"idle", "notified"}

(* Mutant: the wait does not look at self.running. *)
MustWaitForGood == queue = <<>>

(* The queue is empty and open: park in the condition. *)
MustWait == queue = <<>> /\ open

AwaitSample(c) ==
    /\ Getting(c)
    /\ MustWait
    /\ getter' = [getter EXCEPT ![c] = "waiting"]
    /\ UNCHANGED <<queue, valQueue, paramVersion, open, counters>>

(* Mutant: pop() for popleft(). *)
PopRight == queue' = SubSeq(queue, 1, Len(queue) - 1)

(* get_sample() returns Head(queue), the oldest sample. *)
PopLeft == queue' = Tail(queue)

GetSample(c) ==
    /\ Getting(c)
    /\ queue # <<>>
    /\ PopLeft
    /\ consumed' = consumed + 1
    /\ getter' = [getter EXCEPT ![c] = "idle"]
    /\ UNCHANGED <<valQueue, paramVersion, open, produced, dropped, cleared>>

(* get_sample() returns None: the queue is shut down and empty. *)
GetClosed(c) ==
    /\ Getting(c)
    /\ queue = <<>> /\ ~open
    /\ getter' = [getter EXCEPT ![c] = "idle"]
    /\ UNCHANGED <<queue, valQueue, paramVersion, open, counters>>

UpdateParamVersion(version) ==
    /\ paramVersion' = version
    /\ UNCHANGED <<queue, valQueue, open, counters, getter>>

ClearQueue ==
    /\ queue' = <<>>
    /\ cleared' = cleared + Len(queue)
    /\ UNCHANGED <<valQueue, paramVersion, open, produced, consumed, dropped, getter>>

Shutdown ==
    /\ open' = FALSE
    /\ NotifyAll
    /\ UNCHANGED <<queue, valQueue, paramVersion, counters>>

(* Mutant: the data is filed one version too early. *)
PutValidateEarlier(data) ==
    /\ valQueue' = Append(valQueue, data - 1)
    /\ UNCHANGED <<queue, paramVersion, open, counters, getter>>

PutValidate(data) ==
    /\ valQueue' = Append(valQueue, data)
    /\ UNCHANGED <<queue, paramVersion, open, counters, getter>>

(* get_validate() never waits: with nothing to return it returns None. *)
GetValidate ==
    /\ valQueue' = IF valQueue = <<>> THEN <<>> ELSE Tail(valQueue)
    /\ UNCHANGED <<queue, paramVersion, open, counters, getter>>

-----------------------------------------------------------------------------
(* The actor under every order of calls.  A sample is named by its place   *)
(* in the order of puts, the data of a validation by the version it is of. *)

Next ==
    \/ produced < MaxPuts /\ PutSample(produced + 1)
    \/ \E c \in Consumer : AwaitSample(c) \/ GetSample(c) \/ GetClosed(c)
    \/ paramVersion < MaxVersion /\ UpdateParamVersion(paramVersion + 1)
    \/ Len(valQueue) < MaxVersion /\ PutValidate(paramVersion)
    \/ GetValidate
    \/ ClearQueue
    \/ Shutdown

(* The actor's event loop runs a get that can go on: one that was notified *)
(* tests the queue again.                                                  *)
Fairness ==
    \A c \in Consumer :
        WF_vars(getter[c] = "notified"
                  /\ (AwaitSample(c) \/ GetSample(c) \/ GetClosed(c)))

Spec == Init /\ [][Next]_vars
FairSpec == Spec /\ Fairness

-----------------------------------------------------------------------------
TypeOK ==
    /\ queue \in Seq(Nat)
    /\ valQueue \in Seq(Nat)
    /\ paramVersion \in Nat
    /\ open \in BOOLEAN
    /\ produced \in Nat
    /\ consumed \in Nat
    /\ dropped \in Nat
    /\ cleared \in Nat
    /\ getter \in [Consumer -> GetterState]

(* Every sample put is accounted for exactly once: handed to a consumer,   *)
(* dropped by a put on a full queue, cleared, or still queued, and the     *)
(* queue never holds more than max_queue_size.                             *)
Conservation ==
    /\ produced = consumed + dropped + cleared + Len(queue)
    /\ Len(queue) <= MaxQueueSize

(* No lost wake-up: while a consumer is parked in the condition there is   *)
(* nothing it could return, whoever put, took, cleared or shut down since. *)
NoLostWakeup ==
    (\E c \in Consumer : getter[c] = "waiting") => queue = <<>> /\ open

(* Samples leave in the order they were put and only the oldest are ever   *)
(* missing: what is queued is exactly the latest Len(queue) samples put, in *)
(* put order, whatever was taken, dropped or cleared before.               *)
LatestInOrder ==
    \A i \in 1..Len(queue) : queue[i] = produced - Len(queue) + i

(* Once shut down, a consumer that is woken does not stay in get_sample    *)
(* for good: it returns a sample that was left, or None.                   *)
ShutdownReleases ==
    \A c \in Consumer : ~open /\ getter[c] = "notified" ~> getter[c] = "idle"

=============================================================================
