------------------------- MODULE MessageQueueProofs -------------------------
(***************************************************************************)
(* The message queue's invariants, for every number of consumers, every    *)
(* queue size and every number of puts; and that it implements the lossy   *)
(* channel it promises to be.                                              *)
(***************************************************************************)
EXTENDS MCMessageQueue, FiniteSetTheorems, TLAPS

(* The small parts of methods are expanded everywhere.                     *)
USE DEF MakeRoom, MustWait, PopLeft

(***************************************************************************)
(* What the queue's three operations on a sequence do.                     *)
(***************************************************************************)

(* Dropping the first sample shortens the queue by one and moves the rest  *)
(* forward.                                                                *)
LEMMA TailOfQueue ==
    ASSUME NEW s \in Seq(Nat), s # <<>>
    PROVE  /\ Tail(s) \in Seq(Nat)
           /\ Len(Tail(s)) = Len(s) - 1
           /\ Len(s) \in Nat \ {0}
           /\ \A i \in 1..Len(Tail(s)) : Tail(s)[i] = s[i + 1]
  OBVIOUS

(* Appending keeps what is there and puts the new sample last.             *)
LEMMA AppendToQueue ==
    ASSUME NEW s \in Seq(Nat), NEW n \in Nat
    PROVE  /\ Append(s, n) \in Seq(Nat)
           /\ Len(Append(s, n)) = Len(s) + 1
           /\ \A i \in 1..Len(s) : Append(s, n)[i] = s[i]
           /\ Append(s, n)[Len(s) + 1] = n
  OBVIOUS

(* The queue a put appends to: one sample shorter when the queue was full. *)
Room == IF IsFull THEN Tail(queue) ELSE queue

LEMMA RoomForOne ==
    ASSUME TypeOK, Conservation, LatestInOrder
    PROVE  /\ Room \in Seq(Nat)
           /\ Len(Room) + (IF IsFull THEN 1 ELSE 0) = Len(queue)
           /\ Len(Room) \in 0..(MaxQueueSize - 1)
           /\ \A i \in 1..Len(Room) : Room[i] = produced - Len(Room) + i
<1>1. Len(queue) \in Nat /\ produced \in Nat /\ MaxQueueSize \in Nat \ {0}
  BY QueueAssumption DEF TypeOK
<1>2. CASE IsFull
  <2>1. queue # <<>>
    BY <1>1, <1>2 DEF IsFull, TypeOK
  <2>2. /\ Tail(queue) \in Seq(Nat)
        /\ Len(Tail(queue)) = Len(queue) - 1
        /\ Len(queue) \in Nat \ {0}
        /\ \A i \in 1..Len(Tail(queue)) : Tail(queue)[i] = queue[i + 1]
    BY <2>1, TailOfQueue DEF TypeOK
  <2>3. \A i \in 1..Len(Tail(queue)) : queue[i + 1] = produced - Len(Tail(queue)) + i
    BY <1>1, <2>2 DEF LatestInOrder
  <2> QED BY <1>1, <1>2, <2>2, <2>3 DEF Room, Conservation
<1>3. CASE ~IsFull
  BY <1>1, <1>3 DEF Room, IsFull, TypeOK, LatestInOrder
<1> QED BY <1>2, <1>3

-----------------------------------------------------------------------------
(* Every variable keeps its type, whatever is called in whatever order.    *)
THEOREM TypeCorrect == Spec => []TypeOK
<1>1. Init => TypeOK
  BY DEF Init, InitWith, TypeOK, GetterState
<1>2. TypeOK /\ [Next]_vars => TypeOK'
  <2> SUFFICES ASSUME TypeOK, [Next]_vars PROVE TypeOK'
    OBVIOUS
  <2> USE DEF TypeOK
  <2>1. ASSUME PutSample(produced + 1) PROVE TypeOK'
    <3>1. queue' \in Seq(Nat)
      <4>1. (IF IsFull THEN Tail(queue) ELSE queue) \in Seq(Nat)
        <5>1. CASE IsFull
          <6>1. queue # <<>>
            BY <5>1, QueueAssumption DEF IsFull
          <6> QED BY <6>1, <5>1, TailOfQueue
        <5> QED BY <5>1
      <4> QED BY <2>1, <4>1, AppendToQueue DEF PutSample
    <3>2. getter' \in [Consumer -> GetterState]
      BY <2>1 DEF PutSample, NotifyAll, GetterState
    <3> QED BY <2>1, <3>1, <3>2 DEF PutSample
  <2>2. ASSUME NEW c \in Consumer, AwaitSample(c) PROVE TypeOK'
    BY <2>2 DEF AwaitSample, counters, GetterState
  <2>3. ASSUME NEW c \in Consumer, GetSample(c) PROVE TypeOK'
    <3>1. queue' \in Seq(Nat)
      BY <2>3, TailOfQueue DEF GetSample
    <3> QED BY <2>3, <3>1 DEF GetSample, GetterState
  <2>4. ASSUME NEW c \in Consumer, GetClosed(c) PROVE TypeOK'
    BY <2>4 DEF GetClosed, counters, GetterState
  <2>5. ASSUME UpdateParamVersion(paramVersion + 1) PROVE TypeOK'
    BY <2>5 DEF UpdateParamVersion, counters
  <2>6. ASSUME PutValidate(paramVersion) PROVE TypeOK'
    <3>1. valQueue' \in Seq(Nat)
      BY <2>6, AppendToQueue DEF PutValidate
    <3> QED BY <2>6, <3>1 DEF PutValidate, counters
  <2>7. ASSUME GetValidate PROVE TypeOK'
    <3>1. valQueue' \in Seq(Nat)
      BY <2>7, TailOfQueue DEF GetValidate
    <3> QED BY <2>7, <3>1 DEF GetValidate, counters
  <2>8. ASSUME ClearQueue PROVE TypeOK'
    BY <2>8 DEF ClearQueue
  <2>9. ASSUME Shutdown PROVE TypeOK'
    BY <2>9 DEF Shutdown, NotifyAll, counters, GetterState
  <2>10. ASSUME UNCHANGED vars PROVE TypeOK'
    BY <2>10 DEF vars, counters
  <2> QED BY <2>1, <2>2, <2>3, <2>4, <2>5, <2>6, <2>7, <2>8, <2>9, <2>10 DEF Next
<1> QED BY <1>1, <1>2, PTL DEF Spec

-----------------------------------------------------------------------------
(* The accounts and the order of the queue rest on each other: that a put  *)
(* makes room keeps the queue within its size, and the place of a sample   *)
(* is known from its number because nothing else is removed.               *)
Accounts == TypeOK /\ Conservation /\ LatestInOrder

LEMMA AccountsAtStart == Init => Accounts
  BY QueueAssumption
  DEF Init, InitWith, Accounts, TypeOK, Conservation, LatestInOrder, GetterState

LEMMA AccountsPut ==
    ASSUME Accounts, TypeOK', PutSample(produced + 1)
    PROVE  (Conservation /\ LatestInOrder)'
<1>1. /\ Room \in Seq(Nat)
      /\ Len(Room) + (IF IsFull THEN 1 ELSE 0) = Len(queue)
      /\ Len(Room) \in 0..(MaxQueueSize - 1)
      /\ \A i \in 1..Len(Room) : Room[i] = produced - Len(Room) + i
  BY RoomForOne DEF Accounts
<1>2. /\ queue' = Append(Room, produced + 1)
      /\ produced' = produced + 1
      /\ dropped' = dropped + (IF IsFull THEN 1 ELSE 0)
      /\ consumed' = consumed /\ cleared' = cleared
  BY DEF PutSample, Room
<1>3. /\ produced \in Nat /\ consumed \in Nat /\ dropped \in Nat /\ cleared \in Nat
      /\ MaxQueueSize \in Nat \ {0} /\ Len(queue) \in Nat
      /\ produced = consumed + dropped + cleared + Len(queue)
  BY QueueAssumption DEF Accounts, TypeOK, Conservation
<1>4. /\ Len(queue') = Len(Room) + 1
      /\ \A i \in 1..Len(Room) : queue'[i] = Room[i]
      /\ queue'[Len(Room) + 1] = produced + 1
  BY <1>1, <1>2, <1>3, AppendToQueue
<1>5. Conservation'
  <2>1. Len(Room) \in Nat /\ Len(queue') <= MaxQueueSize
    BY <1>1, <1>3, <1>4
  <2>2. produced' = consumed' + dropped' + cleared' + Len(queue')
    <3>1. CASE IsFull
      <4>1. Len(queue') = Len(queue) /\ dropped' = dropped + 1
        BY <1>1, <1>2, <1>4, <2>1, <3>1
      <4> QED BY <1>2, <1>3, <4>1
    <3>2. CASE ~IsFull
      <4>1. Len(queue') = Len(queue) + 1 /\ dropped' = dropped
        BY <1>1, <1>2, <1>3, <1>4, <2>1, <3>2
      <4> QED BY <1>2, <1>3, <4>1
    <3> QED BY <3>1, <3>2
  <2> QED BY <2>1, <2>2 DEF Conservation
<1>6. LatestInOrder'
  <2> SUFFICES ASSUME NEW i \in 1..Len(queue')
               PROVE  queue'[i] = produced' - Len(queue') + i
    BY DEF LatestInOrder
  <2>1. Len(Room) \in Nat /\ i \in 1..(Len(Room) + 1)
    BY <1>1, <1>3, <1>4
  <2>2. CASE i = Len(Room) + 1
    BY <1>2, <1>3, <1>4, <2>1, <2>2
  <2>3. CASE i # Len(Room) + 1
    <3>1. i \in 1..Len(Room)
      BY <2>1, <2>3
    <3>2. queue'[i] = produced - Len(Room) + i
      BY <1>1, <1>4, <3>1
    <3> QED BY <1>2, <1>3, <1>4, <2>1, <3>2
  <2> QED BY <2>2, <2>3
<1> QED BY <1>5, <1>6

LEMMA AccountsGet ==
    ASSUME Accounts, NEW c \in Consumer, GetSample(c)
    PROVE  (Conservation /\ LatestInOrder)'
<1>1. /\ queue' = Tail(queue)
      /\ queue # <<>>
      /\ consumed' = consumed + 1
      /\ UNCHANGED <<produced, dropped, cleared>>
  BY DEF GetSample
<1>2. /\ produced \in Nat /\ consumed \in Nat /\ dropped \in Nat /\ cleared \in Nat
      /\ MaxQueueSize \in Nat \ {0} /\ queue \in Seq(Nat)
      /\ produced = consumed + dropped + cleared + Len(queue)
      /\ Len(queue) <= MaxQueueSize
  BY QueueAssumption DEF Accounts, TypeOK, Conservation
<1>3. /\ Len(queue') = Len(queue) - 1
      /\ Len(queue) \in Nat \ {0}
      /\ \A i \in 1..Len(queue') : queue'[i] = queue[i + 1]
  BY <1>1, <1>2, TailOfQueue
<1>4. \A i \in 1..Len(queue) : queue[i] = produced - Len(queue) + i
  BY DEF Accounts, LatestInOrder
<1>5. Conservation'
  BY <1>1, <1>2, <1>3 DEF Conservation
<1>6. LatestInOrder'
  BY <1>1, <1>2, <1>3, <1>4 DEF LatestInOrder
<1> QED BY <1>5, <1>6

LEMMA AccountsStep == TypeOK' /\ Accounts /\ [Next]_vars => Accounts'
<1> SUFFICES ASSUME TypeOK', Accounts, [Next]_vars PROVE (Conservation /\ LatestInOrder)'
  BY DEF Accounts
<1>1. CASE PutSample(produced + 1)
  BY <1>1, AccountsPut
<1>2. CASE \E c \in Consumer : GetSample(c)
  BY <1>2, AccountsGet
<1>3. CASE ClearQueue
  <2>1. Len(queue) \in Nat /\ MaxQueueSize \in Nat /\ produced \in Nat /\ cleared \in Nat
          /\ consumed \in Nat /\ dropped \in Nat
    BY QueueAssumption DEF Accounts, TypeOK
  <2> QED BY <1>3, <2>1 DEF ClearQueue, Accounts, Conservation, LatestInOrder
<1>4. CASE UNCHANGED <<queue, counters>>
  BY <1>4 DEF counters, Accounts, Conservation, LatestInOrder
<1>5. [Next]_vars => \/ PutSample(produced + 1)
                     \/ \E c \in Consumer : GetSample(c)
                     \/ ClearQueue
                     \/ UNCHANGED <<queue, counters>>
  BY DEF Next, vars, counters, AwaitSample, GetClosed, UpdateParamVersion, PutValidate,
         GetValidate, Shutdown
<1> QED BY <1>1, <1>2, <1>3, <1>4, <1>5

LEMMA AccountsHold == Spec => []Accounts
<1>1. Init => Accounts
  BY AccountsAtStart
<1>2. TypeOK' /\ Accounts /\ [Next]_vars => Accounts'
  BY AccountsStep
<1>3. Spec => []TypeOK
  BY TypeCorrect
<1> QED BY <1>1, <1>2, <1>3, PTL DEF Spec

(* Every sample put is accounted for exactly once and the queue stays      *)
(* within its size.                                                        *)
THEOREM SamplesConserved == Spec => []Conservation
<1>1. Accounts => Conservation
  BY DEF Accounts
<1> QED BY <1>1, AccountsHold, PTL

(* What is queued is the latest samples put, in the order they were put.   *)
THEOREM OrderKept == Spec => []LatestInOrder
<1>1. Accounts => LatestInOrder
  BY DEF Accounts
<1> QED BY <1>1, AccountsHold, PTL

-----------------------------------------------------------------------------
(* No consumer sleeps while there is a sample for it or the queue is shut  *)
(* down.  Inductive alone: a put and a shutdown wake everyone.             *)
THEOREM WakeupsKept == Spec => []NoLostWakeup
<1>1. Init => NoLostWakeup
  BY DEF Init, InitWith, NoLostWakeup
<1>2. TypeOK /\ NoLostWakeup /\ [Next]_vars => NoLostWakeup'
  <2> SUFFICES ASSUME TypeOK, NoLostWakeup, [Next]_vars,
                      NEW d \in Consumer, getter'[d] = "waiting"
               PROVE  queue' = <<>> /\ open'
    BY DEF NoLostWakeup
  <2> USE DEF TypeOK, NoLostWakeup
  <2>1. CASE PutSample(produced + 1)
    BY <2>1 DEF PutSample, NotifyAll
  <2>2. CASE Shutdown
    BY <2>2 DEF Shutdown, NotifyAll
  <2>3. CASE \E c \in Consumer : AwaitSample(c)
    BY <2>3 DEF AwaitSample
  <2>4. CASE \E c \in Consumer : GetSample(c)
    BY <2>4 DEF GetSample
  <2>5. CASE \E c \in Consumer : GetClosed(c)
    BY <2>5 DEF GetClosed
  <2>6. CASE ClearQueue
    BY <2>6 DEF ClearQueue
  <2>7. CASE UNCHANGED <<queue, open, getter>>
    BY <2>7
  <2>8. [Next]_vars => \/ PutSample(produced + 1) \/ Shutdown \/ ClearQueue
                       \/ \E c \in Consumer : AwaitSample(c) \/ GetSample(c) \/ GetClosed(c)
                       \/ UNCHANGED <<queue, open, getter>>
    BY DEF Next, vars, UpdateParamVersion, PutValidate, GetValidate
  <2> QED BY <2>1, <2>2, <2>3, <2>4, <2>5, <2>6, <2>7, <2>8
<1> QED BY <1>1, <1>2, TypeCorrect, PTL DEF Spec

-----------------------------------------------------------------------------
(* The queue implements the lossy channel.  The samples in it are numbered *)
(* without a gap, so their set is an interval, as large as the queue is    *)
(* long, and its least member is the head.                                 *)
Queued == {queue[i] : i \in 1..Len(queue)}

LEMMA QueuedInterval ==
    ASSUME Accounts
    PROVE  /\ Len(queue) \in 0..MaxQueueSize /\ produced \in Nat
           /\ Len(queue) <= produced
           /\ Queued = (produced - Len(queue) + 1)..produced
           /\ Cardinality(Queued) = Len(queue)
           /\ queue # <<>> => Head(queue) = produced - Len(queue) + 1
<1>1. /\ produced \in Nat /\ consumed \in Nat /\ dropped \in Nat /\ cleared \in Nat
      /\ queue \in Seq(Nat) /\ Len(queue) \in Nat /\ MaxQueueSize \in Nat
      /\ produced = consumed + dropped + cleared + Len(queue)
      /\ Len(queue) <= MaxQueueSize
      /\ \A i \in 1..Len(queue) : queue[i] = produced - Len(queue) + i
  BY QueueAssumption DEF Accounts, TypeOK, Conservation, LatestInOrder
<1>2. Len(queue) <= produced
  BY <1>1
<1>3. Queued = (produced - Len(queue) + 1)..produced
  <2>1. ASSUME NEW n \in (produced - Len(queue) + 1)..produced PROVE n \in Queued
    <3>1. /\ n - produced + Len(queue) \in 1..Len(queue)
          /\ queue[n - produced + Len(queue)] = n
      BY <1>1, <1>2
    <3> QED BY <3>1 DEF Queued
  <2>2. ASSUME NEW n \in Queued PROVE n \in (produced - Len(queue) + 1)..produced
    BY <1>1, <1>2, <2>2 DEF Queued
  <2> QED BY <2>1, <2>2
<1>4. Cardinality(Queued) = Len(queue)
  <2>1. produced - Len(queue) + 1 \in Int /\ produced \in Int
    BY <1>1
  <2>2. Cardinality((produced - Len(queue) + 1)..produced)
          = IF produced - Len(queue) + 1 > produced THEN 0
            ELSE produced - (produced - Len(queue) + 1) + 1
    BY <2>1, FS_Interval
  <2> QED BY <1>1, <1>3, <2>2
<1>5. queue # <<>> => Head(queue) = produced - Len(queue) + 1
  BY <1>1
<1> QED BY <1>1, <1>2, <1>3, <1>4, <1>5

NoGap ==
    /\ Queued = (produced - Len(queue) + 1)..produced
    /\ Len(queue) <= produced

LEMMA NoGapNext == Accounts' => NoGap'
<1>1. Accounts => NoGap
  BY QueuedInterval DEF NoGap
<1> QED BY <1>1, PTL

(* The channel's module counts with the same Cardinality.                  *)
LEMMA SameCardinality == \A S : Channel!Cardinality(S) = Cardinality(S)
  BY DEF Channel!Cardinality, Cardinality

(* The oldest message of the channel is the head of the queue.             *)
LEMMA HeadIsOldest ==
    ASSUME Accounts, queue # <<>>
    PROVE  /\ Channel!IsOldest(Head(queue))
           /\ Queued \ {Head(queue)} = (produced - Len(queue) + 2)..produced
<1>1. /\ Len(queue) \in Nat /\ produced \in Nat /\ Len(queue) <= produced
      /\ Queued = (produced - Len(queue) + 1)..produced
      /\ Head(queue) = produced - Len(queue) + 1
      /\ Len(queue) > 0
  BY QueuedInterval DEF Accounts, TypeOK
<1>2. Head(queue) \in Queued /\ \A n \in Queued : Head(queue) <= n
  BY <1>1
<1>3. Queued \ {Head(queue)} = (produced - Len(queue) + 2)..produced
  BY <1>1
<1> QED BY <1>2, <1>3 DEF Channel!IsOldest, Queued

LEMMA PutIsSend ==
    ASSUME Accounts, Accounts', PutSample(produced + 1)
    PROVE  Channel!Send
<1> DEFINE n == produced + 1
<1>1. /\ produced' = n /\ open' = open
      /\ Len(queue) \in 0..MaxQueueSize /\ produced \in Nat /\ Len(queue) <= produced
      /\ Queued = (produced - Len(queue) + 1)..produced
      /\ Queued' = (n - Len(queue') + 1)..n
      /\ Cardinality(Queued) = Len(queue)
      /\ MaxQueueSize \in Nat \ {0}
  BY QueuedInterval, NoGapNext, QueueAssumption DEF PutSample, NoGap
<1>2. Len(queue') = IF IsFull THEN Len(queue) ELSE Len(queue) + 1
  <2>1. Len(Room) + (IF IsFull THEN 1 ELSE 0) = Len(queue) /\ Room \in Seq(Nat)
    BY RoomForOne DEF Accounts
  <2>2. queue' = Append(Room, n)
    BY DEF PutSample, Room
  <2>3. Len(queue') = Len(Room) + 1 /\ Len(Room) \in Nat
    BY <1>1, <2>1, <2>2, AppendToQueue
  <2> QED BY <1>1, <2>1, <2>3
<1>3. CASE IsFull
  <2>1. Len(queue) = MaxQueueSize /\ queue # <<>>
    BY <1>1, <1>3 DEF IsFull
  <2>2. Channel!IsOldest(Head(queue)) /\ Queued \ {Head(queue)} = (produced - Len(queue) + 2)..produced
    BY <2>1, HeadIsOldest
  <2>3. Queued' = (Queued \ {Head(queue)}) \cup {n}
    BY <1>1, <1>2, <1>3, <2>1, <2>2
  <2>4. Head(queue) \in Queued
    BY <2>2 DEF Channel!IsOldest, Queued
  <2> QED BY <1>1, <2>1, <2>2, <2>3, <2>4, SameCardinality DEF Channel!Send, Queued
<1>4. CASE ~IsFull
  <2>1. Len(queue) < MaxQueueSize
    BY <1>1, <1>4 DEF IsFull
  <2>2. Queued' = Queued \cup {n}
    BY <1>1, <1>2, <1>4
  <2> QED BY <1>1, <2>1, <2>2, SameCardinality DEF Channel!Send, Queued
<1> QED BY <1>3, <1>4

(* Every step of the queue is a step of the channel, or none.              *)
THEOREM QueueImplementsChannel == Spec => ImplementsLossyChannel
<1>1. Init => Channel!Init
  BY DEF Init, InitWith, Channel!Init
<1>2. Accounts /\ Accounts' /\ [Next]_vars => [Channel!Next]_(Channel!vars)
  <2> SUFFICES ASSUME Accounts, Accounts', [Next]_vars PROVE [Channel!Next]_(Channel!vars)
    OBVIOUS
  <2>1. CASE PutSample(produced + 1)
    BY <2>1, PutIsSend DEF Channel!Next
  <2>2. CASE \E c \in Consumer : GetSample(c)
    <3>1. queue # <<>> /\ queue' = Tail(queue) /\ produced' = produced /\ open' = open
      BY <2>2 DEF GetSample
    <3>2. Channel!IsOldest(Head(queue)) /\ Queued \ {Head(queue)} = (produced - Len(queue) + 2)..produced
      BY <3>1, HeadIsOldest
    <3>3. Len(queue') = Len(queue) - 1 /\ Len(queue) \in Nat /\ produced \in Nat
      BY <3>1, TailOfQueue DEF Accounts, TypeOK
    <3>4. Queued' = (produced' - Len(queue') + 1)..produced'
      BY NoGapNext DEF NoGap
    <3>5. Queued' = Queued \ {Head(queue)}
      BY <3>1, <3>2, <3>3, <3>4
    <3>6. Head(queue) \in Queued
      BY <3>2 DEF Channel!IsOldest, Queued
    <3> QED BY <3>1, <3>2, <3>5, <3>6 DEF Channel!Next, Channel!Deliver, Queued
  <2>3. CASE ClearQueue
    <3>1. Queued' = {} /\ produced' = produced /\ open' = open
      BY <2>3 DEF ClearQueue, Queued
    <3> QED BY <3>1 DEF Channel!Next, Channel!Empty, Queued
  <2>4. CASE Shutdown
    BY <2>4 DEF Shutdown, counters, Channel!Next, Channel!Close
  <2>5. CASE UNCHANGED <<queue, open, produced>>
    BY <2>5 DEF Channel!vars
  <2>6. [Next]_vars => \/ PutSample(produced + 1) \/ \E c \in Consumer : GetSample(c)
                       \/ ClearQueue \/ Shutdown \/ UNCHANGED <<queue, open, produced>>
    BY DEF Next, vars, counters, AwaitSample, GetClosed, UpdateParamVersion, PutValidate,
           GetValidate
  <2> QED BY <2>1, <2>2, <2>3, <2>4, <2>5, <2>6
<1> QED BY <1>1, <1>2, AccountsHold, PTL DEF Spec, ImplementsLossyChannel, Channel!Spec
=============================================================================
