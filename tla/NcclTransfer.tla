---------------------------- MODULE NcclTransfer ----------------------------
(***************************************************************************)
(* The weight transfer of NCCLCheckpointEngine: the master packs buckets,  *)
(* publishes what is in them over a PUB socket and broadcasts them, in a   *)
(* thread of each rank, while it packs and the receivers unpack the other  *)
(* of their two buffers. A subscription reaches the publisher some time    *)
(* after connect(), and what was published before is lost to it.           *)
(***************************************************************************)
EXTENDS Naturals, Sequences, SequencesExt

CONSTANTS
  Master, Receivers,   \* rank 0, and the ranks above it
  Sizes,               \* the sizes of the weights, in the order they are generated
  BucketSize

NcclAssumption ==
  /\ Master \notin Receivers /\ BucketSize \in Nat
  /\ Sizes \in Seq(Nat) /\ \A w \in DOMAIN Sizes : Sizes[w] <= BucketSize

Ranks == {Master} \union Receivers
Weights == DOMAIN Sizes

VARIABLES
  pc,          \* where send_weights or receive_weights is
  buffers,     \* rank -> its two buffers, each the weights written to it
  send,        \* rank -> which buffer is send_buf
  packed,      \* bucket_meta of the master: the weights in its bucket
  offset,      \* where the next one goes in the bucket
  taken,       \* the weights the master took from the generator
  phase,       \* rank -> its BroadcastOperation: none, metadata, broadcast, done
  target,      \* rank -> the buffer of the operation
  metadata,    \* rank -> the metadata of the operation
  topic,       \* receiver -> what was published for it and is not received yet
  subscribed,  \* the receivers whose subscription has reached the publisher
  missed,      \* history: a receiver was not subscribed when metadata was published
  current,     \* receiver -> the metadata of the bucket in send_buf
  yielded,     \* receiver -> tensors yielded of the current bucket
  received     \* receiver -> the weights its consumer was given

packing == <<packed, offset, taken>>
operation == <<phase, target, metadata>>
socket == <<topic, subscribed, missed>>
consumer == <<current, yielded, received>>
vars == <<pc, buffers, send, packing, operation, socket, consumer>>

NoBucket == [names |-> <<>>, last |-> FALSE]
Garbage == 0

Init ==
  /\ pc = [r \in Ranks |-> IF r = Master THEN "fill" ELSE "start"]
  /\ buffers = [r \in Ranks |-> [b \in {0, 1} |-> <<>>]]
  /\ send = [r \in Ranks |-> 0] /\ packed = <<>> /\ offset = 0 /\ taken = 0
  /\ phase = [r \in Ranks |-> "none"] /\ target = [r \in Ranks |-> 0]
  /\ metadata = [r \in Ranks |-> NoBucket]
  /\ topic = [r \in Receivers |-> <<>>] /\ subscribed = {} /\ missed = FALSE
  /\ current = [r \in Receivers |-> NoBucket]
  /\ yielded = [r \in Receivers |-> 0] /\ received = [r \in Receivers |-> <<>>]

Other(b) == 1 - b

\* Mutant: the buffers are not swapped.
KeepsBuffer(b) == b

Swapped(b) == Other(b)

\* A SUBSCRIBE reaches the publisher.
Subscribe(r) ==
  /\ r \notin subscribed /\ subscribed' = subscribed \union {r}
  /\ UNCHANGED <<pc, buffers, send, packing, operation, topic, missed, consumer>>

\* Mutant: an operation may start while the one before is under way.
IdleAlways(r) == TRUE

\* wait_for_complete of the operation before.
Idle(r) == phase[r] \in {"none", "done"}

\* BroadcastOperation(...): the executor's thread will run it.
Begin(r, buffer, meta) ==
  /\ phase' = [phase EXCEPT ![r] = "metadata"]
  /\ target' = [target EXCEPT ![r] = buffer]
  /\ metadata' = [metadata EXCEPT ![r] = meta]

\* _run of the master up to its broadcast.
Publish ==
  /\ phase[Master] = "metadata" /\ phase' = [phase EXCEPT ![Master] = "broadcast"]
  /\ topic' = [r \in Receivers |->
                 IF r \in subscribed THEN Append(topic[r], metadata[Master]) ELSE topic[r]]
  /\ missed' = (missed \/ subscribed # Receivers)
  /\ UNCHANGED <<pc, buffers, send, packing, target, metadata, subscribed, consumer>>

\* _run of a receiver up to its broadcast.
ReceiveMetadata(r) ==
  /\ phase[r] = "metadata" /\ topic[r] # <<>>
  /\ phase' = [phase EXCEPT ![r] = "broadcast"]
  /\ metadata' = [metadata EXCEPT ![r] = Head(topic[r])]
  /\ topic' = [topic EXCEPT ![r] = Tail(@)]
  /\ UNCHANGED <<pc, buffers, send, packing, target, subscribed, missed, consumer>>

\* collective.broadcast, which every rank has to enter.
Broadcast ==
  /\ \A r \in Ranks : phase[r] = "broadcast"
  /\ phase' = [r \in Ranks |-> "done"]
  /\ buffers' = [r \in Ranks |-> [buffers[r] EXCEPT ![target[r]] = buffers[Master][target[Master]]]]
  /\ UNCHANGED <<pc, send, packing, target, metadata, socket, consumer>>

\* The generator's next weight fits into the bucket.
NextFits == taken < Len(Sizes) /\ offset + Sizes[taken + 1] <= BucketSize

Fill ==
  /\ pc[Master] = "fill" /\ NextFits
  /\ taken' = taken + 1
  /\ packed' = Append(packed, taken') /\ offset' = offset + Sizes[taken']
  /\ buffers' = [buffers EXCEPT ![Master][send[Master]] = packed']
  /\ UNCHANGED <<pc, send, operation, socket, consumer>>

\* The bucket is full or the last one: its broadcast begins after that of the one before.
Flush ==
  LET last == taken = Len(Sizes) IN
  /\ pc[Master] = "fill" /\ ~NextFits /\ Idle(Master)
  /\ Begin(Master, send[Master], [names |-> packed, last |-> last])
  /\ send' = [send EXCEPT ![Master] = Swapped(@)]
  /\ packed' = <<>> /\ offset' = 0
  /\ pc' = [pc EXCEPT ![Master] = IF last THEN "wait" ELSE "fill"]
  /\ UNCHANGED <<buffers, taken, socket, consumer>>

SendEnds ==
  /\ pc[Master] = "wait" /\ phase[Master] = "done"
  /\ pc' = [pc EXCEPT ![Master] = "done"]
  /\ UNCHANGED <<buffers, send, packing, operation, socket, consumer>>

\* A receiver starts to receive a bucket into recv_buf: the first, or the one after
\* that in send_buf.
StartReceive(r, here, then) ==
  /\ pc[r] = here /\ pc' = [pc EXCEPT ![r] = then]
  /\ Begin(r, Other(send[r]), NoBucket)
  /\ UNCHANGED <<buffers, send, packing, socket, consumer>>

Swap(r) ==
  /\ pc[r] = "swap" /\ phase[r] = "done"
  /\ phase' = [phase EXCEPT ![r] = "none"]
  /\ send' = [send EXCEPT ![r] = Swapped(@)]
  /\ current' = [current EXCEPT ![r] = metadata[r]]
  /\ yielded' = [yielded EXCEPT ![r] = 0]
  /\ pc' = [pc EXCEPT ![r] = IF metadata[r].last THEN "yield" ELSE "next"]
  /\ UNCHANGED <<buffers, packing, target, metadata, socket, received>>

\* One tensor of send_buf for the consumer.
Yield(r) ==
  LET i == yielded[r] + 1
      held == buffers[r][send[r]]
      name == current[r].names[i] IN
  /\ pc[r] = "yield" /\ i <= Len(current[r].names)
  /\ yielded' = [yielded EXCEPT ![r] = i]
  /\ received' = [received EXCEPT ![r] =
       Append(@, IF i <= Len(held) /\ held[i] = name THEN name ELSE Garbage)]
  /\ UNCHANGED <<pc, buffers, send, packing, operation, socket, current>>

YieldEnds(r) ==
  /\ pc[r] = "yield" /\ yielded[r] = Len(current[r].names)
  /\ pc' = [pc EXCEPT ![r] = IF current[r].last THEN "done" ELSE "swap"]
  /\ UNCHANGED <<buffers, send, packing, operation, socket, consumer>>

ReceiverStep(r) ==
  \/ Subscribe(r)
  \/ StartReceive(r, "start", "swap")
  \/ StartReceive(r, "next", "yield")
  \/ ReceiveMetadata(r)
  \/ Swap(r)
  \/ Yield(r)
  \/ YieldEnds(r)

MasterStep == Fill \/ Flush \/ Publish \/ SendEnds
Next == MasterStep \/ Broadcast \/ \E r \in Receivers : ReceiverStep(r)
Spec == Init /\ [][Next]_vars /\ WF_vars(MasterStep) /\ WF_vars(Broadcast)
             /\ \A r \in Receivers : WF_vars(ReceiverStep(r))

----------------------------------------------------------------------------
\* Every variable has its type.
TypeOK ==
  /\ pc \in [Ranks -> {"fill", "start", "next", "yield", "swap", "wait", "done"}]
  /\ \A r \in Ranks, b \in {0, 1} : buffers[r][b] \in Seq(Weights)
  /\ send \in [Ranks -> {0, 1}] /\ target \in [Ranks -> {0, 1}]
  /\ packed \in Seq(Weights) /\ taken \in 0 .. Len(Sizes)
  /\ phase \in [Ranks -> {"none", "metadata", "broadcast", "done"}]
  /\ subscribed \subseteq Receivers /\ missed \in BOOLEAN
  /\ \A r \in Receivers : /\ Len(topic[r]) <= 1
                          /\ yielded[r] \in 0 .. Len(current[r].names)
  /\ received \in [Receivers -> Seq(Weights \union {Garbage})]

\* From the start of its broadcast to the end, a bucket stays in the master's buffer,
\* and the receivers write to the buffer they do not yield from.
InFlightStays ==
  /\ phase[Master] \in {"metadata", "broadcast"} => buffers[Master][target[Master]] = metadata[Master].names
  /\ \A r \in Receivers : phase[r] = "broadcast" /\ pc[r] = "yield" => target[r] # send[r]

Abstract == INSTANCE WeightTransfer

\* Every receiver is handed weights with their values, each at most once.
Transfers == Abstract!Safety

Returned == /\ \A r \in Ranks : pc[r] = "done"
            /\ \A r \in Receivers : ToSet(received[r]) = Weights

\* Every rank returns and every weight was handed over, unless metadata was published before a receiver's subscription
\* had arrived: then none of them does.
AllReturn == <>(missed \/ Returned)

\* A transfer that has missed a receiver cannot have ended anywhere.
MissedBlocks == missed => \A r \in Ranks : pc[r] # "done"
=============================================================================
