---------------------------- MODULE NixlTransfer ----------------------------
(***************************************************************************)
(* The weight transfer of NIXLCheckpointEngine: rank 0 packs the weights   *)
(* into buckets, and a chain of receivers passes the buckets on. Every     *)
(* rank has two buffers, one filled while the other is read by the next    *)
(* rank; messages announce a bucket, notifications give its buffer back.   *)
(***************************************************************************)
EXTENDS Naturals, Sequences, SequencesExt

CONSTANTS
  LastRank,        \* the last rank; rank 0 is the trainer's
  Sizes,       \* the sizes of the weights, in the order they are generated
  BucketSize

NixlAssumption ==
  /\ LastRank \in Nat \ {0} /\ BucketSize \in Nat
  /\ Sizes \in Seq(Nat) /\ \A w \in DOMAIN Sizes : Sizes[w] <= BucketSize

Ranks == 0 .. LastRank
Receivers == 1 .. LastRank
Weights == DOMAIN Sizes

VARIABLES
  pc,          \* where send_weights or receive_weights is
  buffers,     \* rank -> its two buffers, each the weights written to it
  send,        \* rank -> which buffer is send_buf
  packed,      \* bucket_meta of rank 0: the weights in its bucket
  offset,      \* where the next one goes in the bucket
  taken,       \* the weights rank 0 took from the generator
  messages,    \* rank -> announcements that prev_agent has sent
  notified,    \* rank -> notifications that next_agent has read
  readable,    \* rank -> is a ReadableOperation outstanding?
  current,     \* rank -> the announcement of the bucket in send_buf
  coming,      \* rank -> that of the bucket being read
  reading,     \* rank -> the state of the ReadOperation
  yielded,     \* rank -> tensors yielded of the current bucket
  received     \* rank -> the weights its consumer was given

packing == <<packed, offset, taken>>
queues == <<messages, notified, readable>>
reads == <<current, coming, reading>>
vars == <<pc, buffers, send, packing, queues, reads, yielded, received>>

NoBucket == [buffer |-> 0, names |-> <<>>, last |-> FALSE]
Garbage == 0

Init ==
  /\ pc = [r \in Ranks |-> IF r = 0 THEN "fill" ELSE "first"]
  /\ buffers = [r \in Ranks |-> [b \in {0, 1} |-> <<>>]]
  /\ send = [r \in Ranks |-> 0] /\ packed = <<>> /\ offset = 0 /\ taken = 0
  /\ messages = [r \in Ranks |-> <<>>] /\ notified = [r \in Ranks |-> 0]
  /\ readable = [r \in Ranks |-> FALSE]
  /\ current = [r \in Ranks |-> NoBucket] /\ coming = [r \in Ranks |-> NoBucket]
  /\ reading = [r \in Ranks |-> "none"] /\ yielded = [r \in Ranks |-> 0]
  /\ received = [r \in Receivers |-> <<>>]

\* Mutant: the buffers are not swapped.
SameBuffer(b) == b

Other(b) == 1 - b

\* Mutant: a buffer is given back when its bucket was announced.
ReleasedOnSend(r) == TRUE

\* wait_for_complete of the ReadableOperation.
Released(r) == ~readable[r] \/ notified[r] > 0

\* ReadableOperation: the bucket in the buffer is announced to the next rank. A
\* notification that was waited for is consumed.
Announce(r, buffer, names, last) ==
  /\ messages' = [messages EXCEPT ![r + 1] =
       Append(@, [buffer |-> buffer, names |-> names, last |-> last])]
  /\ notified' = [notified EXCEPT ![r] = @ - (IF readable[r] /\ @ > 0 THEN 1 ELSE 0)]
  /\ readable' = [readable EXCEPT ![r] = TRUE]

\* Mutant: a bucket is never full to the last byte.
FitsWithRoom == taken < Len(Sizes) /\ offset + Sizes[taken + 1] < BucketSize

\* The generator's next weight fits into the bucket.
NextFits == taken < Len(Sizes) /\ offset + Sizes[taken + 1] <= BucketSize

Fill ==
  /\ pc[0] = "fill" /\ NextFits
  /\ taken' = taken + 1
  /\ packed' = Append(packed, taken') /\ offset' = offset + Sizes[taken']
  /\ buffers' = [buffers EXCEPT ![0][send[0]] = packed']
  /\ UNCHANGED <<pc, send, queues, reads, yielded, received>>

\* It does not fit, or there is none: the bucket is announced once the one before it
\* has been read.
Flush ==
  LET last == taken = Len(Sizes) IN
  /\ pc[0] = "fill" /\ ~NextFits /\ Released(0)
  /\ Announce(0, send[0], packed, last)
  /\ send' = [send EXCEPT ![0] = Other(@)]
  /\ packed' = <<>> /\ offset' = 0
  /\ pc' = [pc EXCEPT ![0] = IF last THEN "wait" ELSE "fill"]
  /\ UNCHANGED <<buffers, taken, reads, yielded, received>>

\* read_metadata and begin_read.
BeginRead(r, here, then) ==
  /\ pc[r] = here /\ messages[r] # <<>>
  /\ coming' = [coming EXCEPT ![r] = Head(messages[r])]
  /\ messages' = [messages EXCEPT ![r] = Tail(@)]
  /\ reading' = [reading EXCEPT ![r] = "reading"]
  /\ pc' = [pc EXCEPT ![r] = then]
  /\ UNCHANGED <<buffers, send, packing, notified, readable, current, yielded, received>>

\* The transfer ends: the bucket is in recv_buf, and the previous rank is notified.
EndRead(r) ==
  /\ reading[r] = "reading" /\ reading' = [reading EXCEPT ![r] = "done"]
  /\ buffers' = [buffers EXCEPT ![r][Other(send[r])] = buffers[r - 1][coming[r].buffer]]
  /\ notified' = [notified EXCEPT ![r - 1] = @ + 1]
  /\ UNCHANGED <<pc, send, packing, messages, readable, current, coming, yielded, received>>

\* The buffers are swapped when the read is done, and the bucket in send_buf has
\* been read by the next rank.
Swap(r, here) ==
  /\ pc[r] = here /\ reading[r] = "done" /\ Released(r)
  /\ notified' = [notified EXCEPT ![r] = @ - (IF readable[r] /\ @ > 0 THEN 1 ELSE 0)]
  /\ readable' = [readable EXCEPT ![r] = FALSE]
  /\ reading' = [reading EXCEPT ![r] = "none"]
  /\ send' = [send EXCEPT ![r] = Other(@)]
  /\ current' = [current EXCEPT ![r] = coming[r]]
  /\ yielded' = [yielded EXCEPT ![r] = 0]
  /\ pc' = [pc EXCEPT ![r] = "announce"]
  /\ UNCHANGED <<buffers, packing, messages, coming, received>>

\* The bucket in send_buf goes on to the next rank, if there is one.
PassOn(r) ==
  /\ pc[r] = "announce"
  /\ IF r < LastRank THEN Announce(r, send[r], current[r].names, current[r].last)
                 ELSE UNCHANGED queues
  /\ pc' = [pc EXCEPT ![r] = IF current[r].last THEN "yield" ELSE "next"]
  /\ UNCHANGED <<buffers, send, packing, reads, yielded, received>>

\* One tensor of send_buf for the consumer.
Yield(r) ==
  LET i == yielded[r] + 1
      held == buffers[r][send[r]]
      name == current[r].names[i] IN
  /\ pc[r] = "yield" /\ i <= Len(current[r].names)
  /\ yielded' = [yielded EXCEPT ![r] = i]
  /\ received' = [received EXCEPT ![r] =
       Append(@, IF i <= Len(held) /\ held[i] = name THEN name ELSE Garbage)]
  /\ UNCHANGED <<pc, buffers, send, packing, queues, reads>>

YieldEnds(r) ==
  /\ pc[r] = "yield" /\ yielded[r] = Len(current[r].names)
  /\ pc' = [pc EXCEPT ![r] = IF current[r].last THEN "wait" ELSE "swap"]
  /\ UNCHANGED <<buffers, send, packing, queues, reads, yielded, received>>

\* The last bucket has been read by the next rank.
Finish(r) ==
  /\ pc[r] = "wait" /\ Released(r)
  /\ notified' = [notified EXCEPT ![r] = @ - (IF readable[r] /\ @ > 0 THEN 1 ELSE 0)]
  /\ readable' = [readable EXCEPT ![r] = FALSE]
  /\ pc' = [pc EXCEPT ![r] = "done"]
  /\ UNCHANGED <<buffers, send, packing, messages, reads, yielded, received>>

ReceiverStep(r) ==
  \/ BeginRead(r, "first", "firstwait")
  \/ Swap(r, "firstwait")
  \/ PassOn(r)
  \/ BeginRead(r, "next", "yield")
  \/ EndRead(r)
  \/ Yield(r)
  \/ YieldEnds(r)
  \/ Swap(r, "swap")
  \/ Finish(r)

Sender == Fill \/ Flush \/ Finish(0)
Next == Sender \/ \E r \in Receivers : ReceiverStep(r)
Spec == Init /\ [][Next]_vars /\ WF_vars(Sender) /\ \A r \in Receivers : WF_vars(ReceiverStep(r))

----------------------------------------------------------------------------
\* Every variable has its type, and the bounds of a rank's queues: one announcement
\* and one notification.
TypeOK ==
  /\ pc \in [Ranks -> {"fill", "first", "firstwait", "announce", "next", "yield", "swap",
                       "wait", "done"}]
  /\ \A r \in Ranks : /\ \A b \in {0, 1} : buffers[r][b] \in Seq(Weights)
                      /\ Len(messages[r]) <= 1 /\ notified[r] \in 0 .. 1
                      /\ yielded[r] \in 0 .. Len(current[r].names)
  /\ send \in [Ranks -> {0, 1}] /\ readable \in [Ranks -> BOOLEAN]
  /\ reading \in [Ranks -> {"none", "reading", "done"}]
  /\ received \in [Receivers -> Seq(Weights \union {Garbage})]

\* From its announcement until the next rank has read it, a bucket stays in its buffer.
AnnouncedStays ==
  \A r \in Receivers :
    \A m \in ToSet(messages[r]) \union (IF reading[r] = "reading" THEN {coming[r]} ELSE {}) :
      buffers[r - 1][m.buffer] = m.names

\* A rank that has returned may free its buffers: no bucket of it is still to be read,
\* and no message or notification is left for the next transfer.
CleanWhenDone ==
  \A r \in Ranks : pc[r] = "done" =>
    /\ notified[r] = 0 /\ messages[r] = <<>>
    /\ r < LastRank => messages[r + 1] = <<>> /\ reading[r + 1] # "reading"

Abstract == INSTANCE WeightTransfer

\* Every receiver is handed weights with their values, each at most once.
Transfers == Abstract!Safety

Returned == /\ \A r \in Ranks : pc[r] = "done"
            /\ \A r \in Receivers : ToSet(received[r]) = Weights

\* Every rank returns, and the receivers were handed every weight.
AllReturn == <>Returned
=============================================================================
