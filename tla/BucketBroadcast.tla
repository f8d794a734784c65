-------------------------- MODULE BucketBroadcast ---------------------------
(***************************************************************************)
(* The weight transfer of the fully asynchronous trainer's                 *)
(* CheckpointEngine: the actors' ranks hold the weights in buckets and     *)
(* broadcast them in turn. With overlap, each rank has a thread that loads *)
(* one half of a double buffer while the next bucket is broadcast into the *)
(* other half; a REQ/REP socket and a barrier keep them in step.           *)
(***************************************************************************)
EXTENDS Naturals, Sequences, SequencesExt, FiniteSetsExt

CONSTANTS
  Actors,        \* the number of actors' ranks, 0 .. Actors - 1
  Rollouts,      \* and of rollouts' ranks, the ones after them
  Models,        \* the sequences of (aligned) weight sizes to transfer
  BufferSize,    \* device_buffer_size_M
  Overlap        \* overlap_broadcast_and_consume

BroadcastAssumption ==
  /\ {Actors, Rollouts} \subseteq Nat \ {0} /\ BufferSize \in Nat
  /\ Models \subseteq Seq(Nat) /\ Overlap \in BOOLEAN

ActorRanks == 0 .. Actors - 1
Receivers == Actors .. Actors + Rollouts - 1
Ranks == ActorRanks \union Receivers

VARIABLES
  sizes,       \* weights_info
  buckets,     \* global_buckets, the same on every rank
  schedule,    \* the broadcasts the loop makes of them
  pc,          \* rank -> where update_checkpoint is
  turn,        \* rank -> gidx, the turn in the schedule
  h2d,         \* actor's rank -> the bucket in its h2d_buffer
  halves,      \* rank -> the bucket in each half of broadcast_load_buffer
  payload,     \* rank -> what its loading thread works on
  loaded,      \* rank -> tensors of the payload loaded
  replied,     \* rank -> may socket.recv() return?
  received     \* rollout's rank -> the weights loaded

registered == <<sizes, buckets, schedule>>
thread == <<payload, loaded, replied, received>>
vars == <<registered, pc, turn, h2d, halves, thread>>

BucketSize(ws) == Max({BufferSize} \union ToSet(ws))
SizeOf(ws, bucket) == FoldLeft(LAMBDA sum, w : sum + ws[w], 0, bucket)

\* Mutant: the weight that does not fit is not in the bucket it opens.
PlaceDropping(ws, made, w) ==
  IF SizeOf(ws, made[Len(made)]) + ws[w] > BucketSize(ws) THEN Append(made, <<>>)
  ELSE [made EXCEPT ![Len(made)] = Append(@, w)]

\* Mutant: the bucket's size is compared before the weight is added.
PlaceLate(ws, made, w) ==
  IF SizeOf(ws, made[Len(made)]) >= BucketSize(ws) THEN Append(made, <<w>>)
  ELSE [made EXCEPT ![Len(made)] = Append(@, w)]

Place(ws, made, w) ==
  IF SizeOf(ws, made[Len(made)]) + ws[w] > BucketSize(ws) THEN Append(made, <<w>>)
  ELSE [made EXCEPT ![Len(made)] = Append(@, w)]

\* The weights are dealt to the actors in turn.
BucketsOf(ws, a) ==
  FoldLeft(LAMBDA made, w : Place(ws, made, w), <<<<>>>>,
           SelectSeq([i \in DOMAIN ws |-> i], LAMBDA w : (w - 1) % Actors = a))

\* The broadcasts in their order: every actor's first bucket, then the second ones.
ScheduleOf(bs) ==
  LET rounds == Max({Len(bs[a]) : a \in ActorRanks}) IN
  SelectSeq([k \in 1 .. rounds * Actors |-> [bucket |-> (k - 1) \div Actors + 1, rank |-> (k - 1) % Actors]],
            LAMBDA t : t.bucket <= Len(bs[t.rank]))

Now(r) == schedule[turn[r]]
Empty == <<>>

Init ==
  /\ sizes = Empty /\ buckets = [a \in ActorRanks |-> <<>>] /\ schedule = <<>>
  /\ pc = [r \in Ranks |-> "register"] /\ turn = [r \in Ranks |-> 1]
  /\ h2d = [a \in ActorRanks |-> Empty]
  /\ halves = [r \in Ranks |-> [b \in {0, 1} |-> Empty]]
  /\ payload = [r \in Ranks |-> [half |-> 0, names |-> Empty]]
  /\ loaded = [r \in Ranks |-> 0] /\ replied = [r \in Ranks |-> FALSE]
  /\ received = [r \in Receivers |-> <<>>]

\* register_checkpoint on every rank, the barrier, and the first exchange with the threads.
Register ==
  /\ \A r \in Ranks : pc[r] = "register"
  /\ sizes' \in Models
  /\ buckets' = [a \in ActorRanks |-> BucketsOf(sizes', a)]
  /\ schedule' = ScheduleOf(buckets')
  /\ pc' = [r \in Ranks |-> "copy"]
  /\ replied' = [r \in Ranks |-> Overlap]
  /\ UNCHANGED <<turn, h2d, halves, payload, loaded, received>>

\* Mutant: every bucket goes to the same half.
FirstHalf(r) == 0

Half(r) == IF Overlap THEN turn[r] % 2 ELSE 0

\* Step 1, once a round, and the preparation of the buffer on the broadcasting rank.
Copy(r) ==
  LET t == Now(r)
      newRound == turn[r] = 1 \/ schedule[turn[r] - 1].bucket # t.bucket
      mine == IF r \in ActorRanks /\ newRound /\ t.bucket <= Len(buckets[r])
              THEN buckets[r][t.bucket] ELSE IF r \in ActorRanks THEN h2d[r] ELSE Empty IN
  /\ pc[r] = "copy" /\ pc' = [pc EXCEPT ![r] = "broadcast"]
  /\ h2d' = IF r \in ActorRanks THEN [h2d EXCEPT ![r] = mine] ELSE h2d
  /\ halves' = IF r = t.rank THEN [halves EXCEPT ![r][Half(r)] = mine] ELSE halves
  /\ UNCHANGED <<registered, turn, thread>>

\* collective.broadcast, which every rank has to enter.
Broadcast ==
  /\ \A r \in Ranks : pc[r] = "broadcast"
  /\ pc' = [s \in Ranks |-> IF Overlap THEN "recv" ELSE "load"]
  /\ halves' = [r \in Ranks |->
       [halves[r] EXCEPT ![Half(r)] = halves[Now(r).rank][Half(Now(r).rank)]]]
  /\ UNCHANGED <<registered, turn, h2d, thread>>

\* The next turn, or the end of the loop.
Advance(r) ==
  /\ turn' = [turn EXCEPT ![r] = @ + 1]
  /\ pc' = [pc EXCEPT ![r] = IF turn[r] < Len(schedule) THEN "copy" ELSE "last"]

Names(r) == buckets[Now(r).rank][Now(r).bucket]
Value(held, names, i) == IF i <= Len(held) /\ held[i] = names[i] THEN names[i] ELSE 0

\* Without overlap the bucket is loaded before the next one.
LoadNow(r) ==
  LET i == loaded[r] + 1 IN
  /\ pc[r] = "load"
  /\ IF r \in Receivers /\ i <= Len(Names(r))
     THEN /\ loaded' = [loaded EXCEPT ![r] = i]
          /\ received' = [received EXCEPT ![r] = Append(@, Value(halves[r][0], Names(r), i))]
          /\ UNCHANGED <<pc, turn>>
     ELSE loaded' = [loaded EXCEPT ![r] = 0] /\ Advance(r) /\ UNCHANGED received
  /\ UNCHANGED <<registered, h2d, halves, payload, replied>>

\* Mutant: the thread's answer is not waited for.
AnsweredAlways(r) == TRUE

\* socket.recv()
Answered(r) == replied[r]

\* socket.recv(), and the barrier, before the thread is given the bucket.
Hand(r) ==
  /\ pc[r] = "barrier" /\ \A s \in Ranks : turn[s] > turn[r] \/ pc[s] = "barrier"
  /\ payload' = [payload EXCEPT ![r] = [half |-> Half(r), names |-> Names(r)]]
  /\ loaded' = [loaded EXCEPT ![r] = 0] /\ replied' = [replied EXCEPT ![r] = FALSE]
  /\ Advance(r)
  /\ UNCHANGED <<registered, h2d, halves, received>>

Recv(r) ==
  /\ pc[r] = "recv" /\ Answered(r) /\ pc' = [pc EXCEPT ![r] = "barrier"]
  /\ UNCHANGED <<registered, turn, h2d, halves, thread>>

\* Mutant: only a thread that loads answers.
AnswersIfLoading(r) == r \in Receivers

Answers(r) == TRUE

\* update_weights_from_ipc_: load_weights, tensor by tensor, and the answer.
Load(r) ==
  LET i == loaded[r] + 1 IN
  /\ Overlap /\ ~replied[r] /\ pc[r] # "register"
  /\ IF r \in Receivers /\ i <= Len(payload[r].names)
     THEN /\ loaded' = [loaded EXCEPT ![r] = i]
          /\ received' = [received EXCEPT ![r] =
               Append(@, Value(halves[r][payload[r].half], payload[r].names, i))]
          /\ UNCHANGED replied
     ELSE Answers(r) /\ replied' = [replied EXCEPT ![r] = TRUE] /\ UNCHANGED <<loaded, received>>
  /\ UNCHANGED <<registered, pc, turn, h2d, halves, payload>>

\* The last recv(), the end of the thread, and the last barrier.
Leave(r) ==
  /\ pc[r] = "last" /\ (Overlap => Answered(r))
  /\ pc' = [pc EXCEPT ![r] = "end"]
  /\ UNCHANGED <<registered, turn, h2d, halves, thread>>

Return ==
  /\ \A r \in Ranks : pc[r] = "end"
  /\ pc' = [r \in Ranks |-> "done"]
  /\ UNCHANGED <<registered, turn, h2d, halves, thread>>

RankStep(r) == Copy(r) \/ LoadNow(r) \/ Recv(r) \/ Hand(r) \/ Leave(r)
Collective == Register \/ Broadcast \/ Return
Next == Collective \/ \E r \in Ranks : RankStep(r) \/ Load(r)
Spec == Init /\ [][Next]_vars /\ WF_vars(Collective)
             /\ \A r \in Ranks : WF_vars(RankStep(r)) /\ WF_vars(Load(r))

----------------------------------------------------------------------------
Registered == sizes # Empty
AllWeights == DOMAIN sizes

\* Every variable has its type.
TypeOK ==
  /\ sizes \in Models \union {Empty}
  /\ pc \in [Ranks -> {"register", "copy", "broadcast", "load", "recv", "barrier", "last",
                       "end", "done"}]
  /\ Registered => \A r \in Ranks : turn[r] \in 1 .. Len(schedule) + 1
  /\ \A a \in ActorRanks : h2d[a] \in Seq(AllWeights)
  /\ \A r \in Ranks, b \in {0, 1} : halves[r][b] \in Seq(AllWeights)
  /\ loaded \in [Ranks -> 0 .. Len(sizes)]
  /\ replied \in [Ranks -> BOOLEAN]
  /\ received \in [Receivers -> Seq(AllWeights \union {0})]

\* The buckets hold every weight once, and none is larger than the buffer, whatever the
\* sizes and however many actors there are.
BucketsPartition ==
  LET all == {<<a, b>> : a \in ActorRanks, b \in 1 .. Len(sizes) + 1}
      real == {p \in all : p[2] <= Len(buckets[p[1]])} IN
  /\ \A w \in AllWeights :
       Cardinality({p \in real : w \in ToSet(buckets[p[1]][p[2]])}) = 1
  /\ \A p \in real : SizeOf(sizes, buckets[p[1]][p[2]]) <= BucketSize(sizes)

\* While a thread loads a bucket, nothing else is broadcast into its half.
LoadingStays ==
  \A r \in Ranks : Overlap /\ ~replied[r] /\ payload[r].names # Empty =>
    halves[r][payload[r].half] = payload[r].names

\* A rollout's rank that has returned has loaded every weight.
AllLoaded == \A r \in Receivers : pc[r] = "done" => ToSet(received[r]) = AllWeights

Abstract == INSTANCE WeightTransfer WITH Weights <- 1 .. Max({Len(m) : m \in Models})

\* Every rollout's rank loads weights with their values, each at most once.
Transfers == Abstract!Safety

Returned == \A r \in Ranks : pc[r] = "done"

\* Every rank returns.
AllReturn == <>Returned
=============================================================================
