----------------------------- MODULE BatchPath -----------------------------
(***************************************************************************)
(* The way of a batch through a training step or a validation: repeated,   *)
(* padded, split over the agent loop workers, joined with their responses, *)
(* balanced over the data parallel ranks, dispatched, cut into micro-      *)
(* batches, put back in order and collected.                               *)
(* A row is what the columns of one sample hold; the log-probabilities of  *)
(* a response are the response they were computed from.                    *)
(***************************************************************************)
EXTENDS Balancing

CONSTANTS
  Prompts,          \* the size of the batch the data loader gives
  TrainCopies, ValCopies,   \* rollout.n, val_kwargs.n
  AgentWorkers,     \* agent.num_workers
  Dp, Sp,           \* sizes of the actor's mesh
  MaxTokens,        \* ppo_max_token_len
  MicroSize,        \* ppo_micro_batch_size, without dynamic batches
  Lengths           \* sequences of lengths the responses may have

BatchPathAssumption ==
  /\ {Prompts, TrainCopies, ValCopies, AgentWorkers, Dp, Sp, MaxTokens, MicroSize} \subseteq Nat \ {0}
  /\ \A l \in Lengths : l \in Seq(1 .. MaxTokens) /\ Len(l) = Prompts * TrainCopies

VARIABLES
  config,      \* which of validating, grouping (use_prefix_grouper) and dynamic are on
  pc,          \* the driver
  batch,       \* its rows
  sent,        \* the rows given to the agent loop workers
  generated,   \* worker -> the responses of its chunk
  lengths,     \* response -> its length
  at,          \* rank -> where its call is
  counts,      \* rank -> num_micro_batches
  micro,       \* rank -> batch_idx_list
  computed,    \* rank -> micro-batches computed
  output       \* rank -> log-probabilities in the order of its rows

ranks == <<at, counts, micro, computed, output>>
vars == <<config, pc, batch, sent, generated, lengths, ranks>>

Workers == 1 .. AgentWorkers
Ranks == 0 .. Dp * Sp - 1
DpRank(r) == r \div Sp       \* the mesh is (dp, sp), row by row
Collects(r) == r % Sp = 0

Init ==
  /\ config = {} /\ pc = "repeat" /\ batch = <<>> /\ sent = <<>>
  /\ generated = [w \in Workers |-> <<>>] /\ lengths = <<>>
  /\ at = [r \in Ranks |-> "idle"] /\ counts = [r \in Ranks |-> 0]
  /\ micro = [r \in Ranks |-> <<>>] /\ computed = [r \in Ranks |-> 0]
  /\ output = [r \in Ranks |-> <<>>]

\* DataProto.chunk, of rows that divide evenly.
Chunk(rows, chunks, i) ==
  LET size == Len(rows) \div chunks IN SubSeq(rows, (i - 1) * size + 1, i * size)

\* repeat(interleave=True)
Interleaved(n) == [i \in 1 .. Prompts * n |-> [uid |-> (i - 1) \div n + 1]]

\* Mutant: the rows the responses join are tiled.
TiledRows(n) == [i \in 1 .. Prompts * n |-> [uid |-> ((i - 1) % Prompts) + 1]]

\* The rows of the batch that the responses join.
RowsToJoin(n) == Interleaved(n)

PadSize(rows, divisor) == (divisor - (Len(rows) % divisor)) % divisor

\* pad_dataproto_to_divisor: the first rows again, as often as it takes.
Padded(rows, divisor) ==
  rows \o [i \in 1 .. PadSize(rows, divisor) |-> rows[((i - 1) % Len(rows)) + 1]]

\* Mutant: the padding is taken off the front.
UnpaddedFront(rows, size) == SubSeq(rows, size + 1, Len(rows))

\* unpad_dataproto
Unpadded(rows, size) == SubSeq(rows, 1, Len(rows) - size)

\* fit() repeats the rows for the generation, and those that the responses will join;
\* _validate() repeats them once and pads those for the generation.
Repeat ==
  /\ pc = "repeat"
  /\ config' \in SUBSET {"validating", "grouping", "dynamic"}
  /\ IF "validating" \in config'
     THEN batch' = Interleaved(ValCopies) /\ sent' = Padded(batch', AgentWorkers)
     ELSE batch' = RowsToJoin(TrainCopies) /\ sent' = Interleaved(TrainCopies)
  /\ pc' = IF Len(sent') % AgentWorkers = 0 THEN "generate" ELSE "failed"
  /\ UNCHANGED <<generated, lengths, ranks>>

\* AgentLoopWorker.generate_sequences; the workers end in any order.
Generate(w) ==
  /\ pc = "generate" /\ generated[w] = <<>>
  /\ LET size == Len(sent) \div AgentWorkers IN
     generated' = [generated EXCEPT ![w] =
       [i \in 1 .. size |-> [id |-> (w - 1) * size + i, prompt |-> Chunk(sent, AgentWorkers, w)[i].uid]]]
  /\ UNCHANGED <<config, pc, batch, sent, lengths, ranks>>

\* concat, in the order of the workers, unpad and union.
Unite ==
  /\ pc = "generate" /\ \A w \in Workers : generated[w] # <<>>
  /\ LET all == FlattenSeq([w \in Workers |-> generated[w]])
         own == Unpadded(all, Len(sent) - Len(batch))
     IN  batch' = [i \in DOMAIN batch |-> [uid |-> batch[i].uid, response |-> own[i]]]
  /\ IF "validating" \in config THEN pc' = "done" /\ UNCHANGED lengths
     ELSE pc' = "balance" /\ lengths' \in Lengths
  /\ UNCHANGED <<config, sent, generated, ranks>>

LengthsOf(rows) == [i \in DOMAIN rows |-> lengths[rows[i].response.id]]

\* The long samples of a rank in the middle.
Ordered(W, part) ==
  With(ByWorkload(W, part), LAMBDA sorted : Evens(sorted) \o Reverse(Odds(sorted)))

\* Mutant: the samples of a rank are put in order whatever their prompts.
AlwaysOrdered(W, part) == Ordered(W, part)

\* The order of a rank's samples: those of a prompt stay side by side.
InRank(W, part) == IF "grouping" \in config THEN part ELSE Ordered(W, part)

Balanceable == IF "grouping" \in config THEN Prompts % Dp = 0 ELSE Len(batch) % Dp = 0

\* The batch's rows in their new order, rank by rank.
BalancedOrder(ls) ==
  With(Workloads(ls), LAMBDA W :
    With(IF "grouping" \in config
         THEN GroupPartitions(ls, [i \in DOMAIN batch |-> batch[i].uid], Dp)
         ELSE BalancedPartitions(W, Dp, TRUE),
      LAMBDA parts : FlattenSeq([p \in 1 .. Dp |-> InRank(W, parts[p])])))

\* _balance_batch
Balance ==
  /\ pc = "balance"
  /\ IF Balanceable
     THEN /\ batch' = With(BalancedOrder(LengthsOf(batch)),
                          LAMBDA order : [i \in DOMAIN order |-> batch[order[i]]])
          /\ pc' = "dispatch"
     ELSE pc' = "failed" /\ UNCHANGED batch
  /\ UNCHANGED <<config, sent, generated, lengths, ranks>>

\* Mutant: the chunk of the rank, not of its place on the mesh.
ChunkOfRank(r) == (r % Dp) + 1

ChunkOf(r) == DpRank(r) + 1

\* dispatch_lazy_compute_data_proto: every rank gets the chunk of its dp rank.
Part(r) == Chunk(batch, Dp, ChunkOf(r))

Dispatch ==
  /\ pc = "dispatch" /\ pc' = "compute"
  /\ at' = [r \in Ranks |-> IF "dynamic" \in config THEN "count" ELSE "split"]
  /\ UNCHANGED <<config, batch, sent, generated, lengths, counts, micro, computed, output>>

\* rearrange_micro_batches, up to its all_reduce.
Count(r) ==
  LET ls == LengthsOf(Part(r)) IN
  /\ at[r] = "count" /\ at' = [at EXCEPT ![r] = "reduce"]
  /\ counts' = [counts EXCEPT ![r] =
       Min({Len(ls), CeilDiv(Load(ls, [i \in DOMAIN ls |-> i]), MaxTokens)})]
  /\ UNCHANGED <<config, pc, batch, sent, generated, lengths, micro, computed, output>>

\* Mutant: no rank learns of the others' numbers.
OwnCount(r) == counts[r]

CommonCount(r) == Max({counts[q] : q \in Ranks})

AllReduce ==
  /\ \A r \in Ranks : at[r] = "reduce"
  /\ counts' = [r \in Ranks |-> CommonCount(r)]
  /\ at' = [r \in Ranks |-> "split"]
  /\ UNCHANGED <<config, pc, batch, sent, generated, lengths, micro, computed, output>>

\* DataProto.split
Slices(n) ==
  [s \in 1 .. CeilDiv(n, MicroSize) |->
     [i \in 1 .. Min({MicroSize, n - (s - 1) * MicroSize}) |-> (s - 1) * MicroSize + i]]

Split(r) ==
  /\ at[r] = "split" /\ at' = [at EXCEPT ![r] = "forward"]
  /\ micro' = [micro EXCEPT ![r] =
       IF "dynamic" \in config THEN MicroBatches(LengthsOf(Part(r)), counts[r])
       ELSE Slices(Len(Part(r)))]
  /\ UNCHANGED <<config, pc, batch, sent, generated, lengths, counts, computed, output>>

Remains(r) == at[r] = "forward" /\ computed[r] < Len(micro[r])

\* A forward pass gathers the sharded weights from every rank.
Forward ==
  /\ \A r \in Ranks : Remains(r)
  /\ computed' = [r \in Ranks |-> computed[r] + 1]
  /\ UNCHANGED <<config, pc, batch, sent, generated, lengths, at, counts, micro, output>>

Return(r) ==
  LET rows == FlattenSeq([m \in DOMAIN micro[r] |->
                [i \in DOMAIN micro[r][m] |-> Part(r)[micro[r][m][i]].response]]) IN
  /\ at[r] = "forward" /\ computed[r] = Len(micro[r])
  /\ at' = [at EXCEPT ![r] = "end"]
  /\ output' = [output EXCEPT ![r] = IF "dynamic" \in config THEN Restored(rows, micro[r]) ELSE rows]
  /\ UNCHANGED <<config, pc, batch, sent, generated, lengths, counts, micro, computed>>

\* collect_lazy_compute_data_proto and union.
Collect ==
  /\ pc = "compute" /\ \A r \in Ranks : at[r] = "end"
  /\ LET all == FlattenSeq([d \in 1 .. Dp |-> FlattenSeq([s \in 1 .. Sp |->
                  LET r == (d - 1) * Sp + s - 1 IN IF Collects(r) THEN output[r] ELSE <<>>])])
     IN  batch' = [i \in DOMAIN batch |->
           [uid |-> batch[i].uid, response |-> batch[i].response, logProbs |-> all[i]]]
  /\ pc' = "done"
  /\ UNCHANGED <<config, sent, generated, lengths, ranks>>

Driver == Repeat \/ Unite \/ Balance \/ Dispatch \/ AllReduce \/ Forward \/ Collect
RankStep(r) == Count(r) \/ Split(r) \/ Return(r)
Next == Driver \/ (\E w \in Workers : Generate(w)) \/ (\E r \in Ranks : RankStep(r))
Spec == Init /\ [][Next]_vars /\ WF_vars(Next)

----------------------------------------------------------------------------
Rows == [uid : 1 .. Prompts]
Responses == [id : 1 .. Prompts * Max({TrainCopies, ValCopies}) + AgentWorkers, prompt : 1 .. Prompts]

\* Every variable has its type; a rank has no more micro-batches than rows.
TypeOK ==
  /\ config \subseteq {"validating", "grouping", "dynamic"}
  /\ pc \in {"repeat", "generate", "balance", "dispatch", "compute", "done", "failed"}
  /\ \A i \in DOMAIN batch : batch[i].uid \in 1 .. Prompts
  /\ sent \in Seq(Rows) /\ \A w \in Workers : generated[w] \in Seq(Responses)
  /\ at \in [Ranks -> {"idle", "count", "reduce", "split", "forward", "end"}]
  /\ \A r \in Ranks : /\ counts[r] <= Prompts * TrainCopies
                      /\ computed[r] <= Len(micro[r]) /\ Len(micro[r]) <= Prompts * TrainCopies

\* Through repeats, padding, chunks, balancing, micro-batches and the mesh every row
\* keeps what belongs to it: its response is one to its prompt, no response is lost or
\* there twice, and its log-probabilities are those of its response.
RowsAligned ==
  /\ pc \in {"balance", "dispatch", "compute", "done"} =>
       /\ \A i \in DOMAIN batch : batch[i].response.prompt = batch[i].uid
       /\ {batch[i].response.id : i \in DOMAIN batch} = DOMAIN batch
  /\ pc = "done" /\ "validating" \notin config =>
       \A i \in DOMAIN batch : batch[i].logProbs = batch[i].response

Total(rows) == With(Workloads(LengthsOf(rows)), LAMBDA W : Load(W, [i \in DOMAIN rows |-> i]))

\* The loads of what stays together: the samples, or the samples of each prompt.
UnitLoads ==
  IF "grouping" \in config
  THEN [u \in 1 .. Prompts |-> Total(SelectSeq(batch, LAMBDA row : row.uid = u))]
  ELSE [i \in DOMAIN batch |-> Total(<<batch[i]>>)]

\* The partition pays for no more than one unlucky choice: no data parallel rank has
\* more work than another by more than Dp neighbours in the order of the loads differ.
RanksBalanced ==
  pc = "compute" =>
    With(SortSeq(UnitLoads, <), LAMBDA sorted :
      LET spreads == {sorted[b * Dp] - sorted[(b - 1) * Dp + 1] : b \in 1 .. Len(sorted) \div Dp} IN
      \A r, q \in Ranks : Total(Part(r)) <= Total(Part(q)) + Max(spreads))

\* With the prefix grouper the samples of a prompt are on one rank, side by side.
GroupsTogether ==
  pc = "compute" /\ "grouping" \in config =>
    \A u \in 1 .. Prompts :
      LET rows(r) == {i \in DOMAIN Part(r) : Part(r)[i].uid = u} IN
      \A r \in Ranks : rows(r) # {} =>
        rows(r) \in {a .. a + TrainCopies - 1 : a \in DOMAIN Part(r)}

Returned == pc = "done"

\* No rank waits in a forward pass for one that has no micro-batch left: the step
\* returns, whatever the lengths on the ranks.
StepReturns == <>Returned

\* The docstring of rearrange_micro_batches, "max_token_len (int): max sum of
\* attention_mask per micro-batch".
MicroBatchesFit ==
  \A r \in Ranks : "dynamic" \in config => \A m \in DOMAIN micro[r] :
    Load(LengthsOf(Part(r)), micro[r][m]) <= MaxTokens
=============================================================================
