-------------------------- MODULE LossAggregation --------------------------
(***************************************************************************)
(* How the loss of a mini-batch comes out of its parts: the ranks divide   *)
(* its rows evenly, each forms micro-batches of its own and adds up their  *)
(* gradients, and FSDP averages the ranks'.  A row is the number of its    *)
(* tokens that count and the sum of their losses; what an optimizer step   *)
(* sees of it is the same mix of the losses.  The engine workers           *)
(* (workers/utils/losses.py, engine/fsdp) pass the totals of the           *)
(* mini-batch to agg_loss, the legacy ones (dp_actor.py) scale the losses  *)
(* of micro-batches.                                                       *)
(***************************************************************************)
EXTENDS Integers, Sequences, FiniteSets, FiniteSetsExt, Functions

CONSTANTS Batches,       \* mini-batches: sequences of rows
          Dp,            \* ranks
          Width,         \* response_length
          ScaleFactor    \* the actor's loss_scale_factor, 0 for none

LossAssumption ==
  /\ Dp \in Nat \ {0} /\ Width \in Nat \ {0} /\ ScaleFactor \in Nat
  /\ \A b \in Batches :
       /\ b \in Seq([tokens : 0 .. Width, sum : Int]) /\ b # <<>> /\ Len(b) % Dp = 0
       /\ \A i \in DOMAIN b : b[i].tokens = 0 => b[i].sum = 0
       /\ \E i \in DOMAIN b : b[i].tokens > 0

Ranks == 1 .. Dp
Modes == {"token-mean", "seq-mean-token-sum", "seq-mean-token-mean", "seq-mean-token-sum-norm"}

VARIABLES
  batch,        \* the mini-batch
  micro,        \* the micro-batches of each rank, sets of rows
  engine,       \* by mode, the loss the engine workers step with
  legacy,       \* that of the legacy workers with batches of dynamic size
  accumulated   \* and with micro-batches of one size

vars == <<batch, micro, engine, legacy, accumulated>>

Fraction(n, d) == [n |-> n, d |-> d]
Zero == Fraction(0, 1)
Plus(a, b) == Fraction(a.n * b.d + b.n * a.d, a.d * b.d)
Scaled(a, n, d) == Fraction(a.n * n, a.d * d)
Equal(a, b) == a.n * b.d = b.n * a.d
Added(f(_), S) == MapThenFoldSet(Plus, Zero, f, LAMBDA T : CHOOSE x \in T : TRUE, S)

\* The mean of a sum of losses; torch divides by 0 too, which no step uses.
Over(a, d) == IF d = 0 THEN Zero ELSE Scaled(a, 1, d)

Tokens(b, rows) == MapThenSumSet(LAMBDA i : b[i].tokens, rows)
Sums(b, rows) == Fraction(MapThenSumSet(LAMBDA i : b[i].sum, rows), 1)
Means(b, rows) == Added(LAMBDA i : Over(Fraction(b[i].sum, 1), b[i].tokens), rows)
NonEmpty(b, rows) == {i \in rows : b[i].tokens > 0}

\* The totals a loss is normalized with: 0 where it has to count its own rows.
NoTotals == [dp_size |-> 1, batch_num_tokens |-> 0, global_batch_size |-> 0, loss_scale_factor |-> 0]

Given(total, own) == IF total = 0 THEN own ELSE total

agg_loss(b, rows, mode, totals) ==
  CASE mode = "token-mean" ->
         Scaled(Over(Sums(b, rows), Given(totals.batch_num_tokens, Tokens(b, rows))), totals.dp_size, 1)
    [] mode = "seq-mean-token-sum" ->
         Scaled(Over(Sums(b, rows), Given(totals.global_batch_size, Cardinality(NonEmpty(b, rows)))),
                totals.dp_size, 1)
    [] mode = "seq-mean-token-mean" ->
         Scaled(Over(Means(b, rows), Given(totals.global_batch_size, Cardinality(NonEmpty(b, rows)))),
                totals.dp_size, 1)
    [] mode = "seq-mean-token-sum-norm" ->
         Over(Sums(b, rows), Given(totals.loss_scale_factor, Width))

\* Mutant: the tokens are not reduced over the ranks.
TotalsOfRank(b, rows) ==
  [dp_size |-> Dp, batch_num_tokens |-> Tokens(b, rows), global_batch_size |-> Len(b),
   loss_scale_factor |-> ScaleFactor]

\* What forward_backward_batch assigns and ppo_loss passes on, on a rank with these rows.
EngineTotals(b, rows) ==
  [dp_size |-> Dp, batch_num_tokens |-> Tokens(b, DOMAIN b), global_batch_size |-> Len(b),
   loss_scale_factor |-> ScaleFactor]

\* The average over the ranks of what each adds up over its micro-batches.
Step(loss(_, _), m) ==
  Over(Added(LAMBDA r : Added(LAMBDA rows : loss(r, rows), m[r]), Ranks), Dp)

EngineLoss(b, m, mode) ==
  Step(LAMBDA r, rows : agg_loss(b, rows, mode, EngineTotals(b, UNION m[r])), m)

\* Mutant: all micro-batches weigh the same.
ShareOfOne(rows, size) == Fraction(1, size)

\* loss_scale_factor of a micro-batch of dynamic size.
ShareOfRows(rows, size) == Fraction(Cardinality(rows), size)

\* update_policy, whose losses get no totals, of ranks with a mini-batch of this size.
LegacyLoss(b, m, mode) ==
  LET size == Len(b) \div Dp IN
  Step(LAMBDA r, rows : LET share == ShareOfRows(rows, size)
                        IN Scaled(agg_loss(b, rows, mode, NoTotals), share.n, share.d), m)

\* The same with 1 / gradient_accumulation.
AccumulatedLoss(b, m, mode) ==
  Step(LAMBDA r, rows : Scaled(agg_loss(b, rows, mode, NoTotals), 1, Cardinality(m[r])), m)

OneSize(m) == \A r, s \in Ranks : \A p \in m[r], q \in m[s] : Cardinality(p) = Cardinality(q)

----------------------------------------------------------------------------
Init == batch = <<>> /\ micro = <<>> /\ engine = <<>> /\ legacy = <<>> /\ accumulated = <<>>

Partitions(S) ==
  {P \in SUBSET (SUBSET S \ {{}}) : UNION P = S /\ \A p, q \in P : p # q => p \cap q = {}}

\* A mini-batch is trained, however it is divided.
UpdatePolicy ==
  /\ batch = <<>>
  /\ \E b \in Batches : \E rank \in [DOMAIN b -> Ranks] :
       LET rows(r) == {i \in DOMAIN b : rank[i] = r} IN
       /\ \A r \in Ranks : Cardinality(rows(r)) * Dp = Len(b)
       /\ batch' = b
       /\ micro' \in {m \in [Ranks -> UNION {Partitions(rows(r)) : r \in Ranks}] :
                        \A r \in Ranks : UNION m[r] = rows(r)}
       /\ engine' = [mode \in Modes |-> EngineLoss(b, micro', mode)]
       /\ legacy' = [mode \in Modes |-> LegacyLoss(b, micro', mode)]
       /\ accumulated' = [mode \in Modes |-> IF OneSize(micro') THEN AccumulatedLoss(b, micro', mode)
                                                                ELSE LegacyLoss(b, micro', mode)]

Next == UpdatePolicy
Spec == Init /\ [][Next]_vars
----------------------------------------------------------------------------
TypeOK == /\ batch \in Batches \cup {<<>>}
          /\ batch # <<>> => DOMAIN engine = Modes /\ DOMAIN legacy = Modes

\* The loss of the whole mini-batch on one rank, as one micro-batch.
OneRank(mode) ==
  agg_loss(batch, DOMAIN batch, mode,
           [NoTotals EXCEPT !.global_batch_size = Len(batch), !.loss_scale_factor = ScaleFactor])

\* However ranks and micro-batches divide a mini-batch, the engine workers step with the
\* loss one rank has of all of it, but for the sums normed by a constant, which lack the
\* factor of the ranks and come out a Dp-th.
EngineInvariant ==
  batch # <<>> => \A mode \in Modes :
    IF mode = "seq-mean-token-sum-norm" THEN Equal(Scaled(engine[mode], Dp, 1), OneRank(mode))
                                        ELSE Equal(engine[mode], OneRank(mode))

\* The legacy workers do with means over the rows, if no row is empty.
LegacyInvariant ==
  batch # <<>> /\ (\A i \in DOMAIN batch : batch[i].tokens > 0) =>
    \A mode \in {"seq-mean-token-sum", "seq-mean-token-mean"} :
      Equal(legacy[mode], OneRank(mode)) /\ Equal(accumulated[mode], OneRank(mode))

\* agg_loss says that it aggregates "to ensure the loss is invariant to fsdp/megatron
\* parallelism".
AggregationInvariant ==
  batch # <<>> => \A mode \in Modes : Equal(engine[mode], OneRank(mode))

\* The same of the legacy workers, with their default mode.
LegacyTokenMean == batch # <<>> => Equal(legacy["token-mean"], OneRank("token-mean"))
=============================================================================
