----------------------------- MODULE Advantages -----------------------------
(***************************************************************************)
(* trainer/ppo/core_algos.py: the advantage estimators, up to the          *)
(* whitening of what they return (an increasing affine map) and epsilon.   *)
(* A batch is a sequence of rows: the response_mask over the positions of  *)
(* a response, the number of its tokens (of the model or of a tool), its   *)
(* score and the prompt (uid) it answers.  Numbers that may not be whole   *)
(* are ratios.                                                             *)
(***************************************************************************)
EXTENDS Integers, Sequences, FiniteSets, FiniteSetsExt

CONSTANTS
  Batches,    \* sequences of rows
  Gamma, Lam, \* discount factors, of which nothing needs that they are below 1
  Kl,         \* what the KL penalty takes off at each position, if it is the model's
  Value,      \* the critic's value at each position
  Energy,     \* 1 - 2 pi + sum of pi^2 at each position
  Baseline    \* the score of ReMax's greedy response

Times == DOMAIN Value

AdvantagesAssumption ==
  /\ Gamma \in Nat /\ Lam \in Nat /\ Baseline \in Int
  /\ Value \in Seq(Int) /\ Kl \in [Times -> Int] /\ Energy \in [Times -> Nat \ {0}]
  /\ \A b \in Batches : \A i \in DOMAIN b :
       /\ b[i].mask \in [Times -> {0, 1}] /\ b[i].len \in Times /\ b[i].score \in Int
       /\ \E t \in Times : b[i].mask[t] = 1
       /\ \A t \in Times : b[i].mask[t] = 1 => t <= b[i].len

VARIABLES
  batch,      \* the rows, those of the same uid a group
  estimates   \* by estimator, what it returns for every row

vars == <<batch, estimates>>

Power(base, n) == IF n = 0 THEN 1 ELSE base ^ n
Total(f(_), S) == MapThenSumSet(f, S)

Ratio(n, d) == IF d = 0 THEN [n |-> 0, d |-> 1] ELSE [n |-> n, d |-> d]
Whole(n) == Ratio(n, 1)
Minus(a, b) == Ratio(a.n * b.d - b.n * a.d, a.d * b.d)
Equal(a, b) == a.n * b.d = b.n * a.d

\* The score is on the last token of the response, a tool's or the model's.
Reward(r, t) == (IF t = r.len THEN r.score ELSE 0) - Kl[t] * r.mask[t]

Score(r) == Total(LAMBDA t : Reward(r, t), Times)
ModelTokens(r) == {t \in Times : r.mask[t] = 1}
Group(b, i) == {j \in DOMAIN b : b[j].uid = b[i].uid}
Size(b, i) == Cardinality(Group(b, i))
GroupScore(b, i) == Total(LAMBDA j : Score(b[j]), Group(b, i))

----------------------------------------------------------------------------
\* Mutant: a tool's tokens have values too.
StepAlways(r, t, after) ==
  [value |-> Value[t],
   gae |-> Reward(r, t) + Gamma * after.value - Value[t] + Gamma * Lam * after.gae]

\* A turn of compute_gae_advantage_return's loop, after the later tokens' turns.
GaeStep(r, t, after) ==
  IF r.mask[t] = 0 THEN after
  ELSE [value |-> Value[t],
        gae |-> Reward(r, t) + Gamma * after.value - Value[t] + Gamma * Lam * after.gae]

Gae(r) ==
  LET at[t \in 1 .. Len(Value) + 1] ==
        IF t > Len(Value) THEN [value |-> 0, gae |-> 0] ELSE GaeStep(r, t, at[t + 1])
  IN [t \in Times |-> at[t].gae]

\* Mutant: the return is not reset.
NextNotReset(r, t, later) == IF t = Len(Value) THEN 0 ELSE later[t + 1]

\* What running_return is when compute_reinforce_plus_plus_outcome_advantage gets to t.
NextReturn(r, t, later) == IF t = Len(Value) THEN 0 ELSE later[t + 1] * r.mask[t + 1]

ReinforcePP(r) ==
  LET returns[t \in Times] == Reward(r, t) + Gamma * NextReturn(r, t, returns)
  IN [t \in Times |-> returns[t]]

\* The rewards of the model's tokens from t on.
ReturnToGo(r, t) == Total(LAMBDA u : Reward(r, u) * r.mask[u], t .. Len(Value))

Remax(r) == [t \in Times |-> ReturnToGo(r, t) - Baseline * r.mask[t]]

----------------------------------------------------------------------------
\* Score less the group's mean, which is 0 in a group of one.
Deviation(b, i) ==
  IF Size(b, i) = 1 THEN Whole(Score(b[i]))
  ELSE Ratio(Size(b, i) * Score(b[i]) - GroupScore(b, i), Size(b, i))

\* torch.std squared, which is 1 in a group of one.
Variance(b, i) ==
  LET n == Size(b, i) IN
  IF n = 1 THEN Whole(1)
  ELSE Ratio(n * Total(LAMBDA j : Score(b[j]) ^ 2, Group(b, i)) - GroupScore(b, i) ^ 2, n * (n - 1))

Grpo(b, i) == [over |-> Deviation(b, i), under |-> Variance(b, i)]

\* group_mean_std
GrpoVectorized(b, i) ==
  LET n == Size(b, i)
      squares == Total(LAMBDA j : Score(b[j]) ^ 2, Group(b, i))
  IN [over |-> IF n = 1 THEN Whole(Score(b[i]))
               ELSE Minus(Whole(Score(b[i])), Ratio(GroupScore(b, i), n)),
      under |-> IF n = 1 THEN Whole(1)
                ELSE Ratio(squares * n - GroupScore(b, i) ^ 2, n * Max({n - 1, 1}))]

\* The best of each group of at least two, by how much it is better than the second.
PassAtK(b, i) ==
  LET best == CHOOSE j \in Group(b, i) : \A k \in Group(b, i) : Score(b[k]) <= Score(b[j])
      rest == {Score(b[k]) : k \in Group(b, i) \ {best}}
  IN IF i = best THEN Score(b[i]) - Max(rest) ELSE 0

\* Mutant: the mean counts the sample itself.
RlooOfAll(b, i) == Deviation(b, i)

Rloo(b, i) ==
  LET n == Size(b, i) IN
  IF n = 1 THEN Whole(Score(b[i])) ELSE Ratio(Score(b[i]) * n - GroupScore(b, i), n - 1)

RlooVectorized(b, i) ==
  LET n == Size(b, i) IN
  IF n = 1 THEN Whole(0) ELSE Ratio(n * Score(b[i]) - GroupScore(b, i), Max({n - 1, 1}))

\* The baseline weighs the scores of the group by their lengths.
Opo(b, i) ==
  LET length(j) == Cardinality(ModelTokens(b[j])) IN
  IF Size(b, i) = 1 THEN Whole(Score(b[i]))
  ELSE Minus(Whole(Score(b[i])),
             Ratio(Total(LAMBDA j : length(j) * Score(b[j]), Group(b, i)),
                   Total(LAMBDA j : length(j), Group(b, i))))

Gpg(b, i) ==
  LET scored == {j \in DOMAIN b : Score(b[j]) # 0}
  IN Ratio(Len(b) * Deviation(b, i).n, Max({Cardinality(scored), 1}) * Deviation(b, i).d)

----------------------------------------------------------------------------
\* What the optimal token baseline looks at: the mask, the returns and the energies.
Trajectory(r) == [mask |-> r.mask, returns |-> [t \in Times |-> ReturnToGo(r, t)], energy |-> Energy]

Cumulated(x, t) == Total(LAMBDA u : x.energy[u] * x.mask[u], 1 .. t)

\* At t the returns of the group's trajectories, weighed by the energy up to t.
OptimalBaseline(X, group, t) ==
  LET at == {j \in group : X[j].mask[t] = 1} IN
  Ratio(Total(LAMBDA j : X[j].returns[t] * Cumulated(X[j], t), at),
        Total(LAMBDA j : Cumulated(X[j], t), at))

Longest(X, group, i, t) ==
  LET length(j) == Total(LAMBDA u : X[j].mask[u], Times)
  IN \A j \in group \ {i} : length(j) < length(i) /\ length(j) < t

\* With handle_zero_tail what is longer than all others of the group has no baseline.
OptimalTokenBaseline(X, group, i, tail) ==
  [t \in Times |->
     IF X[i].mask[t] = 0 THEN Whole(0)
     ELSE Minus(Whole(X[i].returns[t]),
                IF Cardinality(group) = 1 \/ (tail /\ Longest(X, group, i, t))
                THEN Whole(0) ELSE OptimalBaseline(X, group, t))]

\* The place of each model's token among them, and the token at a place.
PlaceOf(x, t) == Total(LAMBDA u : x.mask[u], 1 .. t)
TokenAt(x, p) == CHOOSE t \in Times : x.mask[t] = 1 /\ PlaceOf(x, t) = p

\* Mutant: by position, so that tools' tokens stand between the model's.
ConcatenatedInPlace(x) ==
  [x EXCEPT !.returns = [t \in Times |-> x.returns[t] * x.mask[t]]]

\* The multi-turn estimator puts the model's tokens of a trajectory one behind another.
Concatenated(x) ==
  LET n == PlaceOf(x, Len(Value))
      of(f) == [p \in Times |-> IF p <= n THEN f[TokenAt(x, p)] ELSE 0]
  IN [mask |-> [p \in Times |-> IF p <= n THEN 1 ELSE 0], returns |-> of(x.returns), energy |-> of(x.energy)]

MultiTurnBaseline(X, group, i, tail) ==
  LET adv == OptimalTokenBaseline([j \in DOMAIN X |-> Concatenated(X[j])], group, i, tail)
  IN [t \in Times |-> IF X[i].mask[t] = 1 THEN adv[PlaceOf(X[i], t)] ELSE Whole(0)]

----------------------------------------------------------------------------
\* What each of the estimators returns for the i-th row of b.
Estimates(b, i) ==
  LET X == [j \in DOMAIN b |-> Trajectory(b[j])] IN
  [gae |-> Gae(b[i]), reinforcePP |-> ReinforcePP(b[i]), remax |-> Remax(b[i]),
   grpo |-> Grpo(b, i), grpoVectorized |-> GrpoVectorized(b, i),
   rloo |-> Rloo(b, i), rlooVectorized |-> RlooVectorized(b, i),
   opo |-> Opo(b, i), gpg |-> Gpg(b, i),
   passAtK |-> IF Size(b, i) > 1 THEN PassAtK(b, i) ELSE 0,
   otb |-> OptimalTokenBaseline(X, Group(b, i), i, FALSE),
   tirOtb |-> MultiTurnBaseline(X, Group(b, i), i, TRUE)]

Init == batch = <<>> /\ estimates = <<>>

\* compute_advantage on a batch, with every estimator it may be configured with.
Compute ==
  /\ batch = <<>>
  /\ \E b \in Batches :
       /\ batch' = b
       /\ estimates' = [i \in DOMAIN b |-> Estimates(b, i)]

Next == Compute
Spec == Init /\ [][Next]_vars
----------------------------------------------------------------------------
TypeOK == /\ batch \in Batches \cup {<<>>}
        /\ DOMAIN estimates = DOMAIN batch

\* GAE passes over the tokens of tools: the advantage of a model's token is the sum of
\* the discounted temporal differences between the model's tokens, from it on.
ToolTokensSkipped ==
  \A i \in DOMAIN batch : \A t \in ModelTokens(batch[i]) :
    LET m == {u \in ModelTokens(batch[i]) : u >= t}
        next(u) == IF u = Max(m) THEN 0 ELSE Value[Min({v \in m : v > u})]
        steps(u) == Cardinality({v \in m : v < u})
    IN estimates[i].gae[t] =
         Total(LAMBDA u : Power(Gamma * Lam, steps(u))
                            * (Reward(batch[i], u) + Gamma * next(u) - Value[u]), m)

\* REINFORCE++ returns to a token the rewards of its own turn, those before the next
\* token of a tool.
ReturnsOfOwnTurn ==
  \A i \in DOMAIN batch : \A t \in Times :
    LET turn == {u \in t .. Len(Value) : (t + 1) .. u \subseteq ModelTokens(batch[i])}
    IN estimates[i].reinforcePP[t] =
         Total(LAMBDA u : Power(Gamma, u - t) * Reward(batch[i], u), turn)

\* Whoever is better than the rest of its prompt's group has another that is worse: the
\* estimates of a group add up to 0, weighed by the lengths with OPO; pass@k alone picks
\* one, if it is better than all others.
GroupsCentred ==
  \A i \in DOMAIN batch :
    LET group == Group(batch, i)
        length(j) == Cardinality(ModelTokens(batch[j]))
        picked == {j \in group : estimates[j].passAtK # 0}
        Centred(of(_), weight(_)) ==
          MapThenFoldSet(LAMBDA a, b : Ratio(a.n * b.d + b.n * a.d, a.d * b.d), Whole(0),
                         LAMBDA j : Ratio(weight(j) * of(j).n, of(j).d),
                         LAMBDA S : CHOOSE j \in S : TRUE, group).n = 0
    IN Cardinality(group) > 1 =>
         /\ Centred(LAMBDA j : estimates[j].grpo.over, LAMBDA j : 1)
         /\ Centred(LAMBDA j : estimates[j].rloo, LAMBDA j : 1)
         /\ Centred(LAMBDA j : estimates[j].gpg, LAMBDA j : 1)
         /\ Centred(LAMBDA j : estimates[j].opo, length)
         /\ Cardinality(picked) <= 1
         /\ \A j \in picked : /\ estimates[j].passAtK > 0
                              /\ \A k \in group \ {j} : Score(batch[k]) < Score(batch[j])

\* The vectorized estimators agree with the loops, RLOO's in groups of more than one.
VectorizedAgree ==
  \A i \in DOMAIN batch :
    LET e == estimates[i] IN
    /\ Equal(e.grpo.over, e.grpoVectorized.over)
    /\ Equal(e.grpo.under, e.grpoVectorized.under)
    /\ Size(batch, i) > 1 => Equal(e.rloo, e.rlooVectorized)

\* The multi-turn baseline compares the n-th tokens of the model, whatever tools wrote
\* between them: weighed by their energies their advantages add up to 0, and one that no
\* other response of the prompt is long enough for keeps its return.
TurnsCompared ==
  \A i \in DOMAIN batch : \A t \in ModelTokens(batch[i]) :
    LET X == [j \in DOMAIN batch |-> Trajectory(batch[j])]
        n == PlaceOf(X[i], t)
        group == Group(batch, i)
        at == {j \in group : Cardinality(ModelTokens(batch[j])) >= n}
        sum == MapThenFoldSet(LAMBDA a, b : Ratio(a.n * b.d + b.n * a.d, a.d * b.d), Whole(0),
                 LAMBDA j : LET a == estimates[j].tirOtb[TokenAt(X[j], n)]
                                w == Cumulated(X[j], TokenAt(X[j], n))
                            IN Ratio(w * a.n, a.d),
                 LAMBDA S : CHOOSE j \in S : TRUE, at)
    IN IF at = {i} THEN Equal(estimates[i].tirOtb[t], Whole(ReturnToGo(batch[i], t)))
       ELSE sum.n = 0
=============================================================================
