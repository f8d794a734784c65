----------------------------- MODULE Balancing -----------------------------
(***************************************************************************)
(* utils/seqlen_balancing.py: the Karmarkar-Karp partition of samples by   *)
(* their workloads, and what is built on it.  A workload list W is a       *)
(* sequence of numbers; samples are its indices.                           *)
(***************************************************************************)
EXTENDS Naturals, Sequences, FiniteSets, SequencesExt, FiniteSetsExt

\* Op(v), for a v that is worked out once.
With(v, Op(_)) == CHOOSE result \in {Op(x) : x \in {v}} : TRUE

\* calculate_workload
Workloads(lengths) == [i \in DOMAIN lengths |-> 24576 * lengths[i] + lengths[i] * lengths[i]]

Load(W, items) == FoldLeft(LAMBDA sum, i : sum + W[i], 0, items)

\* Set.__lt__: by sum, by length, and then by the items themselves.
SetLess(W, a, b) ==
  \/ Load(W, a) < Load(W, b)
  \/ Load(W, a) = Load(W, b) /\ Len(a) < Len(b)
  \/ Load(W, a) = Load(W, b) /\ Len(a) = Len(b) /\ a # b /\ a[1] < b[1]

\* The k sets of a State, in decreasing order.
Decreasing(W, sets) == SortSeq(sets, LAMBDA a, b : SetLess(W, b, a))

Spread(W, state) == Load(W, state[1]) - Load(W, state[Len(state)])

\* State.__lt__, the order of the heap: the largest spread, then the largest set.
StateLess(W, s, t) ==
  \/ Spread(W, s) > Spread(W, t)
  \/ Spread(W, s) = Spread(W, t) /\ SetLess(W, t[1], s[1])

FirstState(W, S) == CHOOSE s \in S : \A t \in S \ {s} : StateLess(W, s, t)

\* Mutant: the largest set of one is joined with the largest of the other.
MergedAlike(W, s, t) == Decreasing(W, [i \in DOMAIN s |-> s[i] \o t[i]])

Merged(W, s, t) == Decreasing(W, [i \in DOMAIN s |-> s[i] \o t[Len(s) + 1 - i]])

\* The two first states of the heap become one.
MergeTwo(W, S) ==
  With(FirstState(W, S), LAMBDA s :
    With(FirstState(W, S \ {s}), LAMBDA t : (S \ {s, t}) \union {Merged(W, s, t)}))

\* The items by their workloads.
ByWorkload(W, items) == SortSeq(items, LAMBDA i, j : W[i] < W[j] \/ (W[i] = W[j] /\ i < j))

\* The states before any merge: with equal_size k samples of neighbouring workloads
\* in one state, and otherwise a state for each sample.
FirstStates(W, k, equal) ==
  IF equal
  THEN With(ByWorkload(W, [i \in DOMAIN W |-> i]), LAMBDA sorted :
         {Decreasing(W, [i \in 1 .. k |-> <<sorted[b * k + i]>>]) : b \in 0 .. (Len(W) \div k) - 1})
  ELSE {[i \in 1 .. k |-> IF i = 1 THEN <<w>> ELSE <<>>] : w \in DOMAIN W}

KarmarkarKarp(W, k, equal) ==
  With(FirstStates(W, k, equal), LAMBDA S :
    CHOOSE s \in FoldLeft(LAMBDA states, n : With(states, LAMBDA T : MergeTwo(W, T)), S,
                          [n \in 1 .. Cardinality(S) - 1 |-> n]) : TRUE)

Ascending(items) == SortSeq(items, LAMBDA i, j : i < j)

\* get_seqlen_balanced_partitions
BalancedPartitions(W, k, equal) ==
  With(KarmarkarKarp(W, k, equal), LAMBDA parts : [i \in 1 .. k |-> Ascending(parts[i])])

\* get_group_balanced_partitions: the samples of a uid, which are neighbours, go together.
GroupPartitions(lengths, uids, k) ==
  LET starts == SelectSeq([i \in DOMAIN uids |-> i], LAMBDA i : i = 1 \/ uids[i - 1] # uids[i])
      end(g) == IF g < Len(starts) THEN starts[g + 1] ELSE Len(uids) + 1
      group(g) == [j \in 1 .. end(g) - starts[g] |-> starts[g] + j - 1]
      loads == [g \in DOMAIN starts |-> Load(Workloads(lengths), group(g))]
  IN  With(BalancedPartitions(loads, k, TRUE), LAMBDA parts :
        [p \in 1 .. k |-> FlattenSeq([j \in DOMAIN parts[p] |-> group(parts[p][j])])])

Evens(s) == [i \in 1 .. (Len(s) + 1) \div 2 |-> s[2 * i - 1]]
Odds(s) == [i \in 1 .. Len(s) \div 2 |-> s[2 * i]]

CeilDiv(a, b) == (a + b - 1) \div b

First(partition) == IF partition = <<>> THEN 0 ELSE partition[1]

\* rearrange_micro_batches: the partition of a rank's samples into n micro-batches,
\* the smaller ones at both ends.
MicroBatches(lengths, n) ==
  With(Workloads(lengths), LAMBDA W :
    With(SortSeq(BalancedPartitions(W, n, FALSE), LAMBDA p, q :
           \/ Load(W, p) > Load(W, q)
           \/ Load(W, p) = Load(W, q) /\ First(p) > First(q)),
         LAMBDA parts : Reverse(Evens(parts)) \o Odds(parts)))

\* Mutant: the map itself, not its inverse.
NotReversed(map) == map

\* get_reverse_idx
ReverseIdx(map) == [j \in DOMAIN map |-> CHOOSE i \in DOMAIN map : map[i] = j]

\* restore_dynamic_batch
Restored(rows, partitions) ==
  LET reverse == ReverseIdx(FlattenSeq(partitions)) IN [i \in DOMAIN rows |-> rows[reverse[i]]]
=============================================================================
