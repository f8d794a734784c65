----------------------------- MODULE SampleFlow -----------------------------
(***************************************************************************)
(* What the fully asynchronous trainer does with its samples, seen from    *)
(* far: each is fetched from the dataset once, rolled out, queued,         *)
(* collected into a batch and trained on, in this order and at most once,  *)
(* in batches of exactly BatchSize.  Nothing goes back.  A sample can be   *)
(* lost only where this module says so.                                    *)
(***************************************************************************)
EXTENDS Naturals, FiniteSets

CONSTANTS Sample, BatchSize, Capacity,
          MayFail   \* generations may raise

VARIABLES source,   \* not fetched yet
          rolling,  \* with the rollouter, interrupted or not
          queued,   \* in the message queue
          batched,  \* collected by the trainer
          trained

vars == <<source, rolling, queued, batched, trained>>

Init ==
    /\ source = Sample
    /\ rolling = {} /\ queued = {} /\ batched = {} /\ trained = {}

Fetch ==
    /\ \E s \in source : source' = source \ {s} /\ rolling' = rolling \cup {s}
    /\ UNCHANGED <<queued, batched, trained>>

(* A put over capacity loses one queued sample; the end marker, which is   *)
(* put like a sample, takes a place of its own.                            *)
Overflow(lost) ==
    \/ lost = {}
    \/ Cardinality(lost) = 1 /\ lost \subseteq queued /\ Cardinality(queued) + 1 >= Capacity

Deliver ==
    /\ \E s \in rolling, lost \in SUBSET queued :
          /\ Overflow(lost)
          /\ rolling' = rolling \ {s}
          /\ queued' = (queued \ lost) \cup {s}
    /\ UNCHANGED <<source, batched, trained>>

DeliverEnd ==
    /\ \E lost \in SUBSET queued : Overflow(lost) /\ queued' = queued \ lost
    /\ UNCHANGED <<source, rolling, batched, trained>>

(* A generation that raises takes its sample with it. *)
Fail ==
    /\ MayFail
    /\ \E s \in rolling : rolling' = rolling \ {s}
    /\ UNCHANGED <<source, queued, batched, trained>>

Collect ==
    /\ \E s \in queued : queued' = queued \ {s} /\ batched' = batched \cup {s}
    /\ Cardinality(batched) < BatchSize
    /\ UNCHANGED <<source, rolling, trained>>

TrainBatch ==
    /\ Cardinality(batched) = BatchSize
    /\ trained' = trained \cup batched
    /\ batched' = {}
    /\ UNCHANGED <<source, rolling, queued>>

(* The end of the stream drops an incomplete batch; the end of the program *)
(* clears the queue.                                                       *)
Abandon ==
    /\ Cardinality(batched) < BatchSize
    /\ batched' = {}
    /\ UNCHANGED <<source, rolling, queued, trained>>

Clear ==
    /\ queued' = {}
    /\ UNCHANGED <<source, rolling, batched, trained>>

Next == Fetch \/ Deliver \/ DeliverEnd \/ Fail \/ Collect \/ TrainBatch \/ Abandon \/ Clear

Spec == Init /\ [][Next]_vars
=============================================================================
