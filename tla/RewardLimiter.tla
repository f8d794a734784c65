--------------------------- MODULE RewardLimiter ---------------------------
(***************************************************************************)
(* RateLimitedRewardManager: the requests of reward workers pass a bucket  *)
(* of requests and a bucket of tokens (AsyncTokenBucket), then a           *)
(* semaphore, and are scored under a timeout.  Buckets and semaphore are   *)
(* attributes of the class, that is of each worker's process.              *)
(* Time is in ticks, an amount is what a bucket refills in that many       *)
(* ticks; a bucket holds what it refills in a second.  Timers may be late. *)
(***************************************************************************)
EXTENDS Integers, FiniteSets, FiniteSetsExt

CONSTANTS
  Requests, ProcessOf,   \* the requests, and the process of each
  Second,          \* ticks in a second: max_tokens of both buckets
  Cost,            \* bucket -> num_tokens of an acquire
  MaxConcurrent,   \* max_concurrent
  Timeout, Late,   \* of wait_for, and how late a timer may be, in ticks
  LastArrival,     \* bound on the time of a request's arrival
  Executor         \* is compute_score a plain function, run in the executor?

LimiterAssumption ==
  /\ {Second, MaxConcurrent, Timeout} \subseteq Nat \ {0} /\ {Late, LastArrival} \subseteq Nat
  /\ Requests \subseteq Nat /\ IsFiniteSet(Requests)
  /\ Cost \in [{"rpm", "tpm"} -> Nat \ {0}] /\ Executor \in BOOLEAN

VARIABLES
  now,
  tokens, updated,   \* process -> bucket -> tokens and last_update
  pc,          \* request -> "new", the bucket it wants, "semaphore", "run" or "scored"
  sleeping,    \* request -> "no", until it tries again, or until it has paid
  until,       \* request -> when its sleep or its timeout ends
  executing,   \* the requests whose compute_score is running
  passed       \* history: bucket -> request -> when it passed, -1 before

vars == <<now, tokens, updated, pc, sleeping, until, executing, passed>>

Buckets == {"rpm", "tpm"}
Processes == {ProcessOf[q] : q \in Requests}

Init ==
  /\ now = 0
  /\ tokens = [p \in Processes |-> [b \in Buckets |-> Second]]
  /\ updated = [p \in Processes |-> [b \in Buckets |-> 0]]
  /\ pc = [q \in Requests |-> "new"] /\ sleeping = [q \in Requests |-> "no"]
  /\ until = [q \in Requests |-> 0] /\ executing = {}
  /\ passed = [b \in Buckets |-> [q \in Requests |-> -1]]

Least(a, b) == IF a <= b THEN a ELSE b

\* Mutant: what a large request borrows is forgotten.
ChargedToZero(have, cost) == IF have >= cost THEN have - cost ELSE 0

Charged(have, cost) == have - cost

\* Mutant: more than a second's refill is kept.
RefilledUncapped(p, b) == tokens[p][b] + (now - updated[p][b])

Refilled(p, b) == Least(Second, tokens[p][b] + (now - updated[p][b]))

\* acquire() returns.
Pass(q) ==
  /\ pc' = [pc EXCEPT ![q] = IF @ = "rpm" THEN "tpm" ELSE "semaphore"]
  /\ passed' = [passed EXCEPT ![pc[q]][q] = now]

\* run_single, in the order the requests are numbered.
Arrive(q) ==
  /\ pc[q] = "new" /\ \A r \in Requests : r < q => pc[r] # "new"
  /\ pc' = [pc EXCEPT ![q] = "rpm"]
  /\ UNCHANGED <<now, tokens, updated, sleeping, until, executing, passed>>

Due(q) == until[q] <= now

\* acquire(), under its lock. A request larger than the bucket takes its tokens at
\* once and sleeps until they are there; any other takes them when they are.
Acquire(q) ==
  LET b == pc[q]  p == ProcessOf[q]  have == Refilled(p, b)  missing == Cost[b] - have IN
  /\ b \in Buckets /\ sleeping[q] # "paid" /\ Due(q)
  /\ updated' = [updated EXCEPT ![p][b] = now]
  /\ IF Cost[b] <= Second /\ missing > 0
     THEN /\ tokens' = [tokens EXCEPT ![p][b] = have]
          /\ sleeping' = [sleeping EXCEPT ![q] = "again"]
          /\ UNCHANGED <<pc, passed>>
     ELSE /\ tokens' = [tokens EXCEPT ![p][b] = Charged(have, Cost[b])]
          /\ sleeping' = [sleeping EXCEPT ![q] = IF missing > 0 THEN "paid" ELSE "no"]
          /\ IF missing > 0 THEN UNCHANGED <<pc, passed>> ELSE Pass(q)
  /\ until' = [until EXCEPT ![q] = now + Max({missing, 0})]
  /\ UNCHANGED <<now, executing>>

\* The sleep of a large request ends acquire().
Wake(q) ==
  /\ sleeping[q] = "paid" /\ Due(q)
  /\ Pass(q) /\ sleeping' = [sleeping EXCEPT ![q] = "no"]
  /\ UNCHANGED <<now, tokens, updated, until, executing>>

InSemaphore(p) == {q \in Requests : pc[q] = "run" /\ ProcessOf[q] = p}
HasRoom(q) == Cardinality(InSemaphore(ProcessOf[q])) < MaxConcurrent

Enter(q) ==
  /\ pc[q] = "semaphore" /\ HasRoom(q)
  /\ pc' = [pc EXCEPT ![q] = "run"] /\ until' = [until EXCEPT ![q] = now + Timeout]
  /\ executing' = executing \union {q}
  /\ UNCHANGED <<now, tokens, updated, sleeping, passed>>

\* compute_score returns or raises, before wait_for gives up or after.
Computed(q) ==
  /\ q \in executing
  /\ executing' = executing \ {q}
  /\ pc' = [pc EXCEPT ![q] = "scored"]
  /\ UNCHANGED <<now, tokens, updated, sleeping, until, passed>>

\* Mutant: a request that timed out keeps its place in the semaphore.
KeepsPlace(q) == "run"

AfterTimeout(q) == "scored"

\* wait_for cancels a coroutine, but not a function in the executor.
TimedOut(q) ==
  /\ pc[q] = "run" /\ Due(q)
  /\ pc' = [pc EXCEPT ![q] = AfterTimeout(q)]
  /\ executing' = IF Executor THEN executing ELSE executing \ {q}
  /\ UNCHANGED <<now, tokens, updated, sleeping, until, passed>>

Step(q) == Arrive(q) \/ Acquire(q) \/ Wake(q) \/ Enter(q) \/ TimedOut(q)

\* What the event loop has to do at once.
Ready(q) == \/ pc[q] \in Buckets /\ sleeping[q] = "no"
            \/ pc[q] = "semaphore" /\ HasRoom(q)
Timed(q) == sleeping[q] # "no" \/ pc[q] = "run"

Tick ==
  /\ \E q \in Requests : Timed(q) \/ pc[q] = "new"
  /\ now >= LastArrival => \A q \in Requests : pc[q] # "new"
  /\ \A q \in Requests : ~Ready(q) /\ (Timed(q) => now < until[q] + Late)
  /\ now' = now + 1
  /\ UNCHANGED <<tokens, updated, pc, sleeping, until, executing, passed>>

Next == Tick \/ \E q \in Requests : Step(q) \/ Computed(q)
Spec == Init /\ [][Next]_vars /\ WF_vars(Tick \/ \E q \in Requests : Step(q))

----------------------------------------------------------------------------
\* Every variable has its type; no bucket holds more than a second's refill.
TypeOK ==
  /\ now \in Nat
  /\ \A p \in Processes, b \in Buckets : tokens[p][b] <= Second /\ updated[p][b] \in 0 .. now
  /\ pc \in [Requests -> Buckets \union {"new", "semaphore", "run", "scored"}]
  /\ sleeping \in [Requests -> {"no", "again", "paid"}]
  /\ until \in [Requests -> Nat] /\ executing \subseteq Requests

PassedIn(p, b, from, to) ==
  Cardinality({q \in Requests : ProcessOf[q] = p /\ passed[b][q] \in from .. to})

\* In any span of time a process lets through what its bucket holds and refills in it,
\* large and small requests, retries and late timers included. A bucket that is
\* smaller than one request still lets one through.
RateKept ==
  \A p \in Processes, b \in Buckets : \A from, to \in {passed[b][q] : q \in Requests} :
    0 <= from /\ from <= to =>
      PassedIn(p, b, from, to) * Cost[b] <= Max({Second, Cost[b]}) + (to - from) + Late

AllScored == \A q \in Requests : pc[q] = "scored"

\* The limits never block a request for good: every one is scored, or is given a
\* zero after its timeout, also when compute_score never returns.
EveryRequestScored == <>AllScored

\* The class comment, "This prevents overwhelming the API with too many parallel
\* connections": at most max_concurrent functions run at once.
ConcurrencyLimited ==
  \A p \in Processes : Cardinality({q \in executing : ProcessOf[q] = p}) <= MaxConcurrent

\* The class comment, "enforced consistently across multiple workers": the rate of a
\* bucket is that of all processes together.
EnforcedAcrossWorkers ==
  \A b \in Buckets :
    Cardinality({q \in Requests : passed[b][q] >= 0}) * Cost[b] <= Max({Second, Cost[b]}) + now + Late
=============================================================================
