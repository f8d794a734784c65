---------------------------- MODULE RewardProofs ----------------------------
(***************************************************************************)
(* The rate limiter of the reward manager and, after it, the reward loop,  *)
(* for any number of requests and all limits.                              *)
(*                                                                         *)
(* The limiter's rate is kept in every span of time. Every acquire that    *)
(* has taken its tokens has an instant at which they are there, its due    *)
(* time; the invariant Paced says that the due times are as far apart as   *)
(* the bucket refills, and no request passes before its own, or later than *)
(* timers are.                                                             *)
(***************************************************************************)
EXTENDS RewardLimiter, FiniteSetTheorems, TLAPS

Pcs == Buckets \cup {"new", "semaphore", "run", "scored"}

Types ==
  /\ now \in Nat
  /\ tokens \in [Processes -> [Buckets -> Int]] /\ updated \in [Processes -> [Buckets -> Nat]]
  /\ pc \in [Requests -> Pcs] /\ sleeping \in [Requests -> {"no", "again", "paid"}]
  /\ until \in [Requests -> Nat] /\ executing \subseteq Requests
  /\ passed \in [Buckets -> [Requests -> Int]]

\* No bucket holds more than a second's refill, nor was updated in the future.
Filled == \A p \in Processes, b \in Buckets : tokens[p][b] <= Second /\ updated[p][b] <= now

\* What a request has behind it.
Order(q) ==
  /\ pc[q] \in {"new", "rpm"} => passed["rpm"][q] = -1
  /\ pc[q] \in {"new", "rpm", "tpm"} => passed["tpm"][q] = -1
  /\ sleeping[q] # "no" => pc[q] \in Buckets
  /\ sleeping[q] = "paid" => now <= until[q] + Late
  /\ q \in executing => pc[q] \in {"run", "scored"}

\* The requests whose tokens a bucket has given, or lent.
Served(p, b) ==
  {q \in Requests :
     ProcessOf[q] = p /\ (passed[b][q] >= 0 \/ (pc[q] = b /\ sleeping[q] = "paid"))}

\* Since when a bucket is refilled, had it been empty then.
Emptied(p, b) == now - Refilled(p, b)
Room(b) == Max({Second, Cost[b]})

\* Those that are due in a span of time, and from an instant on.
Between(S, due, from, to) == {q \in S : from <= due[q] /\ due[q] <= to}
From(S, due, from) == {q \in S : from <= due[q]}

\* due is when the tokens of a request are there.
PacedBy(due, p, b) ==
  /\ \A q \in Served(p, b) :
       /\ due[q] <= now \/ due[q] <= Emptied(p, b)
       /\ passed[b][q] >= 0 => due[q] <= passed[b][q] /\ passed[b][q] <= due[q] + Late
       /\ passed[b][q] < 0 => until[q] = due[q]
  /\ \A from \in Int : from <= now \/ from <= Emptied(p, b) =>
       Cardinality(From(Served(p, b), due, from)) * Cost[b] <= Room(b) + Emptied(p, b) - from
  /\ \A from, to \in Int : from <= to =>
       Cardinality(Between(Served(p, b), due, from, to)) * Cost[b] <= Room(b) + to - from

Paced(p, b) == \E due \in [Requests -> Int] : PacedBy(due, p, b)

LimiterInv ==
  /\ Types /\ Filled
  /\ \A q \in Requests : Order(q)
  /\ \A p \in Processes, b \in Buckets : Paced(p, b)

-----------------------------------------------------------------------------
(* The constants, and counting.                                            *)

LEMMA LargerOf ==
    ASSUME NEW x \in Int, NEW y \in Int
    PROVE  Max({x, y}) = IF x >= y THEN x ELSE y
<1>1. CASE x >= y
  BY <1>1 DEF Max
<1>2. CASE ~(x >= y)
  BY <1>2 DEF Max
<1> QED BY <1>1, <1>2

LEMMA Limits ==
    ASSUME LimiterAssumption, NEW b \in Buckets
    PROVE  /\ Second \in Nat /\ Second > 0 /\ Late \in Nat /\ Timeout \in Nat
           /\ MaxConcurrent \in Nat /\ MaxConcurrent > 0
           /\ Cost[b] \in Nat /\ Cost[b] > 0 /\ Room(b) \in Nat
           /\ Second <= Room(b) /\ Cost[b] <= Room(b) /\ IsFiniteSet(Requests)
<1>1. /\ Second \in Nat /\ Second > 0 /\ Late \in Nat /\ Timeout \in Nat /\ IsFiniteSet(Requests)
      /\ MaxConcurrent \in Nat /\ MaxConcurrent > 0 /\ Cost[b] \in Nat /\ Cost[b] > 0
  BY DEF LimiterAssumption, Buckets
<1>2. Room(b) = IF Second >= Cost[b] THEN Second ELSE Cost[b]
  BY <1>1, LargerOf DEF Room
<1> QED BY <1>1, <1>2

LEMMA Fewer ==
    ASSUME NEW T, IsFiniteSet(T), NEW S \in SUBSET T, NEW c \in Nat
    PROVE  /\ Cardinality(S) \in Nat /\ Cardinality(T) \in Nat /\ Cardinality(S) <= Cardinality(T)
           /\ Cardinality(S) * c <= Cardinality(T) * c
<1>1. IsFiniteSet(S) /\ Cardinality(S) <= Cardinality(T)
  BY FS_Subset
<1>2. PICK m \in Nat, n \in Nat : m = Cardinality(S) /\ n = Cardinality(T) /\ m <= n
  BY <1>1, FS_CardinalityType
<1>3. m * c <= n * c
  BY <1>2
<1> QED BY <1>2, <1>3

\* One request more takes one more cost.
LEMMA OneMore ==
    ASSUME NEW T, IsFiniteSet(T), NEW q, NEW S \in SUBSET (T \cup {q}), NEW c \in Nat
    PROVE  Cardinality(S) * c <= Cardinality(T) * c + c
<1>1. IsFiniteSet(T \cup {q}) /\ Cardinality(T \cup {q}) <= Cardinality(T) + 1
      /\ Cardinality(T) \in Nat
  BY FS_AddElement, FS_CardinalityType
<1>2. PICK m \in Nat, n \in Nat, k \in Nat :
        m = Cardinality(T) /\ n = Cardinality(T \cup {q}) /\ k = Cardinality(S)
  BY <1>1, Fewer, FS_CardinalityType
<1>3. k <= n /\ n <= m + 1
  BY <1>1, <1>2, Fewer
<1>4. k * c <= (m + 1) * c /\ (m + 1) * c = m * c + c
  BY <1>3
<1> QED BY <1>2, <1>4

-----------------------------------------------------------------------------
(* What steps do to the pace of a bucket.                                  *)

LEMMA EmptiedAt ==
    ASSUME LimiterAssumption, Types, Filled, NEW p \in Processes, NEW b \in Buckets
    PROVE  /\ tokens[p][b] \in Int /\ updated[p][b] \in Nat /\ tokens[p][b] <= Second
           /\ updated[p][b] <= now /\ now \in Nat
           /\ Refilled(p, b) \in Int /\ Refilled(p, b) <= Second
           /\ Emptied(p, b) \in Int /\ Emptied(p, b) >= now - Second
           /\ Emptied(p, b) = now - Refilled(p, b)
           /\ Emptied(p, b) = IF now - Second >= updated[p][b] - tokens[p][b]
                              THEN now - Second ELSE updated[p][b] - tokens[p][b]
<1>1. /\ tokens[p][b] \in Int /\ updated[p][b] \in Nat /\ tokens[p][b] <= Second
      /\ updated[p][b] <= now /\ now \in Nat
  BY DEF Types, Filled
<1>2. PICK t \in Int, u \in Nat, n \in Nat, s \in Nat :
        t = tokens[p][b] /\ u = updated[p][b] /\ n = now /\ s = Second
  BY <1>1, Limits
<1>3. Refilled(p, b) = (IF s <= t + (n - u) THEN s ELSE t + (n - u))
  BY Zenon, <1>2 DEF Refilled, Least
<1>4. Emptied(p, b) = n - Refilled(p, b)
  BY Zenon, <1>2 DEF Emptied
<1> QED BY <1>1, <1>2, <1>3, <1>4

\* No tokens are taken, but a sleep may end with the tokens there.
LEMMA PaceRests ==
    ASSUME LimiterAssumption, Types, NEW p, NEW b \in Buckets, Paced(p, b),
           now' = now, Refilled(p, b)' = Refilled(p, b), Served(p, b)' = Served(p, b),
           \A q \in Served(p, b) :
             \/ passed'[b][q] = passed[b][q] /\ (passed[b][q] < 0 => until'[q] = until[q])
             \/ /\ passed[b][q] < 0 /\ passed'[b][q] = now
                /\ until[q] <= now /\ now <= until[q] + Late
    PROVE  Paced(p, b)'
<1>1. PICK due \in [Requests -> Int] : PacedBy(due, p, b)
  BY DEF Paced
<1>2. Emptied(p, b)' = Emptied(p, b) /\ Room(b)' = Room(b)
  BY DEF Emptied, Room
<1>3. ASSUME NEW q \in Served(p, b)
      PROVE  /\ due[q] <= now \/ due[q] <= Emptied(p, b)
             /\ passed'[b][q] >= 0 => due[q] <= passed'[b][q] /\ passed'[b][q] <= due[q] + Late
             /\ passed'[b][q] < 0 => until'[q] = due[q]
  <2>1. /\ due[q] <= now \/ due[q] <= Emptied(p, b)
        /\ passed[b][q] >= 0 => due[q] <= passed[b][q] /\ passed[b][q] <= due[q] + Late
        /\ passed[b][q] < 0 => until[q] = due[q]
    BY <1>1 DEF PacedBy
  <2>2. PICK d \in Int, n \in Nat, l \in Nat, x \in Int, u \in Nat :
          d = due[q] /\ n = now /\ l = Late /\ x = passed[b][q] /\ u = until[q]
    BY <1>1, Limits DEF Types, Served
  <2>3. CASE passed'[b][q] = x /\ (x < 0 => until'[q] = u)
    BY <2>1, <2>2, <2>3
  <2>4. CASE x < 0 /\ passed'[b][q] = n /\ u <= n /\ n <= u + l
    <3>1. u = d
      BY <2>1, <2>2, <2>4
    <3>2. n >= 0 /\ ~(n < 0)
      BY <2>2
    <3> QED BY <2>1, <2>2, <2>4, <3>1, <3>2
  <2> QED BY <2>2, <2>3, <2>4
<1>4. PacedBy(due, p, b)'
  BY <1>1, <1>2, <1>3 DEF PacedBy, From, Between
<1> QED BY <1>1, <1>4 DEF Paced

\* A request takes its cost, all of it from the bucket or some of it from its future.
LEMMA PaceCharged ==
    ASSUME LimiterAssumption, Types, Filled, NEW p \in Processes, NEW b \in Buckets, Paced(p, b),
           NEW r \in Requests, r \notin Served(p, b), Served(p, b)' = Served(p, b) \cup {r},
           now' = now, Refilled(p, b)' = Refilled(p, b) - Cost[b],
           \A q \in Served(p, b) :
             passed'[b][q] = passed[b][q] /\ (passed[b][q] < 0 => until'[q] = until[q]),
           \/ Cost[b] <= Refilled(p, b) /\ passed'[b][r] = now
           \/ /\ Cost[b] > Refilled(p, b) /\ passed'[b][r] = -1
              /\ until'[r] = now + (Cost[b] - Refilled(p, b))
    PROVE  Paced(p, b)'
<1>1. PICK due \in [Requests -> Int] : PacedBy(due, p, b)
  BY DEF Paced
<1>2. PICK e \in Int, c \in Nat, n \in Nat, m \in Nat, l \in Nat :
        /\ e = Emptied(p, b) /\ c = Cost[b] /\ n = now /\ m = Room(b) /\ l = Late
        /\ c > 0 /\ c <= m /\ Refilled(p, b) = n - e
  <2>1. Refilled(p, b) \in Int /\ now \in Nat /\ Emptied(p, b) = now - Refilled(p, b)
    BY EmptiedAt
  <2>2. Refilled(p, b) = now - Emptied(p, b) /\ Emptied(p, b) \in Int
    BY <2>1
  <2> QED BY <2>1, <2>2, Limits
<1>3. Emptied(p, b)' = e + c
  <2>1. Emptied(p, b)' = n - ((n - e) - c)
    BY Zenon, <1>2 DEF Emptied
  <2> QED BY <1>2, <2>1
<1> DEFINE d == IF e + c <= n THEN n ELSE e + c
           then == [due EXCEPT ![r] = d]
           T == Served(p, b)
<1>4. d \in Int /\ (d <= n \/ d <= e + c) /\ e + c <= d
  BY <1>2
<1>5. then \in [Requests -> Int] /\ then[r] = d /\ \A q \in T : then[q] = due[q] /\ due[q] \in Int
  <2>1. T \subseteq Requests
    BY DEF Served
  <2> QED BY <1>1, <1>4, <2>1
<1>6. IsFiniteSet(T)
  BY Limits, FS_Subset DEF Served
<1>7. /\ \A q \in T : due[q] <= n \/ due[q] <= e
      /\ \A from \in Int : from <= n \/ from <= e =>
           Cardinality(From(T, due, from)) * c <= m + e - from
      /\ \A from, to \in Int : from <= to =>
           Cardinality(Between(T, due, from, to)) * c <= m + to - from
  BY <1>1, <1>2 DEF PacedBy
<1> HIDE DEF d, then
<1>8. ASSUME NEW q \in T \cup {r}
      PROVE  /\ then[q] <= n \/ then[q] <= e + c
             /\ passed'[b][q] >= 0 => then[q] <= passed'[b][q] /\ passed'[b][q] <= then[q] + l
             /\ passed'[b][q] < 0 => until'[q] = then[q]
  <2>1. CASE q = r
    <3>1. CASE c <= n - e /\ passed'[b][r] = n
      <4>1. d = n
        BY <1>2, <3>1 DEF d
      <4> QED BY <1>2, <1>5, <2>1, <3>1, <4>1
    <3>2. CASE c > n - e /\ passed'[b][r] = -1 /\ until'[r] = n + (c - (n - e))
      <4>1. d = e + c /\ until'[r] = e + c
        BY <1>2, <3>2 DEF d
      <4>2. passed'[b][r] >= 0 => FALSE
        BY <3>2
      <4> QED BY <1>4, <1>5, <2>1, <4>1, <4>2
    <3> QED BY <1>2, <3>1, <3>2
  <2>2. CASE q \in T
    <3>1. /\ due[q] <= n \/ due[q] <= e
          /\ passed[b][q] >= 0 => due[q] <= passed[b][q] /\ passed[b][q] <= due[q] + Late
          /\ passed[b][q] < 0 => until[q] = due[q]
      BY <1>1, <1>7, <2>2 DEF PacedBy
    <3>2. then[q] = due[q] /\ due[q] \in Int
      BY <1>5, <2>2
    <3>3. due[q] <= n \/ due[q] <= e + c
      BY <1>2, <3>1, <3>2
    <3> QED BY <1>2, <2>2, <3>1, <3>2, <3>3
  <2> QED BY <2>1, <2>2
<1>9. ASSUME NEW from \in Int, from <= n \/ from <= e + c
      PROVE  Cardinality(From(T \cup {r}, then, from)) * c <= m + (e + c) - from
  <2>1. From(T, due, from) \in SUBSET T /\ IsFiniteSet(From(T, due, from))
    BY <1>6, FS_Subset DEF From
  <2>2. From(T \cup {r}, then, from) \in SUBSET (From(T, due, from) \cup {r})
    BY <1>5 DEF From
  <2>3. PICK k \in Int, j \in Int : /\ k = Cardinality(From(T, due, from)) * c
                                  /\ j = Cardinality(From(T \cup {r}, then, from)) * c
                                  /\ j <= k + c
    <3>1. IsFiniteSet(From(T, due, from) \cup {r})
      BY <2>1, FS_AddElement
    <3>2. Cardinality(From(T \cup {r}, then, from)) \in Nat
      BY <2>2, <3>1, Fewer
    <3>3. PICK x \in Nat, y \in Nat : /\ x = Cardinality(From(T, due, from))
                                    /\ y = Cardinality(From(T \cup {r}, then, from))
      BY <2>1, <3>2, FS_CardinalityType
    <3>4. y * c <= x * c + c
      BY Zenon, <1>2, <2>1, <2>2, <3>3, OneMore
    <3>5. x * c \in Int /\ y * c \in Int
      BY <1>2
    <3> QED BY Zenon, <3>3, <3>4, <3>5
  <2>4. CASE from <= n \/ from <= e
    <3>1. k <= m + e - from
      BY Zenon, <1>7, <2>3, <2>4
    <3> QED BY <1>2, <2>3, <3>1
  <2>5. CASE ~(from <= n \/ from <= e)
    <3>1. ASSUME NEW q \in T
          PROVE  ~(from <= due[q])
      <4>1. PICK x \in Int : x = due[q] /\ (x <= n \/ x <= e)
        BY <1>5, <1>7
      <4> QED BY <1>2, <2>5, <4>1
    <3>2. From(T, due, from) = {}
      BY <3>1 DEF From
    <3>3. k = 0
      BY <1>2, <2>3, <3>2, FS_EmptySet
    <3> QED BY <1>2, <1>9, <2>3, <2>5, <3>3
  <2> QED BY <2>4, <2>5
<1>10. ASSUME NEW from \in Int, NEW to \in Int, from <= to
       PROVE  Cardinality(Between(T \cup {r}, then, from, to)) * c <= m + to - from
  <2>1. IsFiniteSet(T \cup {r})
    BY <1>6, FS_AddElement
  <2>2. CASE from <= d /\ d <= to
    <3>1. PICK f \in Int : /\ f = Cardinality(From(T \cup {r}, then, from)) * c
                           /\ f <= m + (e + c) - from
      <4>1. from <= n \/ from <= e + c
        BY <1>2, <1>4, <2>2
      <4>2. From(T \cup {r}, then, from) \in SUBSET (T \cup {r})
        BY DEF From
      <4>3. PICK y \in Nat : y = Cardinality(From(T \cup {r}, then, from))
        BY <2>1, <4>2, Fewer
      <4>4. y * c \in Int
        BY <1>2
      <4> QED BY Zenon, <1>9, <4>1, <4>3, <4>4
    <3>2. Between(T \cup {r}, then, from, to) \in SUBSET From(T \cup {r}, then, from)
      BY DEF From, Between
    <3>3. IsFiniteSet(From(T \cup {r}, then, from))
      BY <2>1, FS_Subset DEF From
    <3>4. PICK k \in Int : k = Cardinality(Between(T \cup {r}, then, from, to)) * c /\ k <= f
      <4>1. PICK x \in Nat : x = Cardinality(Between(T \cup {r}, then, from, to)) /\ x * c <= f
        BY Zenon, <1>2, <3>1, <3>2, <3>3, Fewer
      <4>2. x * c \in Int
        BY <1>2
      <4> QED BY Zenon, <4>1, <4>2
    <3> QED BY <1>2, <1>4, <2>2, <3>1, <3>4
  <2>3. CASE ~(from <= d /\ d <= to)
    <3>1. Between(T \cup {r}, then, from, to) = Between(T, due, from, to)
      <4>1. \A q \in T \cup {r} :
              from <= then[q] /\ then[q] <= to <=> q \in T /\ from <= due[q] /\ due[q] <= to
        BY <1>5, <2>3
      <4> QED BY <4>1 DEF Between
    <3> QED BY <1>7, <1>10, <3>1
  <2> QED BY <2>2, <2>3
<1>11. PacedBy(then, p, b)'
  <2>1. Room(b)' = m /\ Cost[b]' = c /\ Late' = l
    BY <1>2 DEF Room
  <2> QED BY Zenon, <1>2, <1>3, <1>8, <1>9, <1>10, <2>1 DEF PacedBy
<1> QED BY <1>5, <1>11 DEF Paced

\* Time passes.
LEMMA PaceTicks ==
    ASSUME LimiterAssumption, Types, Filled, NEW p \in Processes, NEW b \in Buckets, Paced(p, b),
           now' = now + 1, UNCHANGED <<tokens, updated, pc, sleeping, until, executing, passed>>
    PROVE  Paced(p, b)'
<1>1. PICK due \in [Requests -> Int] : PacedBy(due, p, b)
  BY DEF Paced
<1>2. PICK e \in Int, f \in Int, c \in Nat, n \in Nat, m \in Nat, s \in Nat :
        /\ e = Emptied(p, b) /\ f = Emptied(p, b)' /\ c = Cost[b] /\ n = now /\ m = Room(b)
        /\ s = Second /\ s <= m /\ e <= f /\ f >= n + 1 - s
  <2>1. PICK t \in Int, u \in Nat, n \in Nat, s \in Nat :
          t = tokens[p][b] /\ u = updated[p][b] /\ n = now /\ s = Second
    BY EmptiedAt, Limits
  <2>2. /\ Refilled(p, b) = (IF s <= t + (n - u) THEN s ELSE t + (n - u))
        /\ Refilled(p, b)' = (IF s <= t + ((n + 1) - u) THEN s ELSE t + ((n + 1) - u))
    BY Zenon, <2>1 DEF Refilled, Least
  <2>3. Emptied(p, b) = n - Refilled(p, b) /\ Emptied(p, b)' = (n + 1) - Refilled(p, b)'
    BY Zenon, <2>1 DEF Emptied
  <2>4. PICK e \in Int, f \in Int :
          e = Emptied(p, b) /\ f = Emptied(p, b)' /\ e <= f /\ f >= n + 1 - s
    <3>1. PICK x \in Int, y \in Int :
            x = Refilled(p, b) /\ y = Refilled(p, b)' /\ y <= x + 1 /\ y <= s
      BY <2>1, <2>2
    <3> QED BY <2>3, <3>1
  <2> QED BY Zenon, <2>1, <2>4, Limits
<1>3. Served(p, b)' = Served(p, b) /\ Room(b)' = Room(b)
  BY DEF Served, Room
<1> DEFINE T == Served(p, b)
<1>4. /\ \A q \in T : due[q] \in Int /\ (due[q] <= n \/ due[q] <= e)
      /\ \A from \in Int : from <= n \/ from <= e =>
           Cardinality(From(T, due, from)) * c <= m + e - from
  BY <1>1, <1>2 DEF PacedBy, Served
<1>5. \A q \in T : due[q] <= n + 1 \/ due[q] <= f
  BY <1>2, <1>4
<1>6. ASSUME NEW from \in Int, from <= n + 1 \/ from <= f
      PROVE  Cardinality(From(T, due, from)) * c <= m + f - from
  <2>1. CASE from <= n \/ from <= e
    <3>1. IsFiniteSet(T) /\ From(T, due, from) \in SUBSET T
      BY Limits, FS_Subset DEF Served, From
    <3>2. PICK k \in Int : k = Cardinality(From(T, due, from)) * c
      BY <1>2, <3>1, Fewer
    <3>3. k <= m + e - from
      BY Zenon, <1>4, <2>1, <3>2
    <3> QED BY <1>2, <3>2, <3>3
  <2>2. CASE ~(from <= n \/ from <= e)
    <3>1. \A q \in T : ~(from <= due[q])
      BY <1>2, <1>4, <2>2
    <3>2. From(T, due, from) = {}
      BY <3>1 DEF From
    <3>3. Cardinality(From(T, due, from)) * c = 0
      BY <1>2, <3>2, FS_EmptySet
    <3> QED BY <1>2, <1>6, <2>2, <3>3
  <2> QED BY <2>1, <2>2
<1>7. PacedBy(due, p, b)'
  <2>1. now' = n + 1
    BY <1>2
  <2> QED BY <1>1, <1>2, <1>3, <1>5, <1>6, <2>1 DEF PacedBy
<1> QED BY <1>1, <1>7 DEF Paced

-----------------------------------------------------------------------------
(* The initial state and the steps.                                        *)

LEMMA LimiterStart ==
    ASSUME LimiterAssumption, Init
    PROVE  LimiterInv
<1>1. Types
  <2>1. Second \in Nat
    BY Limits DEF Buckets
  <2>2. pc \in [Requests -> Pcs]
    BY DEF Init, Pcs
  <2>3. tokens \in [Processes -> [Buckets -> Int]] /\ updated \in [Processes -> [Buckets -> Nat]]
    BY <2>1 DEF Init
  <2> QED BY <2>2, <2>3 DEF Init, Types
<1>2. Filled
  <2>1. Second \in Nat
    BY Limits DEF Buckets
  <2> QED BY <2>1 DEF Init, Filled
<1>3. \A q \in Requests : Order(q)
  BY DEF Init, Order, Buckets
<1>4. ASSUME NEW p \in Processes, NEW b \in Buckets
      PROVE  Paced(p, b)
  <2> DEFINE due == [q \in Requests |-> 0]
  <2>1. Served(p, b) = {}
    BY DEF Init, Served, Buckets
  <2>2. /\ Emptied(p, b) \in Int /\ Emptied(p, b) >= now - Second /\ now \in Nat
        /\ Second \in Nat /\ Room(b) \in Nat /\ Second <= Room(b) /\ Cost[b] \in Nat
    BY <1>1, <1>2, EmptiedAt, Limits
  <2>3. /\ \A from \in Int : From({}, due, from) = {}
        /\ \A from, to \in Int : Between({}, due, from, to) = {}
    BY DEF From, Between
  <2>4. Cardinality({}) * Cost[b] = 0
    BY <2>2, FS_EmptySet
  <2>5. \A from \in Int :
          from <= now \/ from <= Emptied(p, b) => 0 <= Room(b) + Emptied(p, b) - from
    BY <2>2
  <2>6. \A from, to \in Int : from <= to => 0 <= Room(b) + to - from
    BY <2>2
  <2> HIDE DEF due
  <2>7. PacedBy(due, p, b)
    BY <2>1, <2>3, <2>4, <2>5, <2>6 DEF PacedBy
  <2>8. due \in [Requests -> Int]
    BY DEF due
  <2> QED BY <2>7, <2>8 DEF Paced
<1> QED BY <1>1, <1>2, <1>3, <1>4 DEF LimiterInv

\* A request that a step leaves alone.
Alone(q) ==
  /\ pc'[q] = pc[q] /\ sleeping'[q] = sleeping[q] /\ until'[q] = until[q]
  /\ passed'["rpm"][q] = passed["rpm"][q] /\ passed'["tpm"][q] = passed["tpm"][q]
  /\ q \in executing' => q \in executing

LEMMA OrderRests ==
    ASSUME NEW q \in Requests, Order(q), Alone(q), now' = now
    PROVE  Order(q)'
BY DEF Order, Alone

LEMMA RefillRests ==
    ASSUME NEW p, NEW b, now' = now, tokens'[p][b] = tokens[p][b], updated'[p][b] = updated[p][b]
    PROVE  Refilled(p, b)' = Refilled(p, b)
BY DEF Refilled, Least

\* A request moves on that has no tokens to wait for.
LEMMA Moves ==
    ASSUME LimiterAssumption, LimiterInv, NEW r \in Requests, sleeping[r] # "paid",
           sleeping' = sleeping, passed' = passed, now' = now, tokens' = tokens, updated' = updated,
           \A q \in Requests \ {r} : Alone(q),
           Types', Order(r)'
    PROVE  LimiterInv'
<1>1. Types /\ Filled /\ Filled' /\ \A q \in Requests : Order(q)
  BY DEF LimiterInv, Filled
<1>2. \A q \in Requests : Order(q)'
  BY <1>1, OrderRests
<1>3. ASSUME NEW p \in Processes, NEW b \in Buckets
      PROVE  Paced(p, b)'
  <2>1. Paced(p, b) /\ Refilled(p, b)' = Refilled(p, b)
    BY RefillRests DEF LimiterInv
  <2>2. Served(p, b)' = Served(p, b)
    <3>1. ASSUME NEW q \in Requests
          PROVE  pc'[q] = b /\ sleeping'[q] = "paid" <=> pc[q] = b /\ sleeping[q] = "paid"
      <4>1. CASE q = r
        BY <4>1
      <4>2. CASE q # r
        BY <4>2 DEF Alone
      <4> QED BY <4>1, <4>2
    <3> QED BY <3>1 DEF Served
  <2>3. ASSUME NEW q \in Served(p, b)
        PROVE  passed'[b][q] = passed[b][q] /\ (passed[b][q] < 0 => until'[q] = until[q])
    <3>1. CASE q = r
      <4>1. passed[b][r] >= 0 /\ passed[b][r] \in Int
        BY <1>1, <3>1 DEF Served, Types
      <4> QED BY <3>1, <4>1
    <3>2. CASE q # r
      BY <3>2 DEF Alone, Served
    <3> QED BY <3>1, <3>2
  <2> QED BY <1>1, <2>1, <2>2, <2>3, PaceRests
<1> QED BY <1>1, <1>2, <1>3 DEF LimiterInv

LEMMA ArriveStep ==
    ASSUME LimiterAssumption, LimiterInv, NEW r \in Requests, Arrive(r)
    PROVE  LimiterInv'
<1>1. /\ pc[r] = "new" /\ pc' = [pc EXCEPT ![r] = "rpm"]
      /\ UNCHANGED <<now, tokens, updated, sleeping, until, executing, passed>>
  BY DEF Arrive
<1>2. Types /\ Order(r)
  BY DEF LimiterInv
<1>3. pc'[r] = "rpm" /\ \A q \in Requests \ {r} : pc'[q] = pc[q]
  BY <1>1, <1>2 DEF Types
<1>4. Types'
  BY <1>1, <1>2 DEF Types, Pcs, Buckets
<1>5. \A q \in Requests \ {r} : Alone(q)
  BY <1>1, <1>3 DEF Alone
<1>6. Order(r)' /\ sleeping[r] # "paid"
  BY <1>1, <1>2, <1>3 DEF Order, Buckets, Types
<1> QED BY <1>1, <1>4, <1>5, <1>6, Moves

LEMMA EnterStep ==
    ASSUME LimiterAssumption, LimiterInv, NEW r \in Requests, Enter(r)
    PROVE  LimiterInv'
<1>1. /\ pc[r] = "semaphore" /\ pc' = [pc EXCEPT ![r] = "run"]
      /\ until' = [until EXCEPT ![r] = now + Timeout] /\ executing' = executing \cup {r}
      /\ UNCHANGED <<now, tokens, updated, sleeping, passed>>
  BY DEF Enter
<1>2. Types /\ Order(r) /\ now + Timeout \in Nat
  <2>1. Timeout \in Nat
    BY Limits DEF Buckets
  <2> QED BY <2>1 DEF LimiterInv, Types
<1>3. /\ pc'[r] = "run" /\ \A q \in Requests \ {r} : pc'[q] = pc[q] /\ until'[q] = until[q]
  BY <1>1, <1>2 DEF Types
<1>4. Types'
  BY <1>1, <1>2 DEF Types, Pcs
<1>5. \A q \in Requests \ {r} : Alone(q)
  BY <1>1, <1>3 DEF Alone
<1>6. Order(r)' /\ sleeping[r] # "paid"
  BY <1>1, <1>2, <1>3 DEF Order, Buckets, Types
<1> QED BY <1>1, <1>4, <1>5, <1>6, Moves

\* A request is scored, by its function or for its timeout.
LEMMA ScoredStep ==
    ASSUME LimiterAssumption, LimiterInv, NEW r \in Requests, Computed(r) \/ TimedOut(r)
    PROVE  LimiterInv'
<1>1. /\ r \in executing \/ pc[r] = "run"
      /\ pc' = [pc EXCEPT ![r] = "scored"] /\ executing' \subseteq executing
      /\ UNCHANGED <<now, tokens, updated, sleeping, until, passed>>
  BY DEF Computed, TimedOut, AfterTimeout
<1>2. Types /\ Order(r)
  BY DEF LimiterInv
<1>3. pc'[r] = "scored" /\ \A q \in Requests \ {r} : pc'[q] = pc[q]
  BY <1>1, <1>2 DEF Types
<1>4. Types'
  BY <1>1, <1>2 DEF Types, Pcs
<1>5. \A q \in Requests \ {r} : Alone(q)
  BY <1>1, <1>3 DEF Alone
<1>6. Order(r)' /\ sleeping[r] # "paid"
  BY <1>1, <1>2, <1>3 DEF Order, Buckets, Types
<1> QED BY <1>1, <1>4, <1>5, <1>6, Moves

LEMMA TickStep ==
    ASSUME LimiterAssumption, LimiterInv, Tick
    PROVE  LimiterInv'
<1>1. /\ \A q \in Requests : sleeping[q] # "no" => now < until[q] + Late
      /\ now' = now + 1
      /\ UNCHANGED <<tokens, updated, pc, sleeping, until, executing, passed>>
  BY DEF Tick, Timed
<1>2. Types /\ Filled /\ \A q \in Requests : Order(q)
  BY DEF LimiterInv
<1>3. Types' /\ Filled'
  <2>1. now \in Nat /\ now' \in Nat
    BY <1>1, <1>2 DEF Types
  <2>2. Types'
    BY <1>1, <1>2, <2>1 DEF Types
  <2>3. ASSUME NEW p \in Processes, NEW b \in Buckets
        PROVE  tokens'[p][b] <= Second /\ updated'[p][b] <= now'
    <3>1. updated[p][b] \in Nat /\ updated[p][b] <= now /\ tokens[p][b] <= Second
      BY <1>2 DEF Types, Filled
    <3> QED BY <1>1, <2>1, <3>1
  <2> QED BY <2>2, <2>3 DEF Filled
<1>4. ASSUME NEW q \in Requests
      PROVE  Order(q)'
  <2>1. PICK n \in Nat, u \in Nat, l \in Nat : n = now /\ u = until[q] /\ l = Late
    BY <1>2, Limits DEF Types, Buckets
  <2>2. sleeping'[q] = "paid" => n + 1 <= u + l
    BY <1>1, <2>1
  <2> QED BY <1>1, <1>2, <2>1, <2>2 DEF Order
<1>5. \A p \in Processes, b \in Buckets : Paced(p, b)'
  BY <1>1, <1>2, PaceTicks DEF LimiterInv
<1> QED BY <1>3, <1>4, <1>5 DEF LimiterInv

\* A request has not passed the bucket it waits for.
LEMMA NotYet ==
    ASSUME LimiterAssumption, LimiterInv, NEW r \in Requests, pc[r] \in Buckets
    PROVE  /\ passed[pc[r]][r] = -1 /\ ProcessOf[r] \in Processes
           /\ pc[r] = "rpm" => passed["tpm"][r] = -1
<1>1. Order(r)
  BY DEF LimiterInv
<1> QED BY <1>1 DEF Order, Buckets, Processes

\* What passing a bucket changes, and that of the next nothing is taken yet.
LEMMA Passing ==
    ASSUME LimiterAssumption, LimiterInv, NEW r \in Requests, pc[r] \in Buckets, Pass(r),
           sleeping' = [sleeping EXCEPT ![r] = "no"], executing' = executing
    PROVE  /\ passed' \in [Buckets -> [Requests -> Int]] /\ pc' \in [Requests -> Pcs]
           /\ sleeping' \in [Requests -> {"no", "again", "paid"}]
           /\ passed'[pc[r]][r] = now /\ sleeping'[r] = "no"
           /\ \A b \in Buckets, q \in Requests : b # pc[r] \/ q # r => passed'[b][q] = passed[b][q]
           /\ \A q \in Requests \ {r} : pc'[q] = pc[q] /\ sleeping'[q] = sleeping[q]
           /\ Order(r)'
<1>1. Types /\ Order(r)
  BY DEF LimiterInv
<1>2. /\ pc' = [pc EXCEPT ![r] = IF @ = "rpm" THEN "tpm" ELSE "semaphore"]
      /\ passed' = [passed EXCEPT ![pc[r]][r] = now]
  BY DEF Pass
<1>3. now \in Int
  BY <1>1 DEF Types
<1>4. /\ passed' \in [Buckets -> [Requests -> Int]] /\ passed'[pc[r]][r] = now
      /\ \A b \in Buckets, q \in Requests : b # pc[r] \/ q # r => passed'[b][q] = passed[b][q]
  BY <1>1, <1>2, <1>3 DEF Types
<1>5. /\ pc' \in [Requests -> Pcs] /\ pc'[r] = IF pc[r] = "rpm" THEN "tpm" ELSE "semaphore"
      /\ \A q \in Requests \ {r} : pc'[q] = pc[q]
  BY <1>1, <1>2 DEF Types, Pcs, Buckets
<1>6. /\ sleeping' \in [Requests -> {"no", "again", "paid"}] /\ sleeping'[r] = "no"
      /\ \A q \in Requests \ {r} : sleeping'[q] = sleeping[q]
  BY <1>1 DEF Types
<1>7. Order(r)'
  <2>1. r \notin executing
    BY <1>1 DEF Order, Buckets
  <2>2. CASE pc[r] = "rpm"
    <3>1. passed'["tpm"][r] = -1 /\ pc'[r] = "tpm"
      BY <1>4, <1>5, <2>2, NotYet DEF Buckets
    <3> QED BY <1>6, <2>1, <3>1 DEF Order
  <2>3. CASE pc[r] # "rpm"
    BY <1>5, <1>6, <2>1, <2>3 DEF Order
  <2> QED BY <2>2, <2>3
<1> QED BY <1>4, <1>5, <1>6, <1>7

LEMMA WakeStep ==
    ASSUME LimiterAssumption, LimiterInv, NEW r \in Requests, Wake(r)
    PROVE  LimiterInv'
<1>1. /\ sleeping[r] = "paid" /\ until[r] <= now /\ Pass(r)
      /\ sleeping' = [sleeping EXCEPT ![r] = "no"]
      /\ UNCHANGED <<now, tokens, updated, until, executing>>
  BY DEF Wake, Due
<1>2. Types /\ Filled /\ \A q \in Requests : Order(q)
  BY DEF LimiterInv
<1>3. pc[r] \in Buckets /\ now <= until[r] + Late
  BY <1>1, <1>2 DEF Order
<1>4. /\ passed' \in [Buckets -> [Requests -> Int]] /\ pc' \in [Requests -> Pcs]
      /\ sleeping' \in [Requests -> {"no", "again", "paid"}]
      /\ passed'[pc[r]][r] = now /\ sleeping'[r] = "no"
      /\ \A b \in Buckets, q \in Requests : b # pc[r] \/ q # r => passed'[b][q] = passed[b][q]
      /\ \A q \in Requests \ {r} : pc'[q] = pc[q] /\ sleeping'[q] = sleeping[q]
      /\ Order(r)'
  BY <1>1, <1>3, Passing
<1>5. Types' /\ Filled'
  BY <1>1, <1>2, <1>4 DEF Types, Filled
<1>6. ASSUME NEW q \in Requests
      PROVE  Order(q)'
  <2>1. CASE q = r
    BY <1>4, <2>1
  <2>2. CASE q # r
    <3>1. Alone(q)
      BY <1>1, <1>4, <2>2 DEF Alone, Buckets
    <3> QED BY <1>1, <1>2, <3>1, OrderRests
  <2> QED BY <2>1, <2>2
<1>7. ASSUME NEW p \in Processes, NEW b \in Buckets
      PROVE  Paced(p, b)'
  <2>1. Paced(p, b) /\ Refilled(p, b)' = Refilled(p, b)
    BY <1>1, RefillRests DEF LimiterInv
  <2>2. Served(p, b)' = Served(p, b)
    <3>1. ASSUME NEW q \in Requests
          PROVE  passed'[b][q] >= 0 \/ (pc'[q] = b /\ sleeping'[q] = "paid") <=>
                   passed[b][q] >= 0 \/ (pc[q] = b /\ sleeping[q] = "paid")
      <4>1. CASE q = r /\ b = pc[r]
        <5>1. now >= 0
          BY <1>2 DEF Types
        <5> QED BY <1>1, <1>4, <4>1, <5>1
      <4>2. CASE ~(q = r /\ b = pc[r])
        BY <1>4, <4>2
      <4> QED BY <4>1, <4>2
    <3> QED BY <3>1 DEF Served
  <2>3. ASSUME NEW q \in Served(p, b)
        PROVE  \/ passed'[b][q] = passed[b][q] /\ (passed[b][q] < 0 => until'[q] = until[q])
               \/ /\ passed[b][q] < 0 /\ passed'[b][q] = now
                  /\ until[q] <= now /\ now <= until[q] + Late
    <3>1. q \in Requests
      BY DEF Served
    <3>2. CASE q = r /\ b = pc[r]
      <4>1. passed[b][q] < 0
        <5>1. passed[b][q] = -1
          BY <1>3, <3>2, NotYet
        <5> QED BY <5>1
      <4> QED BY <1>1, <1>3, <1>4, <3>2, <4>1
    <3>3. CASE ~(q = r /\ b = pc[r])
      BY <1>1, <1>4, <3>1, <3>3
    <3> QED BY <3>2, <3>3
  <2> QED BY <1>1, <1>2, <2>1, <2>2, <2>3, PaceRests
<1> QED BY <1>5, <1>6, <1>7 DEF LimiterInv

LEMMA AcquireStep ==
    ASSUME LimiterAssumption, LimiterInv, NEW r \in Requests, Acquire(r)
    PROVE  LimiterInv'
<1>1. PICK b \in Buckets, p \in Processes : b = pc[r] /\ p = ProcessOf[r]
  BY DEF Acquire, Processes
<1>2. Types /\ Filled /\ \A q \in Requests : Order(q)
  BY DEF LimiterInv
<1>3. PICK have \in Int, c \in Nat, n \in Nat, s \in Nat :
        /\ have = Refilled(p, b) /\ c = Cost[b] /\ n = now /\ s = Second
        /\ c > 0 /\ have <= s
  BY <1>2, EmptiedAt, Limits
<1>4. Max({c - have, 0}) = IF c - have >= 0 THEN c - have ELSE 0
  BY <1>3, LargerOf
<1> DEFINE missing == c - have
<1>5. /\ sleeping[r] # "paid" /\ now' = now /\ executing' = executing
      /\ updated' = [updated EXCEPT ![p][b] = n]
      /\ until' = [until EXCEPT ![r] = n + Max({missing, 0})]
      /\ \/ /\ c <= s /\ missing > 0
            /\ tokens' = [tokens EXCEPT ![p][b] = have]
            /\ sleeping' = [sleeping EXCEPT ![r] = "again"]
            /\ pc' = pc /\ passed' = passed
         \/ /\ ~(c <= s /\ missing > 0)
            /\ tokens' = [tokens EXCEPT ![p][b] = have - c]
            /\ sleeping' = [sleeping EXCEPT ![r] = IF missing > 0 THEN "paid" ELSE "no"]
            /\ IF missing > 0 THEN pc' = pc /\ passed' = passed ELSE Pass(r)
  BY Zenon, <1>1, <1>3 DEF Acquire, Charged
<1>6. PICK t \in Int : tokens' = [tokens EXCEPT ![p][b] = t] /\ t <= have
                      /\ t = IF c <= s /\ missing > 0 THEN have ELSE have - c
  <2>1. have - c \in Int /\ have - c <= have /\ have <= have
    BY <1>3
  <2> QED BY <1>5, <2>1
<1>7. /\ tokens' \in [Processes -> [Buckets -> Int]] /\ updated' \in [Processes -> [Buckets -> Nat]]
      /\ tokens'[p][b] = t /\ updated'[p][b] = n
      /\ \A o \in Processes, d \in Buckets : o # p \/ d # b =>
           tokens'[o][d] = tokens[o][d] /\ updated'[o][d] = updated[o][d]
  BY <1>2, <1>5, <1>6 DEF Types
<1>8. n + Max({missing, 0}) \in Nat /\ (missing > 0 => n + Max({missing, 0}) = n + missing)
  BY <1>3, <1>4
<1>9. /\ until' \in [Requests -> Nat] /\ until'[r] = n + Max({missing, 0})
      /\ \A q \in Requests \ {r} : until'[q] = until[q]
  BY <1>2, <1>5, <1>8 DEF Types
<1>10. Refilled(p, b)' = t
  <2>1. Refilled(p, b)' = IF s <= t + (n - n) THEN s ELSE t + (n - n)
    BY Zenon, <1>3, <1>5, <1>7 DEF Refilled, Least
  <2> QED BY <1>3, <1>6, <2>1
<1>11. passed[b][r] = -1 /\ r \notin Served(p, b)
  <2>1. passed[b][r] = -1
    BY <1>1, NotYet
  <2> QED BY <1>5, <2>1 DEF Served
<1>12. Filled'
  <2>1. t <= s
    BY <1>3, <1>6
  <2>2. n <= n
    BY <1>3
  <2> QED BY <1>2, <1>3, <1>5, <1>7, <2>1, <2>2 DEF Filled
\* What it leaves of the other buckets and requests.
<1> DEFINE Rest ==
      /\ \A q \in Requests \ {r} :
           /\ pc'[q] = pc[q] /\ sleeping'[q] = sleeping[q]
           /\ \A d \in Buckets : passed'[d][q] = passed[d][q]
      /\ \A d \in Buckets : d # b => /\ passed'[d][r] = passed[d][r]
                                    /\ ~(pc'[r] = d /\ sleeping'[r] = "paid")
<1>13. ASSUME Types', Rest, Order(r)', Paced(p, b)'
       PROVE  LimiterInv'
  <2>1. ASSUME NEW q \in Requests
        PROVE  Order(q)'
    <3>1. CASE q = r
      BY <1>13, <3>1
    <3>2. CASE q # r
      <4>1. Alone(q)
        BY <1>5, <1>9, <1>13, <3>2 DEF Alone, Buckets
      <4> QED BY <1>2, <1>5, <4>1, OrderRests
    <3> QED BY <3>1, <3>2
  <2>2. ASSUME NEW o \in Processes, NEW d \in Buckets
        PROVE  Paced(o, d)'
    <3>1. CASE o = p /\ d = b
      BY <1>13, <3>1
    <3>2. CASE o # p \/ d # b
      <4>1. Paced(o, d) /\ Refilled(o, d)' = Refilled(o, d)
        BY <1>5, <1>7, <3>2, RefillRests DEF LimiterInv
      <4>2. ASSUME NEW q \in Requests, ProcessOf[q] = o
            PROVE  /\ passed'[d][q] = passed[d][q]
                   /\ pc'[q] = d /\ sleeping'[q] = "paid" <=> pc[q] = d /\ sleeping[q] = "paid"
        <5>1. CASE q = r
          BY <1>1, <1>5, <1>13, <3>2, <4>2, <5>1
        <5>2. CASE q # r
          BY <1>13, <5>2
        <5> QED BY <5>1, <5>2
      <4>3. Served(o, d)' = Served(o, d)
        BY <4>2 DEF Served
      <4>4. ASSUME NEW q \in Served(o, d)
            PROVE  passed'[d][q] = passed[d][q] /\ (passed[d][q] < 0 => until'[q] = until[q])
        <5>1. q \in Requests /\ ProcessOf[q] = o
          BY DEF Served
        <5>2. CASE q = r
          <6>1. passed[d][r] >= 0
            BY <1>5, <5>2 DEF Served
          <6>2. passed[d][r] \in Int
            BY <1>2 DEF Types
          <6>3. ~(passed[d][q] < 0)
            BY <5>2, <6>1, <6>2
          <6> QED BY <4>2, <5>1, <6>3
        <5>3. CASE q # r
          BY <1>9, <4>2, <5>1, <5>3
        <5> QED BY <5>2, <5>3
      <4> QED BY <1>2, <1>5, <4>1, <4>3, <4>4, PaceRests
    <3> QED BY <3>1, <3>2
  <2> QED BY <1>12, <1>13, <2>1, <2>2 DEF LimiterInv
<1>14. r \notin executing /\ Order(r)
  BY <1>1, <1>2 DEF Order, Buckets
<1>15. CASE c <= s /\ missing > 0
  <2>1. /\ sleeping' = [sleeping EXCEPT ![r] = "again"] /\ pc' = pc /\ passed' = passed /\ t = have
    BY <1>5, <1>6, <1>15
  <2>2. Types'
    BY <1>2, <1>5, <1>7, <1>9, <2>1 DEF Types
  <2>3. sleeping'[r] = "again" /\ \A q \in Requests \ {r} : sleeping'[q] = sleeping[q]
    BY <1>2, <2>1 DEF Types
  <2>4. Rest
    BY <2>1, <2>3
  <2>5. Order(r)'
    BY <1>1, <1>5, <1>14, <2>1, <2>3 DEF Order
  <2>6. Paced(p, b)'
    <3>1. Served(p, b)' = Served(p, b)
      <4>1. ASSUME NEW q \in Requests
            PROVE  pc'[q] = b /\ sleeping'[q] = "paid" <=> pc[q] = b /\ sleeping[q] = "paid"
        BY <1>5, <2>1, <2>3
      <4> QED BY <2>1, <4>1 DEF Served
    <3>2. ASSUME NEW q \in Served(p, b)
          PROVE  passed'[b][q] = passed[b][q] /\ (passed[b][q] < 0 => until'[q] = until[q])
      <4>1. q \in Requests /\ q # r
        BY <1>11 DEF Served
      <4> QED BY <1>9, <2>1, <4>1
    <3>3. Refilled(p, b)' = Refilled(p, b) /\ Paced(p, b)
      BY <1>3, <1>10, <2>1 DEF LimiterInv
    <3> QED BY <1>2, <1>5, <3>1, <3>2, <3>3, PaceRests
  <2> QED BY <1>13, <2>2, <2>4, <2>5, <2>6
<1>16. CASE ~(c <= s /\ missing > 0) /\ missing > 0
  <2>1. /\ sleeping' = [sleeping EXCEPT ![r] = "paid"] /\ pc' = pc /\ passed' = passed
        /\ t = have - c
    BY <1>5, <1>6, <1>16
  <2>2. Types'
    BY <1>2, <1>5, <1>7, <1>9, <2>1 DEF Types
  <2>3. sleeping'[r] = "paid" /\ \A q \in Requests \ {r} : sleeping'[q] = sleeping[q]
    BY <1>2, <2>1 DEF Types
  <2>4. Rest
    BY <1>1, <2>1, <2>3
  <2>5. until'[r] = n + missing
    BY <1>8, <1>9, <1>16
  <2>6. Order(r)'
    <3>1. PICK l \in Nat : l = Late
      BY Limits
    <3>2. n <= (n + missing) + l
      BY <1>3, <1>16, <3>1
    <3>3. now' <= until'[r] + Late
      BY Zenon, <1>3, <1>5, <2>5, <3>1, <3>2
    <3> QED BY <1>1, <1>5, <1>14, <2>1, <2>3, <3>3 DEF Order
  <2>7. Paced(p, b)'
    <3>1. Served(p, b)' = Served(p, b) \cup {r}
      <4>1. ASSUME NEW q \in Requests, q # r
            PROVE  pc'[q] = b /\ sleeping'[q] = "paid" <=> pc[q] = b /\ sleeping[q] = "paid"
        BY <2>1, <2>3, <4>1
      <4> QED BY <1>1, <2>1, <2>3, <4>1 DEF Served
    <3>2. ASSUME NEW q \in Served(p, b)
          PROVE  passed'[b][q] = passed[b][q] /\ (passed[b][q] < 0 => until'[q] = until[q])
      <4>1. q \in Requests /\ q # r
        BY <1>11 DEF Served
      <4> QED BY <1>9, <2>1, <4>1
    <3>3. Refilled(p, b)' = Refilled(p, b) - Cost[b] /\ Paced(p, b)
      BY <1>3, <1>10, <2>1 DEF LimiterInv
    <3>4. Cost[b] > Refilled(p, b)
      <4>1. c > have
        BY <1>3, <1>16
      <4> QED BY <1>3, <4>1
    <3>5. passed'[b][r] = -1 /\ until'[r] = now + (Cost[b] - Refilled(p, b))
      BY <1>3, <1>11, <2>1, <2>5
    <3> QED BY <1>2, <1>5, <1>11, <3>1, <3>2, <3>3, <3>4, <3>5, PaceCharged
  <2> QED BY <1>13, <2>2, <2>4, <2>6, <2>7
<1>17. CASE ~(missing > 0)
  <2>1. sleeping' = [sleeping EXCEPT ![r] = "no"] /\ Pass(r) /\ t = have - c
    BY <1>5, <1>6, <1>17
  <2>2. /\ passed' \in [Buckets -> [Requests -> Int]] /\ pc' \in [Requests -> Pcs]
        /\ sleeping' \in [Requests -> {"no", "again", "paid"}]
        /\ passed'[b][r] = now /\ sleeping'[r] = "no"
        /\ \A d \in Buckets, q \in Requests : d # b \/ q # r => passed'[d][q] = passed[d][q]
        /\ \A q \in Requests \ {r} : pc'[q] = pc[q] /\ sleeping'[q] = sleeping[q]
        /\ Order(r)'
    <3>1. pc[r] \in Buckets
      BY <1>1
    <3>2. /\ passed' \in [Buckets -> [Requests -> Int]] /\ pc' \in [Requests -> Pcs]
          /\ sleeping' \in [Requests -> {"no", "again", "paid"}]
          /\ passed'[pc[r]][r] = now /\ sleeping'[r] = "no"
          /\ \A d \in Buckets, q \in Requests : d # pc[r] \/ q # r => passed'[d][q] = passed[d][q]
          /\ \A q \in Requests \ {r} : pc'[q] = pc[q] /\ sleeping'[q] = sleeping[q]
          /\ Order(r)'
      BY <1>5, <2>1, <3>1, Passing
    <3> QED BY <1>1, <3>2
  <2>3. Types'
    BY <1>2, <1>5, <1>7, <1>9, <2>2 DEF Types
  <2>4. Rest
    BY <2>2
  <2>5. Paced(p, b)'
    <3>1. Served(p, b)' = Served(p, b) \cup {r}
      <4>1. ASSUME NEW q \in Requests, q # r
            PROVE  /\ passed'[b][q] = passed[b][q]
                   /\ pc'[q] = b /\ sleeping'[q] = "paid" <=> pc[q] = b /\ sleeping[q] = "paid"
        BY <2>2, <4>1
      <4>2. passed'[b][r] >= 0
        <5>1. n >= 0
          BY <1>3
        <5> QED BY <1>3, <2>2, <5>1
      <4> QED BY <1>1, <4>1, <4>2 DEF Served
    <3>2. ASSUME NEW q \in Served(p, b)
          PROVE  passed'[b][q] = passed[b][q] /\ (passed[b][q] < 0 => until'[q] = until[q])
      <4>1. q \in Requests /\ q # r
        BY <1>11 DEF Served
      <4> QED BY <1>9, <2>2, <4>1
    <3>3. Refilled(p, b)' = Refilled(p, b) - Cost[b] /\ Paced(p, b)
      BY <1>3, <1>10, <2>1 DEF LimiterInv
    <3>4. Cost[b] <= Refilled(p, b)
      <4>1. c <= have
        BY <1>3, <1>17
      <4> QED BY <1>3, <4>1
    <3> QED BY <1>2, <1>5, <1>11, <2>2, <3>1, <3>2, <3>3, <3>4, PaceCharged
  <2> QED BY <1>13, <2>2, <2>3, <2>4, <2>5
<1> QED BY <1>15, <1>16, <1>17

-----------------------------------------------------------------------------
(* What holds of every run.                                                *)

LEMMA LimiterKeeps ==
    ASSUME LimiterAssumption, LimiterInv, [Next]_vars
    PROVE  LimiterInv'
<1>1. CASE Tick
  BY <1>1, TickStep
<1>2. ASSUME NEW q \in Requests, Step(q) \/ Computed(q)
      PROVE  LimiterInv'
  BY <1>2, ArriveStep, AcquireStep, WakeStep, EnterStep, ScoredStep DEF Step
<1>3. CASE UNCHANGED vars
  <2>1. UNCHANGED <<now, tokens, updated, pc, sleeping, until, executing, passed>>
    BY <1>3 DEF vars
  <2>2. Types' /\ Filled'
    BY <2>1 DEF LimiterInv, Types, Filled
  <2>3. ASSUME NEW q \in Requests
        PROVE  Order(q)'
    BY <2>1, OrderRests DEF LimiterInv, Alone
  <2>4. ASSUME NEW p \in Processes, NEW b \in Buckets
        PROVE  Paced(p, b)'
    <3>1. Paced(p, b) /\ Refilled(p, b)' = Refilled(p, b) /\ Types
      BY <2>1, RefillRests DEF LimiterInv
    <3>2. Served(p, b)' = Served(p, b)
      BY <2>1 DEF Served
    <3> QED BY <2>1, <3>1, <3>2, PaceRests
  <2> QED BY <2>2, <2>3, <2>4 DEF LimiterInv
<1> QED BY <1>1, <1>2, <1>3 DEF Next

LEMMA LimiterAlways ==
    ASSUME LimiterAssumption
    PROVE  Spec => []LimiterInv
<1>1. Init => LimiterInv
  BY LimiterStart
<1>2. LimiterInv /\ [Next]_vars => LimiterInv'
  BY LimiterKeeps
<1> QED BY <1>1, <1>2, PTL DEF Spec

\* The variables have their types, and no bucket ever holds more than a second's refill,
\* however long nothing is acquired.
THEOREM LimiterTypes ==
    ASSUME LimiterAssumption
    PROVE  Spec => []TypeOK
<1>1. ASSUME LimiterInv
      PROVE  TypeOK
  BY <1>1 DEF LimiterInv, Types, Filled, TypeOK, Pcs
<1> QED BY <1>1, LimiterAlways, PTL

\* RateKept: in every span of time a process lets no more requests through than its bucket
\* holds, or one of them costs, and refills in it and while a timer is late, whatever they
\* cost and however they retry.
THEOREM RateIsKept ==
    ASSUME LimiterAssumption
    PROVE  Spec => []RateKept
<1>1. ASSUME LimiterInv
      PROVE  RateKept
  <2> SUFFICES ASSUME NEW p \in Processes, NEW b \in Buckets,
                      NEW from \in {passed[b][q] : q \in Requests},
                      NEW to \in {passed[b][q] : q \in Requests}, 0 <= from, from <= to
               PROVE  PassedIn(p, b, from, to) * Cost[b] <= Room(b) + (to - from) + Late
    BY DEF RateKept, Room
  <2>1. Types /\ Paced(p, b)
    BY <1>1 DEF LimiterInv
  <2>2. PICK due \in [Requests -> Int] : PacedBy(due, p, b)
    BY <2>1 DEF Paced
  <2>3. PICK f \in Int, t \in Int, l \in Nat, c \in Nat, m \in Nat :
          f = from /\ t = to /\ l = Late /\ c = Cost[b] /\ m = Room(b) /\ f - l <= t
    <3>1. from \in Int /\ to \in Int
      BY <2>1 DEF Types
    <3>2. Late \in Nat /\ Cost[b] \in Nat /\ Room(b) \in Nat
      BY Limits
    <3> QED BY <3>1, <3>2
  <2> DEFINE S == {q \in Requests : ProcessOf[q] = p /\ passed[b][q] \in f .. t}
             T == Between(Served(p, b), due, f - l, t)
  <2>4. S \in SUBSET T
    <3> SUFFICES ASSUME NEW q \in Requests, ProcessOf[q] = p, passed[b][q] \in f .. t
                 PROVE  q \in Served(p, b) /\ f - l <= due[q] /\ due[q] <= t
      BY DEF Between
    <3>1. PICK x \in Int, d \in Int : x = passed[b][q] /\ d = due[q] /\ x >= 0
      BY <2>1, <2>3 DEF Types
    <3>2. q \in Served(p, b)
      BY <3>1 DEF Served
    <3>3. d <= x /\ x <= d + l
      BY <2>2, <2>3, <3>1, <3>2 DEF PacedBy
    <3> QED BY <2>3, <3>1, <3>2, <3>3
  <2>5. IsFiniteSet(T)
    <3>1. T \in SUBSET Requests /\ IsFiniteSet(Requests)
      BY Limits DEF Between, Served
    <3> QED BY <3>1, FS_Subset
  <2> HIDE DEF S, T
  <2>6. PICK j \in Nat, k \in Nat : j = Cardinality(S) /\ k = Cardinality(T) /\ j * c <= k * c
    BY <2>3, <2>4, <2>5, Fewer
  <2>7. k * c <= m + t - (f - l)
    <3>1. f - l \in Int
      BY <2>3
    <3> QED BY Zenon, <2>2, <2>3, <2>6, <3>1 DEF PacedBy, T
  <2>8. j * c <= m + (t - f) + l
    <3>1. j * c \in Int /\ k * c \in Int
      BY <2>3, <2>6
    <3> QED BY <2>3, <2>6, <2>7, <3>1
  <2> QED BY Zenon, <2>3, <2>6, <2>8 DEF PassedIn, S
<1> QED BY <1>1, LimiterAlways, PTL

-----------------------------------------------------------------------------
(* The semaphore.                                                          *)

\* A coroutine that is cancelled does not go on executing.
Slots ==
  /\ \A p \in Processes : Cardinality(InSemaphore(p)) <= MaxConcurrent
  /\ ~Executor => \A q \in executing : pc[q] = "run"

LEMMA SlotsStart ==
    ASSUME LimiterAssumption, Init
    PROVE  Slots
<1>1. \A p \in Processes : InSemaphore(p) = {}
  BY DEF Init, InSemaphore
<1>2. 0 <= MaxConcurrent
  BY Limits DEF Buckets
<1> QED BY <1>1, <1>2, FS_EmptySet DEF Init, Slots

LEMMA SlotsKeep ==
    ASSUME LimiterAssumption, LimiterInv, Slots, [Next]_vars
    PROVE  Slots'
<1>1. Types /\ IsFiniteSet(Requests) /\ MaxConcurrent \in Nat
  BY Limits DEF LimiterInv, Buckets
<1>2. ASSUME NEW p, NEW S \in SUBSET InSemaphore(p)
      PROVE  IsFiniteSet(InSemaphore(p)) /\ Cardinality(S) <= Cardinality(InSemaphore(p))
  <2>1. InSemaphore(p) \in SUBSET Requests
    BY DEF InSemaphore
  <2> QED BY <1>1, <2>1, FS_Subset
<1>3. ASSUME \A q \in Requests : pc'[q] = "run" => pc[q] = "run",
             ~Executor => \A q \in executing' : pc'[q] = "run"
      PROVE  Slots'
  <2>1. ASSUME NEW p \in Processes
        PROVE  Cardinality(InSemaphore(p))' <= MaxConcurrent
    <3>1. InSemaphore(p)' \in SUBSET InSemaphore(p)
      BY <1>3 DEF InSemaphore
    <3>2. IsFiniteSet(InSemaphore(p)) /\ Cardinality(InSemaphore(p)') <= Cardinality(InSemaphore(p))
      BY <1>2, <3>1
    <3>3. /\ Cardinality(InSemaphore(p)) \in Nat /\ Cardinality(InSemaphore(p)') \in Nat
          /\ Cardinality(InSemaphore(p)) <= MaxConcurrent
      BY <3>1, <3>2, FS_Subset, FS_CardinalityType DEF Slots
    <3> QED BY <1>1, <3>2, <3>3
  <2> QED BY <1>3, <2>1 DEF Slots
<1>4. CASE Tick \/ UNCHANGED vars
  <2>1. pc' = pc /\ executing' = executing
    BY <1>4 DEF Tick, vars
  <2> QED BY <1>3, <2>1 DEF Slots
<1>5. ASSUME NEW r \in Requests, Arrive(r) \/ Acquire(r) \/ Wake(r)
      PROVE  Slots'
  <2>1. pc[r] \in Buckets \cup {"new"} /\ executing' = executing
    <3>1. Order(r)
      BY DEF LimiterInv
    <3> QED BY <1>5, <3>1 DEF Arrive, Acquire, Wake, Order
  <2>2. /\ pc'[r] = pc[r] \/ pc'[r] \in Buckets \cup {"semaphore"}
        /\ \A q \in Requests \ {r} : pc'[q] = pc[q]
    BY <1>1, <1>5 DEF Types, Arrive, Acquire, Wake, Pass, Buckets
  <2>3. pc[r] # "run" /\ pc'[r] # "run"
    BY <2>1, <2>2 DEF Buckets
  <2>4. \A q \in executing : q \in Requests
    BY <1>1 DEF Types
  <2> QED BY <1>3, <2>1, <2>2, <2>3, <2>4 DEF Slots
<1>6. ASSUME NEW r \in Requests, Enter(r)
      PROVE  Slots'
  <2>1. /\ pc' = [pc EXCEPT ![r] = "run"] /\ executing' = executing \cup {r}
        /\ Cardinality(InSemaphore(ProcessOf[r])) < MaxConcurrent
    BY <1>6 DEF Enter, HasRoom
  <2>2. pc'[r] = "run" /\ \A q \in Requests \ {r} : pc'[q] = pc[q]
    BY <1>1, <2>1 DEF Types
  <2>3. ASSUME NEW p \in Processes
        PROVE  Cardinality(InSemaphore(p))' <= MaxConcurrent
    <3>1. IsFiniteSet(InSemaphore(p)) /\ Cardinality(InSemaphore(p)) \in Nat
      BY <1>2, FS_CardinalityType
    <3>2. CASE p = ProcessOf[r]
      <4>1. InSemaphore(p)' = InSemaphore(p) \cup {r}
        BY <2>2, <3>2 DEF InSemaphore
      <4>2. Cardinality(InSemaphore(p) \cup {r}) <= Cardinality(InSemaphore(p)) + 1
        BY <3>1, FS_AddElement
      <4>3. Cardinality(InSemaphore(p) \cup {r}) \in Nat
        BY <3>1, FS_AddElement, FS_CardinalityType
      <4> QED BY <1>1, <2>1, <3>1, <3>2, <4>1, <4>2, <4>3
    <3>3. CASE p # ProcessOf[r]
      <4>1. InSemaphore(p)' = InSemaphore(p)
        BY <2>2, <3>3 DEF InSemaphore
      <4> QED BY <4>1 DEF Slots
    <3> QED BY <3>2, <3>3
  <2>4. ~Executor => \A q \in executing' : pc'[q] = "run"
    BY <1>1, <2>1, <2>2 DEF Slots, Types
  <2> QED BY <2>3, <2>4 DEF Slots
<1>7. ASSUME NEW r \in Requests, Computed(r) \/ TimedOut(r)
      PROVE  Slots'
  <2>1. /\ pc' = [pc EXCEPT ![r] = "scored"] /\ executing' \subseteq executing
        /\ ~Executor => r \notin executing'
    BY <1>7 DEF Computed, TimedOut, AfterTimeout
  <2>2. pc'[r] = "scored" /\ \A q \in Requests \ {r} : pc'[q] = pc[q]
    BY <1>1, <2>1 DEF Types
  <2>3. executing \subseteq Requests
    BY <1>1 DEF Types
  <2> QED BY <1>3, <2>1, <2>2, <2>3 DEF Slots
<1> QED BY <1>4, <1>5, <1>6, <1>7 DEF Next, Step

\* ConcurrencyLimited, for a compute_score that is a coroutine: at most max_concurrent of a
\* process run at once, timeouts included. A plain function is not stopped by its.
THEOREM CoroutinesLimited ==
    ASSUME LimiterAssumption, ~Executor
    PROVE  Spec => []ConcurrencyLimited
<1>1. ASSUME LimiterInv, Slots
      PROVE  ConcurrencyLimited
  <2> SUFFICES ASSUME NEW p \in Processes
               PROVE  Cardinality({q \in executing : ProcessOf[q] = p}) <= MaxConcurrent
    BY DEF ConcurrencyLimited
  <2> DEFINE S == {q \in executing : ProcessOf[q] = p}
  <2>1. S \in SUBSET InSemaphore(p) /\ InSemaphore(p) \in SUBSET Requests
    BY <1>1 DEF Slots, LimiterInv, Types, InSemaphore
  <2>2. IsFiniteSet(InSemaphore(p)) /\ MaxConcurrent \in Nat
    BY <2>1, Limits, FS_Subset DEF Buckets
  <2>3. Cardinality(S) <= Cardinality(InSemaphore(p)) /\ IsFiniteSet(S)
    BY <2>1, <2>2, FS_Subset
  <2>4. /\ Cardinality(S) \in Nat /\ Cardinality(InSemaphore(p)) \in Nat
        /\ Cardinality(InSemaphore(p)) <= MaxConcurrent
    BY <1>1, <2>2, <2>3, FS_CardinalityType DEF Slots
  <2> QED BY <2>2, <2>3, <2>4
<1>2. Init => Slots
  BY SlotsStart
<1>3. LimiterInv /\ Slots /\ [Next]_vars => Slots'
  BY SlotsKeep
<1> QED BY <1>1, <1>2, <1>3, LimiterAlways, PTL DEF Spec

-----------------------------------------------------------------------------
(***************************************************************************)
(* Scoring a batch with a reward model. Of each request the invariant says *)
(* how often it can have been sent by where it is (Attempts), and of each  *)
(* replica that the router counts no less than it has to do; while no post *)
(* has failed it counts exactly that, and a replica with the least of it   *)
(* has no more than its share of the requests (Loaded).                    *)
(***************************************************************************)
CONSTANTS Responses, NumReplicas, MaxAttempts, MaxRetries, Malformed, MaxFaults

VARIABLES phase, malformed, at, worker, attempt, posts, sent, request_counts, awake, faults

Loop == INSTANCE RewardLoop WITH Requests <- Responses, pc <- at

\* Where the router has a request, which requests it has for a replica, and whether no
\* post has failed.
Running == {"send", "sent"}
Places == {"none", "post", "send", "sent", "scored", "unscored", "failed"}
Active(w) == {q \in Responses : worker[q] = w /\ at[q] \in Running}
NoFailure == \A q \in Responses : posts[q] = 0 /\ at[q] # "failed"

\* How often a request can have been sent by where it is, and what else is known there.
Attempts(q) ==
  /\ sent[q] <= (IF at[q] \in {"none", "post"} THEN posts[q] * MaxAttempts
                 ELSE IF at[q] = "send" THEN posts[q] * MaxAttempts + attempt[q]
                 ELSE IF at[q] = "sent" THEN posts[q] * MaxAttempts + attempt[q] + 1
                 ELSE (posts[q] + 1) * MaxAttempts)
  /\ at[q] \in {"post", "send", "sent"} => awake
  /\ at[q] = "failed" => posts[q] = MaxRetries - 1
  /\ phase = "start" => at[q] = "none"

\* A post that failed was of a malformed request, or there was a fault for it.
Caused(q) ==
  /\ q \notin malformed => posts[q] <= faults
  /\ at[q] = "failed" => q \in malformed \/ MaxRetries <= faults
  /\ at[q] = "unscored" => q \notin malformed /\ faults > 0
  /\ phase = "start" => posts[q] = 0

Loaded(w) ==
  /\ Loop!Load(w) <= request_counts[w]
  /\ NoFailure => /\ Loop!Load(w) = request_counts[w]
                  /\ (Loop!Load(w) - 1) * NumReplicas < Cardinality(Responses)

LoopInv ==
  /\ Loop!TypeOK
  /\ \A q \in Responses : Attempts(q)
  /\ \A w \in Loop!Replicas : Loaded(w)

\* RewardLoop extends FiniteSets, so its instance has a Cardinality of its own.
LEMMA SameSize ==
    ASSUME NEW S
    PROVE  /\ Loop!Cardinality(S) = Cardinality(S)
           /\ Loop!IsFiniteSet(S) = IsFiniteSet(S)
<1>1. Loop!Cardinality(S) = Cardinality(S)
  BY Zenon DEF Loop!Cardinality, Cardinality
<1>2. Loop!IsFiniteSet(S) = IsFiniteSet(S)
  BY Zenon DEF Loop!IsFiniteSet, IsFiniteSet
<1> QED BY <1>1, <1>2

\* n disjoint sets of at least l elements each have n * l of them.
LEMMA Shared ==
    ASSUME NEW R, IsFiniteSet(R), NEW n \in Nat, NEW l \in Nat, NEW A \in [1 .. n -> SUBSET R],
           \A v \in 1 .. n : l <= Cardinality(A[v]),
           \A v, w \in 1 .. n : v # w => A[v] \cap A[w] = {}
    PROVE  n * l <= Cardinality(R)
<1>1. ASSUME NEW v \in 1 .. n
      PROVE  /\ Cardinality(A[v]) \in Nat
             /\ \E f : f \in Bijection(1 .. Cardinality(A[v]), A[v])
  <2>1. IsFiniteSet(A[v])
    BY FS_Subset
  <2> QED BY <2>1, FS_CardinalityType DEF ExistsBijection
<1> DEFINE b(v) == CHOOSE f : f \in Bijection(1 .. Cardinality(A[v]), A[v])
           P == (1 .. n) \X (1 .. l)
           g == [t \in P |-> b(t[1])[t[2]]]
<1>2. ASSUME NEW v \in 1 .. n
      PROVE  b(v) \in Bijection(1 .. Cardinality(A[v]), A[v])
  BY <1>1
<1> HIDE DEF b
<1>3. ASSUME NEW v \in 1 .. n, NEW i \in 1 .. l
      PROVE  /\ b(v)[i] \in A[v] /\ b(v)[i] \in R
             /\ \A j \in 1 .. l : b(v)[i] = b(v)[j] => i = j
  <2>1. PICK k \in Nat : k = Cardinality(A[v]) /\ l <= k
    BY <1>1
  <2>2. /\ b(v) \in [1 .. k -> A[v]]
        /\ \A x, y \in 1 .. k : b(v)[x] = b(v)[y] => x = y
    <3>1. b(v) \in Bijection(1 .. k, A[v])
      BY <1>2, <2>1
    <3>2. b(v) \in [1 .. k -> A[v]] /\ IsInjective(b(v))
      BY <3>1 DEF Bijection, Injection
    <3> QED BY <3>2 DEF IsInjective
  <2>3. \A j \in 1 .. l : j \in 1 .. k
    BY <2>1
  <2> QED BY <2>2, <2>3
<1>4. g \in Injection(P, R)
  <2>1. g \in [P -> R]
    BY <1>3
  <2>2. ASSUME NEW t \in P, NEW u \in P, g[t] = g[u]
        PROVE  t = u
    <3>1. /\ t[1] \in 1 .. n /\ t[2] \in 1 .. l /\ u[1] \in 1 .. n /\ u[2] \in 1 .. l
          /\ t = <<t[1], t[2]>> /\ u = <<u[1], u[2]>>
      OBVIOUS
    <3>2. b(t[1])[t[2]] = b(u[1])[u[2]]
      BY <2>2
    <3>3. t[1] = u[1]
      BY <1>3, <3>1, <3>2
    <3>4. t[2] = u[2]
      BY <1>3, <3>1, <3>2, <3>3
    <3> QED BY <3>1, <3>3, <3>4
  <2> QED BY <2>1, <2>2 DEF Injection, IsInjective
<1>5. Cardinality(P) <= Cardinality(R)
  BY <1>4, FS_Injection
<1>6. /\ IsFiniteSet(1 .. n) /\ Cardinality(1 .. n) = n
      /\ IsFiniteSet(1 .. l) /\ Cardinality(1 .. l) = l
  <2>1. 1 \in Int /\ n \in Int /\ l \in Int
    OBVIOUS
  <2>2. IsFiniteSet(1 .. n) /\ Cardinality(1 .. n) = IF 1 > n THEN 0 ELSE n - 1 + 1
    BY <2>1, FS_Interval
  <2>3. IsFiniteSet(1 .. l) /\ Cardinality(1 .. l) = IF 1 > l THEN 0 ELSE l - 1 + 1
    BY <2>1, FS_Interval
  <2> QED BY <2>2, <2>3
<1>7. Cardinality(P) = n * l
  <2>1. Cardinality(P) = Cardinality(1 .. n) * Cardinality(1 .. l)
    BY <1>6, FS_Product
  <2> QED BY Zenon, <1>6, <2>1
<1> QED BY <1>5, <1>7

LEMMA LoopConstants ==
    ASSUME Loop!RewardLoopAssumption
    PROVE  /\ NumReplicas \in Nat /\ NumReplicas > 0 /\ MaxAttempts \in Nat /\ MaxAttempts > 0
           /\ MaxRetries \in Nat /\ MaxRetries > 0 /\ MaxFaults \in Nat
           /\ IsFiniteSet(Responses) /\ Cardinality(Responses) \in Nat
           /\ Cardinality(Loop!Replicas) = NumReplicas /\ 1 \in Loop!Replicas
<1>1. /\ NumReplicas \in Nat /\ NumReplicas > 0 /\ MaxAttempts \in Nat /\ MaxAttempts > 0
      /\ MaxRetries \in Nat /\ MaxRetries > 0 /\ MaxFaults \in Nat /\ IsFiniteSet(Responses)
  BY SameSize DEF Loop!RewardLoopAssumption
<1>2. Cardinality(1 .. NumReplicas) = IF 1 > NumReplicas THEN 0 ELSE NumReplicas - 1 + 1
  <2>1. 1 \in Int /\ NumReplicas \in Int
    BY <1>1
  <2> QED BY <2>1, FS_Interval
<1>3. Cardinality(1 .. NumReplicas) = NumReplicas
  BY <1>1, <1>2
<1> QED BY <1>1, <1>3, FS_CardinalityType DEF Loop!Replicas

LEMMA ActiveCounted ==
    ASSUME Loop!RewardLoopAssumption, NEW w
    PROVE  IsFiniteSet(Active(w)) /\ Loop!Load(w) = Cardinality(Active(w)) /\ Loop!Load(w) \in Nat
<1>1. Active(w) \in SUBSET Responses
  BY DEF Active
<1>2. IsFiniteSet(Active(w)) /\ Cardinality(Active(w)) \in Nat
  BY <1>1, LoopConstants, FS_Subset, FS_CardinalityType
<1>3. Loop!Load(w) = Loop!Cardinality(Active(w))
  BY DEF Loop!Load, Active, Running
<1> QED BY <1>2, <1>3, SameSize

LEMMA ActiveCountedNext ==
    ASSUME Loop!RewardLoopAssumption, NEW w
    PROVE  /\ IsFiniteSet(Active(w)')
           /\ Loop!Load(w)' = Cardinality(Active(w)') /\ Loop!Load(w)' \in Nat
<1>1. Active(w)' \in SUBSET Responses
  BY DEF Active
<1>2. IsFiniteSet(Active(w)') /\ Cardinality(Active(w)') \in Nat
  BY <1>1, LoopConstants, FS_Subset, FS_CardinalityType
<1>3. Loop!Load(w)' = Loop!Cardinality(Active(w)')
  BY DEF Loop!Load, Active, Running
<1> QED BY <1>2, <1>3, SameSize

LEMMA LoopStart ==
    ASSUME Loop!RewardLoopAssumption, Loop!Init
    PROVE  LoopInv
<1>1. Loop!TypeOK
  <2>1. 0 \in 0 .. MaxAttempts - 1 /\ 0 \in 0 .. MaxRetries - 1 /\ 0 \in 0 .. MaxFaults
    BY LoopConstants
  <2>2. 1 \in Loop!Replicas /\ 0 \in Nat
    BY LoopConstants
  <2> QED BY Zenon, <2>1, <2>2 DEF Loop!Init, Loop!TypeOK
<1>2. \A q \in Responses : Attempts(q)
  BY LoopConstants DEF Loop!Init, Attempts
<1>3. ASSUME NEW w \in Loop!Replicas
      PROVE  Loaded(w)
  <2>1. Active(w) = {}
    BY DEF Loop!Init, Active, Running
  <2>2. Loop!Load(w) = 0 /\ request_counts[w] = 0
    BY <2>1, ActiveCounted, FS_EmptySet DEF Loop!Init
  <2>3. (0 - 1) * NumReplicas < Cardinality(Responses)
    BY LoopConstants
  <2> QED BY <2>2, <2>3 DEF Loaded
<1> QED BY <1>1, <1>2, <1>3 DEF LoopInv

\* A request that a step leaves alone, and a replica.
LEMMA RequestRests ==
    ASSUME NEW q \in Responses, Attempts(q), at'[q] = at[q], posts'[q] = posts[q],
           attempt'[q] = attempt[q], sent'[q] = sent[q], awake' = awake,
           phase' = phase \/ phase' # "start"
    PROVE  Attempts(q)'
BY DEF Attempts

LEMMA ReplicaRests ==
    ASSUME Loop!RewardLoopAssumption, NEW w \in Loop!Replicas, Loaded(w), Active(w)' = Active(w),
           request_counts'[w] = request_counts[w], NoFailure' => NoFailure
    PROVE  Loaded(w)'
<1>1. Loop!Load(w)' = Loop!Load(w)
  BY ActiveCounted, ActiveCountedNext
<1> QED BY <1>1 DEF Loaded

\* After a failure only the first half is left to keep.
LEMMA ReplicaReleased ==
    ASSUME Loop!RewardLoopAssumption, Loop!TypeOK, NEW w \in Loop!Replicas, Loaded(w),
           Active(w)' \in SUBSET Active(w), request_counts' = request_counts, ~NoFailure'
    PROVE  Loaded(w)'
<1>1. Cardinality(Active(w)') <= Cardinality(Active(w))
  BY ActiveCounted, FS_Subset
<1>2. Loop!Load(w)' <= Loop!Load(w) /\ Loop!Load(w) \in Nat /\ Loop!Load(w)' \in Nat
  BY <1>1, ActiveCounted, ActiveCountedNext
<1>3. request_counts[w] \in Nat /\ Loop!Load(w) <= request_counts[w]
  BY DEF Loop!TypeOK, Loaded
<1>4. Loop!Load(w)' <= request_counts'[w]
  BY <1>2, <1>3
<1> QED BY <1>4 DEF Loaded

LEMMA WakeUpStep ==
    ASSUME Loop!RewardLoopAssumption, LoopInv, Loop!WakeUp
    PROVE  LoopInv'
<1>1. /\ phase = "start" /\ phase' = "scoring" /\ malformed' \in SUBSET Malformed /\ awake' = TRUE
      /\ at' = [q \in Responses |-> "post"]
      /\ UNCHANGED <<worker, attempt, posts, sent, request_counts, faults>>
  BY DEF Loop!WakeUp
<1>2. Loop!TypeOK /\ \A q \in Responses : Attempts(q)
  BY DEF LoopInv
<1>3. Loop!TypeOK'
  BY <1>1, <1>2 DEF Loop!TypeOK
<1>4. ASSUME NEW q \in Responses
      PROVE  Attempts(q)'
  BY <1>1, <1>2 DEF Attempts
<1>5. ASSUME NEW w \in Loop!Replicas
      PROVE  Loaded(w)'
  <2>1. Active(w)' = Active(w)
    BY <1>1, <1>2 DEF Active, Attempts, Running
  <2>2. NoFailure' => NoFailure
    BY <1>1, <1>2 DEF NoFailure, Attempts
  <2> QED BY <1>1, <2>1, <2>2, ReplicaRests DEF LoopInv
<1> QED BY <1>3, <1>4, <1>5 DEF LoopInv

LEMMA SelectStep ==
    ASSUME Loop!RewardLoopAssumption, LoopInv, NEW q \in Responses, Loop!Select(q)
    PROVE  LoopInv'
<1>1. PICK w \in Loop!Replicas :
        /\ at[q] = "post" /\ Loop!IsLeastLoaded(w) /\ worker' = [worker EXCEPT ![q] = w]
        /\ request_counts' = [request_counts EXCEPT ![w] = @ + 1]
        /\ attempt' = [attempt EXCEPT ![q] = 0] /\ at' = [at EXCEPT ![q] = "send"]
        /\ UNCHANGED <<phase, malformed, posts, sent, awake, faults>>
  BY DEF Loop!Select
<1>2. Loop!TypeOK /\ \A o \in Responses : Attempts(o)
  BY DEF LoopInv
<1>3. /\ at'[q] = "send" /\ worker'[q] = w /\ attempt'[q] = 0
      /\ \A o \in Responses \ {q} :
           at'[o] = at[o] /\ worker'[o] = worker[o] /\ attempt'[o] = attempt[o]
      /\ \A v \in Loop!Replicas : request_counts[v] \in Nat
      /\ request_counts'[w] = request_counts[w] + 1
      /\ \A v \in Loop!Replicas \ {w} : request_counts'[v] = request_counts[v]
  BY <1>1, <1>2 DEF Loop!TypeOK
<1>4. Loop!TypeOK'
  <2>1. request_counts' \in [Loop!Replicas -> Nat] /\ worker' \in [Responses -> Loop!Replicas]
    BY <1>1, <1>2 DEF Loop!TypeOK
  <2>2. attempt' \in [Responses -> 0 .. MaxAttempts - 1]
    BY <1>1, <1>2, LoopConstants DEF Loop!TypeOK
  <2>3. at' \in [Responses -> Places]
    BY <1>1, <1>2 DEF Loop!TypeOK, Places
  <2> QED BY <1>1, <1>2, <2>1, <2>2, <2>3 DEF Loop!TypeOK, Places
<1>5. ASSUME NEW o \in Responses
      PROVE  Attempts(o)'
  <2>1. CASE o = q
    <3>1. PICK k \in Nat, s \in Nat : k = posts[q] * MaxAttempts /\ s = sent[q]
      BY <1>2, LoopConstants DEF Loop!TypeOK
    <3>2. s <= k
      BY <1>1, <1>2, <3>1 DEF Attempts
    <3>3. s <= k + 0
      BY <3>1, <3>2
    <3>4. sent'[q] <= posts'[q] * MaxAttempts + attempt'[q]
      BY Zenon, <1>1, <1>3, <3>1, <3>3
    <3> QED BY <1>1, <1>2, <1>3, <2>1, <3>4 DEF Attempts
  <2>2. CASE o # q
    BY <1>1, <1>2, <1>3, <2>2, RequestRests
  <2> QED BY <2>1, <2>2
<1>6. NoFailure' => NoFailure
  BY <1>1, <1>3 DEF NoFailure
<1>7. ASSUME NEW v \in Loop!Replicas, v # w
      PROVE  Loaded(v)'
  <2>1. Active(v)' = Active(v)
    BY <1>1, <1>3, <1>7 DEF Active, Running
  <2> QED BY <1>3, <1>6, <1>7, <2>1, ReplicaRests DEF LoopInv
<1>8. Loaded(w)'
  <2>1. Active(w)' = Active(w) \cup {q} /\ q \notin Active(w)
    BY <1>1, <1>3 DEF Active, Running
  <2>2. Loop!Load(w)' = Loop!Load(w) + 1 /\ Loop!Load(w) \in Nat
    BY <2>1, ActiveCounted, ActiveCountedNext, FS_AddElement
  <2>3. Loop!Load(w) <= request_counts[w]
    BY DEF LoopInv, Loaded
  <2>4. Loop!Load(w)' <= request_counts'[w]
    BY <1>3, <2>2, <2>3
  <2>5. ASSUME NoFailure'
        PROVE  /\ Loop!Load(w)' = request_counts'[w]
               /\ (Loop!Load(w)' - 1) * NumReplicas < Cardinality(Responses)
    <3>1. \A v \in Loop!Replicas : Loop!Load(v) = request_counts[v] /\ Loop!Load(v) \in Nat
      BY <1>6, <2>5, ActiveCounted DEF LoopInv, Loaded
    <3>2. PICK l \in Nat : l = Loop!Load(w)
      BY <2>2
    <3>3. \A v \in Loop!Replicas : l <= Loop!Load(v)
      BY <1>1, <3>1, <3>2 DEF Loop!IsLeastLoaded
    <3> DEFINE R == Responses \ {q}
               A == [v \in 1 .. NumReplicas |-> Active(v)]
    <3>4. IsFiniteSet(R) /\ Cardinality(R) = Cardinality(Responses) - 1
      BY LoopConstants, FS_RemoveElement
    <3>5. A \in [1 .. NumReplicas -> SUBSET R]
      BY <1>1 DEF Active, Running
    <3>6. \A v \in 1 .. NumReplicas : l <= Cardinality(A[v])
      BY <3>3, ActiveCounted DEF Loop!Replicas
    <3>7. \A u, v \in 1 .. NumReplicas : u # v => A[u] \cap A[v] = {}
      BY DEF Active
    <3> HIDE DEF A, R
    <3>8. NumReplicas * l <= Cardinality(R)
      BY <3>4, <3>5, <3>6, <3>7, LoopConstants, Shared
    <3>9. PICK k \in Nat, n \in Nat : k = Cardinality(Responses) /\ n = NumReplicas
      BY LoopConstants
    <3>10. l * n < k
      <4>1. n * l <= k - 1
        BY <3>4, <3>8, <3>9
      <4>2. n * l = l * n /\ n * l \in Nat
        BY <3>9
      <4> QED BY <3>9, <4>1, <4>2
    <3>11. Loop!Load(w)' - 1 = l
      BY <2>2, <3>2
    <3> QED BY <1>3, <2>2, <3>1, <3>9, <3>10, <3>11
  <2> QED BY <2>4, <2>5 DEF Loaded
<1> QED BY <1>4, <1>5, <1>7, <1>8 DEF LoopInv

LEMMA SendStep ==
    ASSUME Loop!RewardLoopAssumption, LoopInv, NEW q \in Responses, Loop!Send(q)
    PROVE  LoopInv'
<1>1. /\ at[q] = "send" /\ at' = [at EXCEPT ![q] = "sent"] /\ sent' = [sent EXCEPT ![q] = @ + 1]
      /\ UNCHANGED <<phase, malformed, worker, attempt, posts, request_counts, awake, faults>>
  BY DEF Loop!Send
<1>2. Loop!TypeOK /\ \A o \in Responses : Attempts(o)
  BY DEF LoopInv
<1>3. /\ at'[q] = "sent" /\ sent'[q] = sent[q] + 1
      /\ \A o \in Responses \ {q} : at'[o] = at[o] /\ sent'[o] = sent[o]
  BY <1>1, <1>2 DEF Loop!TypeOK
<1>4. Loop!TypeOK'
  BY <1>1, <1>2 DEF Loop!TypeOK
<1>5. ASSUME NEW o \in Responses
      PROVE  Attempts(o)'
  <2>1. CASE o = q
    <3>1. PICK k \in Nat, a \in Nat, s \in Nat :
            k = posts[q] * MaxAttempts /\ a = attempt[q] /\ s = sent[q]
      BY <1>2, LoopConstants DEF Loop!TypeOK
    <3>2. s <= k + a /\ awake /\ phase # "start"
      BY <1>1, <1>2, <3>1 DEF Attempts
    <3>3. s + 1 <= k + a + 1
      BY <3>1, <3>2
    <3>4. sent'[q] <= posts'[q] * MaxAttempts + attempt'[q] + 1
      BY Zenon, <1>1, <1>3, <3>1, <3>3
    <3> QED BY <1>1, <1>3, <2>1, <3>2, <3>4 DEF Attempts
  <2>2. CASE o # q
    BY <1>1, <1>2, <1>3, <2>2, RequestRests
  <2> QED BY <2>1, <2>2
<1>6. ASSUME NEW w \in Loop!Replicas
      PROVE  Loaded(w)'
  <2>1. Active(w)' = Active(w)
    BY <1>1, <1>3 DEF Active, Running
  <2>2. NoFailure' => NoFailure
    BY <1>1, <1>3 DEF NoFailure
  <2> QED BY <1>1, <2>1, <2>2, ReplicaRests DEF LoopInv
<1> QED BY <1>4, <1>5, <1>6 DEF LoopInv

\* An answer, with a score or without.
LEMMA AnswerStep ==
    ASSUME Loop!RewardLoopAssumption, LoopInv, NEW q \in Responses,
           Loop!Answer(q) \/ Loop!EmptyAnswer(q)
    PROVE  LoopInv'
<1>0. PICK w \in Loop!Replicas : w = worker[q]
  BY DEF LoopInv, Loop!TypeOK
<1>1. /\ at[q] = "sent" /\ \E p \in {"scored", "unscored"} : at' = [at EXCEPT ![q] = p]
      /\ request_counts' = [request_counts EXCEPT ![w] = IF @ > 0 THEN @ - 1 ELSE 0]
      /\ faults' = faults \/ (faults < MaxFaults /\ faults' = faults + 1)
      /\ UNCHANGED <<phase, malformed, worker, attempt, posts, sent, awake>>
  BY <1>0 DEF Loop!Answer, Loop!EmptyAnswer
<1>2. Loop!TypeOK /\ \A o \in Responses : Attempts(o)
  BY DEF LoopInv
<1>3. /\ at'[q] \in {"scored", "unscored"} /\ \A o \in Responses \ {q} : at'[o] = at[o]
      /\ w \in Loop!Replicas /\ \A v \in Loop!Replicas : request_counts[v] \in Nat
      /\ \A v \in Loop!Replicas \ {w} : request_counts'[v] = request_counts[v]
      /\ request_counts'[w] = IF request_counts[w] > 0 THEN request_counts[w] - 1 ELSE 0
  BY <1>1, <1>2 DEF Loop!TypeOK
<1>4. Loop!TypeOK'
  <2>1. request_counts' \in [Loop!Replicas -> Nat]
    BY <1>1, <1>2 DEF Loop!TypeOK
  <2>2. at' \in [Responses -> Places]
    BY <1>1, <1>2 DEF Loop!TypeOK, Places
  <2>3. faults' \in 0 .. MaxFaults
    BY <1>1, <1>2, LoopConstants DEF Loop!TypeOK
  <2> QED BY <1>1, <1>2, <2>1, <2>2, <2>3 DEF Loop!TypeOK, Places
<1>5. ASSUME NEW o \in Responses
      PROVE  Attempts(o)'
  <2>1. CASE o = q
    <3>1. PICK p \in Nat, a \in Nat, s \in Nat, m \in Nat :
            p = posts[q] /\ a = attempt[q] /\ s = sent[q] /\ m = MaxAttempts /\ a + 1 <= m
      BY <1>2, LoopConstants DEF Loop!TypeOK
    <3>2. s <= p * m + a + 1 /\ phase # "start"
      BY <1>1, <1>2, <3>1 DEF Attempts
    <3>3. s <= (p + 1) * m
      BY <3>1, <3>2
    <3>4. sent'[q] <= (posts'[q] + 1) * MaxAttempts
      BY Zenon, <1>1, <3>1, <3>3
    <3> QED BY <1>1, <1>3, <2>1, <3>2, <3>4 DEF Attempts
  <2>2. CASE o # q
    BY <1>1, <1>2, <1>3, <2>2, RequestRests
  <2> QED BY <2>1, <2>2
<1>6. NoFailure' => NoFailure
  BY <1>1, <1>3 DEF NoFailure
<1>7. ASSUME NEW v \in Loop!Replicas, v # w
      PROVE  Loaded(v)'
  <2>1. Active(v)' = Active(v)
    BY <1>0, <1>1, <1>3, <1>7 DEF Active, Running
  <2> QED BY <1>3, <1>6, <1>7, <2>1, ReplicaRests DEF LoopInv
<1>8. Loaded(w)'
  <2>1. Active(w)' = Active(w) \ {q} /\ q \in Active(w)
    BY <1>0, <1>1, <1>3 DEF Active, Running
  <2>2. /\ Cardinality(Active(w)') = Cardinality(Active(w)) - 1
        /\ Loop!Load(w)' = Cardinality(Active(w)') /\ Loop!Load(w) = Cardinality(Active(w))
        /\ Loop!Load(w)' \in Nat /\ Loop!Load(w) \in Nat
    BY <2>1, ActiveCounted, ActiveCountedNext, FS_RemoveElement
  <2>3. Loop!Load(w) <= request_counts[w]
    BY <1>3 DEF LoopInv, Loaded
  <2>4. request_counts'[w] = request_counts[w] - 1 /\ Loop!Load(w)' = Loop!Load(w) - 1
    BY <1>3, <2>2, <2>3
  <2>5. Loop!Load(w)' <= request_counts'[w]
    BY <1>3, <2>2, <2>3, <2>4
  <2>6. ASSUME NoFailure'
        PROVE  /\ Loop!Load(w)' = request_counts'[w]
               /\ (Loop!Load(w)' - 1) * NumReplicas < Cardinality(Responses)
    <3>1. /\ Loop!Load(w) = request_counts[w]
          /\ (Loop!Load(w) - 1) * NumReplicas < Cardinality(Responses)
      BY <1>3, <1>6, <2>6 DEF LoopInv, Loaded
    <3>2. PICK l \in Nat, n \in Nat, c \in Nat :
            l = Loop!Load(w) /\ n = NumReplicas /\ c = Cardinality(Responses)
      BY <2>2, LoopConstants
    <3>3. (l - 1) * n < c
      BY Zenon, <3>1, <3>2
    <3>4. (l - 1) - 1 <= l - 1 /\ ((l - 1) - 1) * n = (l - 1) * n - n
      BY <3>2
    <3>5. ((l - 1) - 1) * n < c
      <4>1. (l - 1) * n \in Int
        BY <3>2
      <4> QED BY <3>2, <3>3, <3>4, <4>1
    <3>6. (Loop!Load(w)' - 1) * NumReplicas < Cardinality(Responses)
      BY Zenon, <2>4, <3>2, <3>5
    <3>7. Loop!Load(w)' = request_counts'[w]
      BY Zenon, <2>4, <3>1
    <3> QED BY <3>6, <3>7
  <2> QED BY <2>5, <2>6 DEF Loaded
<1> QED BY <1>4, <1>5, <1>7, <1>8 DEF LoopInv

\* A post that fails.
LEMMA PostFailsStep ==
    ASSUME Loop!RewardLoopAssumption, LoopInv, NEW q \in Responses, NEW status, at[q] = "sent",
           Loop!PostFails(q, status), faults' \in 0 .. MaxFaults,
           UNCHANGED <<phase, malformed, worker, attempt, sent, request_counts, awake>>
    PROVE  LoopInv'
<1>2. Loop!TypeOK /\ \A o \in Responses : Attempts(o)
  BY DEF LoopInv
<1>3. PICK p \in Nat, a \in Nat, s \in Nat, m \in Nat, r \in Nat :
        /\ p = posts[q] /\ a = attempt[q] /\ s = sent[q] /\ m = MaxAttempts /\ a + 1 <= m
        /\ r = MaxRetries /\ p <= r - 1
  <2>1. /\ posts[q] \in Nat /\ attempt[q] \in Nat /\ sent[q] \in Nat
        /\ MaxAttempts \in Nat /\ MaxRetries \in Nat
        /\ attempt[q] + 1 <= MaxAttempts /\ posts[q] <= MaxRetries - 1
    BY <1>2, LoopConstants DEF Loop!TypeOK
  <2> QED BY <2>1
<1>4. /\ \A o \in Responses \ {q} : at'[o] = at[o] /\ posts'[o] = posts[o]
      /\ \/ p < r - 1 /\ at'[q] = "post" /\ posts'[q] = p + 1
         \/ p = r - 1 /\ at'[q] = "failed" /\ posts'[q] = p
      /\ at' \in [Responses -> Places]
      /\ posts' \in [Responses -> 0 .. MaxRetries - 1]
  <2>1. Loop!PostsAgain(q, Loop!StatusOfError(status)) <=> p < r - 1
    BY <1>3 DEF Loop!PostsAgain, Loop!StatusOfError
  <2>2. CASE p < r - 1
    <3>1. at' = [at EXCEPT ![q] = "post"] /\ posts' = [posts EXCEPT ![q] = @ + 1]
      BY <2>1, <2>2 DEF Loop!PostFails
    <3>2. p + 1 \in 0 .. MaxRetries - 1
      BY <1>3, <2>2
    <3> QED BY <1>2, <1>3, <2>2, <3>1, <3>2 DEF Loop!TypeOK, Places
  <2>3. CASE p = r - 1
    <3>1. at' = [at EXCEPT ![q] = "failed"] /\ posts' = [posts EXCEPT ![q] = @]
      <4>1. ~Loop!PostsAgain(q, Loop!StatusOfError(status))
        BY <1>3, <2>1, <2>3
      <4> QED BY <4>1 DEF Loop!PostFails
    <3>2. posts' = posts
      BY <1>2, <3>1 DEF Loop!TypeOK
    <3> QED BY <1>2, <1>3, <2>3, <3>1, <3>2 DEF Loop!TypeOK, Places
  <2> QED BY <1>3, <2>2, <2>3
<1>5. Loop!TypeOK'
  BY <1>2, <1>4 DEF Loop!TypeOK, Places
<1>6. ASSUME NEW o \in Responses
      PROVE  Attempts(o)'
  <2>1. CASE o = q
    <3>1. s <= p * m + a + 1 /\ phase # "start" /\ awake
      BY <1>2, <1>3 DEF Attempts
    <3>2. s <= (p + 1) * m
      BY <1>3, <3>1
    <3>3. CASE p < r - 1 /\ at'[q] = "post" /\ posts'[q] = p + 1
      <4>1. sent'[q] <= posts'[q] * MaxAttempts
        BY Zenon, <1>3, <3>2, <3>3
      <4> QED BY <2>1, <3>1, <3>3, <4>1 DEF Attempts
    <3>4. CASE p = r - 1 /\ at'[q] = "failed" /\ posts'[q] = p
      <4>1. sent'[q] <= (posts'[q] + 1) * MaxAttempts
        BY Zenon, <1>3, <3>2, <3>4
      <4> QED BY <1>3, <2>1, <3>1, <3>4, <4>1 DEF Attempts
    <3> QED BY <1>4, <3>3, <3>4
  <2>2. CASE o # q
    BY <1>2, <1>4, <2>2, RequestRests
  <2> QED BY <2>1, <2>2
<1>7. ~NoFailure'
  BY <1>3, <1>4 DEF NoFailure
<1>8. ASSUME NEW w \in Loop!Replicas
      PROVE  Loaded(w)'
  <2>1. Active(w)' \in SUBSET Active(w)
    BY <1>4 DEF Active, Running
  <2> QED BY <1>2, <1>7, <2>1, ReplicaReleased DEF LoopInv
<1> QED BY <1>5, <1>6, <1>8 DEF LoopInv

LEMMA ErrorStatusStep ==
    ASSUME Loop!RewardLoopAssumption, LoopInv, NEW q \in Responses, Loop!ErrorStatus(q)
    PROVE  LoopInv'
<1>1. /\ at[q] = "sent"
      /\ UNCHANGED <<phase, malformed, worker, attempt, sent, request_counts, awake>>
  BY DEF Loop!ErrorStatus
<1>2. faults \in 0 .. MaxFaults
  BY DEF LoopInv, Loop!TypeOK
<1>3. CASE Loop!PostFails(q, 400) /\ UNCHANGED faults
  BY <1>1, <1>2, <1>3, PostFailsStep
<1>4. CASE faults < MaxFaults /\ Loop!PostFails(q, 503) /\ faults' = faults + 1
  <2>1. faults' \in 0 .. MaxFaults
    BY <1>2, <1>4, LoopConstants
  <2> QED BY <1>1, <1>4, <2>1, PostFailsStep
<1> QED BY <1>3, <1>4 DEF Loop!ErrorStatus

LEMMA ConnectionFailsStep ==
    ASSUME Loop!RewardLoopAssumption, LoopInv, NEW q \in Responses, Loop!ConnectionFails(q)
    PROVE  LoopInv'
<1>1. /\ at[q] = "sent" /\ faults < MaxFaults /\ faults' = faults + 1
      /\ UNCHANGED <<phase, malformed, worker, sent, request_counts, awake>>
  BY DEF Loop!ConnectionFails
<1>2. Loop!TypeOK /\ \A o \in Responses : Attempts(o)
  BY DEF LoopInv
<1>3. faults' \in 0 .. MaxFaults
  BY <1>1, <1>2, LoopConstants DEF Loop!TypeOK
<1>4. CASE attempt[q] = MaxAttempts - 1
  <2>1. Loop!PostFails(q, 500) /\ UNCHANGED attempt
    BY <1>4 DEF Loop!ConnectionFails
  <2> QED BY <1>1, <1>3, <2>1, PostFailsStep
<1>5. CASE attempt[q] # MaxAttempts - 1
  <2>1. /\ attempt' = [attempt EXCEPT ![q] = @ + 1] /\ at' = [at EXCEPT ![q] = "send"]
        /\ UNCHANGED posts
    BY <1>5 DEF Loop!ConnectionFails
  <2>2. attempt[q] \in Nat /\ attempt[q] + 1 \in 0 .. MaxAttempts - 1
    BY <1>2, <1>5, LoopConstants DEF Loop!TypeOK
  <2>3. /\ at'[q] = "send" /\ attempt'[q] = attempt[q] + 1
        /\ \A o \in Responses \ {q} : at'[o] = at[o] /\ attempt'[o] = attempt[o]
    BY <1>2, <2>1 DEF Loop!TypeOK
  <2>4. Loop!TypeOK'
    BY <1>1, <1>2, <1>3, <2>1, <2>2 DEF Loop!TypeOK
  <2>5. ASSUME NEW o \in Responses
        PROVE  Attempts(o)'
    <3>1. CASE o = q
      <4>1. PICK k \in Nat, a \in Nat, s \in Nat :
              k = posts[q] * MaxAttempts /\ a = attempt[q] /\ s = sent[q]
        BY <1>2, LoopConstants DEF Loop!TypeOK
      <4>2. s <= k + a + 1 /\ awake /\ phase # "start"
        BY <1>1, <1>2, <4>1 DEF Attempts
      <4>3. s <= k + (a + 1)
        BY <4>1, <4>2
      <4>4. sent'[q] <= posts'[q] * MaxAttempts + attempt'[q]
        BY Zenon, <1>1, <2>1, <2>3, <4>1, <4>3
      <4> QED BY <1>1, <2>3, <3>1, <4>2, <4>4 DEF Attempts
    <3>2. CASE o # q
      BY <1>1, <1>2, <2>1, <2>3, <3>2, RequestRests
    <3> QED BY <3>1, <3>2
  <2>6. ASSUME NEW w \in Loop!Replicas
        PROVE  Loaded(w)'
    <3>1. Active(w)' = Active(w)
      BY <1>1, <2>3 DEF Active, Running
    <3>2. NoFailure' => NoFailure
      BY <1>1, <2>1, <2>3 DEF NoFailure
    <3> QED BY <1>1, <3>1, <3>2, ReplicaRests DEF LoopInv
  <2> QED BY <2>4, <2>5, <2>6 DEF LoopInv
<1> QED BY <1>4, <1>5

LEMMA SleepStep ==
    ASSUME Loop!RewardLoopAssumption, LoopInv, Loop!Sleep \/ Loop!Raise \/ UNCHANGED Loop!vars
    PROVE  LoopInv'
<1>1. /\ UNCHANGED <<malformed, at, worker, attempt, posts, sent, request_counts, faults>>
      /\ phase' \in {"returned", "raised"} \/ phase' = phase
      /\ \/ awake' = awake
         \/ awake' = FALSE /\ \A q \in Responses : at[q] = "scored"
  <2>1. CASE Loop!Sleep
    BY <2>1 DEF Loop!Sleep
  <2>2. CASE Loop!Raise
    BY <2>2 DEF Loop!Raise
  <2>3. CASE UNCHANGED Loop!vars
    BY <2>3 DEF Loop!vars
  <2> QED BY <2>1, <2>2, <2>3
<1>2. Loop!TypeOK /\ \A o \in Responses : Attempts(o)
  BY DEF LoopInv
<1>3. Loop!TypeOK'
  BY <1>1, <1>2 DEF Loop!TypeOK
<1>4. ASSUME NEW o \in Responses
      PROVE  Attempts(o)'
  BY <1>1, <1>2 DEF Attempts
<1>5. ASSUME NEW w \in Loop!Replicas
      PROVE  Loaded(w)'
  <2>1. Active(w)' = Active(w) /\ (NoFailure' => NoFailure)
    BY <1>1 DEF Active, Running, NoFailure
  <2> QED BY <1>1, <2>1, ReplicaRests DEF LoopInv
<1> QED BY <1>3, <1>4, <1>5 DEF LoopInv

LEMMA LoopStepKeeps ==
    ASSUME Loop!RewardLoopAssumption, LoopInv, [Loop!Next]_(Loop!vars)
    PROVE  LoopInv'
BY WakeUpStep, SelectStep, SendStep, AnswerStep, ErrorStatusStep, ConnectionFailsStep, SleepStep
   DEF Loop!Next, Loop!Serve

LEMMA LoopAlways ==
    ASSUME Loop!RewardLoopAssumption
    PROVE  Loop!Spec => []LoopInv
<1>1. Loop!Init => LoopInv
  BY LoopStart
<1>2. LoopInv /\ [Loop!Next]_(Loop!vars) => LoopInv'
  BY LoopStepKeeps
<1> QED BY <1>1, <1>2, PTL DEF Loop!Spec

\* The variables have their types: no attempt and no post is made beyond the last.
THEOREM LoopTypes ==
    ASSUME Loop!RewardLoopAssumption
    PROVE  Loop!Spec => []Loop!TypeOK
<1>1. ASSUME LoopInv
      PROVE  Loop!TypeOK
  BY <1>1 DEF LoopInv
<1> QED BY <1>1, LoopAlways, PTL

\* LoadCounted: the router never counts less than it has for a replica, and while no post
\* has failed it spreads the requests evenly, so that no replica has more than its share.
THEOREM LoadsCounted ==
    ASSUME Loop!RewardLoopAssumption
    PROVE  Loop!Spec => []Loop!LoadCounted
<1>1. ASSUME LoopInv
      PROVE  Loop!LoadCounted
  <2>1. \A w \in Loop!Replicas : Loaded(w)
    BY <1>1 DEF LoopInv
  <2>2. \A w \in Loop!Replicas : Loop!Load(w) <= request_counts[w]
    BY <2>1 DEF Loaded
  <2>3. ASSUME \A q \in Responses : posts[q] = 0 /\ at[q] # "failed", NEW w \in Loop!Replicas
        PROVE  (Loop!Load(w) - 1) * Loop!Cardinality(Loop!Replicas) < Loop!Cardinality(Responses)
    <3>1. (Loop!Load(w) - 1) * NumReplicas < Cardinality(Responses)
      BY <2>1, <2>3 DEF Loaded, NoFailure
    <3>2. /\ Loop!Cardinality(Loop!Replicas) = NumReplicas
          /\ Loop!Cardinality(Responses) = Cardinality(Responses)
      BY LoopConstants, SameSize
    <3> QED BY Zenon, <3>1, <3>2
  <2> QED BY <2>2, <2>3 DEF Loop!LoadCounted
<1> QED BY <1>1, LoopAlways, PTL

\* SendsBounded: task and router together send a request no more often than their bounds
\* on retries allow, and only while the replicas are awake.
THEOREM SendsLimited ==
    ASSUME Loop!RewardLoopAssumption
    PROVE  Loop!Spec => []Loop!SendsBounded
<1>1. ASSUME LoopInv, NEW q \in Responses
      PROVE  sent[q] <= MaxRetries * MaxAttempts /\ (at[q] = "sent" => awake)
  <2>1. PICK p \in Nat, a \in Nat, s \in Nat, m \in Nat, r \in Nat :
          /\ p = posts[q] /\ a = attempt[q] /\ s = sent[q] /\ m = MaxAttempts /\ a + 1 <= m
          /\ r = MaxRetries /\ p + 1 <= r
    <3>1. /\ posts[q] \in Nat /\ attempt[q] \in Nat /\ sent[q] \in Nat
          /\ MaxAttempts \in Nat /\ MaxRetries \in Nat
          /\ attempt[q] + 1 <= MaxAttempts /\ posts[q] + 1 <= MaxRetries
      BY <1>1, LoopConstants DEF LoopInv, Loop!TypeOK
    <3> QED BY <3>1
  <2>2. s <= (IF at[q] \in {"none", "post"} THEN p * m
              ELSE IF at[q] = "send" THEN p * m + a
              ELSE IF at[q] = "sent" THEN p * m + a + 1
              ELSE (p + 1) * m)
    <3>1. Attempts(q)
      BY <1>1 DEF LoopInv
    <3> QED BY <2>1, <3>1 DEF Attempts
  <2>3. s <= (p + 1) * m
    <3>1. (p + 1) * m = p * m + m /\ p * m \in Nat
      BY <2>1
    <3> QED BY <2>1, <2>2, <3>1
  <2>4. (p + 1) * m <= r * m
    <3>1. PICK d \in Nat : r = p + 1 + d
      <4>1. r - (p + 1) \in Nat /\ r = p + 1 + (r - (p + 1))
        BY <2>1
      <4> QED BY <4>1
    <3>2. (p + 1 + d) * m = (p + 1) * m + d * m /\ d * m \in Nat /\ (p + 1) * m \in Nat
      BY <2>1, <3>1
    <3> QED BY <3>1, <3>2
  <2>5. s <= r * m
    <3>1. (p + 1) * m \in Nat /\ r * m \in Nat
      BY <2>1
    <3> QED BY <2>1, <2>3, <2>4, <3>1
  <2>6. sent[q] <= MaxRetries * MaxAttempts
    BY Zenon, <2>1, <2>5
  <2>7. at[q] = "sent" => awake
    BY <1>1 DEF LoopInv, Attempts
  <2> QED BY <2>6, <2>7
<1>2. ASSUME LoopInv
      PROVE  Loop!SendsBounded
  BY <1>1, <1>2 DEF Loop!SendsBounded
<1> QED BY <1>2, LoopAlways, PTL

LEMMA CausesStart ==
    ASSUME Loop!RewardLoopAssumption, Loop!Init
    PROVE  \A q \in Responses : Caused(q)
BY LoopConstants DEF Loop!Init, Caused

\* What a step has done to a request that it leaves where it is.
LEMMA CauseRests ==
    ASSUME NEW q \in Responses, Caused(q), at'[q] = at[q], posts'[q] = posts[q],
           malformed' = malformed, phase' = phase \/ phase' # "start",
           faults \in Nat, faults' \in Nat, faults <= faults', MaxRetries \in Nat,
           posts[q] \in Nat
    PROVE  Caused(q)'
BY DEF Caused

LEMMA CausesKept ==
    ASSUME Loop!RewardLoopAssumption, LoopInv, \A q \in Responses : Caused(q),
           [Loop!Next]_(Loop!vars), NEW q \in Responses
    PROVE  Caused(q)'
<1>1. /\ faults \in Nat /\ MaxRetries \in Nat /\ posts[q] \in Nat /\ posts[q] <= MaxRetries - 1
      /\ at \in [Responses -> Places] /\ posts \in [Responses -> 0 .. MaxRetries - 1]
  BY LoopConstants DEF LoopInv, Loop!TypeOK, Places
<1>2. CASE Loop!WakeUp
  <2>1. posts[q] = 0 /\ posts' = posts /\ faults' = faults /\ phase' = "scoring"
        /\ at'[q] = "post"
    BY <1>2 DEF Loop!WakeUp, Caused
  <2> QED BY <1>1, <2>1 DEF Caused
<1>3. CASE Loop!Sleep \/ Loop!Raise \/ UNCHANGED Loop!vars
  <2>1. UNCHANGED <<malformed, at, posts, faults>> /\ (phase' = phase \/ phase' # "start")
    BY <1>3 DEF Loop!Sleep, Loop!Raise, Loop!vars
  <2> QED BY <1>1, <2>1, CauseRests
<1>4. ASSUME NEW o \in Responses, Loop!Select(o) \/ Loop!Send(o) \/ Loop!Answer(o)
      PROVE  Caused(q)'
  <2>1. /\ UNCHANGED <<malformed, posts, faults, phase>>
        /\ \E p \in {"send", "sent", "scored"} : at' = [at EXCEPT ![o] = p]
    BY <1>4 DEF Loop!Select, Loop!Send, Loop!Answer
  <2>2. at'[q] = at[q] \/ at'[q] \in {"send", "sent", "scored"}
    BY <1>1, <2>1
  <2> QED BY <1>1, <2>1, <2>2 DEF Caused
<1>5. ASSUME NEW o \in Responses, Loop!EmptyAnswer(o)
      PROVE  Caused(q)'
  <2>1. /\ UNCHANGED <<malformed, posts, phase>> /\ faults' = faults + 1 /\ o \notin malformed
        /\ at' = [at EXCEPT ![o] = "unscored"]
    BY <1>5 DEF Loop!EmptyAnswer
  <2>2. CASE q = o
    <3>1. at'[q] = "unscored"
      BY <1>1, <2>1, <2>2
    <3> QED BY <1>1, <2>1, <2>2, <3>1 DEF Caused
  <2>3. CASE q # o
    <3>1. at'[q] = at[q]
      BY <1>1, <2>1, <2>3
    <3> QED BY <1>1, <2>1, <3>1, CauseRests
  <2> QED BY <2>2, <2>3
<1>6. ASSUME NEW o \in Responses, NEW status, Loop!PostFails(o, status),
             o \in malformed \/ faults' = faults + 1, faults' \in {faults, faults + 1},
             UNCHANGED <<malformed, phase>>, at[o] = "sent"
      PROVE  Caused(q)'
  <2>1. faults' \in Nat /\ faults <= faults'
    BY <1>1, <1>6
  <2>2. /\ at' = [at EXCEPT ![o] = IF posts[o] < MaxRetries - 1 THEN "post" ELSE "failed"]
        /\ posts' = [posts EXCEPT ![o] = IF posts[o] < MaxRetries - 1 THEN @ + 1 ELSE @]
    BY <1>6 DEF Loop!PostFails, Loop!PostsAgain, Loop!StatusOfError
  <2>3. CASE q = o
    <3>1. CASE posts[q] < MaxRetries - 1
      <4>1. at'[q] = "post" /\ posts'[q] = posts[q] + 1
        BY <1>1, <2>2, <2>3, <3>1
      <4>2. phase # "start"
        BY <1>6 DEF LoopInv, Attempts
      <4> QED BY <1>1, <1>6, <2>1, <2>3, <4>1, <4>2 DEF Caused
    <3>2. CASE posts[q] = MaxRetries - 1
      <4>1. at'[q] = "failed" /\ posts'[q] = posts[q]
        BY <1>1, <2>2, <2>3, <3>2
      <4> QED BY <1>1, <1>6, <2>1, <2>3, <3>2, <4>1 DEF Caused
    <3> QED BY <1>1, <3>1, <3>2
  <2>4. CASE q # o
    <3>1. at'[q] = at[q] /\ posts'[q] = posts[q]
      BY <1>1, <2>2, <2>4
    <3> QED BY <1>1, <1>6, <2>1, <3>1, CauseRests
  <2> QED BY <2>3, <2>4
<1>7. ASSUME NEW o \in Responses, Loop!ErrorStatus(o)
      PROVE  Caused(q)'
  <2>1. UNCHANGED <<malformed, phase>> /\ at[o] = "sent"
    BY <1>7 DEF Loop!ErrorStatus
  <2>2. CASE o \in malformed /\ Loop!PostFails(o, 400) /\ UNCHANGED faults
    BY <1>6, <2>1, <2>2
  <2>3. CASE Loop!PostFails(o, 503) /\ faults' = faults + 1
    BY <1>6, <2>1, <2>3
  <2> QED BY <1>7, <2>2, <2>3 DEF Loop!ErrorStatus
<1>8. ASSUME NEW o \in Responses, Loop!ConnectionFails(o)
      PROVE  Caused(q)'
  <2>1. UNCHANGED <<malformed, phase>> /\ at[o] = "sent" /\ faults' = faults + 1
    BY <1>8 DEF Loop!ConnectionFails
  <2>2. CASE Loop!PostFails(o, 500)
    BY <1>6, <2>1, <2>2
  <2>3. CASE at' = [at EXCEPT ![o] = "send"] /\ UNCHANGED posts
    <3>1. at'[q] = at[q] \/ at'[q] = "send"
      BY <1>1, <2>3
    <3> QED BY <1>1, <2>1, <2>3, <3>1 DEF Caused
  <2> QED BY <1>8, <2>2, <2>3 DEF Loop!ConnectionFails
<1> QED BY <1>2, <1>3, <1>4, <1>5, <1>7, <1>8 DEF Loop!Next, Loop!Serve

\* GivenUpForCause: a task gives a request up when all its posts have failed, for which the
\* request is malformed or there has been a fault for each, or on an answer without a score.
THEOREM GivenUp ==
    ASSUME Loop!RewardLoopAssumption
    PROVE  Loop!Spec => []Loop!GivenUpForCause
<1> DEFINE CauseInv == \A q \in Responses : Caused(q)
<1>1. Loop!Init => CauseInv
  BY CausesStart
<1>2. LoopInv /\ CauseInv /\ [Loop!Next]_(Loop!vars) => CauseInv'
  BY CausesKept
<1>3. LoopInv /\ CauseInv => Loop!GivenUpForCause
  BY DEF LoopInv, Attempts, Caused, Loop!GivenUpForCause
<1> HIDE DEF CauseInv
<1> QED BY <1>1, <1>2, <1>3, LoopAlways, PTL DEF Loop!Spec

=============================================================================
