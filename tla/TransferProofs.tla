--------------------------- MODULE TransferProofs ---------------------------
(***************************************************************************)
(* The weight transfers by NIXL and by NCCL implement WeightTransfer, for  *)
(* all weights, every size of the buckets and any number of ranks: their   *)
(* receivers are handed the weights in order, each with its value.         *)
(*                                                                         *)
(* First the NIXL chain. Its invariant has two parts for each receiver     *)
(* (Place and Holds), one for the trainer (First) and one for each pair of *)
(* neighbours (Link).                                                      *)
(***************************************************************************)
EXTENDS NixlTransfer, TLAPS

N == LastRank
W == Len(Sizes)

Bucket == [buffer : {0, 1}, names : Seq(Weights), last : BOOLEAN]
SenderPcs == {"fill", "wait", "done"}
ReceiverPcs == {"first", "firstwait", "announce", "next", "yield", "swap", "wait", "done"}

\* The n weights after the a-th.
Span(a, n) == [i \in 1 .. n |-> a + i]

Types ==
  /\ pc \in [Ranks -> SenderPcs \cup ReceiverPcs]
  /\ buffers \in [Ranks -> [{0, 1} -> Seq(Weights)]]
  /\ send \in [Ranks -> {0, 1}]
  /\ packed \in Seq(Weights) /\ offset \in Nat /\ taken \in Nat
  /\ messages \in [Ranks -> Seq(Bucket)] /\ notified \in [Ranks -> Nat]
  /\ readable \in [Ranks -> BOOLEAN]
  /\ current \in [Ranks -> Bucket] /\ coming \in [Ranks -> Bucket]
  /\ reading \in [Ranks -> {"none", "reading", "done"}]
  /\ yielded \in [Ranks -> Nat]
  /\ received \in [Receivers -> Seq(Weights \cup {Garbage})]

-----------------------------------------------------------------------------
(* Where a rank is in the stream of weights.                               *)

\* The weights before the bucket at hand, up to its end, and those read, or being read.
Start(r) == Len(received[r]) - yielded[r]
End(r) == Start(r) + Len(current[r].names)
ReadTo(r) == IF reading[r] = "none" THEN End(r) ELSE End(r) + Len(coming[r].names)

\* The weights a rank has announced to the next, and whether with the last bucket.
Sent(p) ==
  IF p = 0 THEN taken - Len(packed) ELSE IF pc[p] = "announce" THEN Start(p) ELSE End(p)
Over(p) == IF p = 0 THEN pc[0] # "fill" ELSE pc[p] # "announce" /\ current[p].last

\* The buffer of the bucket announced last.
Out(p) == IF p = 0 THEN Other(send[0]) ELSE send[p]

\* Whether the bucket read last is the last.
Latest(r) == IF reading[r] = "none" THEN current[r].last ELSE coming[r].last

-----------------------------------------------------------------------------
(* The invariant.                                                          *)

\* The trainer's rank.
First ==
  /\ pc[0] \in SenderPcs
  /\ Len(packed) <= taken /\ taken <= W
  /\ packed = Span(taken - Len(packed), Len(packed))
  /\ packed = <<>> => offset = 0
  /\ pc[0] = "fill" => buffers[0][send[0]] = packed \/ (packed = <<>> /\ taken < W)
  /\ pc[0] # "fill" => packed = <<>> /\ taken = W
  /\ pc[0] = "done" => ~readable[0]
  /\ messages[0] = <<>> /\ yielded[0] = 0

\* A receiver: which of its buckets is where.
Place(r) ==
  /\ pc[r] \in ReceiverPcs
  /\ pc[r] \in {"first", "firstwait"} =>
       current[r] = NoBucket /\ yielded[r] = 0 /\ received[r] = <<>>
  /\ pc[r] \in {"first", "announce", "next", "wait", "done"} => reading[r] = "none"
  /\ pc[r] \in {"firstwait", "swap"} => reading[r] # "none"
  /\ pc[r] = "yield" => (reading[r] = "none" <=> current[r].last)
  /\ pc[r] \in {"next", "swap"} => ~current[r].last
  /\ pc[r] \in {"wait", "done"} => current[r].last
  /\ pc[r] \in {"swap", "wait", "done"} => yielded[r] = Len(current[r].names)
  /\ readable[r] => r < N /\ pc[r] \in {"next", "yield", "swap", "wait"}

\* And which weights are in them.
Holds(r) ==
  /\ yielded[r] <= Len(current[r].names) /\ yielded[r] <= Len(received[r])
  /\ received[r] = Span(0, Len(received[r]))
  /\ current[r].names = Span(Start(r), Len(current[r].names))
  /\ pc[r] \notin {"first", "firstwait"} => buffers[r][send[r]] = current[r].names
  /\ reading[r] # "none" => coming[r].names = Span(End(r), Len(coming[r].names))
  /\ reading[r] = "done" => buffers[r][Other(send[r])] = coming[r].names
  /\ ReadTo(r) <= W
  /\ current[r].last => End(r) = W
  /\ Latest(r) => ReadTo(r) = W

\* The bucket m is on its way to rank r.
Carried(r, m) ==
  /\ m.buffer = Out(r - 1) /\ m.names = buffers[r - 1][Out(r - 1)]
  /\ m.names = Span(ReadTo(r), Len(m.names)) /\ Sent(r - 1) = ReadTo(r) + Len(m.names)
  /\ (m.last <=> Over(r - 1)) /\ ~Latest(r)

\* Between a rank and the one before it: a buffer that was announced is waiting for its
\* reader, being read, or given back.
Link(r) ==
  /\ ~readable[r - 1] => messages[r] = <<>> /\ reading[r] # "reading" /\ notified[r - 1] = 0
  /\ readable[r - 1] =>
       \/ messages[r] # <<>> /\ reading[r] # "reading" /\ notified[r - 1] = 0
       \/ messages[r] = <<>> /\ reading[r] = "reading" /\ notified[r - 1] = 0
       \/ messages[r] = <<>> /\ reading[r] # "reading" /\ notified[r - 1] = 1
  /\ messages[r] = <<>> => Sent(r - 1) = ReadTo(r) /\ (Over(r - 1) <=> Latest(r))
  /\ messages[r] # <<>> => Len(messages[r]) = 1 /\ Carried(r, Head(messages[r]))
  /\ reading[r] = "reading" =>
       coming[r].buffer = Out(r - 1) /\ coming[r].names = buffers[r - 1][Out(r - 1)]

Inv ==
  /\ Types /\ First /\ notified[N] = 0
  /\ \A r \in Receivers : Place(r) /\ Holds(r) /\ Link(r)

-----------------------------------------------------------------------------
(* Spans of weights.                                                       *)

LEMMA SpanLen ==
    ASSUME NEW a \in Nat, NEW n \in Nat
    PROVE  /\ Len(Span(a, n)) = n /\ Span(a, n) \in Seq(Nat) /\ DOMAIN Span(a, n) = 1 .. n
           /\ \A i \in 1 .. n : Span(a, n)[i] = a + i
BY DEF Span

LEMMA SpanEmpty ==
    ASSUME NEW a \in Nat
    PROVE  Span(a, 0) = <<>>
BY DEF Span

LEMMA SpanGrows ==
    ASSUME NEW a \in Nat, NEW n \in Nat
    PROVE  Append(Span(a, n), a + n + 1) = Span(a, n + 1)
<1> DEFINE s == Span(a, n)
           t == Span(a, n + 1)
<1>1. s \in Seq(Nat) /\ Len(s) = n /\ \A i \in 1 .. n : s[i] = a + i
  BY SpanLen
<1>2. t \in Seq(Nat) /\ Len(t) = n + 1 /\ \A i \in 1 .. n + 1 : t[i] = a + i
  BY SpanLen
<1> HIDE DEF s, t
<1>3. ASSUME NEW i \in 1 .. n + 1
      PROVE  Append(s, a + n + 1)[i] = t[i]
  <2>1. t[i] = a + i
    BY <1>2
  <2>2. CASE i = n + 1
    BY <1>1, <2>1, <2>2
  <2>3. CASE i # n + 1
    BY <1>1, <2>1, <2>3
  <2> QED BY Zenon, <2>2, <2>3
<1>4. Append(s, a + n + 1) \in Seq(Nat) /\ Len(Append(s, a + n + 1)) = n + 1
  BY <1>1
<1>5. Append(s, a + n + 1) = t
  BY <1>2, <1>3, <1>4
<1> QED BY <1>5 DEF s, t

LEMMA NoLength ==
    ASSUME NEW S, NEW q \in Seq(S), Len(q) = 0
    PROVE  q = <<>>
OBVIOUS

LEMMA HeadAndTail ==
    ASSUME NEW S, NEW q \in Seq(S), Len(q) = 1
    PROVE  Head(q) \in S /\ Tail(q) = <<>> /\ <<>> \in Seq(S)
<1>1. Tail(q) \in Seq(S) /\ Len(Tail(q)) = 0
  OBVIOUS
<1>2. Tail(q) = <<>>
  BY Zenon, <1>1, NoLength
<1>3. Head(q) \in S
  OBVIOUS
<1> QED BY <1>2, <1>3

LEMMA OneMessage ==
    ASSUME NEW q \in Seq(Bucket), Len(q) = 1
    PROVE  Head(q) \in Bucket /\ Tail(q) = <<>> /\ <<>> \in Seq(Bucket)
BY HeadAndTail

LEMMA Constants ==
    ASSUME NixlAssumption
    PROVE  /\ N \in Nat /\ N >= 1 /\ W \in Nat /\ BucketSize \in Nat
           /\ Weights = 1 .. W /\ \A w \in 1 .. W : Sizes[w] \in Nat /\ Sizes[w] <= BucketSize
           /\ 0 \in Ranks /\ N \in Receivers /\ N \in Ranks
           /\ \A r \in Receivers : /\ r \in Ranks /\ r - 1 \in Ranks /\ r # 0 /\ r - 1 # r
                                   /\ r \in Nat /\ r <= N
                                   /\ r # N => r + 1 \in Receivers /\ r + 1 - 1 = r /\ r < N
           /\ \A r \in Ranks : r # 0 => r \in Receivers
           /\ 1 \in Receivers /\ 1 - 1 = 0
BY DEF NixlAssumption, N, W, Weights, Ranks, Receivers

-----------------------------------------------------------------------------
(* It holds at the start.                                                  *)

LEMMA AtStart ==
    ASSUME NixlAssumption, Init
    PROVE  Inv
<1>1. Types
  BY Constants DEF Init, Types, SenderPcs, ReceiverPcs, Bucket, NoBucket
<1>2. First /\ notified[N] = 0
  <2>1. packed = Span(0, 0) /\ Len(packed) = 0
    BY SpanEmpty DEF Init
  <2> QED BY <2>1, Constants DEF Init, First, SenderPcs
<1>3. ASSUME NEW r \in Receivers
      PROVE  Place(r) /\ Holds(r) /\ Link(r)
  <2>1. /\ pc[r] = "first" /\ reading[r] = "none" /\ current[r] = NoBucket /\ yielded[r] = 0
        /\ received[r] = <<>> /\ ~readable[r] /\ messages[r] = <<>> /\ ~readable[r - 1]
        /\ notified[r - 1] = 0 /\ current[r - 1] = NoBucket /\ yielded[r - 1] = 0
        /\ r - 1 # 0 => received[r - 1] = <<>> /\ pc[r - 1] = "first"
        /\ r - 1 = 0 => packed = <<>> /\ taken = 0 /\ pc[0] = "fill"
    BY Constants DEF Init
  <2>2. Start(r) = 0 /\ End(r) = 0 /\ ReadTo(r) = 0 /\ ~Latest(r)
    BY <2>1 DEF Start, End, ReadTo, Latest, NoBucket
  <2>3. Sent(r - 1) = 0 /\ ~Over(r - 1)
    BY <2>1 DEF Sent, Over, Start, End, NoBucket
  <2>4. Place(r)
    BY <2>1 DEF Place, ReceiverPcs, NoBucket
  <2>5. Holds(r)
    <3>1. NoBucket.names = Span(0, 0) /\ ~NoBucket.last /\ Len(NoBucket.names) = 0
      BY SpanEmpty DEF NoBucket
    <3>2. <<>> = Span(0, 0) /\ Len(<<>>) = 0
      BY SpanEmpty
    <3> QED BY <2>1, <2>2, <3>1, <3>2, Constants DEF Holds
  <2>6. Link(r)
    BY <2>1, <2>2, <2>3 DEF Link
  <2> QED BY <2>4, <2>5, <2>6
<1> QED BY <1>1, <1>2, <1>3 DEF Inv

-----------------------------------------------------------------------------
(* What a step of one rank leaves alone.                                   *)

Still(q) ==
  /\ pc'[q] = pc[q] /\ buffers'[q] = buffers[q] /\ send'[q] = send[q]
  /\ current'[q] = current[q] /\ coming'[q] = coming[q] /\ reading'[q] = reading[q]
  /\ yielded'[q] = yielded[q] /\ readable'[q] = readable[q]
  /\ q # 0 => received'[q] = received[q]
  /\ q = 0 => UNCHANGED <<packed, offset, taken>>

\* The sender's side of a link, and the reader's.
SenderStays(p) ==
  /\ readable'[p] = readable[p] /\ notified'[p] = notified[p]
  /\ Out(p)' = Out(p) /\ buffers'[p][Out(p)'] = buffers[p][Out(p)]
  /\ Sent(p)' = Sent(p) /\ (Over(p)' <=> Over(p))

ReaderStays(r) ==
  /\ reading'[r] = "reading" <=> reading[r] = "reading"
  /\ reading[r] = "reading" => coming'[r] = coming[r]
  /\ ReadTo(r)' = ReadTo(r) /\ (Latest(r)' <=> Latest(r))

\* A step of rank r.
Only(r) ==
  /\ \A q \in Ranks \ {r} : Still(q)
  /\ \A q \in Ranks \ {r, r + 1} : messages'[q] = messages[q]
  /\ \A q \in Ranks \ {r, r - 1} : notified'[q] = notified[q]

LEMMA LinkStays ==
    ASSUME NEW r \in Receivers, Link(r), SenderStays(r - 1), ReaderStays(r),
           messages'[r] = messages[r]
    PROVE  Link(r)'
BY DEF Link, SenderStays, ReaderStays, Carried

LEMMA StillSends ==
    ASSUME NixlAssumption, NEW q \in Ranks, Still(q)
    PROVE  Sent(q)' = Sent(q) /\ (Over(q)' <=> Over(q)) /\ Out(q)' = Out(q)
<1>1. q # 0 => Start(q)' = Start(q) /\ End(q)' = End(q)
  BY DEF Still, Start, End
<1> QED BY <1>1 DEF Still, Sent, Over, Out

LEMMA StillStays ==
    ASSUME NixlAssumption, NEW q \in Ranks, Still(q)
    PROVE  /\ notified'[q] = notified[q] => SenderStays(q)
           /\ q # 0 => ReaderStays(q) /\ (Place(q) => Place(q)') /\ (Holds(q) => Holds(q)')
<1>1. q # 0 => Start(q)' = Start(q) /\ End(q)' = End(q)
  BY DEF Still, Start, End
<1>2. q # 0 => ReadTo(q)' = ReadTo(q) /\ (Latest(q)' <=> Latest(q))
  BY <1>1 DEF Still, ReadTo, Latest
<1>3. q # 0 => ReaderStays(q)
  BY <1>2 DEF Still, ReaderStays
<1>4. Sent(q)' = Sent(q) /\ (Over(q)' <=> Over(q)) /\ Out(q)' = Out(q)
  BY StillSends
<1>5. notified'[q] = notified[q] => SenderStays(q)
  BY <1>4 DEF Still, SenderStays
<1>6. q # 0 /\ Place(q) => Place(q)'
  BY DEF Still, Place
<1>7. q # 0 /\ Holds(q) => Holds(q)'
  BY <1>1, <1>2 DEF Still, Holds
<1> QED BY <1>3, <1>5, <1>6, <1>7

LEMMA Together ==
    ASSUME NixlAssumption, Inv, NEW r \in Ranks, Only(r), Types', notified'[N] = 0,
           r = 0 => First',
           r # 0 => Place(r)' /\ Holds(r)' /\ Link(r)',
           \A q \in Receivers : q = r + 1 => Link(q)'
    PROVE  Inv'
<1>1. First'
  <2>1. CASE r # 0
    <3>1. Still(0) /\ messages'[0] = messages[0]
      BY <2>1, Constants DEF Only
    <3> QED BY <3>1 DEF Still, First, Inv
  <2> QED BY <2>1
<1>2. ASSUME NEW q \in Receivers
      PROVE  Place(q)' /\ Holds(q)' /\ Link(q)'
  <2>1. CASE q = r
    BY <2>1, Constants
  <2>2. CASE q = r + 1
    <3>1. Still(q) /\ r < N
      BY <2>2, Constants DEF Only, Ranks, Receivers, N
    <3>2. Place(q)' /\ Holds(q)'
      BY Zenon, <3>1, StillStays, Constants DEF Inv
    <3> QED BY <2>2, <3>1, <3>2
  <2>3. CASE q # r /\ q # r + 1
    <3>1. /\ q \in Ranks /\ q - 1 \in Ranks /\ q # 0 /\ q - 1 # r /\ q - 1 # r - 1
      BY <2>3, Constants DEF Ranks
    <3>2. /\ Still(q) /\ Still(q - 1) /\ messages'[q] = messages[q]
          /\ notified'[q - 1] = notified[q - 1]
      BY <2>3, <3>1 DEF Only
    <3>3. Place(q)' /\ Holds(q)' /\ ReaderStays(q) /\ SenderStays(q - 1)
      BY <3>1, <3>2, StillStays DEF Inv
    <3> QED BY <3>2, <3>3, LinkStays DEF Inv
  <2> QED BY <2>1, <2>2, <2>3
<1> QED BY <1>1, <1>2 DEF Inv

-----------------------------------------------------------------------------
(* A link when its sender announces a bucket, and when it takes a buffer   *)
(* back.                                                                   *)

LEMMA ReleasedLink ==
    ASSUME NEW p, NEW r, r - 1 = p, Link(r), Released(p), notified[p] \in Nat
    PROVE  /\ messages[r] = <<>> /\ reading[r] # "reading"
           /\ notified[p] - (IF readable[p] /\ notified[p] > 0 THEN 1 ELSE 0) = 0
           /\ Sent(p) = ReadTo(r) /\ (Over(p) <=> Latest(r))
BY DEF Link, Released

LEMMA TakenBack ==
    ASSUME NixlAssumption, NEW r \in Receivers, NEW p, r - 1 = p, Link(r), Released(p),
           notified[p] \in Nat,
           notified'[p] = notified[p] - (IF readable[p] /\ notified[p] > 0 THEN 1 ELSE 0),
           readable'[p] = FALSE, messages'[r] = messages[r], ReaderStays(r),
           Sent(p)' = Sent(p), Over(p)' <=> Over(p)
    PROVE  Link(r)'
<1>1. /\ messages[r] = <<>> /\ reading[r] # "reading" /\ notified'[p] = 0
      /\ Sent(p) = ReadTo(r) /\ (Over(p) <=> Latest(r))
  BY ReleasedLink
<1>2. /\ reading'[r] # "reading" /\ messages'[r] = <<>> /\ ~readable'[p]
      /\ Sent(p)' = ReadTo(r)' /\ (Over(p)' <=> Latest(r)')
  BY <1>1 DEF ReaderStays
<1> QED BY <1>1, <1>2 DEF Link

LEMMA AnnouncedLink ==
    ASSUME NixlAssumption, NEW r \in Receivers, NEW p, r - 1 = p, Link(r), Released(p),
           notified[p] \in Nat, NEW m \in Bucket,
           messages'[r] = Append(messages[r], m),
           notified'[p] = notified[p] - (IF readable[p] /\ notified[p] > 0 THEN 1 ELSE 0),
           readable'[p] = TRUE, ReaderStays(r), ~Over(p),
           m.buffer = Out(p)', m.names = buffers'[p][Out(p)'],
           m.names = Span(Sent(p), Len(m.names)), Sent(p)' = Sent(p) + Len(m.names),
           m.last <=> Over(p)'
    PROVE  Link(r)'
<1>1. /\ messages[r] = <<>> /\ reading[r] # "reading" /\ notified'[p] = 0
      /\ Sent(p) = ReadTo(r) /\ ~Latest(r)
  BY ReleasedLink
<1>2. messages'[r] = <<m>>
  BY <1>1
<1>3. messages'[r] # <<>> /\ Len(messages'[r]) = 1 /\ Head(messages'[r]) = m
  BY <1>2
<1>4. reading'[r] # "reading" /\ ReadTo(r)' = Sent(p) /\ ~Latest(r)'
  BY <1>1 DEF ReaderStays
<1>5. Carried(r, m)'
  BY <1>4 DEF Carried
<1> QED BY <1>1, <1>3, <1>4, <1>5 DEF Link

-----------------------------------------------------------------------------
(* The steps of the trainer's rank.                                        *)

\* The types of what rank r has, in plain sets.
LEMMA TypesOf ==
    ASSUME NixlAssumption, Inv, NEW r \in Ranks
    PROVE  /\ Types /\ send[r] \in {0, 1} /\ buffers[r] \in [{0, 1} -> Seq(Weights)]
           /\ readable[r] \in BOOLEAN /\ notified[r] \in Nat /\ messages[r] \in Seq(Bucket)
           /\ current[r] \in Bucket /\ coming[r] \in Bucket /\ yielded[r] \in Nat
           /\ reading[r] \in {"none", "reading", "done"}
           /\ current[r].names \in Seq(Weights) /\ coming[r].names \in Seq(Weights)
           /\ Len(current[r].names) \in Nat /\ Len(coming[r].names) \in Nat
           /\ r # 0 => received[r] \in Seq(Weights \cup {Garbage}) /\ Len(received[r]) \in Nat
           /\ packed \in Seq(Weights) /\ Len(packed) \in Nat /\ taken \in Nat /\ offset \in Nat
<1>1. Types
  BY DEF Inv
<1>2. /\ send[r] \in {0, 1} /\ buffers[r] \in [{0, 1} -> Seq(Weights)]
      /\ readable[r] \in BOOLEAN /\ notified[r] \in Nat /\ messages[r] \in Seq(Bucket)
      /\ current[r] \in Bucket /\ coming[r] \in Bucket /\ yielded[r] \in Nat
      /\ reading[r] \in {"none", "reading", "done"}
      /\ packed \in Seq(Weights) /\ taken \in Nat /\ offset \in Nat
  BY <1>1 DEF Types
<1>3. r # 0 => received[r] \in Seq(Weights \cup {Garbage})
  BY Zenon, <1>1, Constants DEF Types
<1>4. current[r].names \in Seq(Weights) /\ coming[r].names \in Seq(Weights)
  BY <1>2 DEF Bucket
<1> QED BY <1>1, <1>2, <1>3, <1>4

\* The buffers of a rank are two.
LEMMA Buffers ==
    ASSUME NEW b \in {0, 1}
    PROVE  Other(b) \in {0, 1} /\ Other(b) # b /\ Other(Other(b)) = b
BY DEF Other

LEMMA FillStep ==
    ASSUME NixlAssumption, Inv, Fill
    PROVE  Inv'
<1>1. /\ pc[0] = "fill" /\ taken < W /\ offset + Sizes[taken + 1] <= BucketSize
      /\ taken' = taken + 1 /\ packed' = Append(packed, taken + 1)
      /\ offset' = offset + Sizes[taken + 1]
      /\ buffers' = [buffers EXCEPT ![0][send[0]] = packed']
      /\ UNCHANGED <<pc, send, messages, notified, readable, current, coming, reading, yielded,
                     received>>
  BY DEF Fill, NextFits, queues, reads, W
<1>2. /\ 0 \in Ranks /\ taken \in Nat /\ packed \in Seq(Weights) /\ Len(packed) \in Nat
      /\ send[0] \in {0, 1} /\ offset \in Nat /\ W \in Nat
      /\ buffers \in [Ranks -> [{0, 1} -> Seq(Weights)]]
  BY TypesOf, Constants DEF Types
<1>3. /\ packed' \in Seq(Weights) /\ Len(packed') = Len(packed) + 1 /\ packed' # <<>>
  <2>1. taken + 1 \in Weights
    BY <1>1, <1>2, Constants
  <2>2. PICK w \in Weights : w = taken + 1
    BY <2>1
  <2>3. packed' = Append(packed, w)
    BY <1>1, <2>2
  <2>4. packed' \in Seq(Weights) /\ Len(packed') = Len(packed) + 1
    BY <1>2, <2>3
  <2> QED BY <1>2, <2>4
<1>4. /\ buffers'[0][send[0]] = packed' /\ buffers'[0][Other(send[0])] = buffers[0][Other(send[0])]
      /\ \A q \in Ranks \ {0} : buffers'[q] = buffers[q]
      /\ buffers' \in [Ranks -> [{0, 1} -> Seq(Weights)]]
  BY Zenon, <1>1, <1>2, <1>3, Buffers
<1>5. Types'
  <2>1. Sizes[taken + 1] \in Nat
    BY <1>1, <1>2, Constants
  <2>2. taken' \in Nat /\ offset' \in Nat
    BY <1>1, <1>2, <2>1
  <2> QED BY Zenon, <1>1, <1>3, <1>4, <2>2, TypesOf, <1>2 DEF Types
<1>6. First'
  <2>1. /\ Len(packed) <= taken /\ packed = Span(taken - Len(packed), Len(packed))
        /\ messages[0] = <<>> /\ yielded[0] = 0
    BY DEF Inv, First
  <2>2. PICK a \in Nat : a = taken - Len(packed)
    <3>1. taken \in Nat /\ Len(packed) \in Nat /\ Len(packed) <= taken
      BY <1>2, <2>1
    <3>2. taken - Len(packed) \in Nat
      BY <3>1
    <3> QED BY <3>2
  <2>3. taken + 1 = a + Len(packed) + 1 /\ taken' - Len(packed') = a /\ taken' <= W
        /\ Len(packed') <= taken'
    BY <1>1, <1>2, <1>3, <2>1, <2>2
  <2>4. packed' = Span(a, Len(packed'))
    BY <1>1, <1>2, <1>3, <2>1, <2>2, <2>3, SpanGrows
  <2> QED BY Zenon, <1>1, <1>3, <1>4, <2>1, <2>3, <2>4 DEF First, SenderPcs
<1>7. SenderStays(0)
  <2>1. Sent(0)' = Sent(0)
    BY <1>1, <1>2, <1>3 DEF Sent
  <2> QED BY <1>1, <1>4, <2>1 DEF SenderStays, Out, Over
<1>8. Only(0)
  BY <1>1, <1>4 DEF Only, Still
<1>9. Link(1)'
  <2>1. ReaderStays(1)
    BY <1>8, StillStays, Constants DEF Only
  <2> QED BY <1>1, <1>7, <2>1, LinkStays, Constants DEF Inv
<1>10. notified'[N] = 0
  BY <1>1 DEF Inv
<1>11. \A q \in Receivers : q = 0 + 1 => Link(q)'
  BY <1>9
<1> QED BY <1>2, <1>5, <1>6, <1>8, <1>10, <1>11, Together

LEMMA FlushStep ==
    ASSUME NixlAssumption, Inv, Flush
    PROVE  Inv'
<1> DEFINE last == taken = Len(Sizes)
           m == [buffer |-> send[0], names |-> packed, last |-> last]
<1>1. /\ pc[0] = "fill" /\ ~NextFits /\ Released(0)
      /\ messages' = [messages EXCEPT ![1] = Append(@, m)]
      /\ notified' = [notified EXCEPT ![0] = @ - (IF readable[0] /\ @ > 0 THEN 1 ELSE 0)]
      /\ readable' = [readable EXCEPT ![0] = TRUE]
      /\ send' = [send EXCEPT ![0] = Other(@)]
      /\ packed' = <<>> /\ offset' = 0
      /\ pc' = [pc EXCEPT ![0] = IF last THEN "wait" ELSE "fill"]
      /\ UNCHANGED <<buffers, taken, current, coming, reading, yielded, received>>
  BY DEF Flush, Announce, reads
<1>2. /\ 0 \in Ranks /\ 1 \in Ranks /\ 1 \in Receivers /\ 1 - 1 = 0 /\ N >= 1 /\ N # 0
      /\ taken \in Nat /\ packed \in Seq(Weights) /\ Len(packed) \in Nat
      /\ send[0] \in {0, 1} /\ offset \in Nat /\ W \in Nat /\ notified[0] \in Nat /\ Types
  BY TypesOf, Constants
<1>3. m \in Bucket
  BY <1>2 DEF Bucket
<1>4. /\ Len(packed) <= taken /\ taken <= W /\ messages[0] = <<>> /\ First /\ Link(1)
      /\ packed = Span(taken - Len(packed), Len(packed))
  BY <1>2 DEF Inv, First
<1>5. buffers[0][send[0]] = packed
  <2>1. CASE packed = <<>> /\ taken < W
    <3>1. offset = 0 /\ Sizes[taken + 1] <= BucketSize /\ Sizes[taken + 1] \in Nat
      BY <1>2, <1>4, <2>1, Constants DEF First
    <3> QED BY <1>1, <2>1, <3>1 DEF NextFits, W
  <2> QED BY <1>1, <1>4, <2>1 DEF First
<1> HIDE DEF m
<1>6. /\ readable'[0] = TRUE /\ send'[0] = Other(send[0]) /\ messages'[1] = Append(messages[1], m)
      /\ notified'[0] = notified[0] - (IF readable[0] /\ notified[0] > 0 THEN 1 ELSE 0)
      /\ pc'[0] = (IF last THEN "wait" ELSE "fill")
      /\ \A q \in Ranks \ {0} : pc'[q] = pc[q] /\ send'[q] = send[q] /\ readable'[q] = readable[q]
                                /\ notified'[q] = notified[q]
      /\ \A q \in Ranks \ {1} : messages'[q] = messages[q]
  BY <1>1, <1>2 DEF Types
<1>7. Released(0) /\ notified'[0] = 0
  BY Zenon, <1>1, <1>2, <1>4, <1>6, ReleasedLink
<1>8. Types'
  <2>1. send[0] \in {0, 1} /\ Other(send[0]) \in {0, 1}
    BY <1>2, Buffers
  <2>2. send' \in [Ranks -> {0, 1}] /\ notified' \in [Ranks -> Nat]
    BY <1>1, <1>2, <1>6, <1>7, <2>1 DEF Types
  <2>3. messages' \in [Ranks -> Seq(Bucket)]
    BY <1>1, <1>2, <1>3 DEF Types
  <2>4. pc' \in [Ranks -> SenderPcs \cup ReceiverPcs]
    BY <1>1, <1>2 DEF Types, SenderPcs
  <2>5. packed' \in Seq(Weights) /\ offset' \in Nat
    BY <1>1
  <2> QED BY Zenon, <1>1, <1>2, <2>2, <2>3, <2>4, <2>5 DEF Types
<1>9. First'
  <2>1. packed' = Span(taken' - Len(packed'), Len(packed')) /\ Len(packed') = 0
    BY <1>1, <1>2, SpanEmpty
  <2>2. last \/ taken < W
    BY <1>2, <1>4 DEF W
  <2> QED BY <1>1, <1>2, <1>4, <1>6, <2>1, <2>2 DEF First, SenderPcs, W
<1>10. Only(0)
  BY <1>1, <1>6, <1>2 DEF Only, Still
<1>11. Link(1)'
  <2>1. ReaderStays(1)
    BY <1>10, <1>2, StillStays DEF Only
  <2>2. ~Over(0) /\ (Over(0)' <=> last)
    BY <1>1, <1>6 DEF Over
  <2>3. Sent(0) = taken - Len(packed) /\ Sent(0)' = taken
    <3>1. Len(packed') = 0 /\ taken' = taken
      BY <1>1
    <3> QED BY <1>2, <3>1 DEF Sent
  <2>4. Out(0)' = send[0]
    BY <1>2, <1>6, Buffers DEF Out
  <2>5. m.buffer = send[0] /\ m.names = packed /\ (m.last <=> last)
    BY Zenon DEF m
  <2>6. m.names = buffers'[0][Out(0)'] /\ m.names = Span(Sent(0), Len(m.names))
        /\ Sent(0)' = Sent(0) + Len(m.names)
    BY <1>1, <1>2, <1>4, <1>5, <2>3, <2>4, <2>5
  <2> QED BY Zenon, <1>2, <1>3, <1>4, <1>6, <1>7, <2>1, <2>2, <2>4, <2>5, <2>6, AnnouncedLink
<1>12. notified'[N] = 0
  BY <1>2, <1>6, Constants DEF Inv
<1>13. \A q \in Receivers : q = 0 + 1 => Link(q)'
  BY <1>11
<1> QED BY <1>2, <1>8, <1>9, <1>10, <1>12, <1>13, Together

-----------------------------------------------------------------------------
(* What the steps of all ranks share.                                      *)

\* The link to the next rank, and that from the one before.
LEMMA NextLink ==
    ASSUME NixlAssumption, Inv, NEW r \in Ranks, Only(r), SenderStays(r),
           \A q \in Ranks \ {r} : messages'[q] = messages[q]
    PROVE  \A q \in Receivers : q = r + 1 => Link(q)'
<1> SUFFICES ASSUME NEW q \in Receivers, q = r + 1 PROVE Link(q)'
  OBVIOUS
<1>1. q \in Ranks /\ q # r /\ q # 0 /\ q - 1 = r
  BY Constants DEF Ranks
<1>2. ReaderStays(q) /\ messages'[q] = messages[q]
  BY <1>1, StillStays DEF Only
<1> QED BY <1>1, <1>2, LinkStays DEF Inv

LEMMA OwnLink ==
    ASSUME NixlAssumption, Inv, NEW r \in Receivers, Only(r), ReaderStays(r),
           messages'[r] = messages[r], notified'[r - 1] = notified[r - 1]
    PROVE  Link(r)'
<1>1. r - 1 \in Ranks /\ r - 1 # r
  BY Constants
<1>2. SenderStays(r - 1)
  BY <1>1, StillStays DEF Only
<1> QED BY <1>2, LinkStays DEF Inv

\* No rank has announced more than there is, and with the last bucket all.
LEMMA SentWithin ==
    ASSUME NixlAssumption, Inv, NEW p \in Ranks
    PROVE  /\ Sent(p) \in Nat /\ Sent(p) <= W
           /\ Over(p) => Sent(p) = W
<1>1. CASE p = 0
  <2>1. taken \in Nat /\ Len(packed) \in Nat /\ W \in Nat /\ First
    BY TypesOf, Constants DEF Inv
  <2>2. Len(packed) <= taken /\ taken <= W /\ (pc[0] # "fill" => taken = W /\ Len(packed) = 0)
    BY <2>1 DEF First
  <2> QED BY <1>1, <2>1, <2>2 DEF Sent, Over
<1>2. CASE p # 0
  <2>1. p \in Receivers
    BY <1>2, Constants
  <2>2. Place(p) /\ Holds(p) /\ W \in Nat
    BY <2>1, Constants DEF Inv
  <2>3. PICK y \in Nat, n \in Nat, c \in Nat, k \in Nat :
          y = yielded[p] /\ n = Len(received[p]) /\ c = Len(current[p].names)
          /\ k = Len(coming[p].names)
    BY Zenon, <1>2, TypesOf
  <2>4. y <= n /\ Start(p) = n - y /\ End(p) = n - y + c
    BY <2>2, <2>3 DEF Holds, Start, End
  <2>5. ReadTo(p) = End(p) \/ ReadTo(p) = End(p) + k
    BY <2>3 DEF ReadTo
  <2>6. Start(p) \in Nat /\ End(p) \in Nat /\ Start(p) <= End(p) /\ End(p) <= ReadTo(p)
    <3>1. n - y \in Nat /\ n - y + c \in Nat /\ n - y <= n - y + c
      BY <2>3, <2>4
    <3>2. End(p) \in Nat /\ End(p) <= End(p) + k
      BY <2>3, <2>4, <3>1
    <3>3. End(p) <= ReadTo(p)
      BY <2>5, <3>2
    <3> QED BY <2>4, <3>1, <3>3
  <2>7. ReadTo(p) <= W /\ (current[p].last => End(p) = W)
    BY <2>2 DEF Holds
  <2>8. End(p) <= W /\ Start(p) <= W
    BY <2>2, <2>3, <2>4, <2>5, <2>6, <2>7
  <2> QED BY <1>2, <2>6, <2>7, <2>8 DEF Sent, Over
<1> QED BY <1>1, <1>2

\* wait_for_complete of a rank's ReadableOperation.
TakesBack(r) ==
  /\ notified' = [notified EXCEPT ![r] = @ - (IF readable[r] /\ @ > 0 THEN 1 ELSE 0)]
  /\ readable' = [readable EXCEPT ![r] = FALSE]

LEMMA TakeBack ==
    ASSUME NixlAssumption, Inv, NEW r \in Ranks, Released(r), TakesBack(r)
    PROVE  /\ notified' \in [Ranks -> Nat] /\ readable' \in [Ranks -> BOOLEAN]
           /\ notified'[N] = 0 /\ readable'[r] = FALSE
           /\ notified'[r] = notified[r] - (IF readable[r] /\ notified[r] > 0 THEN 1 ELSE 0)
           /\ \A q \in Ranks \ {r} : notified'[q] = notified[q] /\ readable'[q] = readable[q]
<1>1. notified \in [Ranks -> Nat] /\ readable \in [Ranks -> BOOLEAN] /\ notified[r] \in Nat
  BY TypesOf DEF Types
<1>2. notified[r] - (IF readable[r] /\ notified[r] > 0 THEN 1 ELSE 0) \in Nat
  BY <1>1
<1>3. ~readable[N] /\ notified[N] = 0 /\ N \in Ranks
  BY Constants DEF Inv, Place
<1>4. /\ readable'[r] = FALSE
      /\ notified'[r] = notified[r] - (IF readable[r] /\ notified[r] > 0 THEN 1 ELSE 0)
      /\ \A q \in Ranks \ {r} : notified'[q] = notified[q] /\ readable'[q] = readable[q]
  BY <1>1 DEF TakesBack
<1>5. notified'[N] = 0
  BY <1>3, <1>4
<1> QED BY <1>1, <1>2, <1>4, <1>5 DEF TakesBack

\* The link to the next rank, when its buffer is taken back.
LEMMA NextTakenBack ==
    ASSUME NixlAssumption, Inv, NEW r \in Ranks, Only(r), Released(r), TakesBack(r),
           messages' = messages, Sent(r)' = Sent(r), Over(r)' <=> Over(r)
    PROVE  \A q \in Receivers : q = r + 1 => Link(q)'
<1> SUFFICES ASSUME NEW q \in Receivers, q = r + 1 PROVE Link(q)'
  OBVIOUS
<1>1. q \in Ranks /\ q # r /\ q # 0 /\ q - 1 = r
  BY Constants DEF Ranks
<1>2. ReaderStays(q)
  BY <1>1, StillStays DEF Only
<1> QED BY Zenon, <1>1, <1>2, TakeBack, TakenBack, TypesOf DEF Inv

LEMMA FinishStep ==
    ASSUME NixlAssumption, Inv, NEW r \in Ranks, Finish(r)
    PROVE  Inv'
<1>1. /\ pc[r] = "wait" /\ Released(r) /\ TakesBack(r) /\ pc' = [pc EXCEPT ![r] = "done"]
      /\ UNCHANGED <<buffers, send, packed, offset, taken, messages, current, coming, reading,
                     yielded, received>>
  BY DEF Finish, TakesBack, packing, reads
<1>2. /\ notified' \in [Ranks -> Nat] /\ readable' \in [Ranks -> BOOLEAN]
      /\ notified'[N] = 0 /\ readable'[r] = FALSE
      /\ \A q \in Ranks \ {r} : notified'[q] = notified[q] /\ readable'[q] = readable[q]
  BY Zenon, <1>1, TakeBack
<1>3. pc'[r] = "done" /\ \A q \in Ranks \ {r} : pc'[q] = pc[q]
  BY <1>1, TypesOf DEF Types
<1>4. Types'
  BY Zenon, <1>1, <1>2, TypesOf DEF Types, SenderPcs
<1>5. Only(r)
  BY <1>1, <1>2, <1>3 DEF Only, Still
<1>6. r = 0 => First'
  BY <1>1, <1>2, <1>3 DEF Inv, First, SenderPcs
<1>7. Start(r)' = Start(r) /\ End(r)' = End(r) /\ ReadTo(r)' = ReadTo(r)
      /\ (Latest(r)' <=> Latest(r)) /\ Sent(r)' = Sent(r) /\ (Over(r)' <=> Over(r))
  BY <1>1, <1>3 DEF Start, End, ReadTo, Latest, Sent, Over
<1>8. \A q \in Receivers : q = r + 1 => Link(q)'
  BY <1>1, <1>5, <1>7, NextTakenBack
<1>9. r # 0 => Place(r)' /\ Holds(r)' /\ Link(r)'
  <2> SUFFICES ASSUME r \in Receivers PROVE Place(r)' /\ Holds(r)' /\ Link(r)'
    BY Constants
  <2>1. Place(r)'
    BY <1>1, <1>2, <1>3 DEF Inv, Place, ReceiverPcs
  <2>2. Holds(r)'
    BY <1>1, <1>3, <1>7 DEF Inv, Holds
  <2>3. ReaderStays(r) /\ notified'[r - 1] = notified[r - 1]
    BY Zenon, <1>1, <1>2, <1>7, Constants DEF ReaderStays
  <2>4. Link(r)'
    BY <1>1, <1>5, <2>3, OwnLink
  <2> QED BY <2>1, <2>2, <2>4
<1> QED BY <1>2, <1>4, <1>5, <1>6, <1>8, <1>9, Together

-----------------------------------------------------------------------------
(* The steps of a receiver.                                                *)

LEMMA BeginReadStep ==
    ASSUME NixlAssumption, Inv, NEW r \in Receivers, NEW here, NEW then,
           \/ here = "first" /\ then = "firstwait"
           \/ here = "next" /\ then = "yield",
           BeginRead(r, here, then)
    PROVE  Inv'
<1> DEFINE m == Head(messages[r])
<1>1. /\ pc[r] = here /\ messages[r] # <<>>
      /\ coming' = [coming EXCEPT ![r] = m]
      /\ messages' = [messages EXCEPT ![r] = Tail(@)]
      /\ reading' = [reading EXCEPT ![r] = "reading"]
      /\ pc' = [pc EXCEPT ![r] = then]
      /\ UNCHANGED <<buffers, send, packed, offset, taken, notified, readable, current, yielded,
                     received>>
  BY DEF BeginRead, packing
<1>2. r \in Ranks /\ r - 1 \in Ranks /\ r # 0 /\ r - 1 # r /\ Types
  BY Constants DEF Inv
<1>3. Place(r) /\ Holds(r) /\ Link(r)
  BY DEF Inv
<1>4. Len(messages[r]) = 1 /\ Carried(r, m) /\ messages[r] \in Seq(Bucket)
  BY <1>1, <1>2, <1>3, TypesOf DEF Link
<1>5. m \in Bucket /\ Tail(messages[r]) = <<>> /\ <<>> \in Seq(Bucket)
  BY <1>4, OneMessage
<1> HIDE DEF m
<1>6. /\ coming'[r] = m /\ messages'[r] = <<>> /\ reading'[r] = "reading" /\ pc'[r] = then
      /\ \A q \in Ranks \ {r} : /\ coming'[q] = coming[q] /\ messages'[q] = messages[q]
                                /\ reading'[q] = reading[q] /\ pc'[q] = pc[q]
  BY Zenon, <1>1, <1>2, <1>5 DEF Types
<1>7. Types'
  <2>1. pc' \in [Ranks -> SenderPcs \cup ReceiverPcs]
    BY Zenon, <1>1, <1>2 DEF Types, ReceiverPcs
  <2>2. messages' \in [Ranks -> Seq(Bucket)] /\ coming' \in [Ranks -> Bucket]
        /\ reading' \in [Ranks -> {"none", "reading", "done"}]
    BY Zenon, <1>1, <1>2, <1>5 DEF Types
  <2> QED BY Zenon, <1>1, <1>2, <2>1, <2>2 DEF Types
<1>8. Only(r)
  BY <1>1, <1>2, <1>6 DEF Only, Still
<1>9. reading[r] = "none" /\ ~current[r].last
  BY <1>1, <1>3 DEF Place, NoBucket
<1>10. /\ Start(r)' = Start(r) /\ End(r)' = End(r) /\ ReadTo(r) = End(r)
       /\ ReadTo(r)' = End(r) + Len(m.names) /\ (Latest(r)' <=> m.last)
       /\ Sent(r)' = Sent(r) /\ (Over(r)' <=> Over(r)) /\ Out(r)' = Out(r)
  BY <1>1, <1>2, <1>6, <1>9 DEF Start, End, ReadTo, Latest, Sent, Over, Out
<1>11. Place(r)'
  BY <1>1, <1>2, <1>3, <1>6 DEF Place, ReceiverPcs
<1>12. SenderStays(r - 1)
  BY <1>1, <1>2, <1>8, StillStays DEF Only
<1>13. m.names = Span(End(r), Len(m.names)) /\ ReadTo(r)' = Sent(r - 1)
       /\ (m.last <=> Over(r - 1))
  BY <1>4, <1>10 DEF Carried
<1>14. Sent(r - 1) <= W /\ (Over(r - 1) => Sent(r - 1) = W)
  BY <1>2, SentWithin
<1>15. Holds(r)'
  BY <1>1, <1>3, <1>6, <1>10, <1>13, <1>14 DEF Holds, Place
<1>16. Link(r)'
  <2>1. readable[r - 1] /\ notified[r - 1] = 0
    BY <1>1, <1>3 DEF Link
  <2>2. coming'[r].buffer = Out(r - 1) /\ coming'[r].names = buffers[r - 1][Out(r - 1)]
    BY <1>4, <1>6 DEF Carried
  <2>3. Sent(r - 1) = ReadTo(r)' /\ (Over(r - 1) <=> Latest(r)')
    BY <1>10, <1>13
  <2> QED BY <1>6, <1>12, <2>1, <2>2, <2>3 DEF Link, SenderStays
<1>17. SenderStays(r)
  BY <1>1, <1>10 DEF SenderStays
<1>18. \A q \in Receivers : q = r + 1 => Link(q)'
  BY <1>2, <1>6, <1>8, <1>17, NextLink
<1>19. notified'[N] = 0
  BY <1>1 DEF Inv
<1> QED BY <1>2, <1>7, <1>8, <1>11, <1>15, <1>16, <1>18, <1>19, Together

LEMMA EndReadStep ==
    ASSUME NixlAssumption, Inv, NEW r \in Receivers, EndRead(r)
    PROVE  Inv'
<1> DEFINE held == buffers[r - 1][coming[r].buffer]
<1>1. /\ reading[r] = "reading" /\ reading' = [reading EXCEPT ![r] = "done"]
      /\ buffers' = [buffers EXCEPT ![r][Other(send[r])] = held]
      /\ notified' = [notified EXCEPT ![r - 1] = @ + 1]
      /\ UNCHANGED <<pc, send, packed, offset, taken, messages, readable, current, coming,
                     yielded, received>>
  BY DEF EndRead, packing
<1>2. r \in Ranks /\ r - 1 \in Ranks /\ r # 0 /\ r - 1 # r /\ r - 1 # N /\ Types
  BY Constants DEF Inv, Receivers, Ranks, N
<1>3. Place(r) /\ Holds(r) /\ Link(r)
  BY DEF Inv
<1>4. held = coming[r].names /\ coming[r].buffer = Out(r - 1) /\ held \in Seq(Weights)
      /\ readable[r - 1] /\ messages[r] = <<>> /\ notified[r - 1] = 0
  BY Zenon, <1>1, <1>2, <1>3, TypesOf DEF Link
<1> HIDE DEF held
<1>5. send[r] \in {0, 1} /\ Other(send[r]) \in {0, 1} /\ Other(send[r]) # send[r]
      /\ buffers \in [Ranks -> [{0, 1} -> Seq(Weights)]]
  BY Zenon, <1>2, TypesOf, Buffers DEF Types
<1>6. /\ buffers'[r][Other(send[r])] = held /\ buffers'[r][send[r]] = buffers[r][send[r]]
      /\ \A q \in Ranks \ {r} : buffers'[q] = buffers[q]
      /\ buffers' \in [Ranks -> [{0, 1} -> Seq(Weights)]]
  BY <1>1, <1>2, <1>4, <1>5
<1>7. /\ reading'[r] = "done" /\ notified'[r - 1] = 1
      /\ \A q \in Ranks \ {r} : reading'[q] = reading[q]
      /\ \A q \in Ranks \ {r - 1} : notified'[q] = notified[q]
      /\ notified' \in [Ranks -> Nat]
  BY <1>1, <1>2, <1>4 DEF Types
<1>8. Types'
  BY Zenon, <1>1, <1>2, <1>6, <1>7 DEF Types
<1>9. Only(r)
  BY <1>1, <1>6, <1>7 DEF Only, Still
<1>10. /\ Start(r)' = Start(r) /\ End(r)' = End(r) /\ ReadTo(r)' = ReadTo(r)
       /\ (Latest(r)' <=> Latest(r)) /\ Sent(r)' = Sent(r) /\ (Over(r)' <=> Over(r))
       /\ Out(r)' = send[r] /\ Out(r) = send[r]
  BY <1>1, <1>2, <1>7 DEF Start, End, ReadTo, Latest, Sent, Over, Out
<1>11. Place(r)'
  BY <1>1, <1>3, <1>7 DEF Place, ReceiverPcs
<1>12. Holds(r)'
  BY <1>1, <1>3, <1>4, <1>6, <1>7, <1>10 DEF Holds
<1>13. Link(r)'
  <2>1. Sent(r - 1) = ReadTo(r) /\ (Over(r - 1) <=> Latest(r))
    BY <1>3, <1>4 DEF Link
  <2>2. Sent(r - 1)' = Sent(r - 1) /\ (Over(r - 1)' <=> Over(r - 1))
    <3>1. Still(r - 1)
      BY <1>2, <1>9 DEF Only
    <3> QED BY <1>2, <3>1, StillSends
  <2> QED BY <1>1, <1>4, <1>7, <1>10, <2>1, <2>2 DEF Link
<1>14. SenderStays(r)
  BY <1>1, <1>2, <1>6, <1>7, <1>10 DEF SenderStays
<1>15. \A q \in Receivers : q = r + 1 => Link(q)'
  BY <1>1, <1>2, <1>9, <1>14, NextLink
<1>16. notified'[N] = 0
  BY Zenon, <1>2, <1>7, Constants DEF Inv
<1> QED BY <1>2, <1>8, <1>9, <1>11, <1>12, <1>13, <1>15, <1>16, Together

LEMMA SwapStep ==
    ASSUME NixlAssumption, Inv, NEW r \in Receivers, NEW here \in {"firstwait", "swap"},
           Swap(r, here)
    PROVE  Inv'
<1>1. /\ pc[r] = here /\ reading[r] = "done" /\ Released(r) /\ TakesBack(r)
      /\ reading' = [reading EXCEPT ![r] = "none"]
      /\ send' = [send EXCEPT ![r] = Other(@)]
      /\ current' = [current EXCEPT ![r] = coming[r]]
      /\ yielded' = [yielded EXCEPT ![r] = 0]
      /\ pc' = [pc EXCEPT ![r] = "announce"]
      /\ UNCHANGED <<buffers, packed, offset, taken, messages, coming, received>>
  BY DEF Swap, TakesBack, packing
<1>2. r \in Ranks /\ r - 1 \in Ranks /\ r # 0 /\ r - 1 # r /\ Types
  BY Constants DEF Inv
<1>3. Place(r) /\ Holds(r)
  BY DEF Inv
<1>4. /\ notified' \in [Ranks -> Nat] /\ readable' \in [Ranks -> BOOLEAN]
      /\ notified'[N] = 0 /\ readable'[r] = FALSE
      /\ \A q \in Ranks \ {r} : notified'[q] = notified[q] /\ readable'[q] = readable[q]
  BY Zenon, <1>1, <1>2, TakeBack
<1>5. /\ reading'[r] = "none" /\ send'[r] = Other(send[r]) /\ current'[r] = coming[r]
      /\ yielded'[r] = 0 /\ pc'[r] = "announce"
      /\ \A q \in Ranks \ {r} : /\ reading'[q] = reading[q] /\ send'[q] = send[q]
                                /\ current'[q] = current[q] /\ yielded'[q] = yielded[q]
                                /\ pc'[q] = pc[q]
  BY <1>1, <1>2 DEF Types
<1>6. Types'
  <2>1. Other(send[r]) \in {0, 1} /\ coming[r] \in Bucket
    BY Zenon, <1>2, TypesOf, Buffers
  <2>2. /\ reading' \in [Ranks -> {"none", "reading", "done"}] /\ send' \in [Ranks -> {0, 1}]
        /\ current' \in [Ranks -> Bucket] /\ yielded' \in [Ranks -> Nat]
    BY Zenon, <1>1, <1>2, <2>1 DEF Types
  <2>3. pc' \in [Ranks -> SenderPcs \cup ReceiverPcs]
    BY <1>1, <1>2 DEF Types, ReceiverPcs
  <2> QED BY Zenon, <1>1, <1>2, <1>4, <2>2, <2>3 DEF Types
<1>7. Only(r)
  BY <1>1, <1>4, <1>5 DEF Only, Still
<1>8. ~current[r].last /\ yielded[r] = Len(current[r].names)
  <2>1. Len(<<>>) = 0
    OBVIOUS
  <2> QED BY <1>1, <1>3, <2>1 DEF Place, NoBucket
<1>9. PICK n \in Nat, c \in Nat, k \in Nat :
        n = Len(received[r]) /\ c = Len(current[r].names) /\ k = Len(coming[r].names)
  BY Zenon, <1>2, TypesOf
<1>10. c <= n /\ Start(r) = n - c /\ End(r) = n - c + c /\ ReadTo(r) = End(r) + k
  BY <1>1, <1>3, <1>8, <1>9 DEF Holds, Start, End, ReadTo
<1>11. Start(r)' = n - 0 /\ End(r)' = n - 0 + k
  BY Zenon, <1>1, <1>2, <1>5, <1>9 DEF Start, End
<1>12. End(r) = n /\ Start(r)' = n /\ End(r)' = n + k /\ ReadTo(r) = n + k
  BY <1>9, <1>10, <1>11
<1>13. ReadTo(r)' = n + k /\ (Latest(r)' <=> coming[r].last) /\ (Latest(r) <=> coming[r].last)
  BY <1>1, <1>5, <1>12 DEF ReadTo, Latest
<1>14. Sent(r) = n /\ Sent(r)' = n /\ ~Over(r) /\ ~Over(r)'
  BY <1>1, <1>2, <1>5, <1>8, <1>12 DEF Sent, Over
<1>15. Place(r)'
  BY <1>4, <1>5 DEF Place, ReceiverPcs
<1>16. Holds(r)'
  <2>1. coming[r].names = Span(n, k) /\ received[r] = Span(0, n) /\ n + k <= W
        /\ (coming[r].last => n + k = W) /\ buffers[r][Other(send[r])] = coming[r].names
    BY Zenon, <1>1, <1>3, <1>9, <1>12, <1>13 DEF Holds
  <2>2. yielded'[r] <= k /\ yielded'[r] <= n
    BY <1>5, <1>9
  <2>3. received'[r] = received[r] /\ buffers'[r] = buffers[r]
    BY <1>1
  <2> QED BY <1>5, <1>9, <1>12, <1>13, <2>1, <2>2, <2>3 DEF Holds
<1>17. Link(r)'
  <2>1. ReaderStays(r)
    BY <1>1, <1>5, <1>12, <1>13 DEF ReaderStays
  <2> QED BY <1>1, <1>2, <1>4, <1>7, <2>1, OwnLink
<1>18. \A q \in Receivers : q = r + 1 => Link(q)'
  BY <1>1, <1>2, <1>7, <1>14, NextTakenBack
<1> QED BY <1>2, <1>4, <1>6, <1>7, <1>15, <1>16, <1>17, <1>18, Together

LEMMA PassOnStep ==
    ASSUME NixlAssumption, Inv, NEW r \in Receivers, PassOn(r)
    PROVE  Inv'
<1> DEFINE m == [buffer |-> send[r], names |-> current[r].names, last |-> current[r].last]
<1>1. /\ pc[r] = "announce"
      /\ pc' = [pc EXCEPT ![r] = IF current[r].last THEN "yield" ELSE "next"]
      /\ r < N =>
           /\ messages' = [messages EXCEPT ![r + 1] = Append(@, m)]
           /\ notified' = [notified EXCEPT ![r] = @ - (IF readable[r] /\ @ > 0 THEN 1 ELSE 0)]
           /\ readable' = [readable EXCEPT ![r] = TRUE]
      /\ ~(r < N) => messages' = messages /\ notified' = notified /\ readable' = readable
      /\ UNCHANGED <<buffers, send, packed, offset, taken, current, coming, reading, yielded,
                     received>>
  BY DEF PassOn, Announce, packing, reads, queues, N
<1>2. r \in Ranks /\ r - 1 \in Ranks /\ r # 0 /\ r - 1 # r /\ N \in Ranks /\ Types
  BY Constants DEF Inv
<1>3. Place(r) /\ Holds(r) /\ Link(r) /\ ~readable[r] /\ reading[r] = "none"
  BY <1>1 DEF Inv, Place
<1>4. m \in Bucket
  <2>1. send[r] \in {0, 1} /\ current[r].names \in Seq(Weights) /\ current[r] \in Bucket
    BY <1>2, TypesOf
  <2>2. current[r].last \in BOOLEAN
    BY <2>1 DEF Bucket
  <2> QED BY <2>1, <2>2 DEF Bucket
<1> HIDE DEF m
<1>5. r < N => r + 1 \in Receivers /\ r + 1 \in Ranks /\ r + 1 # r /\ r + 1 - 1 = r
  BY Constants DEF Receivers, Ranks, N
<1>6. /\ pc'[r] = (IF current[r].last THEN "yield" ELSE "next")
      /\ \A q \in Ranks \ {r} : pc'[q] = pc[q]
      /\ pc' \in [Ranks -> SenderPcs \cup ReceiverPcs]
  BY <1>1, <1>2 DEF Types, ReceiverPcs
<1>7. /\ readable' \in [Ranks -> BOOLEAN] /\ (readable'[r] => r < N)
      /\ \A q \in Ranks \ {r} : readable'[q] = readable[q]
  BY Zenon, <1>1, <1>2, <1>3 DEF Types
<1>8. notified' = notified
  <2>1. CASE r < N
    <3>1. notified[r] \in Nat /\ notified[r] - 0 = notified[r]
      BY <1>2, TypesOf
    <3>2. notified' = [notified EXCEPT ![r] = @ - 0]
      BY <1>1, <1>3, <2>1
    <3> QED BY <1>2, <3>1, <3>2 DEF Types
  <2> QED BY <1>1, <2>1
<1>9. messages' \in [Ranks -> Seq(Bucket)] /\ \A q \in Ranks \ {r + 1} : messages'[q] = messages[q]
  <2>1. CASE r < N
    <3>1. messages[r + 1] \in Seq(Bucket)
      BY <1>5, <2>1, TypesOf
    <3>2. Append(messages[r + 1], m) \in Seq(Bucket)
      BY <1>4, <3>1
    <3>3. PICK longer \in Seq(Bucket) : longer = Append(messages[r + 1], m)
      BY Zenon, <3>2
    <3>4. messages' = [messages EXCEPT ![r + 1] = longer] /\ messages \in [Ranks -> Seq(Bucket)]
      BY Zenon, <1>1, <1>2, <2>1, <3>3 DEF Types
    <3> QED BY <1>5, <2>1, <3>4
  <2> QED BY Zenon, <1>1, <1>2, <2>1 DEF Types
<1>10. Types'
  BY Zenon, <1>1, <1>2, <1>6, <1>7, <1>8, <1>9 DEF Types
<1>11. Only(r)
  BY <1>1, <1>6, <1>7, <1>8, <1>9 DEF Only, Still
<1>12. /\ Start(r)' = Start(r) /\ End(r)' = End(r) /\ ReadTo(r)' = ReadTo(r)
       /\ (Latest(r)' <=> Latest(r)) /\ Sent(r) = Start(r) /\ Sent(r)' = End(r)
       /\ ~Over(r) /\ (Over(r)' <=> current[r].last) /\ Out(r)' = send[r]
  BY <1>1, <1>2, <1>6 DEF Start, End, ReadTo, Latest, Sent, Over, Out
<1>13. Place(r)'
  <2>1. readable'[r] => r < N /\ pc'[r] \in {"next", "yield", "swap", "wait"}
    BY <1>6, <1>7
  <2> QED BY <1>1, <1>3, <1>6, <2>1 DEF Place, ReceiverPcs
<1>14. Holds(r)'
  BY <1>1, <1>3, <1>6, <1>12 DEF Holds
<1>15. Link(r)'
  <2>1. ReaderStays(r)
    BY <1>1, <1>12 DEF ReaderStays
  <2>2. messages'[r] = messages[r]
    BY <1>2, <1>9, Constants DEF Ranks
  <2> QED BY <1>8, <1>11, <2>1, <2>2, OwnLink
<1>16. ASSUME NEW q \in Receivers, q = r + 1
       PROVE  Link(q)'
  <2>1. r < N /\ q \in Ranks /\ q # r /\ q # 0 /\ q - 1 = r
    BY <1>16, Constants DEF Receivers, Ranks, N
  <2>2. ReaderStays(q) /\ Link(q)
    BY <1>11, <2>1, StillStays DEF Only, Inv
  <2>3. /\ Released(r) /\ notified[r] \in Nat /\ messages'[q] = Append(messages[q], m)
        /\ readable'[r] = TRUE
        /\ notified'[r] = notified[r] - (IF readable[r] /\ notified[r] > 0 THEN 1 ELSE 0)
    BY <1>1, <1>2, <1>3, <1>16, <2>1, TypesOf DEF Released, Types
  <2>4. m.buffer = send[r] /\ m.names = current[r].names /\ (m.last <=> current[r].last)
    BY DEF m
  <2>5. buffers'[r][send[r]] = current[r].names
        /\ current[r].names = Span(Start(r), Len(current[r].names))
    BY <1>1, <1>3 DEF Holds
  <2>6. m.names = buffers'[r][Out(r)'] /\ m.names = Span(Sent(r), Len(m.names))
        /\ Sent(r)' = Sent(r) + Len(m.names)
    BY <1>12, <2>4, <2>5 DEF End
  <2> QED BY Zenon, <1>4, <1>12, <2>1, <2>2, <2>3, <2>4, <2>6, AnnouncedLink
<1>17. notified'[N] = 0
  BY <1>8 DEF Inv
<1> QED BY <1>2, <1>10, <1>11, <1>13, <1>14, <1>15, <1>16, <1>17, Together

LEMMA YieldStep ==
    ASSUME NixlAssumption, Inv, NEW r \in Receivers, Yield(r)
    PROVE  Inv' /\ received' = [received EXCEPT ![r] = Append(@, Len(received[r]) + 1)]
           /\ Len(received[r]) + 1 \in Weights
<1> DEFINE held == buffers[r][send[r]]
<1>1. r \in Ranks /\ r - 1 \in Ranks /\ r # 0 /\ r - 1 # r /\ N \in Ranks /\ Types
  BY Constants DEF Inv
<1>2. Place(r) /\ Holds(r) /\ Link(r)
  BY DEF Inv
<1>3. PICK y \in Nat, n \in Nat, c \in Nat :
        y = yielded[r] /\ n = Len(received[r]) /\ c = Len(current[r].names)
  BY Zenon, <1>1, TypesOf
<1>4. /\ pc[r] = "yield" /\ y + 1 <= c /\ yielded' = [yielded EXCEPT ![r] = y + 1]
      /\ received' = [received EXCEPT ![r] =
           Append(@, IF y + 1 <= Len(held) /\ held[y + 1] = current[r].names[y + 1]
                     THEN current[r].names[y + 1] ELSE Garbage)]
      /\ UNCHANGED <<pc, buffers, send, packed, offset, taken, messages, notified, readable,
                     current, coming, reading>>
  BY <1>3 DEF Yield, packing, queues, reads
<1>5. /\ held = current[r].names /\ y <= n /\ Start(r) = n - y
      /\ current[r].names = Span(n - y, c) /\ received[r] = Span(0, n)
  BY <1>2, <1>3, <1>4 DEF Holds, Start
<1> HIDE DEF held
<1>6. current[r].names[y + 1] = n + 1
  <2>1. PICK a \in Nat : a = n - y
    BY <1>5
  <2>2. y + 1 \in 1 .. c /\ a + (y + 1) = n + 1
    BY <1>4, <2>1
  <2>3. Span(a, c)[y + 1] = a + (y + 1)
    BY <2>2, SpanLen
  <2> QED BY <1>5, <2>1, <2>2, <2>3
<1>7. n + 1 \in Weights
  <2>1. current[r].names \in Seq(Weights) /\ y + 1 \in 1 .. Len(current[r].names)
    BY <1>1, <1>3, <1>4, TypesOf
  <2>2. current[r].names[y + 1] \in Weights
    BY <2>1
  <2> QED BY <1>6, <2>2
<1>8. received' = [received EXCEPT ![r] = Append(@, n + 1)]
  BY Zenon, <1>3, <1>4, <1>5, <1>6
<1>9. /\ yielded'[r] = y + 1 /\ received'[r] = Append(received[r], n + 1)
      /\ \A q \in Ranks \ {r} : /\ yielded'[q] = yielded[q]
                                /\ q # 0 => received'[q] = received[q]
  BY <1>1, <1>4, <1>8, Constants DEF Types
<1>10. received[r] \in Seq(Weights \cup {Garbage})
  BY <1>1, TypesOf
<1>11. received'[r] \in Seq(Weights \cup {Garbage}) /\ Len(received'[r]) = n + 1
  <2>1. PICK w \in Weights \cup {Garbage} : w = n + 1
    BY <1>7
  <2>2. received'[r] = Append(received[r], w)
    BY <1>9, <2>1
  <2> QED BY <1>3, <1>10, <2>2
<1>12. Types'
  <2>1. yielded' \in [Ranks -> Nat]
    BY <1>1, <1>4 DEF Types
  <2>2. received' \in [Receivers -> Seq(Weights \cup {Garbage})]
    BY Zenon, <1>1, <1>8, <1>9, <1>11 DEF Types
  <2> QED BY Zenon, <1>1, <1>4, <2>1, <2>2 DEF Types
<1>13. Only(r)
  BY <1>4, <1>9 DEF Only, Still
<1>14. Start(r)' = Start(r) /\ End(r)' = End(r)
  <2>1. Start(r)' = (n + 1) - (y + 1)
    BY <1>9, <1>11 DEF Start
  <2>2. (n + 1) - (y + 1) = n - y
    BY <1>3
  <2> QED BY <1>4, <1>5, <2>1, <2>2 DEF End
<1>15. /\ ReadTo(r)' = ReadTo(r) /\ (Latest(r)' <=> Latest(r)) /\ Sent(r)' = Sent(r)
       /\ (Over(r)' <=> Over(r)) /\ Out(r)' = Out(r)
  BY <1>1, <1>4, <1>14 DEF ReadTo, Latest, Sent, Over, Out
<1>16. Place(r)'
  BY <1>2, <1>4 DEF Place
<1>17. Holds(r)'
  <2>1. received'[r] = Span(0, n + 1)
    <3>1. Append(Span(0, n), 0 + n + 1) = Span(0, n + 1)
      BY Zenon, SpanGrows
    <3>2. 0 + n + 1 = n + 1
      OBVIOUS
    <3> QED BY <1>5, <1>9, <3>1, <3>2
  <2>2. yielded'[r] <= Len(current[r].names) /\ yielded'[r] <= Len(received'[r])
    BY <1>3, <1>4, <1>5, <1>9, <1>11
  <2> QED BY <1>2, <1>4, <1>11, <1>14, <1>15, <2>1, <2>2 DEF Holds
<1>18. Link(r)'
  <2>1. ReaderStays(r)
    BY <1>4, <1>15 DEF ReaderStays
  <2> QED BY <1>4, <1>13, <2>1, OwnLink
<1>19. SenderStays(r)
  BY <1>4, <1>15 DEF SenderStays
<1>20. \A q \in Receivers : q = r + 1 => Link(q)'
  BY <1>1, <1>4, <1>13, <1>19, NextLink
<1>21. notified'[N] = 0
  BY <1>4 DEF Inv
<1>22. Inv'
  BY <1>1, <1>12, <1>13, <1>16, <1>17, <1>18, <1>20, <1>21, Together
<1> QED BY <1>3, <1>7, <1>8, <1>22

LEMMA YieldEndsStep ==
    ASSUME NixlAssumption, Inv, NEW r \in Receivers, YieldEnds(r)
    PROVE  Inv'
<1>1. /\ pc[r] = "yield" /\ yielded[r] = Len(current[r].names)
      /\ pc' = [pc EXCEPT ![r] = IF current[r].last THEN "wait" ELSE "swap"]
      /\ UNCHANGED <<buffers, send, packed, offset, taken, messages, notified, readable, current,
                     coming, reading, yielded, received>>
  BY DEF YieldEnds, packing, queues, reads
<1>2. r \in Ranks /\ r - 1 \in Ranks /\ r # 0 /\ r - 1 # r /\ Types
  BY Constants DEF Inv
<1>3. Place(r) /\ Holds(r)
  BY DEF Inv
<1>4. /\ pc'[r] = (IF current[r].last THEN "wait" ELSE "swap")
      /\ \A q \in Ranks \ {r} : pc'[q] = pc[q]
      /\ pc' \in [Ranks -> SenderPcs \cup ReceiverPcs]
  BY <1>1, <1>2 DEF Types, ReceiverPcs
<1>5. Types'
  BY Zenon, <1>1, <1>2, <1>4 DEF Types
<1>6. Only(r)
  BY <1>1, <1>4 DEF Only, Still
<1>7. /\ Start(r)' = Start(r) /\ End(r)' = End(r) /\ ReadTo(r)' = ReadTo(r)
      /\ (Latest(r)' <=> Latest(r)) /\ Sent(r)' = Sent(r) /\ (Over(r)' <=> Over(r))
      /\ Out(r)' = Out(r)
  BY Zenon, <1>1, <1>2, <1>4 DEF Start, End, ReadTo, Latest, Sent, Over, Out
<1>8. Place(r)'
  BY <1>1, <1>3, <1>4 DEF Place, ReceiverPcs
<1>9. Holds(r)'
  BY <1>1, <1>3, <1>4, <1>7 DEF Holds
<1>10. Link(r)'
  <2>1. ReaderStays(r)
    BY <1>1, <1>7 DEF ReaderStays
  <2> QED BY <1>1, <1>6, <2>1, OwnLink
<1>11. SenderStays(r)
  BY <1>1, <1>7 DEF SenderStays
<1>12. \A q \in Receivers : q = r + 1 => Link(q)'
  BY <1>1, <1>2, <1>6, <1>11, NextLink
<1>13. notified'[N] = 0
  BY <1>1 DEF Inv
<1> QED BY <1>2, <1>5, <1>6, <1>8, <1>9, <1>10, <1>12, <1>13, Together

-----------------------------------------------------------------------------
(* The theorems.                                                           *)

LEMMA StepKeeps ==
    ASSUME NixlAssumption, Inv, [Next]_vars
    PROVE  Inv'
<1>1. CASE Fill
  BY <1>1, FillStep
<1>2. CASE Flush
  BY <1>2, FlushStep
<1>3. CASE Finish(0)
  BY <1>3, FinishStep, Constants
<1>4. ASSUME NEW r \in Receivers, ReceiverStep(r)
      PROVE  Inv'
  <2>1. CASE BeginRead(r, "first", "firstwait")
    BY <2>1, BeginReadStep
  <2>2. CASE Swap(r, "firstwait")
    BY <2>2, SwapStep
  <2>3. CASE PassOn(r)
    BY <2>3, PassOnStep
  <2>4. CASE BeginRead(r, "next", "yield")
    BY <2>4, BeginReadStep
  <2>5. CASE EndRead(r)
    BY <2>5, EndReadStep
  <2>6. CASE Yield(r)
    BY <2>6, YieldStep
  <2>7. CASE YieldEnds(r)
    BY <2>7, YieldEndsStep
  <2>8. CASE Swap(r, "swap")
    BY <2>8, SwapStep
  <2>9. CASE Finish(r)
    BY <2>9, FinishStep, Constants
  <2> QED BY <1>4, <2>1, <2>2, <2>3, <2>4, <2>5, <2>6, <2>7, <2>8, <2>9 DEF ReceiverStep
<1>5. CASE UNCHANGED vars
  <2>1. UNCHANGED <<pc, buffers, send, packed, offset, taken, messages, notified, readable,
                    current, coming, reading, yielded, received>>
    BY <1>5 DEF vars, packing, queues, reads
  <2>2. Types' /\ First' /\ notified'[N] = 0
    BY Zenon, <2>1 DEF Inv, Types, First
  <2>3. ASSUME NEW r \in Receivers
        PROVE  Place(r)' /\ Holds(r)' /\ Link(r)'
    <3>1. r \in Ranks /\ r - 1 \in Ranks /\ r # 0
      BY Constants
    <3>2. Still(r) /\ Still(r - 1)
      BY <2>1 DEF Still
    <3>3. Place(r)' /\ Holds(r)' /\ ReaderStays(r) /\ SenderStays(r - 1)
      BY <2>1, <3>1, <3>2, StillStays DEF Inv
    <3> QED BY <2>1, <3>3, LinkStays DEF Inv
  <2> QED BY <2>2, <2>3 DEF Inv
<1> QED BY <1>1, <1>2, <1>3, <1>4, <1>5 DEF Next, Sender

LEMMA Always ==
    ASSUME NixlAssumption
    PROVE  Spec => []Inv
<1>1. Init => Inv
  BY AtStart
<1>2. Inv /\ [Next]_vars => Inv'
  BY StepKeeps
<1> QED BY <1>1, <1>2, PTL DEF Spec

\* Between two ranks there is never more than one announcement or one notification:
\* the queues of NIXLAgent hold at most one message, and the variables have their types.
THEOREM TypeCorrect ==
    ASSUME NixlAssumption
    PROVE  Spec => []TypeOK
<1>1. ASSUME Inv
      PROVE  TypeOK
  <2> USE <1>1
  <2>1. Types /\ notified[N] = 0
    BY DEF Inv
  <2>2. ASSUME NEW r \in Receivers
        PROVE  Len(messages[r]) <= 1 /\ notified[r - 1] \in 0 .. 1
    <3>1. Link(r) /\ r \in Ranks /\ messages[r] \in Seq(Bucket)
      BY Zenon, TypesOf, Constants DEF Inv
    <3>2. Len(messages[r]) <= 1
      <4>1. CASE messages[r] = <<>>
        BY <4>1
      <4>2. CASE messages[r] # <<>>
        <5>1. Len(messages[r]) = 1
          BY <3>1, <4>2 DEF Link
        <5> QED BY <5>1
      <4> QED BY <4>1, <4>2
    <3>3. readable[r - 1] \in BOOLEAN
      BY <2>1, Constants DEF Types
    <3>4. notified[r - 1] = 0 \/ notified[r - 1] = 1
      BY <3>1, <3>3 DEF Link
    <3> QED BY <3>2, <3>4
  <2>3. ASSUME NEW r \in Ranks
        PROVE  /\ \A b \in {0, 1} : buffers[r][b] \in Seq(Weights)
               /\ Len(messages[r]) <= 1 /\ notified[r] \in 0 .. 1
               /\ yielded[r] \in 0 .. Len(current[r].names)
    <3>1. \A b \in {0, 1} : buffers[r][b] \in Seq(Weights)
      BY TypesOf
    <3>2. Len(messages[r]) <= 1
      <4>1. CASE r = 0
        <5>1. messages[0] = <<>>
          BY DEF Inv, First
        <5> QED BY <4>1, <5>1
      <4> QED BY <2>2, <4>1, Constants
    <3>3. notified[r] \in 0 .. 1
      <4>1. CASE r = N
        BY <2>1, <4>1
      <4>2. CASE r # N
        <5>1. PICK q \in Receivers : q - 1 = r
          BY <4>2, Constants DEF Receivers, Ranks, N
        <5> QED BY <2>2, <5>1
      <4> QED BY <4>1, <4>2
    <3>4. yielded[r] \in 0 .. Len(current[r].names)
      <4>1. CASE r = 0
        <5>1. yielded[0] = 0
          BY DEF Inv, First
        <5> QED BY <4>1, <5>1, TypesOf
      <4>2. CASE r # 0
        <5>1. Holds(r)
          BY <4>2, Constants DEF Inv
        <5> QED BY <5>1, TypesOf DEF Holds
      <4> QED BY <4>1, <4>2
    <3> QED BY <3>1, <3>2, <3>3, <3>4
  <2> QED BY <2>1, <2>3 DEF TypeOK, Types, SenderPcs, ReceiverPcs
<1> QED BY <1>1, Always, PTL

\* AnnouncedStays: no rank overwrites a bucket that the next one is still to read, which
\* is what each swap of the buffers waits for the ReadableOperation for.
THEOREM BucketsStay ==
    ASSUME NixlAssumption
    PROVE  Spec => []AnnouncedStays
<1>1. ASSUME Inv
      PROVE  AnnouncedStays
  <2> USE <1>1
  <2>1. ASSUME NEW r \in Receivers, NEW m \in ToSet(messages[r])
        PROVE  buffers[r - 1][m.buffer] = m.names
    <3>1. Link(r) /\ messages[r] \in Seq(Bucket)
      BY Zenon, TypesOf, Constants DEF Inv
    <3>2. PICK i \in DOMAIN messages[r] : m = messages[r][i]
      BY DEF ToSet
    <3>3. messages[r] # <<>>
      BY <3>1, <3>2
    <3>4. Len(messages[r]) = 1 /\ Carried(r, Head(messages[r]))
      BY <3>1, <3>3 DEF Link
    <3>5. m = Head(messages[r])
      BY <3>1, <3>2, <3>4
    <3> QED BY <3>4, <3>5 DEF Carried
  <2>2. ASSUME NEW r \in Receivers, reading[r] = "reading"
        PROVE  buffers[r - 1][coming[r].buffer] = coming[r].names
    BY <2>2 DEF Inv, Link
  <2> QED BY <2>1, <2>2 DEF AnnouncedStays
<1> QED BY <1>1, Always, PTL

\* CleanWhenDone: when send_weights or receive_weights returns, the rank's buffers have
\* been read, and its queues have nothing left for the next transfer.
THEOREM ReturnsClean ==
    ASSUME NixlAssumption
    PROVE  Spec => []CleanWhenDone
<1>1. ASSUME Inv
      PROVE  CleanWhenDone
  <2> USE <1>1
  <2> SUFFICES ASSUME NEW r \in Ranks, pc[r] = "done"
               PROVE  /\ notified[r] = 0 /\ messages[r] = <<>>
                      /\ r < LastRank => messages[r + 1] = <<>> /\ reading[r + 1] # "reading"
    BY DEF CleanWhenDone
  <2>1. ~readable[r] /\ messages[r] = <<>>
    <3>1. CASE r = 0
      BY <3>1 DEF Inv, First
    <3>2. CASE r # 0
      <4>1. Place(r) /\ Link(r)
        BY <3>2, Constants DEF Inv
      <4>2. Latest(r) /\ ~readable[r]
        BY <4>1 DEF Place, Latest
      <4> QED BY <4>1, <4>2 DEF Link, Carried
    <3> QED BY <3>1, <3>2
  <2>2. CASE r < LastRank
    <3>1. PICK q \in Receivers : q = r + 1 /\ q - 1 = r
      BY <2>2, Constants DEF Receivers, Ranks, N
    <3> QED BY <2>1, <3>1 DEF Inv, Link
  <2>3. CASE ~(r < LastRank)
    <3>1. r = N
      BY <2>3, Constants DEF Ranks, N
    <3> QED BY <2>1, <2>3, <3>1 DEF Inv
  <2> QED BY <2>1, <2>2, <2>3
<1> QED BY <1>1, Always, PTL

LEMMA Fresh ==
    ASSUME NEW n \in Nat
    PROVE  n + 1 \notin ToSet(Span(0, n))
<1> SUFFICES ASSUME n + 1 \in ToSet(Span(0, n)) PROVE FALSE
  OBVIOUS
<1>1. PICK i \in DOMAIN Span(0, n) : Span(0, n)[i] = n + 1
  BY DEF ToSet
<1>2. i \in 1 .. n /\ Span(0, n)[i] = 0 + i
  BY Zenon, SpanLen
<1> QED BY <1>1, <1>2

\* Transfers: the transfer implements WeightTransfer. Every tensor that a receiver's
\* consumer is given is one it was not given before, and has the value of its name.
THEOREM TransferImplemented ==
    ASSUME NixlAssumption
    PROVE  Spec => Transfers
<1>1. Init => Abstract!Init
  BY DEF Init, Abstract!Init
<1>2. Inv /\ [Next]_vars => [Abstract!Next]_received
  <2> SUFFICES ASSUME Inv, [Next]_vars PROVE [Abstract!Next]_received
    OBVIOUS
  <2>1. ASSUME NEW r \in Receivers, Yield(r)
        PROVE  Abstract!Next
    <3>1. /\ received' = [received EXCEPT ![r] = Append(@, Len(received[r]) + 1)]
          /\ Len(received[r]) + 1 \in Weights
      BY <2>1, YieldStep
    <3>2. received[r] = Span(0, Len(received[r])) /\ Len(received[r]) \in Nat
      BY TypesOf, Constants DEF Inv, Holds
    <3>3. Len(received[r]) + 1 \notin ToSet(received[r])
      BY <3>2, Fresh
    <3>4. Abstract!Receive(r, Len(received[r]) + 1)
      BY <3>1, <3>3 DEF Abstract!Receive, ToSet, Abstract!ToSet
    <3> QED BY <3>1, <3>4 DEF Abstract!Next
  <2>2. ASSUME NEW r \in Receivers, ReceiverStep(r), ~Yield(r)
        PROVE  received' = received
    BY <2>2 DEF ReceiverStep, BeginRead, Swap, PassOn, EndRead, YieldEnds, Finish, reads
  <2>3. Sender => received' = received
    BY DEF Sender, Fill, Flush, Finish, reads
  <2>4. UNCHANGED vars => received' = received
    BY DEF vars
  <2> QED BY <2>1, <2>2, <2>3, <2>4 DEF Next
<1> QED BY <1>1, <1>2, Always, PTL DEF Spec, Transfers, Abstract!Safety

\* A receiver that has returned was given every weight, in the order of the generator.
EveryWeight == \A r \in Receivers : pc[r] = "done" => received[r] = Span(0, W)

\* No weight is left out, by any receiver, whatever the weights and the buckets.
THEOREM NothingLeftOut ==
    ASSUME NixlAssumption
    PROVE  Spec => []EveryWeight
<1>1. ASSUME Inv
      PROVE  EveryWeight
  <2> SUFFICES ASSUME NEW r \in Receivers, pc[r] = "done"
               PROVE  received[r] = Span(0, W)
    BY DEF EveryWeight
  <2>1. Place(r) /\ Holds(r) /\ r \in Ranks /\ r # 0
    BY <1>1, Constants DEF Inv
  <2>2. PICK y \in Nat, n \in Nat, c \in Nat :
          y = yielded[r] /\ n = Len(received[r]) /\ c = Len(current[r].names)
    BY Zenon, <1>1, <2>1, TypesOf
  <2>3. y = c /\ n - y + c = W
    BY <1>1, <2>1, <2>2 DEF Place, Holds, End, Start
  <2>4. n = W
    BY <2>2, <2>3
  <2> QED BY <2>1, <2>2, <2>4 DEF Holds
<1> QED BY <1>1, Always, PTL

-----------------------------------------------------------------------------
(***************************************************************************)
(* The transfer by NCCL. Its invariant has a part for the master (Packing) *)
(* and three for each receiver: which buffer is which and where the        *)
(* receiver is (Unpacking), what is in its buffers (Stream), and how far   *)
(* the metadata of the bucket has come (Published). Stuck is the transfer  *)
(* that has missed a receiver. What both transfers have, as the sizes, the *)
(* buffers and what was received, has the same name in both.               *)
(***************************************************************************)
CONSTANTS Master, Followers

VARIABLES phase, target, metadata, topic, subscribed, missed

B == INSTANCE NcclTransfer WITH Receivers <- Followers

Meta == [names : Seq(B!Weights), last : BOOLEAN]
MasterPcs == {"fill", "wait", "done"}
FollowerPcs == {"start", "swap", "next", "yield", "done"}

BTypes ==
  /\ pc \in [B!Ranks -> MasterPcs \cup FollowerPcs]
  /\ buffers \in [B!Ranks -> [{0, 1} -> Seq(B!Weights)]]
  /\ send \in [B!Ranks -> {0, 1}] /\ target \in [B!Ranks -> {0, 1}]
  /\ packed \in Seq(B!Weights) /\ offset \in Nat /\ taken \in Nat
  /\ phase \in [B!Ranks -> {"none", "metadata", "broadcast", "done"}]
  /\ metadata \in [B!Ranks -> Meta]
  /\ topic \in [Followers -> Seq(Meta)]
  /\ subscribed \subseteq Followers /\ missed \in BOOLEAN
  /\ current \in [Followers -> Meta] /\ yielded \in [Followers -> Nat]
  /\ received \in [Followers -> Seq(B!Weights \cup {B!Garbage})]

\* The weights in the buckets of the master's broadcasts so far, and of those that are over.
Flushed == taken - Len(packed)
Busy == phase[Master] \in {"metadata", "broadcast"}
Reached == IF Busy THEN Flushed - Len(metadata[Master].names) ELSE Flushed

\* The weights before the bucket that a receiver has at hand, and up to its end.
Begun(r) == Len(received[r]) - yielded[r]
Held(r) == Begun(r) + Len(current[r].names)

\* The last bucket has been broadcast.
LastOut == pc[Master] # "fill" /\ phase[Master] = "done"

\* The master, and what is in the buffer it broadcasts from.
Packing ==
  /\ pc[Master] \in MasterPcs
  /\ Len(packed) <= taken /\ taken <= W
  /\ packed = Span(Flushed, Len(packed))
  /\ packed = <<>> => offset = 0
  /\ pc[Master] = "fill" =>
       buffers[Master][send[Master]] = packed \/ (packed = <<>> /\ taken < W)
  /\ pc[Master] # "fill" => packed = <<>> /\ taken = W /\ phase[Master] # "none"
  /\ metadata[Master].last <=> pc[Master] # "fill"
  /\ pc[Master] = "done" => phase[Master] = "done"
  /\ Busy =>
       /\ target[Master] # send[Master]
       /\ buffers[Master][target[Master]] = metadata[Master].names
       /\ Len(metadata[Master].names) <= Flushed
       /\ metadata[Master].names = Span(Reached, Len(metadata[Master].names))

\* A receiver, and which weights are in which of its buffers.
Unpacking(r) ==
  /\ pc[r] \in FollowerPcs
  /\ pc[r] = "start" => current[r] = B!NoBucket /\ yielded[r] = 0 /\ received[r] = <<>>
  /\ pc[r] \in {"start", "next", "done"} => phase[r] = "none"
  /\ pc[r] = "swap" => phase[r] # "none"
  /\ pc[r] = "yield" => (phase[r] = "none" <=> current[r].last)
  /\ pc[r] \in {"next", "swap"} => ~current[r].last
  /\ pc[r] = "done" => current[r].last
  /\ pc[r] \in {"swap", "done"} => yielded[r] = Len(current[r].names)
  /\ pc[r] \in {"next", "yield"} => buffers[r][send[r]] = current[r].names
  /\ phase[r] # "none" => target[r] # send[r]

\* Where a receiver is in the stream of weights, with what it yields and what comes next.
Stream(r) ==
  /\ yielded[r] <= Len(current[r].names) /\ yielded[r] <= Len(received[r])
  /\ received[r] = Span(0, Len(received[r]))
  /\ current[r].names = Span(Begun(r), Len(current[r].names))
  /\ phase[r] # "done" => Held(r) = Reached /\ (current[r].last => LastOut)
  /\ phase[r] = "done" =>
       /\ metadata[r].names = Span(Held(r), Len(metadata[r].names))
       /\ Held(r) + Len(metadata[r].names) = Reached
       /\ buffers[r][target[r]] = metadata[r].names
       /\ metadata[r].last => LastOut

\* What was published for a receiver, and what it has of it.
Published(r) ==
  /\ topic[r] # <<>> =>
       topic[r] = <<metadata[Master]>> /\ phase[Master] = "broadcast" /\ phase[r] # "broadcast"
  /\ phase[r] = "broadcast" =>
       topic[r] = <<>> /\ phase[Master] = "broadcast" /\ metadata[r] = metadata[Master]

\* Without the metadata a receiver never enters the broadcast, and nobody leaves it.
Stuck ==
  missed => phase[Master] = "broadcast"
              /\ \E r \in Followers : phase[r] # "broadcast" /\ topic[r] = <<>>

BInv == BTypes /\ Packing /\ Stuck /\ \A r \in Followers : Unpacking(r) /\ Stream(r) /\ Published(r)

\* A receiver that has returned was given every weight, in the order of the generator.
EveryReceived == \A r \in Followers : pc[r] = "done" => received[r] = Span(0, W)

-----------------------------------------------------------------------------
LEMMA OtherBuffer ==
    ASSUME NEW b \in {0, 1}
    PROVE  B!Other(b) \in {0, 1} /\ B!Other(b) # b /\ B!Other(B!Other(b)) = b
BY DEF B!Other

LEMMA BConstants ==
    ASSUME B!NcclAssumption
    PROVE  /\ W \in Nat /\ BucketSize \in Nat /\ B!Weights = 1 .. W
           /\ \A w \in 1 .. W : Sizes[w] \in Nat /\ Sizes[w] <= BucketSize
           /\ Master \in B!Ranks /\ Master \notin Followers
           /\ \A r \in Followers : r \in B!Ranks /\ r # Master
           /\ \A r \in B!Ranks : r # Master => r \in Followers
BY DEF B!NcclAssumption, W, B!Weights, B!Ranks

LEMMA BTypesOf ==
    ASSUME B!NcclAssumption, BInv
    PROVE  /\ BTypes /\ Packing /\ Stuck
           /\ \A r \in B!Ranks :
                /\ send[r] \in {0, 1} /\ target[r] \in {0, 1}
                /\ buffers[r] \in [{0, 1} -> Seq(B!Weights)]
                /\ metadata[r] \in Meta /\ metadata[r].names \in Seq(B!Weights)
                /\ Len(metadata[r].names) \in Nat
           /\ \A r \in Followers :
                /\ current[r] \in Meta /\ current[r].names \in Seq(B!Weights)
                /\ Len(current[r].names) \in Nat /\ yielded[r] \in Nat
                /\ topic[r] \in Seq(Meta)
                /\ received[r] \in Seq(B!Weights \cup {B!Garbage}) /\ Len(received[r]) \in Nat
                /\ Unpacking(r) /\ Stream(r) /\ Published(r)
           /\ packed \in Seq(B!Weights) /\ Len(packed) \in Nat /\ taken \in Nat /\ offset \in Nat
<1>1. BTypes /\ Packing /\ Stuck /\ \A r \in Followers : Unpacking(r) /\ Stream(r) /\ Published(r)
  BY DEF BInv
<1>2. ASSUME NEW r \in B!Ranks
      PROVE  /\ send[r] \in {0, 1} /\ target[r] \in {0, 1}
             /\ buffers[r] \in [{0, 1} -> Seq(B!Weights)]
             /\ metadata[r] \in Meta /\ metadata[r].names \in Seq(B!Weights)
             /\ Len(metadata[r].names) \in Nat
  <2>1. metadata[r] \in Meta
    BY <1>1 DEF BTypes
  <2>2. metadata[r].names \in Seq(B!Weights)
    BY <2>1 DEF Meta
  <2> QED BY <1>1, <2>1, <2>2 DEF BTypes
<1>3. ASSUME NEW r \in Followers
      PROVE  /\ current[r] \in Meta /\ current[r].names \in Seq(B!Weights)
             /\ Len(current[r].names) \in Nat /\ yielded[r] \in Nat
             /\ topic[r] \in Seq(Meta)
             /\ received[r] \in Seq(B!Weights \cup {B!Garbage}) /\ Len(received[r]) \in Nat
  <2>1. current[r] \in Meta /\ received[r] \in Seq(B!Weights \cup {B!Garbage})
    BY <1>1 DEF BTypes
  <2>2. current[r].names \in Seq(B!Weights)
    BY <2>1 DEF Meta
  <2> QED BY <1>1, <2>1, <2>2 DEF BTypes
<1>4. packed \in Seq(B!Weights) /\ taken \in Nat /\ offset \in Nat
  BY <1>1 DEF BTypes
<1> QED BY <1>1, <1>2, <1>3, <1>4

LEMMA BAtStart ==
    ASSUME B!NcclAssumption, B!Init
    PROVE  BInv
<1>1. B!NoBucket \in Meta /\ B!NoBucket.names = <<>> /\ ~B!NoBucket.last /\ Len(<<>>) = 0
  BY DEF B!NoBucket, Meta
<1>2. BTypes
  <2>1. <<>> \in Seq(B!Weights) /\ <<>> \in Seq(Meta) /\ <<>> \in Seq(B!Weights \cup {B!Garbage})
    OBVIOUS
  <2>2. pc \in [B!Ranks -> MasterPcs \cup FollowerPcs]
    BY DEF B!Init, MasterPcs, FollowerPcs
  <2>3. buffers \in [B!Ranks -> [{0, 1} -> Seq(B!Weights)]]
    BY <2>1 DEF B!Init
  <2>4. /\ metadata \in [B!Ranks -> Meta] /\ topic \in [Followers -> Seq(Meta)]
        /\ current \in [Followers -> Meta]
        /\ received \in [Followers -> Seq(B!Weights \cup {B!Garbage})]
    BY <1>1, <2>1 DEF B!Init
  <2> QED BY <2>1, <2>2, <2>3, <2>4 DEF B!Init, BTypes
<1>3. Flushed = 0 /\ Reached = 0
  <2>1. phase[Master] = "none" /\ taken = 0 /\ packed = <<>>
    BY BConstants DEF B!Init
  <2>2. Flushed = 0 - 0 /\ ~Busy
    BY Zenon, <1>1, <2>1 DEF Flushed, Busy
  <2> QED BY <2>2 DEF Reached
<1>4. Span(0, 0) = <<>>
  BY SpanEmpty
<1>5. Packing
  <2>1. /\ pc[Master] = "fill" /\ phase[Master] = "none" /\ metadata[Master] = B!NoBucket
        /\ buffers[Master][send[Master]] = <<>> /\ packed = <<>> /\ taken = 0 /\ offset = 0
    BY BConstants DEF B!Init
  <2> QED BY <1>1, <1>3, <1>4, <2>1, BConstants DEF Packing, MasterPcs, Busy
<1>6. ASSUME NEW r \in Followers
      PROVE  Unpacking(r) /\ Stream(r) /\ Published(r)
  <2>1. /\ pc[r] = "start" /\ current[r] = B!NoBucket /\ yielded[r] = 0 /\ received[r] = <<>>
        /\ phase[r] = "none" /\ topic[r] = <<>>
    BY BConstants DEF B!Init
  <2>2. Begun(r) = 0 /\ Held(r) = 0
    BY <1>1, <2>1 DEF Begun, Held
  <2>3. Unpacking(r)
    BY <1>1, <2>1 DEF Unpacking, FollowerPcs
  <2>4. Stream(r)
    BY <1>1, <1>3, <1>4, <2>1, <2>2 DEF Stream
  <2> QED BY <2>1, <2>3, <2>4 DEF Published
<1>7. Stuck
  BY DEF B!Init, Stuck
<1> QED BY <1>2, <1>5, <1>6, <1>7 DEF BInv

-----------------------------------------------------------------------------
(* What a step of one rank leaves alone.                                   *)

Rests(r) ==
  /\ pc'[r] = pc[r] /\ buffers'[r] = buffers[r] /\ send'[r] = send[r] /\ target'[r] = target[r]
  /\ phase'[r] = phase[r] /\ metadata'[r] = metadata[r]
  /\ r \in Followers => /\ current'[r] = current[r] /\ yielded'[r] = yielded[r]
                        /\ received'[r] = received[r]

\* The master's broadcast is where it was.
Steady == Reached' = Reached /\ (LastOut => LastOut')

LEMMA FollowerRests ==
    ASSUME NEW r \in Followers, Rests(r), Steady, Unpacking(r), Stream(r)
    PROVE  Unpacking(r)' /\ Stream(r)'
<1>1. Begun(r)' = Begun(r) /\ Held(r)' = Held(r)
  BY DEF Rests, Begun, Held
<1>2. Unpacking(r)'
  BY DEF Rests, Unpacking
<1>3. Stream(r)'
  BY <1>1 DEF Rests, Steady, Stream
<1> QED BY <1>2, <1>3

LEMMA PublishedRests ==
    ASSUME NEW r \in Followers, Rests(r), topic'[r] = topic[r], Published(r),
           phase'[Master] = phase[Master], metadata'[Master] = metadata[Master]
    PROVE  Published(r)'
BY DEF Rests, Published

LEMMA MasterRests ==
    ASSUME B!NcclAssumption, Packing, Rests(Master), packed' = packed, offset' = offset,
           taken' = taken
    PROVE  Packing' /\ Steady
<1>1. Flushed' = Flushed /\ (Busy' <=> Busy)
  BY DEF Flushed, Busy, Rests
<1>2. Reached' = Reached /\ (LastOut' <=> LastOut)
  BY <1>1 DEF Reached, LastOut, Rests
<1>3. Packing'
  BY <1>1, <1>2 DEF Packing, Rests
<1> QED BY <1>2, <1>3 DEF Steady

\* A step of a receiver disturbs no one else.
LEMMA FollowerKeeps ==
    ASSUME B!NcclAssumption, BInv, BTypes', NEW r \in Followers,
           \A q \in B!Ranks \ {r} : Rests(q),
           \A q \in Followers \ {r} : topic'[q] = topic[q],
           packed' = packed, offset' = offset, taken' = taken, missed' = missed,
           phase[r] # "broadcast" /\ topic[r] = <<>> =>
             phase'[r] # "broadcast" /\ topic'[r] = <<>>,
           Steady => Unpacking(r)' /\ Stream(r)' /\ Published(r)'
    PROVE  BInv'
<1>1. Packing /\ Stuck /\ \A q \in Followers : Unpacking(q) /\ Stream(q) /\ Published(q)
  BY DEF BInv
<1>2. Rests(Master) /\ r \in B!Ranks
  BY BConstants
<1>3. Packing' /\ Steady
  BY <1>1, <1>2, MasterRests
<1>4. phase'[Master] = phase[Master] /\ metadata'[Master] = metadata[Master]
  BY <1>2 DEF Rests
<1>5. ASSUME NEW q \in Followers
      PROVE  Unpacking(q)' /\ Stream(q)' /\ Published(q)'
  <2>1. CASE q = r
    BY <1>3, <2>1
  <2>2. CASE q # r
    <3>1. Rests(q) /\ topic'[q] = topic[q]
      BY <2>2, BConstants
    <3> QED BY <1>1, <1>3, <1>4, <3>1, FollowerRests, PublishedRests
  <2> QED BY <2>1, <2>2
<1>6. Stuck'
  <2> SUFFICES ASSUME missed
               PROVE  \E q \in Followers : phase'[q] # "broadcast" /\ topic'[q] = <<>>
    BY <1>1, <1>4 DEF Stuck
  <2>1. PICK q \in Followers : phase[q] # "broadcast" /\ topic[q] = <<>>
    BY <1>1 DEF Stuck
  <2>2. CASE q = r
    BY <2>1, <2>2
  <2>3. CASE q # r
    <3>1. Rests(q) /\ topic'[q] = topic[q]
      BY <2>3, BConstants
    <3> QED BY <2>1, <3>1 DEF Rests
  <2> QED BY <2>2, <2>3
<1> QED BY <1>3, <1>5, <1>6 DEF BInv

-----------------------------------------------------------------------------
(* The steps of a receiver.                                                *)

LEMMA SubscribeStep ==
    ASSUME B!NcclAssumption, BInv, NEW r \in Followers, B!Subscribe(r)
    PROVE  BInv'
<1>1. /\ subscribed' = subscribed \cup {r}
      /\ UNCHANGED <<pc, buffers, send, packed, offset, taken, phase, target, metadata, topic,
                     missed, current, yielded, received>>
  BY DEF B!Subscribe, B!packing, B!operation, B!consumer
<1>2. BTypes'
  BY <1>1, BTypesOf DEF BTypes
<1>3. \A q \in B!Ranks : Rests(q)
  BY <1>1 DEF Rests
<1>4. Steady => Unpacking(r)' /\ Stream(r)' /\ Published(r)'
  BY <1>1, <1>3, BTypesOf, BConstants, FollowerRests, PublishedRests
<1> QED BY <1>1, <1>2, <1>3, <1>4, FollowerKeeps

LEMMA StartReceiveStep ==
    ASSUME B!NcclAssumption, BInv, NEW r \in Followers, NEW here, NEW then,
           \/ here = "start" /\ then = "swap"
           \/ here = "next" /\ then = "yield",
           B!StartReceive(r, here, then)
    PROVE  BInv'
<1>1. /\ pc[r] = here /\ pc' = [pc EXCEPT ![r] = then]
      /\ phase' = [phase EXCEPT ![r] = "metadata"]
      /\ target' = [target EXCEPT ![r] = B!Other(send[r])]
      /\ metadata' = [metadata EXCEPT ![r] = B!NoBucket]
      /\ UNCHANGED <<buffers, send, packed, offset, taken, topic, subscribed, missed, current,
                     yielded, received>>
  BY DEF B!StartReceive, B!Begin, B!packing, B!socket, B!consumer
<1>2. /\ r \in B!Ranks /\ r # Master /\ BTypes /\ Unpacking(r) /\ Stream(r) /\ Published(r)
      /\ send[r] \in {0, 1}
  BY BTypesOf, BConstants
<1>3. B!NoBucket \in Meta /\ ~B!NoBucket.last /\ B!NoBucket.names = <<>> /\ Len(<<>>) = 0
  BY DEF B!NoBucket, Meta
<1>4. /\ pc'[r] = then /\ phase'[r] = "metadata" /\ target'[r] = B!Other(send[r])
      /\ \A q \in B!Ranks \ {r} : /\ pc'[q] = pc[q] /\ phase'[q] = phase[q]
                                /\ target'[q] = target[q] /\ metadata'[q] = metadata[q]
  BY <1>1, <1>2 DEF BTypes
<1>5. B!Other(send[r]) \in {0, 1} /\ B!Other(send[r]) # send[r]
  BY <1>2, OtherBuffer
<1>6. BTypes'
  <2>1. pc' \in [B!Ranks -> MasterPcs \cup FollowerPcs]
    BY <1>1, <1>2 DEF BTypes, FollowerPcs
  <2>2. /\ phase' \in [B!Ranks -> {"none", "metadata", "broadcast", "done"}]
        /\ target' \in [B!Ranks -> {0, 1}] /\ metadata' \in [B!Ranks -> Meta]
    BY <1>1, <1>2, <1>3, <1>5 DEF BTypes
  <2> QED BY <1>1, <1>2, <2>1, <2>2 DEF BTypes
<1>7. \A q \in B!Ranks \ {r} : Rests(q)
  BY <1>1, <1>4 DEF Rests
<1>8. phase[r] = "none" /\ ~current[r].last
  BY <1>1, <1>2, <1>3 DEF Unpacking
<1>9. Unpacking(r)'
  <2>1. CASE here = "start"
    <3>1. pc'[r] = "swap" /\ yielded[r] = Len(current[r].names)
      BY <1>1, <1>2, <1>3, <1>4, <2>1 DEF Unpacking
    <3> QED BY <1>1, <1>4, <1>5, <1>8, <3>1 DEF Unpacking, FollowerPcs
  <2>2. CASE here = "next"
    <3>1. pc'[r] = "yield" /\ buffers[r][send[r]] = current[r].names
      BY <1>1, <1>2, <1>4, <2>2 DEF Unpacking
    <3> QED BY <1>1, <1>4, <1>5, <1>8, <3>1 DEF Unpacking, FollowerPcs
  <2> QED BY <2>1, <2>2
<1>10. ASSUME Steady
       PROVE  Stream(r)' /\ Published(r)'
  <2>1. Begun(r)' = Begun(r) /\ Held(r)' = Held(r)
    BY <1>1 DEF Begun, Held
  <2>2. Stream(r)'
    BY <1>1, <1>2, <1>4, <1>8, <1>10, <2>1 DEF Stream, Steady
  <2>3. phase'[Master] = phase[Master] /\ metadata'[Master] = metadata[Master]
    BY <1>2, <1>4, BConstants
  <2> QED BY <1>1, <1>2, <1>4, <1>8, <2>2, <2>3 DEF Published
<1>11. phase[r] # "broadcast" /\ topic[r] = <<>> => phase'[r] # "broadcast" /\ topic'[r] = <<>>
  BY <1>1, <1>4
<1> QED BY <1>1, <1>6, <1>7, <1>9, <1>10, <1>11, FollowerKeeps

LEMMA ReceiveMetadataStep ==
    ASSUME B!NcclAssumption, BInv, NEW r \in Followers, B!ReceiveMetadata(r)
    PROVE  BInv'
<1>1. /\ phase[r] = "metadata" /\ topic[r] # <<>>
      /\ phase' = [phase EXCEPT ![r] = "broadcast"]
      /\ metadata' = [metadata EXCEPT ![r] = Head(topic[r])]
      /\ topic' = [topic EXCEPT ![r] = Tail(@)]
      /\ UNCHANGED <<pc, buffers, send, packed, offset, taken, target, subscribed, missed, current,
                     yielded, received>>
  BY DEF B!ReceiveMetadata, B!packing, B!consumer
<1>2. r \in B!Ranks /\ r # Master /\ BTypes /\ Unpacking(r) /\ Stream(r) /\ Published(r)
  BY BTypesOf, BConstants
<1>3. topic[r] = <<metadata[Master]>> /\ phase[Master] = "broadcast"
  BY <1>1, <1>2 DEF Published
<1>4. Head(topic[r]) = metadata[Master] /\ Tail(topic[r]) = <<>>
  BY <1>3
<1>5. /\ phase'[r] = "broadcast" /\ metadata'[r] = metadata[Master] /\ topic'[r] = <<>>
      /\ \A q \in B!Ranks \ {r} : phase'[q] = phase[q] /\ metadata'[q] = metadata[q]
      /\ \A q \in Followers \ {r} : topic'[q] = topic[q]
  BY <1>1, <1>2, <1>4 DEF BTypes
<1>6. BTypes'
  <2>1. metadata[Master] \in Meta /\ <<>> \in Seq(Meta)
    BY BTypesOf, BConstants
  <2>2. /\ phase' \in [B!Ranks -> {"none", "metadata", "broadcast", "done"}]
        /\ metadata' \in [B!Ranks -> Meta] /\ topic' \in [Followers -> Seq(Meta)]
    BY <1>1, <1>2, <1>4, <2>1 DEF BTypes
  <2> QED BY <1>1, <1>2, <2>2 DEF BTypes
<1>7. \A q \in B!Ranks \ {r} : Rests(q)
  BY <1>1, <1>5 DEF Rests
<1>8. Unpacking(r)'
  BY <1>1, <1>2, <1>5 DEF Unpacking
<1>9. ASSUME Steady
      PROVE  Stream(r)' /\ Published(r)'
  <2>1. Begun(r)' = Begun(r) /\ Held(r)' = Held(r)
    BY <1>1 DEF Begun, Held
  <2>2. Stream(r)'
    BY <1>1, <1>2, <1>5, <1>9, <2>1 DEF Stream, Steady
  <2>3. phase'[Master] = "broadcast" /\ metadata'[Master] = metadata[Master]
    BY <1>2, <1>3, <1>5, BConstants
  <2> QED BY <1>5, <2>2, <2>3 DEF Published
<1> QED BY <1>1, <1>5, <1>6, <1>7, <1>8, <1>9, FollowerKeeps


LEMMA NcclSwapStep ==
    ASSUME B!NcclAssumption, BInv, NEW r \in Followers, B!Swap(r)
    PROVE  BInv'
<1>1. /\ pc[r] = "swap" /\ phase[r] = "done"
      /\ phase' = [phase EXCEPT ![r] = "none"]
      /\ send' = [send EXCEPT ![r] = B!Other(@)]
      /\ current' = [current EXCEPT ![r] = metadata[r]]
      /\ yielded' = [yielded EXCEPT ![r] = 0]
      /\ pc' = [pc EXCEPT ![r] = IF metadata[r].last THEN "yield" ELSE "next"]
      /\ UNCHANGED <<buffers, packed, offset, taken, target, metadata, topic, subscribed, missed,
                     received>>
  BY DEF B!Swap, B!Swapped, B!packing, B!socket
<1>2. /\ r \in B!Ranks /\ r # Master /\ BTypes /\ Unpacking(r) /\ Stream(r) /\ Published(r)
      /\ send[r] \in {0, 1} /\ target[r] \in {0, 1} /\ metadata[r] \in Meta
  BY BTypesOf, BConstants
<1>3. /\ pc'[r] = (IF metadata[r].last THEN "yield" ELSE "next") /\ phase'[r] = "none"
      /\ send'[r] = B!Other(send[r]) /\ current'[r] = metadata[r] /\ yielded'[r] = 0
      /\ \A q \in B!Ranks \ {r} : pc'[q] = pc[q] /\ phase'[q] = phase[q] /\ send'[q] = send[q]
      /\ \A q \in Followers \ {r} : current'[q] = current[q] /\ yielded'[q] = yielded[q]
  BY <1>1, <1>2 DEF BTypes
<1>4. B!Other(send[r]) \in {0, 1} /\ target[r] = B!Other(send[r])
  BY <1>1, <1>2 DEF Unpacking, B!Other
<1>5. BTypes'
  <2>1. pc' \in [B!Ranks -> MasterPcs \cup FollowerPcs]
    BY <1>1, <1>2 DEF BTypes, FollowerPcs
  <2>2. /\ phase' \in [B!Ranks -> {"none", "metadata", "broadcast", "done"}]
        /\ send' \in [B!Ranks -> {0, 1}] /\ current' \in [Followers -> Meta]
        /\ yielded' \in [Followers -> Nat]
    BY <1>1, <1>2, <1>4 DEF BTypes
  <2> QED BY <1>1, <1>2, <2>1, <2>2 DEF BTypes
<1>6. \A q \in B!Ranks \ {r} : Rests(q)
  BY <1>1, <1>3 DEF Rests
<1>7. PICK n \in Nat, c \in Nat, k \in Nat :
        n = Len(received[r]) /\ c = Len(current[r].names) /\ k = Len(metadata[r].names)
  BY Zenon, <1>2, BTypesOf
<1>8. yielded[r] = c /\ Begun(r) = n - c /\ Held(r) = n - c + c
  <2>1. yielded[r] = c
    BY <1>1, <1>2, <1>7 DEF Unpacking
  <2> QED BY Zenon, <1>7, <2>1 DEF Begun, Held
<1>9. Held(r) = n
  BY <1>7, <1>8
<1>10. Begun(r)' = n - 0 /\ Held(r)' = n - 0 + k
  BY Zenon, <1>1, <1>3, <1>7 DEF Begun, Held
<1>11. Begun(r)' = n /\ Held(r)' = n + k
  BY <1>7, <1>10
<1>12. /\ metadata[r].names = Span(n, k) /\ n + k = Reached
       /\ buffers[r][B!Other(send[r])] = metadata[r].names /\ (metadata[r].last => LastOut)
  BY Zenon, <1>1, <1>2, <1>4, <1>7, <1>9 DEF Stream
<1>13. Unpacking(r)'
  <2>1. buffers'[r][send'[r]] = current'[r].names
    BY <1>1, <1>3, <1>12
  <2> QED BY <1>3, <2>1 DEF Unpacking, FollowerPcs
<1>14. ASSUME Steady
       PROVE  Stream(r)' /\ Published(r)'
  <2>1. yielded'[r] <= k /\ yielded'[r] <= n /\ received'[r] = received[r]
    BY <1>1, <1>3, <1>7
  <2>2. received[r] = Span(0, n)
    BY <1>2, <1>7 DEF Stream
  <2>3. Held(r)' = Reached' /\ (current'[r].last => LastOut')
    BY <1>3, <1>11, <1>12, <1>14 DEF Steady
  <2>4. Stream(r)'
    BY <1>3, <1>7, <1>11, <1>12, <2>1, <2>2, <2>3 DEF Stream
  <2>5. phase'[Master] = phase[Master] /\ metadata'[Master] = metadata[Master]
    BY <1>1, <1>2, <1>3, BConstants
  <2> QED BY <1>1, <1>2, <1>3, <2>4, <2>5 DEF Published
<1>15. phase[r] # "broadcast" /\ topic[r] = <<>> => phase'[r] # "broadcast" /\ topic'[r] = <<>>
  BY <1>1, <1>3
<1> QED BY <1>1, <1>5, <1>6, <1>13, <1>14, <1>15, FollowerKeeps

LEMMA NcclYieldStep ==
    ASSUME B!NcclAssumption, BInv, NEW r \in Followers, B!Yield(r)
    PROVE  BInv' /\ received' = [received EXCEPT ![r] = Append(@, Len(received[r]) + 1)]
           /\ Len(received[r]) + 1 \in B!Weights
<1> DEFINE held == buffers[r][send[r]]
<1>1. r \in B!Ranks /\ r # Master /\ BTypes /\ Unpacking(r) /\ Stream(r) /\ Published(r)
  BY BTypesOf, BConstants
<1>2. PICK y \in Nat, n \in Nat, c \in Nat :
        y = yielded[r] /\ n = Len(received[r]) /\ c = Len(current[r].names)
  BY Zenon, BTypesOf
<1>3. /\ pc[r] = "yield" /\ y + 1 <= c /\ yielded' = [yielded EXCEPT ![r] = y + 1]
      /\ received' = [received EXCEPT ![r] =
           Append(@, IF y + 1 <= Len(held) /\ held[y + 1] = current[r].names[y + 1]
                     THEN current[r].names[y + 1] ELSE B!Garbage)]
      /\ UNCHANGED <<pc, buffers, send, packed, offset, taken, phase, target, metadata, topic,
                     subscribed, missed, current>>
  BY <1>2 DEF B!Yield, B!packing, B!operation, B!socket
<1>4. /\ held = current[r].names /\ y <= n /\ Begun(r) = n - y
      /\ current[r].names = Span(n - y, c) /\ received[r] = Span(0, n)
  BY <1>1, <1>2, <1>3 DEF Unpacking, Stream, Begun
<1> HIDE DEF held
<1>5. current[r].names[y + 1] = n + 1
  <2>1. PICK a \in Nat : a = n - y
    BY <1>4
  <2>2. y + 1 \in 1 .. c /\ a + (y + 1) = n + 1
    BY <1>3, <2>1
  <2>3. Span(a, c)[y + 1] = a + (y + 1)
    BY <2>2, SpanLen
  <2> QED BY <1>4, <2>1, <2>2, <2>3
<1>6. n + 1 \in B!Weights
  <2>1. current[r].names \in Seq(B!Weights) /\ y + 1 \in 1 .. Len(current[r].names)
    BY <1>2, <1>3, BTypesOf
  <2>2. current[r].names[y + 1] \in B!Weights
    BY <2>1
  <2> QED BY <1>5, <2>2
<1>7. received' = [received EXCEPT ![r] = Append(@, n + 1)]
  BY Zenon, <1>2, <1>3, <1>4, <1>5
<1>8. /\ yielded'[r] = y + 1 /\ received'[r] = Append(received[r], n + 1)
      /\ \A q \in Followers \ {r} : yielded'[q] = yielded[q] /\ received'[q] = received[q]
  BY <1>1, <1>3, <1>7 DEF BTypes
<1>9. received'[r] \in Seq(B!Weights \cup {B!Garbage}) /\ Len(received'[r]) = n + 1
  <2>1. PICK w \in B!Weights \cup {B!Garbage} : w = n + 1
    BY <1>6
  <2>2. received'[r] = Append(received[r], w) /\ received[r] \in Seq(B!Weights \cup {B!Garbage})
    BY <1>8, <2>1, BTypesOf
  <2> QED BY <1>2, <2>2
<1>10. BTypes'
  <2>1. yielded' \in [Followers -> Nat]
    BY <1>1, <1>3 DEF BTypes
  <2>2. received' \in [Followers -> Seq(B!Weights \cup {B!Garbage})]
    BY Zenon, <1>1, <1>7, <1>8, <1>9 DEF BTypes
  <2> QED BY Zenon, <1>1, <1>3, <2>1, <2>2 DEF BTypes
<1>11. \A q \in B!Ranks \ {r} : Rests(q)
  BY <1>3, <1>8 DEF Rests
<1>12. Begun(r)' = Begun(r) /\ Held(r)' = Held(r)
  <2>1. Begun(r)' = (n + 1) - (y + 1)
    BY <1>8, <1>9 DEF Begun
  <2>2. (n + 1) - (y + 1) = n - y
    BY <1>2
  <2> QED BY <1>3, <1>4, <2>1, <2>2 DEF Held
<1>13. Unpacking(r)'
  BY <1>1, <1>3 DEF Unpacking
<1>14. ASSUME Steady
       PROVE  Stream(r)' /\ Published(r)'
  <2>1. received'[r] = Span(0, n + 1)
    <3>1. Append(Span(0, n), 0 + n + 1) = Span(0, n + 1)
      BY Zenon, SpanGrows
    <3>2. 0 + n + 1 = n + 1
      OBVIOUS
    <3> QED BY <1>4, <1>8, <3>1, <3>2
  <2>2. yielded'[r] <= Len(current[r].names) /\ yielded'[r] <= Len(received'[r])
    BY <1>2, <1>3, <1>4, <1>8, <1>9
  <2>3. Stream(r)'
    BY <1>1, <1>3, <1>9, <1>12, <1>14, <2>1, <2>2 DEF Stream, Steady
  <2> QED BY <1>1, <1>3, <2>3 DEF Published
<1>15. BInv'
  BY <1>3, <1>10, <1>11, <1>13, <1>14, FollowerKeeps
<1> QED BY <1>2, <1>6, <1>7, <1>15

LEMMA NcclYieldEndsStep ==
    ASSUME B!NcclAssumption, BInv, NEW r \in Followers, B!YieldEnds(r)
    PROVE  BInv'
<1>1. /\ pc[r] = "yield" /\ yielded[r] = Len(current[r].names)
      /\ pc' = [pc EXCEPT ![r] = IF current[r].last THEN "done" ELSE "swap"]
      /\ UNCHANGED <<buffers, send, packed, offset, taken, phase, target, metadata, topic,
                     subscribed, missed, current, yielded, received>>
  BY DEF B!YieldEnds, B!packing, B!operation, B!socket, B!consumer
<1>2. r \in B!Ranks /\ r # Master /\ BTypes /\ Unpacking(r) /\ Stream(r) /\ Published(r)
  BY BTypesOf, BConstants
<1>3. /\ pc'[r] = (IF current[r].last THEN "done" ELSE "swap")
      /\ \A q \in B!Ranks \ {r} : pc'[q] = pc[q]
      /\ pc' \in [B!Ranks -> MasterPcs \cup FollowerPcs]
  BY <1>1, <1>2 DEF BTypes, FollowerPcs
<1>4. BTypes'
  BY <1>1, <1>2, <1>3 DEF BTypes
<1>5. \A q \in B!Ranks \ {r} : Rests(q)
  BY <1>1, <1>3 DEF Rests
<1>6. Begun(r)' = Begun(r) /\ Held(r)' = Held(r)
  BY <1>1 DEF Begun, Held
<1>7. Unpacking(r)'
  BY <1>1, <1>2, <1>3 DEF Unpacking, FollowerPcs
<1>8. ASSUME Steady
      PROVE  Stream(r)' /\ Published(r)'
  BY <1>1, <1>2, <1>6, <1>8 DEF Stream, Published, Steady
<1> QED BY <1>1, <1>4, <1>5, <1>7, <1>8, FollowerKeeps

-----------------------------------------------------------------------------
(* The steps of the master, and the broadcast.                             *)

LEMMA NcclFillStep ==
    ASSUME B!NcclAssumption, BInv, B!Fill
    PROVE  BInv'
<1>1. /\ pc[Master] = "fill" /\ taken < W /\ offset + Sizes[taken + 1] <= BucketSize
      /\ taken' = taken + 1 /\ packed' = Append(packed, taken + 1)
      /\ offset' = offset + Sizes[taken + 1]
      /\ buffers' = [buffers EXCEPT ![Master][send[Master]] = packed']
      /\ UNCHANGED <<pc, send, phase, target, metadata, topic, subscribed, missed, current,
                     yielded, received>>
  BY DEF B!Fill, B!NextFits, B!operation, B!socket, B!consumer, W
<1>2. /\ Master \in B!Ranks /\ taken \in Nat /\ packed \in Seq(B!Weights) /\ Len(packed) \in Nat
      /\ send[Master] \in {0, 1} /\ target[Master] \in {0, 1} /\ offset \in Nat /\ W \in Nat
      /\ buffers \in [B!Ranks -> [{0, 1} -> Seq(B!Weights)]] /\ BTypes /\ Packing /\ Stuck
  BY BTypesOf, BConstants DEF BTypes
<1>3. packed' \in Seq(B!Weights) /\ Len(packed') = Len(packed) + 1 /\ packed' # <<>>
  <2>1. PICK w \in B!Weights : w = taken + 1
    BY <1>1, <1>2, BConstants
  <2>2. packed' = Append(packed, w)
    BY <1>1, <2>1
  <2>3. packed' \in Seq(B!Weights) /\ Len(packed') = Len(packed) + 1
    BY <1>2, <2>2
  <2> QED BY <1>2, <2>3
<1>4. /\ buffers'[Master][send[Master]] = packed'
      /\ \A b \in {0, 1} : b # send[Master] => buffers'[Master][b] = buffers[Master][b]
      /\ \A q \in B!Ranks \ {Master} : buffers'[q] = buffers[q]
      /\ buffers' \in [B!Ranks -> [{0, 1} -> Seq(B!Weights)]]
  BY Zenon, <1>1, <1>2, <1>3
<1>5. BTypes'
  <2>1. Sizes[taken + 1] \in Nat
    BY <1>1, <1>2, BConstants
  <2>2. taken' \in Nat /\ offset' \in Nat
    BY <1>1, <1>2, <2>1
  <2> QED BY Zenon, <1>1, <1>2, <1>3, <1>4, <2>2 DEF BTypes
<1>6. PICK a \in Nat : a = Flushed /\ a = taken - Len(packed)
  <2>1. Len(packed) <= taken
    BY <1>2 DEF Packing
  <2>2. taken - Len(packed) \in Nat
    BY <1>2, <2>1
  <2> QED BY <2>2 DEF Flushed
<1>7. Flushed' = a /\ taken' = a + Len(packed) + 1 /\ taken' <= W /\ Len(packed') <= taken'
  <2>1. PICK k \in Nat, t \in Nat : k = Len(packed) /\ t = taken /\ a = t - k /\ k <= t
    BY Zenon, <1>2, <1>6 DEF Packing
  <2>2. taken' = t + 1 /\ Len(packed') = k + 1 /\ t < W
    BY Zenon, <1>1, <1>3, <2>1
  <2>3. t + 1 = a + k + 1 /\ (t + 1) - (k + 1) = a /\ t + 1 <= W /\ k + 1 <= t + 1
    <3>1. W \in Nat
      BY <1>2
    <3> QED BY <2>1, <2>2, <3>1
  <2>4. Flushed' = (t + 1) - (k + 1)
    BY Zenon, <2>2 DEF Flushed
  <2> QED BY Zenon, <2>1, <2>2, <2>3, <2>4
<1>8. (Busy' <=> Busy) /\ Reached' = Reached /\ (LastOut' <=> LastOut)
  BY <1>1, <1>6, <1>7 DEF Busy, Reached, LastOut
<1>9. Packing'
  <2>1. packed' = Span(a, Len(packed'))
    <3>1. packed = Span(a, Len(packed)) /\ packed' = Append(packed, a + Len(packed) + 1)
      BY <1>1, <1>2, <1>6, <1>7 DEF Packing
    <3>2. packed' = Span(a, Len(packed) + 1)
      BY <1>2, <1>6, <3>1, SpanGrows
    <3> QED BY <1>3, <3>2
  <2>2. Busy => /\ target[Master] # send[Master]
                /\ buffers'[Master][target[Master]] = metadata[Master].names
    BY <1>2, <1>4 DEF Packing
  <2> QED BY <1>1, <1>2, <1>3, <1>4, <1>6, <1>7, <1>8, <2>1, <2>2 DEF Packing
<1>10. ASSUME NEW r \in Followers
       PROVE  Unpacking(r)' /\ Stream(r)' /\ Published(r)'
  <2>1. r \in B!Ranks /\ r # Master
    BY BConstants
  <2>2. Rests(r) /\ Steady
    BY <1>1, <1>4, <1>8, <2>1 DEF Rests, Steady
  <2> QED BY <1>1, <2>2, BTypesOf, FollowerRests, PublishedRests
<1>11. Stuck'
  BY <1>1, <1>2 DEF Stuck
<1> QED BY <1>5, <1>9, <1>10, <1>11 DEF BInv

LEMMA NcclFlushStep ==
    ASSUME B!NcclAssumption, BInv, B!Flush
    PROVE  BInv'
<1> DEFINE last == taken = Len(Sizes)
           m == [names |-> packed, last |-> last]
<1>1. /\ pc[Master] = "fill" /\ ~B!NextFits /\ phase[Master] \in {"none", "done"}
      /\ phase' = [phase EXCEPT ![Master] = "metadata"]
      /\ target' = [target EXCEPT ![Master] = send[Master]]
      /\ metadata' = [metadata EXCEPT ![Master] = m]
      /\ send' = [send EXCEPT ![Master] = B!Other(@)]
      /\ packed' = <<>> /\ offset' = 0
      /\ pc' = [pc EXCEPT ![Master] = IF last THEN "wait" ELSE "fill"]
      /\ UNCHANGED <<buffers, taken, topic, subscribed, missed, current, yielded, received>>
  BY DEF B!Flush, B!Idle, B!Begin, B!Swapped, B!socket, B!consumer
<1>2. /\ Master \in B!Ranks /\ taken \in Nat /\ packed \in Seq(B!Weights) /\ Len(packed) \in Nat
      /\ send[Master] \in {0, 1} /\ offset \in Nat /\ W \in Nat /\ BTypes /\ Packing /\ Stuck
  BY BTypesOf, BConstants
<1>3. m \in Meta
  BY <1>2 DEF Meta
<1>4. Len(packed) <= taken /\ taken <= W /\ packed = Span(Flushed, Len(packed))
  BY <1>2 DEF Packing
<1>5. buffers[Master][send[Master]] = packed
  <2>1. CASE packed = <<>> /\ taken < W
    <3>1. offset = 0 /\ Sizes[taken + 1] <= BucketSize /\ Sizes[taken + 1] \in Nat
      BY <1>2, <1>4, <2>1, BConstants DEF Packing
    <3> QED BY <1>1, <2>1, <3>1 DEF B!NextFits, W
  <2> QED BY <1>1, <1>2, <2>1 DEF Packing
<1>6. m.names = packed /\ (m.last <=> last)
  OBVIOUS
<1> HIDE DEF m
<1>7. /\ phase'[Master] = "metadata" /\ target'[Master] = send[Master] /\ metadata'[Master] = m
      /\ send'[Master] = B!Other(send[Master]) /\ pc'[Master] = (IF last THEN "wait" ELSE "fill")
      /\ \A q \in B!Ranks \ {Master} :
           /\ pc'[q] = pc[q] /\ send'[q] = send[q] /\ target'[q] = target[q]
           /\ phase'[q] = phase[q] /\ metadata'[q] = metadata[q]
  BY <1>1, <1>2 DEF BTypes
<1>8. B!Other(send[Master]) \in {0, 1} /\ B!Other(send[Master]) # send[Master]
  BY <1>2, OtherBuffer
<1>9. BTypes'
  <2>1. pc' \in [B!Ranks -> MasterPcs \cup FollowerPcs]
    BY <1>1, <1>2 DEF BTypes, MasterPcs
  <2>2. /\ phase' \in [B!Ranks -> {"none", "metadata", "broadcast", "done"}]
        /\ target' \in [B!Ranks -> {0, 1}] /\ send' \in [B!Ranks -> {0, 1}]
    BY <1>1, <1>2, <1>8 DEF BTypes
  <2>3. metadata' \in [B!Ranks -> Meta]
    BY <1>1, <1>2, <1>3 DEF BTypes
  <2>4. packed' \in Seq(B!Weights) /\ offset' \in Nat
    BY <1>1
  <2> QED BY <1>1, <1>2, <2>1, <2>2, <2>3, <2>4 DEF BTypes
<1>10. PICK a \in Nat, k \in Nat : a = Flushed /\ k = Len(packed) /\ a + k = taken
  <2>1. taken - Len(packed) \in Nat /\ taken - Len(packed) + Len(packed) = taken
    BY <1>2, <1>4
  <2> QED BY <1>2, <2>1 DEF Flushed
<1>11. Flushed' = taken /\ Reached = a /\ Busy' /\ Reached' = a
  <2>1. Len(packed') = 0 /\ taken' = taken
    BY <1>1
  <2>2. Flushed' = taken - 0
    BY Zenon, <2>1 DEF Flushed
  <2>3. Flushed' = taken
    BY <1>2, <2>2
  <2>4. ~Busy /\ Busy'
    BY <1>1, <1>7 DEF Busy
  <2>5. Reached = a
    BY <1>10, <2>4 DEF Reached
  <2>6. Len(metadata'[Master].names) = k
    BY <1>6, <1>7, <1>10
  <2>7. Reached' = taken - k
    BY Zenon, <2>3, <2>4, <2>6 DEF Reached
  <2>8. taken - k = a
    BY <1>2, <1>10
  <2> QED BY <2>3, <2>4, <2>5, <2>7, <2>8
<1>12. ~LastOut
  BY <1>1 DEF LastOut
<1>13. Packing'
  <2>1. packed' = Span(Flushed', Len(packed')) /\ Len(packed') = 0 /\ Len(packed') <= taken'
    BY <1>1, <1>2, <1>11, SpanEmpty
  <2>2. last \/ taken < W
    BY <1>2, <1>4 DEF W
  <2>3. /\ metadata'[Master].names = Span(Reached', Len(metadata'[Master].names))
        /\ Len(metadata'[Master].names) <= Flushed'
        /\ buffers'[Master][target'[Master]] = metadata'[Master].names
    BY <1>1, <1>2, <1>4, <1>5, <1>6, <1>7, <1>10, <1>11
  <2>4. target'[Master] # send'[Master]
    BY <1>7, <1>8
  <2> QED BY <1>1, <1>2, <1>4, <1>6, <1>7, <2>1, <2>2, <2>3, <2>4 DEF Packing, MasterPcs, W
<1>14. ASSUME NEW r \in Followers
       PROVE  Unpacking(r)' /\ Stream(r)' /\ Published(r)'
  <2>1. r \in B!Ranks /\ r # Master /\ Unpacking(r) /\ Stream(r) /\ Published(r)
    BY BTypesOf, BConstants
  <2>2. Rests(r) /\ Steady
    BY <1>1, <1>7, <1>10, <1>11, <1>12, <2>1 DEF Rests, Steady
  <2>3. topic[r] = <<>> /\ phase[r] # "broadcast"
    BY <1>1, <2>1 DEF Published
  <2>4. Published(r)'
    BY <1>1, <1>7, <2>1, <2>3 DEF Published
  <2> QED BY <2>1, <2>2, <2>4, FollowerRests
<1>15. Stuck'
  BY <1>1, <1>2 DEF Stuck
<1> QED BY <1>9, <1>13, <1>14, <1>15 DEF BInv

LEMMA NcclPublishStep ==
    ASSUME B!NcclAssumption, BInv, B!Publish
    PROVE  BInv'
<1>1. /\ phase[Master] = "metadata" /\ phase' = [phase EXCEPT ![Master] = "broadcast"]
      /\ topic' = [r \in Followers |->
                     IF r \in subscribed THEN Append(topic[r], metadata[Master]) ELSE topic[r]]
      /\ missed' = (missed \/ subscribed # Followers)
      /\ UNCHANGED <<pc, buffers, send, packed, offset, taken, target, metadata, subscribed,
                     current, yielded, received>>
  BY DEF B!Publish, B!packing, B!consumer
<1>2. /\ Master \in B!Ranks /\ metadata[Master] \in Meta /\ subscribed \subseteq Followers
      /\ missed \in BOOLEAN /\ BTypes /\ Packing /\ Stuck
  BY BTypesOf, BConstants DEF BTypes
<1>3. /\ phase'[Master] = "broadcast" /\ \A q \in B!Ranks \ {Master} : phase'[q] = phase[q]
      /\ phase' \in [B!Ranks -> {"none", "metadata", "broadcast", "done"}]
  BY <1>1, <1>2 DEF BTypes
<1>4. ASSUME NEW r \in Followers
      PROVE  topic[r] = <<>> /\ phase[r] # "broadcast" /\ phase'[r] # "broadcast"
  BY <1>1, <1>3, BTypesOf, BConstants DEF Published
<1>5. ASSUME NEW r \in Followers
      PROVE  topic'[r] = (IF r \in subscribed THEN <<metadata[Master]>> ELSE <<>>)
  <2>1. PICK m \in Meta : m = metadata[Master]
    BY Zenon, <1>2
  <2>2. topic'[r] = IF r \in subscribed THEN Append(<<>>, m) ELSE <<>>
    BY Zenon, <1>1, <1>4, <2>1
  <2>3. Append(<<>>, m) = <<m>>
    OBVIOUS
  <2> QED BY Zenon, <2>1, <2>2, <2>3
<1>6. BTypes'
  <2>1. ASSUME NEW r \in Followers
        PROVE  topic'[r] \in Seq(Meta)
    <3>1. PICK m \in Meta : m = metadata[Master]
      BY Zenon, <1>2
    <3>2. <<m>> \in Seq(Meta) /\ <<>> \in Seq(Meta)
      OBVIOUS
    <3> QED BY Zenon, <1>5, <3>1, <3>2
  <2>2. topic' \in [Followers -> Seq(Meta)]
    BY Zenon, <1>1, <2>1
  <2>3. missed' \in BOOLEAN
    BY <1>1
  <2> QED BY Zenon, <1>1, <1>2, <1>3, <2>2, <2>3 DEF BTypes
<1>7. Busy /\ Busy' /\ Flushed' = Flushed /\ Reached' = Reached /\ ~LastOut
  BY <1>1, <1>3 DEF Busy, Flushed, Reached, LastOut
<1>8. Packing'
  BY <1>1, <1>2, <1>3, <1>7 DEF Packing
<1>9. ASSUME NEW r \in Followers
      PROVE  Unpacking(r)' /\ Stream(r)' /\ Published(r)'
  <2>1. Rests(r) /\ Steady
    BY <1>1, <1>3, <1>7, BConstants DEF Rests, Steady
  <2>2. Published(r)'
    BY <1>1, <1>3, <1>4, <1>5 DEF Published
  <2> QED BY <2>1, <2>2, BTypesOf, FollowerRests
<1>10. Stuck'
  <2> SUFFICES ASSUME missed'
               PROVE  \E r \in Followers : phase'[r] # "broadcast" /\ topic'[r] = <<>>
    BY <1>3 DEF Stuck
  <2>1. PICK r \in Followers : r \notin subscribed
    BY <1>1, <1>2 DEF Stuck
  <2> QED BY <1>4, <1>5, <2>1
<1> QED BY <1>6, <1>8, <1>9, <1>10 DEF BInv

LEMMA NcclSendEndsStep ==
    ASSUME B!NcclAssumption, BInv, B!SendEnds
    PROVE  BInv'
<1>1. /\ pc[Master] = "wait" /\ phase[Master] = "done" /\ pc' = [pc EXCEPT ![Master] = "done"]
      /\ UNCHANGED <<buffers, send, packed, offset, taken, phase, target, metadata, topic,
                     subscribed, missed, current, yielded, received>>
  BY DEF B!SendEnds, B!packing, B!operation, B!socket, B!consumer
<1>2. Master \in B!Ranks /\ BTypes /\ Packing /\ Stuck
  BY BTypesOf, BConstants
<1>3. /\ pc'[Master] = "done" /\ \A q \in B!Ranks \ {Master} : pc'[q] = pc[q]
      /\ pc' \in [B!Ranks -> MasterPcs \cup FollowerPcs]
  BY <1>1, <1>2 DEF BTypes, MasterPcs
<1>4. BTypes'
  BY <1>1, <1>2, <1>3 DEF BTypes
<1>5. (Busy' <=> Busy) /\ Flushed' = Flushed /\ Reached' = Reached /\ (LastOut' <=> LastOut)
  BY <1>1, <1>3 DEF Busy, Flushed, Reached, LastOut
<1>6. Packing'
  BY <1>1, <1>2, <1>3, <1>5 DEF Packing, MasterPcs
<1>7. ASSUME NEW r \in Followers
      PROVE  Unpacking(r)' /\ Stream(r)' /\ Published(r)'
  <2>1. Rests(r) /\ Steady
    BY <1>1, <1>3, <1>5, BConstants DEF Rests, Steady
  <2> QED BY <1>1, <2>1, BTypesOf, FollowerRests, PublishedRests
<1>8. Stuck'
  BY <1>1, <1>2 DEF Stuck
<1> QED BY <1>4, <1>6, <1>7, <1>8 DEF BInv

LEMMA NcclBroadcastStep ==
    ASSUME B!NcclAssumption, BInv, B!Broadcast
    PROVE  BInv'
<1> DEFINE names == metadata[Master].names
<1>1. /\ \A r \in B!Ranks : phase[r] = "broadcast"
      /\ phase' = [r \in B!Ranks |-> "done"]
      /\ buffers' = [r \in B!Ranks |->
                       [buffers[r] EXCEPT ![target[r]] = buffers[Master][target[Master]]]]
      /\ UNCHANGED <<pc, send, packed, offset, taken, target, metadata, topic, subscribed, missed,
                     current, yielded, received>>
  BY DEF B!Broadcast, B!packing, B!socket, B!consumer
<1>2. /\ Master \in B!Ranks /\ metadata[Master] \in Meta /\ names \in Seq(B!Weights)
      /\ BTypes /\ Packing /\ Stuck /\ phase[Master] = "broadcast"
  BY <1>1, BTypesOf, BConstants
<1>3. PICK k \in Nat : k = Len(names)
  BY <1>2, BTypesOf
<1>4. /\ Busy /\ target[Master] # send[Master] /\ buffers[Master][target[Master]] = names
      /\ k <= Flushed /\ names = Span(Reached, k)
  BY <1>1, <1>2, <1>3 DEF Packing, Busy
<1> HIDE DEF names
<1>5. ASSUME NEW q \in B!Ranks
      PROVE  /\ phase'[q] = "done" /\ buffers'[q][target[q]] = names
             /\ \A b \in {0, 1} : b # target[q] => buffers'[q][b] = buffers[q][b]
             /\ buffers'[q] \in [{0, 1} -> Seq(B!Weights)]
  <2>1. target[q] \in {0, 1} /\ buffers[q] \in [{0, 1} -> Seq(B!Weights)]
    BY BTypesOf
  <2>2. phase'[q] = "done" /\ buffers'[q] = [buffers[q] EXCEPT ![target[q]] = names]
    BY Zenon, <1>1, <1>4
  <2> QED BY Zenon, <1>2, <2>1, <2>2
<1>6. BTypes'
  <2>1. /\ phase' \in [B!Ranks -> {"none", "metadata", "broadcast", "done"}]
        /\ buffers' \in [B!Ranks -> [{0, 1} -> Seq(B!Weights)]]
    BY Zenon, <1>1, <1>5
  <2> QED BY Zenon, <1>1, <1>2, <2>1 DEF BTypes
<1>7. ~Busy' /\ Flushed' = Flushed /\ Reached' = Flushed /\ Reached = Flushed - k
  <2>1. ~Busy'
    BY <1>2, <1>5 DEF Busy
  <2> QED BY Zenon, <1>1, <1>3, <1>4, <2>1 DEF Flushed, Reached, names
<1>8. Reached + k = Reached'
  <2>1. Flushed \in Int
    BY BTypesOf DEF Flushed
  <2> QED BY <1>3, <1>7, <2>1
<1>9. LastOut' <=> metadata[Master].last
  BY <1>1, <1>2, <1>5 DEF LastOut, Packing
<1>10. Packing'
  <2>1. buffers'[Master][send[Master]] = buffers[Master][send[Master]]
    BY <1>2, <1>4, <1>5, BTypesOf
  <2> QED BY <1>1, <1>2, <1>5, <1>7, <2>1 DEF Packing
<1>11. ASSUME NEW r \in Followers
       PROVE  Unpacking(r)' /\ Stream(r)' /\ Published(r)'
  <2>1. /\ r \in B!Ranks /\ phase[r] = "broadcast" /\ send[r] \in {0, 1}
        /\ Unpacking(r) /\ Stream(r) /\ Published(r)
    BY <1>1, BTypesOf, BConstants
  <2>2. topic[r] = <<>> /\ metadata[r] = metadata[Master] /\ metadata[r].names = names
    BY <2>1 DEF Published, names
  <2>3. target[r] # send[r] /\ buffers'[r][send[r]] = buffers[r][send[r]]
    BY <1>5, <2>1 DEF Unpacking
  <2>4. Unpacking(r)'
    BY <1>1, <1>5, <2>1, <2>3 DEF Unpacking
  <2>5. Begun(r)' = Begun(r) /\ Held(r)' = Held(r) /\ Held(r) = Reached
    BY <1>1, <2>1 DEF Begun, Held, Stream
  <2>6. Stream(r)'
    BY <1>1, <1>3, <1>4, <1>5, <1>8, <1>9, <2>1, <2>2, <2>5 DEF Stream
  <2>7. Published(r)'
    BY <1>1, <1>5, <2>1, <2>2 DEF Published
  <2> QED BY <2>4, <2>6, <2>7
<1>12. Stuck'
  BY <1>1, <1>2, BConstants DEF Stuck
<1> QED BY <1>6, <1>10, <1>11, <1>12 DEF BInv

-----------------------------------------------------------------------------
(* What holds of every run.                                                *)

LEMMA NcclStepKeeps ==
    ASSUME B!NcclAssumption, BInv, [B!Next]_(B!vars)
    PROVE  BInv'
<1>1. CASE B!MasterStep
  BY <1>1, NcclFillStep, NcclFlushStep, NcclPublishStep, NcclSendEndsStep DEF B!MasterStep
<1>2. CASE B!Broadcast
  BY <1>2, NcclBroadcastStep
<1>3. ASSUME NEW r \in Followers, B!ReceiverStep(r)
      PROVE  BInv'
  <2>1. CASE B!Subscribe(r)
    BY <2>1, SubscribeStep
  <2>2. CASE B!StartReceive(r, "start", "swap")
    BY <2>2, StartReceiveStep
  <2>3. CASE B!StartReceive(r, "next", "yield")
    BY <2>3, StartReceiveStep
  <2>4. CASE B!ReceiveMetadata(r)
    BY <2>4, ReceiveMetadataStep
  <2>5. CASE B!Swap(r)
    BY <2>5, NcclSwapStep
  <2>6. CASE B!Yield(r)
    BY <2>6, NcclYieldStep
  <2>7. CASE B!YieldEnds(r)
    BY <2>7, NcclYieldEndsStep
  <2> QED BY <1>3, <2>1, <2>2, <2>3, <2>4, <2>5, <2>6, <2>7 DEF B!ReceiverStep
<1>4. CASE UNCHANGED B!vars
  <2>1. UNCHANGED <<pc, buffers, send, packed, offset, taken, phase, target, metadata, topic,
                    subscribed, missed, current, yielded, received>>
    BY <1>4 DEF B!vars, B!packing, B!operation, B!socket, B!consumer
  <2>2. BTypes' /\ Stuck'
    BY Zenon, <2>1, BTypesOf DEF BTypes, Stuck
  <2>3. \A q \in B!Ranks : Rests(q)
    BY <2>1 DEF Rests
  <2>4. Packing' /\ Steady
    BY <2>1, <2>3, BTypesOf, BConstants, MasterRests
  <2>5. ASSUME NEW r \in Followers
        PROVE  Unpacking(r)' /\ Stream(r)' /\ Published(r)'
    BY <2>1, <2>3, <2>4, BTypesOf, BConstants, FollowerRests, PublishedRests
  <2> QED BY <2>2, <2>4, <2>5 DEF BInv
<1> QED BY <1>1, <1>2, <1>3, <1>4 DEF B!Next

LEMMA NcclAlways ==
    ASSUME B!NcclAssumption
    PROVE  B!Spec => []BInv
<1>1. B!Init => BInv
  BY BAtStart
<1>2. BInv /\ [B!Next]_(B!vars) => BInv'
  BY NcclStepKeeps
<1> QED BY <1>1, <1>2, PTL DEF B!Spec

\* The variables have their types: a receiver's socket never holds the metadata of two
\* buckets, because the next is only published when the broadcast of this one is over.
THEOREM NcclTypes ==
    ASSUME B!NcclAssumption
    PROVE  B!Spec => []B!TypeOK
<1>1. ASSUME BInv
      PROVE  B!TypeOK
  <2> USE <1>1
  <2>1. BTypes /\ Packing
    BY BTypesOf
  <2>2. \A r \in B!Ranks, b \in {0, 1} : buffers[r][b] \in Seq(B!Weights)
    BY BTypesOf
  <2>3. taken \in 0 .. Len(Sizes)
    BY <2>1, BTypesOf, BConstants DEF Packing, W
  <2>4. ASSUME NEW r \in Followers
        PROVE  Len(topic[r]) <= 1 /\ yielded[r] \in 0 .. Len(current[r].names)
    <3>1. topic[r] = <<>> \/ topic[r] = <<metadata[Master]>>
      BY BTypesOf DEF Published
    <3>2. Len(<<>>) <= 1 /\ Len(<<metadata[Master]>>) <= 1
      OBVIOUS
    <3>3. Len(topic[r]) <= 1
      BY Zenon, <3>1, <3>2
    <3> QED BY <3>3, BTypesOf DEF Stream
  <2> QED BY <2>1, <2>2, <2>3, <2>4 DEF B!TypeOK, BTypes, MasterPcs, FollowerPcs
<1> QED BY <1>1, NcclAlways, PTL

\* InFlightStays: the master writes to the other buffer while a bucket is broadcast from
\* this one, and a receiver yields from the buffer that no broadcast writes to.
THEOREM InFlight ==
    ASSUME B!NcclAssumption
    PROVE  B!Spec => []B!InFlightStays
<1>1. ASSUME BInv
      PROVE  B!InFlightStays
  <2>1. Busy => buffers[Master][target[Master]] = metadata[Master].names
    BY <1>1, BTypesOf DEF Packing
  <2>2. \A r \in Followers : phase[r] = "broadcast" => target[r] # send[r]
    BY <1>1, BTypesOf DEF Unpacking
  <2> QED BY <2>1, <2>2 DEF B!InFlightStays, Busy
<1> QED BY <1>1, NcclAlways, PTL

\* MissedBlocks: if metadata was published before a receiver's subscription had arrived,
\* neither send_weights nor any receive_weights returns.
THEOREM MissedIsForever ==
    ASSUME B!NcclAssumption
    PROVE  B!Spec => []B!MissedBlocks
<1>1. ASSUME BInv
      PROVE  B!MissedBlocks
  <2> SUFFICES ASSUME missed, NEW r \in B!Ranks, pc[r] = "done"
               PROVE  FALSE
    BY DEF B!MissedBlocks
  <2>1. phase[Master] = "broadcast" /\ Packing
    BY <1>1, BTypesOf DEF Stuck
  <2>2. CASE r = Master
    BY <2>1, <2>2 DEF Packing
  <2>3. CASE r # Master
    <3>1. Unpacking(r) /\ Stream(r)
      BY <1>1, <2>3, BTypesOf, BConstants
    <3>2. LastOut
      BY <3>1 DEF Unpacking, Stream
    <3> QED BY <2>1, <3>2 DEF LastOut
  <2> QED BY <2>2, <2>3
<1> QED BY <1>1, NcclAlways, PTL

\* Transfers: the transfer implements WeightTransfer. Every tensor that a receiver's
\* consumer is given is one it was not given before, and has the value of its name.
THEOREM NcclImplemented ==
    ASSUME B!NcclAssumption
    PROVE  B!Spec => B!Transfers
<1>1. B!Init => B!Abstract!Init
  BY DEF B!Init, B!Abstract!Init
<1>2. BInv /\ [B!Next]_(B!vars) => [B!Abstract!Next]_received
  <2> SUFFICES ASSUME BInv, [B!Next]_(B!vars) PROVE [B!Abstract!Next]_received
    OBVIOUS
  <2>1. ASSUME NEW r \in Followers, B!Yield(r)
        PROVE  B!Abstract!Next
    <3>1. /\ received' = [received EXCEPT ![r] = Append(@, Len(received[r]) + 1)]
          /\ Len(received[r]) + 1 \in B!Weights
      BY <2>1, NcclYieldStep
    <3>2. received[r] = Span(0, Len(received[r])) /\ Len(received[r]) \in Nat
      BY BTypesOf DEF Stream
    <3>3. Len(received[r]) + 1 \notin ToSet(received[r])
      BY <3>2, Fresh
    <3>4. B!Abstract!Receive(r, Len(received[r]) + 1)
      BY <3>1, <3>3 DEF B!Abstract!Receive, ToSet, B!Abstract!ToSet
    <3> QED BY <3>1, <3>4 DEF B!Abstract!Next
  <2>2. ASSUME NEW r \in Followers, B!ReceiverStep(r), ~B!Yield(r)
        PROVE  received' = received
    BY <2>2 DEF B!ReceiverStep, B!Subscribe, B!StartReceive, B!ReceiveMetadata, B!Swap,
                B!YieldEnds, B!consumer
  <2>3. B!MasterStep => received' = received
    BY DEF B!MasterStep, B!Fill, B!Flush, B!Publish, B!SendEnds, B!consumer
  <2>4. B!Broadcast \/ UNCHANGED B!vars => received' = received
    BY DEF B!Broadcast, B!vars, B!consumer
  <2> QED BY <2>1, <2>2, <2>3, <2>4 DEF B!Next
<1> QED BY <1>1, <1>2, NcclAlways, PTL DEF B!Spec, B!Transfers, B!Abstract!Safety

\* A receiver whose receive_weights has returned was given every weight, in the order of
\* the generator: no weight is left out, by any receiver, whatever the buckets.
THEOREM NcclNothingLeftOut ==
    ASSUME B!NcclAssumption
    PROVE  B!Spec => []EveryReceived
<1>1. ASSUME BInv
      PROVE  EveryReceived
  <2> SUFFICES ASSUME NEW r \in Followers, pc[r] = "done"
               PROVE  received[r] = Span(0, W)
    BY DEF EveryReceived
  <2>1. Unpacking(r) /\ Stream(r) /\ Packing
    BY <1>1, BTypesOf
  <2>2. PICK n \in Nat, c \in Nat : n = Len(received[r]) /\ c = Len(current[r].names)
    BY Zenon, <1>1, BTypesOf
  <2>3. yielded[r] = c /\ Held(r) = Reached /\ LastOut
    BY <2>1, <2>2 DEF Unpacking, Stream
  <2>4. Held(r) = n - c + c
    BY Zenon, <2>2, <2>3 DEF Held, Begun
  <2>5. Reached = taken - 0 /\ taken = W
    <3>1. packed = <<>> /\ taken = W /\ ~Busy
      BY <2>1, <2>3 DEF Packing, LastOut, Busy
    <3>2. Len(packed) = 0
      BY <3>1
    <3> QED BY Zenon, <3>1, <3>2 DEF Reached, Flushed
  <2>6. n = W
    <3>1. PICK w \in Nat : w = W
      BY Zenon, BConstants
    <3>2. n - c + c = w - 0
      BY Zenon, <2>3, <2>4, <2>5, <3>1
    <3>3. n = w
      BY <3>2
    <3> QED BY <3>1, <3>3
  <2> QED BY <2>1, <2>2, <2>6 DEF Stream
<1> QED BY <1>1, NcclAlways, PTL

=============================================================================
