---------------------------- MODULE LossyChannel ----------------------------
(***************************************************************************)
(* What the message queue promises its producers and consumers, without    *)
(* saying how: a channel of bounded capacity that delivers each message at *)
(* most once and in the order sent, and that loses a message only when a   *)
(* message is sent over capacity, and then the oldest, or when its user    *)
(* empties it.  Messages are numbered in the order they are sent.          *)
(***************************************************************************)
EXTENDS Naturals, FiniteSets

CONSTANT Capacity

VARIABLES sent,   \* how many messages were sent
          live,   \* those neither delivered nor lost
          closed  \* no more waiting for messages

vars == <<sent, live, closed>>

IsOldest(m) == m \in live /\ \A n \in live : m <= n

Init == sent = 0 /\ live = {} /\ closed = FALSE

Send ==
    /\ sent' = sent + 1
    /\ \/ /\ Cardinality(live) < Capacity
          /\ live' = live \cup {sent + 1}
       \/ /\ Cardinality(live) = Capacity
          /\ \E m \in live : IsOldest(m) /\ live' = (live \ {m}) \cup {sent + 1}
    /\ UNCHANGED closed

Deliver ==
    /\ \E m \in live : IsOldest(m) /\ live' = live \ {m}
    /\ UNCHANGED <<sent, closed>>

Empty == live' = {} /\ UNCHANGED <<sent, closed>>

Close == closed' = TRUE /\ UNCHANGED <<sent, live>>

Next == Send \/ Deliver \/ Empty \/ Close

Spec == Init /\ [][Next]_vars
=============================================================================
