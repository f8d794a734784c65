--------------------------- MODULE WeightTransfer ---------------------------
(***************************************************************************)
(* What a weight transfer promises, whatever engine carries it: every      *)
(* receiver is handed every weight, with its right value, exactly once.    *)
(* NixlTransfer, NcclTransfer and BucketBroadcast implement it.            *)
(***************************************************************************)
EXTENDS Sequences, SequencesExt

CONSTANTS Receivers, Weights
VARIABLE received   \* receiver -> the weights it was handed, in its order

Init == received = [r \in Receivers |-> <<>>]

Receive(r, w) ==
  /\ w \in Weights \ ToSet(received[r])
  /\ received' = [received EXCEPT ![r] = Append(@, w)]

Next == \E r \in Receivers, w \in Weights : Receive(r, w)
Safety == Init /\ [][Next]_received
Spec == Safety /\ WF_received(Next)
=============================================================================
