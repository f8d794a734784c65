--------------------------- MODULE MCMessageQueue ---------------------------
(***************************************************************************)
(* The message queue on small instances.  Two consumers, so that one can   *)
(* be woken for a sample the other takes, and more puts than the queue     *)
(* holds, so that puts drop.                                               *)
(***************************************************************************)
EXTENDS MessageQueue

(* The actor implements the channel it promises to be. *)
Channel == INSTANCE LossyChannel
             WITH Capacity <- MaxQueueSize,
                  sent     <- produced,
                  live     <- {queue[i] : i \in 1..Len(queue)},
                  closed   <- ~open

ImplementsLossyChannel == Channel!Spec
=============================================================================
