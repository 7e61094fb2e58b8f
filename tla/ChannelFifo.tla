----------------------------- MODULE ChannelFifo -----------------------------
(***************************************************************************)
(* What a channel promises the two processes that share it: a bounded      *)
(* first-in first-out queue of messages.  A push takes effect at once or   *)
(* not at all, the queue never holds more than Capacity nodes' worth, and  *)
(* a pop removes the oldest message, handing it over whole or dropping it  *)
(* (pop() with no buffer).                                                 *)
(***************************************************************************)
EXTENDS Integers, Sequences

CONSTANTS
  Msg,       \* messages
  NodesFor,  \* nodes each message takes
  Capacity   \* nodes that may be in use

VARIABLES
  queue,     \* accepted messages, oldest first
  used,      \* nodes they take together
  received   \* what the consumer last got: <<>> at first, then <<message>>

Init == queue = <<>> /\ used = 0 /\ received = <<>>

Accept(m) ==
  /\ used + NodesFor[m] <= Capacity
  /\ queue' = Append(queue, m)
  /\ used' = used + NodesFor[m]
  /\ UNCHANGED received

\* The oldest message leaves the queue.
Remove ==
  /\ queue # <<>>
  /\ queue' = Tail(queue)
  /\ used' = used - NodesFor[Head(queue)]

Take == Remove /\ received' = <<Head(queue)>>
Drop == Remove /\ UNCHANGED received

Next == (\E m \in Msg : Accept(m)) \/ Take \/ Drop

Spec == Init /\ [][Next]_<<queue, used, received>>
==============================================================================
