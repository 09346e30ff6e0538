------------------------------- MODULE Topics -------------------------------
(***************************************************************************)
(* The ROS 2 topics between the nodes.  A channel is one subscription: a   *)
(* topic and the node that reads it, with the subscription's own queue.    *)
(* Every publisher and subscription of the system is created with QoS      *)
(* history depth 10, which rclpy turns into KEEP_LAST: a full queue loses  *)
(* its oldest message.  Messages of one topic reach a subscription in the  *)
(* order they were published; nothing orders two topics.                   *)
(***************************************************************************)
EXTENDS Naturals, Sequences

CONSTANTS
  Channels,   \* the subscriptions of the composition: [topic, node] records
  Depth       \* history depth of every queue

ASSUME DepthAssumption == Depth \in Nat \ {0}

VARIABLE
  queue       \* queue[c]: the messages channel c still holds, oldest first

Channel(topic, node) == [topic |-> topic, node |-> node]

\* Seeded fault: the oldest are kept.
KeepOldest(s) == IF Len(s) > Depth THEN SubSeq(s, 1, Depth) ELSE s

\* KEEP_LAST: of a queue that grew past the depth, the newest Depth messages.
KeepLast(s) ==
  IF Len(s) > Depth THEN SubSeq(s, Len(s) - Depth + 1, Len(s)) ELSE s

\* The queues q after a handler has published, on every topic t of its
\* outbox, the messages out[t] in that order.  A topic without a
\* subscription keeps nothing.
Deliver(q, out) ==
  [c \in Channels |->
     IF c.topic \in DOMAIN out THEN KeepLast(q[c] \o out[c.topic]) ELSE q[c]]

\* The queues once the oldest message of channel c has been taken.
Taken(c) == [queue EXCEPT ![c] = Tail(@)]

NoMessages == [c \in Channels |-> << >>]
=============================================================================
