--------------------------------- MODULE Bus ---------------------------------
(* bus.py: every subscriber has a queue of its own, and a publisher never waits
   for it.  *)
EXTENDS Naturals, Sequences

CONSTANT QueueSize  \* capacity of a subscriber's queue

ASSUME BusConstants == QueueSize \in Nat \ {0}

\* _offer: a full queue drops the new message.
Offer(q, m) == IF Len(q) < QueueSize THEN Append(q, m) ELSE q
=============================================================================
