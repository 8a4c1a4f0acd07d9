---------------------------- MODULE MessageQueues ---------------------------
(***************************************************************************)
(* What message queues promise: each is a sequence of messages, to which   *)
(* one is added at the back, or at the front, and from which the first is  *)
(* taken, and that can be emptied.                                         *)
(***************************************************************************)
EXTENDS Naturals, Sequences

CONSTANTS Queue, Message, Size

VARIABLE queue

Holds(q, msgs) == queue' = [queue EXCEPT ![q] = msgs]

Append1(q)  == Len(queue[q]) < Size /\ \E m \in Message : Holds(q, Append(queue[q], m))
Prepend1(q) == Len(queue[q]) < Size /\ \E m \in Message : Holds(q, <<m>> \o queue[q])
Take1(q)    == queue[q] # <<>> /\ Holds(q, Tail(queue[q]))
Clear(q)    == Holds(q, <<>>)

Init == queue = [q \in Queue |-> <<>>]
Next == \E q \in Queue : Append1(q) \/ Prepend1(q) \/ Take1(q) \/ Clear(q)

Spec == Init /\ [][Next]_queue
=============================================================================
