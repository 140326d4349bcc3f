---------------------------- MODULE TopicQueues ----------------------------
(***************************************************************************)
(* What the queue component promises: one bounded FIFO buffer per topic,   *)
(* from which consumers take every message exactly once.                   *)
(***************************************************************************)
EXTENDS Naturals, Sequences

CONSTANTS Topics,       \* the topic names
          Consumers,    \* the consumer tasks
          Messages,     \* what producers may send
          NoMessage,    \* an empty hand
          QueueMaxSize  \* the capacity of a buffer

VARIABLES buffer,       \* buffer[t]: accepted and not yet taken
          hand          \* hand[c]: what consumer c is working on

vars == <<buffer, hand>>

Init == /\ buffer = [t \in Topics |-> <<>>]
        /\ hand = [c \in Consumers |-> NoMessage]

Accept(t, m) == /\ Len(buffer[t]) < QueueMaxSize
                /\ buffer' = [buffer EXCEPT ![t] = Append(@, m)]
                /\ UNCHANGED hand

Take(t, c) == /\ buffer[t] # <<>>
              /\ hand[c] = NoMessage
              /\ hand' = [hand EXCEPT ![c] = Head(buffer[t])]
              /\ buffer' = [buffer EXCEPT ![t] = Tail(@)]

Finish(c) == /\ hand[c] # NoMessage
             /\ hand' = [hand EXCEPT ![c] = NoMessage]
             /\ UNCHANGED buffer

TakeOrFinish == \E c \in Consumers : Finish(c) \/ \E t \in Topics : Take(t, c)

Next == TakeOrFinish \/ \E t \in Topics, m \in Messages : Accept(t, m)

(* The consumers never rest while one of them has something to do.         *)
Spec == Init /\ [][Next]_vars /\ WF_vars(TakeOrFinish)
=============================================================================
