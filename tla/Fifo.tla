-------------------------------- MODULE Fifo --------------------------------
(* What a bounded queue promises: items are handed out in the order they    *)
(* came, each to one consumer.                                              *)
EXTENDS Naturals, Sequences

CONSTANTS Items, Capacity, Consumers

VARIABLES
  queue,
  hand    \* the item each consumer is being handed, <<>> if none

vars == <<queue, hand>>

Init == queue = <<>> /\ hand = [c \in Consumers |-> <<>>]

Push(x) ==
  /\ Len(queue) < Capacity
  /\ queue' = Append(queue, x)
  /\ UNCHANGED hand

Pop(c) ==
  /\ queue # <<>>
  /\ queue' = Tail(queue)
  /\ hand' = [hand EXCEPT ![c] = Head(queue)]

Return(c) ==
  /\ hand[c] # <<>>
  /\ hand' = [hand EXCEPT ![c] = <<>>]
  /\ UNCHANGED queue

Next == (\E x \in Items : Push(x)) \/ \E c \in Consumers : Pop(c) \/ Return(c)

Spec == Init /\ [][Next]_vars
=============================================================================
