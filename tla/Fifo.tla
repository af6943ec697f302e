-------------------------------- MODULE Fifo --------------------------------
(***************************************************************************)
(* What the byte ring of lib/ringbuf.c promises its callers: a bounded     *)
(* first-in first-out queue that refuses what does not fit, tells an empty *)
(* queue from a full one, and answers each call with its return value.     *)
(***************************************************************************)
EXTENDS Integers, Sequences

CONSTANTS Data, Capacity

VARIABLES
  queue,  \* the bytes put and not yet taken, oldest first
  last    \* the call made last and what it returned

vars == <<queue, last>>

Init ==
  /\ queue = <<>>
  /\ last = <<"init">>

Put(c) ==
  \/ /\ Len(queue) < Capacity
     /\ queue' = Append(queue, c)
     /\ last' = <<"put", 0>>
  \/ /\ Len(queue) = Capacity
     /\ queue' = queue
     /\ last' = <<"put", -1>>

Get ==
  \/ /\ queue # <<>>
     /\ queue' = Tail(queue)
     /\ last' = <<"get", 0, Head(queue)>>
  \/ /\ queue = <<>>
     /\ queue' = queue
     /\ last' = <<"get", -1>>

GetFill ==
  /\ queue' = queue
  /\ last' = <<"fill", Len(queue)>>

Next == (\E c \in Data : Put(c)) \/ Get \/ GetFill

Spec == Init /\ [][Next]_vars
=============================================================================
