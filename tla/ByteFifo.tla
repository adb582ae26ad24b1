------------------------------ MODULE ByteFifo ------------------------------
(***************************************************************************)
(* What a direction of a serial port promises to its two ends: a queue of  *)
(* at most Capacity bytes.  A byte is either refused when it is offered or *)
(* comes out exactly once, in the order in which the bytes were accepted.  *)
(***************************************************************************)
EXTENDS Integers, Sequences

CONSTANTS Byte,       \* the values a byte can take
          None,       \* no byte has come out yet
          Capacity    \* the size of the buffer

VARIABLES queue,      \* accepted and not yet delivered, oldest first
          out         \* the byte delivered last

vars == <<queue, out>>

Init == /\ queue = <<>>
        /\ out = None

Put(b) == /\ Len(queue) < Capacity
          /\ queue' = Append(queue, b)
          /\ out' = out

Get == /\ queue # <<>>
       /\ out' = Head(queue)
       /\ queue' = Tail(queue)

Next == Get \/ \E b \in Byte : Put(b)

Spec == Init /\ [][Next]_vars
=============================================================================
