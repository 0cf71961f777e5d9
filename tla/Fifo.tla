-------------------------------- MODULE Fifo --------------------------------
(***************************************************************************)
(* What a queue promises: items leave it in the order they were put.       *)
(***************************************************************************)
EXTENDS Sequences

CONSTANT Values

VARIABLES
  q,     \* the items of the queue
  last   \* the items get() returned since the last put() or reset()

Init == q = <<>> /\ last = <<>>

Put(v) ==
  /\ q' = Append(q, v)
  /\ last' = <<>>

Get ==
  /\ q # <<>>
  /\ last' = Append(last, Head(q))
  /\ q' = Tail(q)

Reset == q' = <<>> /\ last' = <<>>

Next == (\E v \in Values : Put(v)) \/ Get \/ Reset

Spec == Init /\ [][Next]_<<q, last>>
=============================================================================
