--------------------------- MODULE PriorityQueue ---------------------------
(***************************************************************************)
(* What a priority queue promises: a bag of values from which get()        *)
(* removes one of the least ones.                                          *)
(***************************************************************************)
EXTENDS Integers

CONSTANTS Values, None

VARIABLES bag,      \* the number of times each value is in the queue
          ret       \* the value returned by the last call, or None

Init == bag = [v \in Values |-> 0] /\ ret = None

Put(v) == bag' = [bag EXCEPT ![v] = @ + 1] /\ ret' = None

Least(v) == bag[v] > 0 /\ \A w \in Values : bag[w] > 0 => v <= w

Get == \E v \in Values : Least(v) /\ bag' = [bag EXCEPT ![v] = @ - 1] /\ ret' = v

Head == \E v \in Values : Least(v) /\ ret' = v /\ UNCHANGED bag

Next == Get \/ Head \/ \E v \in Values : Put(v)

\* A step of the queue, or one it does not see.
Step == [Next]_<<bag, ret>>

Spec == Init /\ [][Next]_<<bag, ret>>

=============================================================================
