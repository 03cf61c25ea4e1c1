--------------------------- MODULE PowerIteration ---------------------------
(***************************************************************************)
(* What the swapping benchmark loop promises: one vector, initialised once *)
(* and then multiplied by the matrix N times, one whole product at a time. *)
(***************************************************************************)
EXTENDS Integers

CONSTANT N
VARIABLE iterate   \* how many products the vector holds; -1 before it is set

Unset == -1
Init == iterate = Unset

Start == iterate = Unset /\ iterate' = 0
Apply == iterate >= 0 /\ iterate < N /\ iterate' = iterate + 1
Next == Start \/ Apply

Spec == Init /\ [][Next]_iterate /\ WF_iterate(Next)
=============================================================================
