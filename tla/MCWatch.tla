------------------------------ MODULE MCWatch ------------------------------
(***************************************************************************)
(* Two channels: one waits for its stream, the other does not.             *)
(***************************************************************************)
EXTENDS Watch

CONSTANTS c1, c2

FirstWaits == [c \in {c1, c2} |-> c = c1]
=============================================================================
