---------------------------- MODULE MCMultiQuery ----------------------------
(* MultiQuery on every request of up to MaxLen characters.                 *)
EXTENDS MultiQuery

CONSTANT MaxLen

MCRequests == UNION {[1 .. n -> Marks \union {"x"}] : n \in 0 .. MaxLen}

=============================================================================
