-------------------------- MODULE MCModelExecution --------------------------
(***************************************************************************)
(* Instances of ModelExecution.                                            *)
(***************************************************************************)
EXTENDS ModelExecution

CONSTANTS r1, r2

TwoRequests == {r1, r2}

OneRequest == {r1}

\* Within every limit, and more than a day has left after it.
SomeCosts == {1, 2}
=============================================================================
