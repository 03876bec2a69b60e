------------------------- MODULE MCQueuedExecution -------------------------
(***************************************************************************)
(* Model-checking instances of QueuedExecution: two envelopes of one       *)
(* agent, with the loop and one batch.                                     *)
(***************************************************************************)
EXTENDS QueuedExecution, TLC

CONSTANTS e1, e2, agent

MCAgent == [e \in {e1, e2} |-> agent]

(* For the run without liveness: the envelopes are of the same agent.      *)
Symmetry == Permutations({e1, e2})
=============================================================================
