-------------------------- MODULE MCReconciliation --------------------------
(***************************************************************************)
(* Model-checking instance of Reconciliation.                              *)
(***************************************************************************)
EXTENDS Reconciliation, TLC

(* Objectives with a stored policy whose thresholds differ from the        *)
(* watchdog's default of 3.                                                *)
MCPolicy ==
    [o \in Objectives |->
        [stored |-> TRUE, max |-> 3, degradeAfter |-> 2, cools |-> TRUE,
         resetOnRecovery |-> TRUE, resetOnManualReset |-> FALSE]]

MCPolicyMissing ==
    [o \in Objectives |-> [MCPolicy[o] EXCEPT !.stored = FALSE]]

(* Workers are interchangeable in the runs that check no liveness.         *)
MCSymmetry == Permutations(Workers)
=============================================================================
