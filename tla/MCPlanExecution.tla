-------------------------- MODULE MCPlanExecution --------------------------
(***************************************************************************)
(* Model-checking instances of PlanExecution.  One tick is 30 seconds, so  *)
(* LockBuffer is 2 and a step with the default timeout has timeout 1.      *)
(***************************************************************************)
EXTENDS PlanExecution, TLC

CONSTANTS p1, p2, t1, t2

Always == [type |-> "always", ref |-> 0, expression |-> FALSE]
After(i, type) == [type |-> type, ref |-> i, expression |-> TRUE]

(* An action step with the defaults of createPlanStep.                     *)
Plain(targets) ==
    [targets |-> targets, dependsOn |-> {}, condition |-> Always, needsApproval |-> FALSE,
     timeout |-> 1, verify |-> 0, attempts |-> 1, delay |-> 0, backoff |-> "fixed",
     aborts |-> TRUE]

(* Two plans that lock the same targets in opposite orders: one retries    *)
(* and continues after a failure, the other verifies and aborts, and has a *)
(* step that awaits approval before one on the same target, each with a    *)
(* condition that lacks what it would be evaluated on.                     *)
MCSteps ==
    p1 :> << [Plain(<<t1, t2>>) EXCEPT !.attempts = 2, !.aborts = FALSE],
             [Plain(<< >>) EXCEPT !.condition = After(1, "if_failed")],
             [Plain(<<t2>>) EXCEPT !.dependsOn = {1}, !.condition = After(1, "custom")] >>
    @@
    p2 :> << [Plain(<<t2, t1>>) EXCEPT !.verify = 1],
             [Plain(<<t1>>) EXCEPT !.dependsOn = {1}, !.needsApproval = TRUE,
                                   !.condition = After(0, "if_failed")],
             [Plain(<<t1>>) EXCEPT !.condition = [After(1, "custom") EXCEPT !.expression = FALSE]] >>

ASSUME MCLeases == LeasesCover
=============================================================================
