--------------------------- MODULE Reconciliation ---------------------------
(***************************************************************************)
(* Self-healing of managed objectives: the evaluator that observes an      *)
(* objective, the gate that admits a reconciliation, the trigger that      *)
(* executes the remediation under a lease, and the watchdog that ends      *)
(* expired leases.  All four read and write one row of managed_objectives. *)
(*                                                                         *)
(* The program is a single-threaded event loop over a synchronous SQLite   *)
(* handle.  A chain of synchronous calls and microtasks runs to completion *)
(* unless the process dies, and every UPDATE commits by itself.  So each   *)
(* action below is at most one UPDATE, and `loop` names the chain that     *)
(* holds the event loop until its last UPDATE.  A chain is suspended, and  *)
(* others run, only while it waits for an observer or for the bridge that  *)
(* executes the remediation plan.                                          *)
(***************************************************************************)
EXTENDS Naturals

CONSTANTS
    Objectives,          \* rows of managed_objectives
    Workers,             \* evaluations that can be under way at once
    Policy,              \* [Objectives -> FailurePolicy], the policy each row resolves to
    TriggerSafeMode,     \* values of context.global_safe_mode that callers pass to the trigger
    BridgeSetsSuccess,   \* whether the bridge's result has a top-level `success`
    MaxGeneration,       \* bound: admissions per objective
    MaxCrashes           \* bound: process crashes

(* createDefaultPolicy().degraded.enter_after_consecutive_failures, the    *)
(* threshold the watchdog applies whatever policy the objective names.     *)
DefaultDegradeAfter == 3

(* stored = FALSE stands for a policy_ref that names no stored policy; the *)
(* other fields are then not consulted.                                    *)
FailurePolicy ==
    [stored : BOOLEAN, max : Nat, degradeAfter : Nat, cools : BOOLEAN,
     resetOnRecovery : BOOLEAN, resetOnManualReset : BOOLEAN]

ASSUME ObjectivesAssumption == Objectives # {}
ASSUME PolicyAssumption == Policy \in [Objectives -> FailurePolicy]
ASSUME BoundAssumption == MaxGeneration \in Nat /\ MaxCrashes \in Nat
ASSUME FlagAssumption == TriggerSafeMode \subseteq BOOLEAN /\ BridgeSetsSuccess \in BOOLEAN

VARIABLES
    objective,      \* [Objectives -> Row], durable
    safeMode,       \* runtime_context safe_mode_active, durable
    gateSafeMode,   \* options.global_safe_mode of the gate instance, lost in a crash
    run,            \* [Workers -> Run], the evaluations in memory
    loop,           \* the chain that holds the event loop
    crashes         \* crashes so far

vars == <<objective, safeMode, gateSafeMode, run, loop, crashes>>

(***************************************************************************)
(* Data.  A timestamp is what the code asks of it: absent, still ahead of  *)
(* the clock, or passed.  The attempt id is the generation it executes:    *)
(* one admission leads to at most one lease.                               *)
(***************************************************************************)
Status == {"idle", "reconciling", "cooldown", "degraded"}
Time == {"none", "ahead", "passed"}
Generation == 0 .. MaxGeneration

Row ==
    [status     : Status,
     generation : Generation,
     failures   : Nat,                              \* consecutive_failures
     total      : Nat,                              \* total_failures
     attempt    : Generation,                       \* active_attempt_id, 0 when null
     deadline   : Time,                             \* execution_deadline_at
     cancel     : {"none", "requested", "aged"},    \* cancel_requested_at and its age
     cooldown   : Time,                             \* reconciliation_cooldown_until
     terminal   : {"none", "completed", "timed_out"},  \* last_terminal_reason
     hold       : BOOLEAN,                          \* manual_hold
     enabled    : BOOLEAN]                          \* is_enabled

(* What the bridge can answer: it throws, reports failure, executes but    *)
(* fails verification, or executes and is verified.                        *)
Outcome == {"threw", "failed", "unverified", "verified"}

(* The local variables of evaluateSingleObjective and what it calls: `seen`*)
(* is the status the evaluator read before the observer ran, `failures`    *)
(* and `total` are those of the row the trigger read before the bridge.    *)
Run ==
    [pc : {"none", "observing", "admitted", "executing", "settling", "clearing"},
     obj : Objectives, seen : Status, gen : Generation,
     failures : Nat, total : Nat, outcome : Outcome \cup {"none"}]

Idle(o) == [pc |-> "none", obj |-> o, seen |-> "idle", gen |-> 0,
            failures |-> 0, total |-> 0, outcome |-> "none"]

FirstRow ==
    [status |-> "idle", generation |-> 0, failures |-> 0, total |-> 0, attempt |-> 0,
     deadline |-> "none", cancel |-> "none", cooldown |-> "none", terminal |-> "none",
     hold |-> FALSE, enabled |-> TRUE]

Free == [kind |-> "free"]
HeldBy(w) == [kind |-> "worker", worker |-> w]
Watchdog(o, pc) == [kind |-> "watchdog", obj |-> o, pc |-> pc]
Loop == {Free} \cup {HeldBy(w) : w \in Workers}
               \cup {Watchdog(o, pc) : o \in Objectives, pc \in {"accounting", "clearing"}}

TypeOK ==
    /\ objective \in [Objectives -> Row]
    /\ safeMode \in BOOLEAN
    /\ gateSafeMode \in BOOLEAN
    /\ run \in [Workers -> Run]
    /\ loop \in Loop
    /\ crashes \in 0 .. MaxCrashes

Init ==
    /\ objective = [o \in Objectives |-> FirstRow]
    /\ safeMode = FALSE
    /\ gateSafeMode = FALSE
    /\ run = [w \in Workers |-> Idle(CHOOSE o \in Objectives : TRUE)]
    /\ loop = Free
    /\ crashes = 0

-----------------------------------------------------------------------------
(***************************************************************************)
(* Writes shared by several handlers.                                      *)
(***************************************************************************)
UpdateRow(o, row) == objective' = [objective EXCEPT ![o] = row]

(* Mutant: the turn ends, as if the next call awaited I/O.                 *)
YieldLoop(w) == loop' = Free

KeepLoop(w) == loop' = HeldBy(w)
Finish(w) == run' = [run EXCEPT ![w] = Idle(@.obj)]

ShouldEnterDegraded(p, n) == p.stored /\ n >= p.degradeAfter

(* A zero-length cooldown is over at once: calculateCooldownDuration is 0  *)
(* without a policy.                                                       *)
CooldownUntil(p) == IF p.stored /\ p.cools THEN "ahead" ELSE "passed"

(* Mutant: the generation is not advanced.                                 *)
AdmittedRowSameGeneration(row) == [row EXCEPT !.status = "reconciling", !.cooldown = "none"]

(* applyTransition to reconciling.                                         *)
AdmittedRow(row) ==
    [row EXCEPT !.status = "reconciling", !.generation = @ + 1, !.cooldown = "none"]

ClearActiveAttempt(row) ==
    [row EXCEPT !.attempt = 0, !.deadline = "none", !.cancel = "none"]

-----------------------------------------------------------------------------
(***************************************************************************)
(* Evaluator and gate.                                                     *)
(***************************************************************************)

(* evaluateObjective up to the observer's await.                           *)
StartEvaluation(w, o) ==
    /\ loop = Free
    /\ run[w].pc = "none"
    /\ objective[o].enabled
    /\ objective[o].status # "reconciling"
    /\ run' = [run EXCEPT ![w] = [Idle(o) EXCEPT !.pc = "observing",
                                                 !.seen = objective[o].status]]
    /\ UNCHANGED <<objective, safeMode, gateSafeMode, loop, crashes>>

(* The observer found the target healthy: a row that was in cooldown when  *)
(* the evaluation started is written idle, whatever it is by now.          *)
ObserveHealthy(w) ==
    LET o == run[w].obj IN
    /\ loop = Free
    /\ run[w].pc = "observing"
    /\ objective' = IF run[w].seen = "cooldown"
                    THEN [objective EXCEPT ![o].status = "idle", ![o].cooldown = "none"]
                    ELSE objective
    /\ Finish(w)
    /\ UNCHANGED <<safeMode, gateSafeMode, loop, crashes>>

(* `now < reconciliation_cooldown_until`.  The column is an ISO string: a  *)
(* clock that is one too compares with it, a number compares with NaN and  *)
(* the test is false.                                                      *)
CooldownActive(row, clock) == clock = "iso" /\ row.cooldown = "ahead"

(* The evaluator passes current_time: Date.now().                          *)
EvaluatorClock == "number"

(* Mutant: the gate without its failure policy.                            *)
AdmissibleWithoutPolicy(o, clock) ==
    LET row == objective[o] IN
    /\ ~safeMode
    /\ ~gateSafeMode
    /\ ~row.hold
    /\ row.status = "idle" \/ (row.status = "cooldown" /\ ~CooldownActive(row, clock))

(* requestAdmission.                                                       *)
Admissible(o, clock) ==
    LET row == objective[o] IN
    /\ ~safeMode
    /\ ~gateSafeMode
    /\ ~row.hold
    /\ row.status \in {"idle", "cooldown"}
    /\ row.status = "cooldown" => ~CooldownActive(row, clock)
    /\ Policy[o].stored => /\ row.failures < Policy[o].max
                           /\ ~CooldownActive(row, clock)

(* The observer found drift and the gate admits: admitAndTransition's      *)
(* compare-and-swap is in the same turn as the check, and the trigger      *)
(* follows in that turn.                                                   *)
Admit(w) ==
    LET o == run[w].obj
        row == AdmittedRow(objective[o])
    IN
    /\ loop = Free
    /\ run[w].pc = "observing"
    /\ Admissible(o, EvaluatorClock)
    /\ row.generation <= MaxGeneration
    /\ UpdateRow(o, row)
    /\ run' = [run EXCEPT ![w].pc = "admitted", ![w].gen = row.generation]
    /\ KeepLoop(w)
    /\ UNCHANGED <<safeMode, gateSafeMode, crashes>>

(* The observer found drift and the gate refuses.                          *)
Refuse(w) ==
    /\ loop = Free
    /\ run[w].pc = "observing"
    /\ ~Admissible(run[w].obj, EvaluatorClock)
    /\ Finish(w)
    /\ UNCHANGED <<objective, safeMode, gateSafeMode, loop, crashes>>

-----------------------------------------------------------------------------
(***************************************************************************)
(* Trigger: executeAdmittedRemediation.                                    *)
(***************************************************************************)
Preconditions(row, gen, callerSafeMode) ==
    /\ row.status = "reconciling"
    /\ row.generation = gen
    /\ ~row.hold
    /\ ~callerSafeMode

(* A failed precondition returns without touching the row.                 *)
RejectExecution(w) ==
    /\ loop = HeldBy(w)
    /\ run[w].pc = "admitted"
    /\ \E flag \in TriggerSafeMode :
          ~Preconditions(objective[run[w].obj], run[w].gen, flag)
    /\ Finish(w)
    /\ loop' = Free
    /\ UNCHANGED <<objective, safeMode, gateSafeMode, crashes>>

(* The remediation plan has been deleted: degraded, without a failure      *)
(* being counted.                                                          *)
PlanNotFound(w) ==
    LET o == run[w].obj IN
    /\ loop = HeldBy(w)
    /\ run[w].pc = "admitted"
    /\ \E flag \in TriggerSafeMode : Preconditions(objective[o], run[w].gen, flag)
    /\ UpdateRow(o, [objective[o] EXCEPT !.status = "degraded"])
    /\ Finish(w)
    /\ loop' = Free
    /\ UNCHANGED <<safeMode, gateSafeMode, crashes>>

(* The lease is written and the bridge called; the turn ends at its await. *)
StartExecution(w) ==
    LET o == run[w].obj IN
    /\ loop = HeldBy(w)
    /\ run[w].pc = "admitted"
    /\ \E flag \in TriggerSafeMode : Preconditions(objective[o], run[w].gen, flag)
    /\ UpdateRow(o, [objective[o] EXCEPT !.attempt = run[w].gen, !.deadline = "ahead",
                                         !.cancel = "none"])
    /\ run' = [run EXCEPT ![w].pc = "executing",
                          ![w].failures = objective[o].failures,
                          ![w].total = objective[o].total]
    /\ loop' = Free
    /\ UNCHANGED <<safeMode, gateSafeMode, crashes>>

(* Mutant: the staleness test without generation and attempt.              *)
StaleOnTimeoutOnly(w) == objective[run[w].obj].terminal = "timed_out"

Stale(w) ==
    LET row == objective[run[w].obj] IN
    \/ row.generation # run[w].gen
    \/ row.attempt # run[w].gen
    \/ row.terminal = "timed_out"

(* The bridge returned a result that is stale: recorded and ignored.       *)
IgnoreStale(w) ==
    /\ loop = Free
    /\ run[w].pc = "executing"
    /\ Stale(w)
    /\ Finish(w)
    /\ UNCHANGED <<objective, safeMode, gateSafeMode, loop, crashes>>

(* The bridge returned a result that is not: the first UPDATE.             *)
AcceptResult(w, outcome) ==
    /\ loop = Free
    /\ run[w].pc = "executing"
    /\ ~Stale(w)
    /\ outcome # "threw"
    /\ objective' = [objective EXCEPT ![run[w].obj].terminal = "completed"]
    /\ run' = [run EXCEPT ![w].pc = "settling", ![w].outcome = outcome]
    /\ KeepLoop(w)
    /\ UNCHANGED <<safeMode, gateSafeMode, crashes>>

(* The bridge threw: the catch block settles without the staleness check.  *)
BridgeThrows(w) ==
    /\ loop = Free
    /\ run[w].pc = "executing"
    /\ run' = [run EXCEPT ![w].pc = "settling", ![w].outcome = "threw"]
    /\ KeepLoop(w)
    /\ UNCHANGED <<objective, safeMode, gateSafeMode, crashes>>

(* `result.status === 'failed' || !result.success`, then a verification    *)
(* that did not achieve the objective, then success.                       *)
Recovers(outcome) == outcome = "verified" /\ BridgeSetsSuccess

(* handleExecutionFailure and handleVerificationFailure: the counters are  *)
(* those of the row read before the bridge was called, plus one.           *)
FailedRow(row, p, failures, total) ==
    IF ShouldEnterDegraded(p, failures + 1)
    THEN [row EXCEPT !.status = "degraded", !.failures = failures + 1, !.total = total + 1]
    ELSE [row EXCEPT !.status = "cooldown", !.failures = failures + 1, !.total = total + 1,
                     !.cooldown = CooldownUntil(p)]

(* Mutant: the result label is written to the status column.               *)
RecoveredRowMislabelled(row, p) == [row EXCEPT !.status = "recovered", !.cooldown = "none"]

(* handleVerificationSuccess.                                              *)
RecoveredRow(row, p) ==
    [row EXCEPT !.status = "idle", !.cooldown = "none",
                !.failures = IF p.stored /\ p.resetOnRecovery THEN 0 ELSE @]

Settle(w) ==
    LET o == run[w].obj IN
    /\ loop = HeldBy(w)
    /\ run[w].pc = "settling"
    /\ UpdateRow(o, IF Recovers(run[w].outcome)
                    THEN RecoveredRow(objective[o], Policy[o])
                    ELSE FailedRow(objective[o], Policy[o], run[w].failures, run[w].total))
    /\ run' = [run EXCEPT ![w].pc = "clearing"]
    /\ UNCHANGED <<safeMode, gateSafeMode, loop, crashes>>

Clear(w) ==
    LET o == run[w].obj IN
    /\ loop = HeldBy(w)
    /\ run[w].pc = "clearing"
    /\ UpdateRow(o, ClearActiveAttempt(objective[o]))
    /\ Finish(w)
    /\ loop' = Free
    /\ UNCHANGED <<safeMode, gateSafeMode, crashes>>

-----------------------------------------------------------------------------
(***************************************************************************)
(* Watchdog: one expired row of a tick or of the startup sweep.            *)
(***************************************************************************)
Expired(o) ==
    LET row == objective[o] IN
    /\ row.enabled
    /\ row.status = "reconciling"
    /\ row.attempt # 0
    /\ row.deadline = "passed"

(* Mutant: stage 1 without its cancel_requested_at test.                   *)
RequestCancelEveryTick(o) ==
    /\ loop = Free
    /\ Expired(o)
    /\ objective' = [objective EXCEPT ![o].cancel = "requested"]
    /\ UNCHANGED <<safeMode, gateSafeMode, run, loop, crashes>>

(* Stage 1: mark the cooperative cancel; nothing is signalled.             *)
RequestCancel(o) ==
    /\ loop = Free
    /\ Expired(o)
    /\ objective[o].cancel = "none"
    /\ objective' = [objective EXCEPT ![o].cancel = "requested"]
    /\ UNCHANGED <<safeMode, gateSafeMode, run, loop, crashes>>

(* Stage 3, after the grace period: mark the forced termination; the       *)
(* execution itself is not stopped.                                        *)
ForceTerminate(o) ==
    /\ loop = Free
    /\ Expired(o)
    /\ objective[o].cancel = "aged"
    /\ objective' = [objective EXCEPT ![o].terminal = "timed_out"]
    /\ loop' = Watchdog(o, "accounting")
    /\ UNCHANGED <<safeMode, gateSafeMode, run, crashes>>

(* Mutant: the counters are written and the status is not.                 *)
AccountTimeoutKeepingStatus(o) ==
    /\ loop = Watchdog(o, "accounting")
    /\ objective' = [objective EXCEPT ![o].failures = @ + 1, ![o].total = @ + 1]
    /\ loop' = Watchdog(o, "clearing")
    /\ UNCHANGED <<safeMode, gateSafeMode, run, crashes>>

(* applyFailedAttemptAccounting, with the default policy.                  *)
AccountTimeout(o) ==
    LET row == objective[o]
        default == [stored |-> TRUE, degradeAfter |-> DefaultDegradeAfter, cools |-> TRUE]
    IN
    /\ loop = Watchdog(o, "accounting")
    /\ UpdateRow(o, FailedRow(row, default, row.failures, row.total))
    /\ loop' = Watchdog(o, "clearing")
    /\ UNCHANGED <<safeMode, gateSafeMode, run, crashes>>

ClearTimedOut(o) ==
    /\ loop = Watchdog(o, "clearing")
    /\ UpdateRow(o, ClearActiveAttempt(objective[o]))
    /\ loop' = Free
    /\ UNCHANGED <<safeMode, gateSafeMode, run, crashes>>

-----------------------------------------------------------------------------
(***************************************************************************)
(* Operator.                                                               *)
(***************************************************************************)

(* manualReset, from any status; the active attempt and the generation     *)
(* are left alone.                                                         *)
ManualReset(o) ==
    LET p == Policy[o] IN
    /\ loop = Free
    /\ UpdateRow(o, [objective[o] EXCEPT
                       !.status = "idle", !.cooldown = "none",
                       !.failures = IF p.stored /\ p.resetOnManualReset THEN 0 ELSE @])
    /\ UNCHANGED <<safeMode, gateSafeMode, run, loop, crashes>>

SetHold(o) ==
    /\ loop = Free
    /\ \E b \in BOOLEAN : objective' = [objective EXCEPT ![o].hold = b]
    /\ UNCHANGED <<safeMode, gateSafeMode, run, loop, crashes>>

SetEnabled(o) ==
    /\ loop = Free
    /\ \E b \in BOOLEAN : objective' = [objective EXCEPT ![o].enabled = b]
    /\ UNCHANGED <<safeMode, gateSafeMode, run, loop, crashes>>

(* StateGraph.enableSafeMode and disableSafeMode.                          *)
SetSafeMode ==
    /\ loop = Free
    /\ safeMode' \in BOOLEAN
    /\ UNCHANGED <<objective, gateSafeMode, run, loop, crashes>>

(* ReconciliationGate.enableSafeMode and disableSafeMode.                  *)
SetGateSafeMode ==
    /\ loop = Free
    /\ gateSafeMode' \in BOOLEAN
    /\ UNCHANGED <<objective, safeMode, run, loop, crashes>>

-----------------------------------------------------------------------------
(***************************************************************************)
(* Time and failures.                                                      *)
(***************************************************************************)
CooldownElapses(o) ==
    /\ objective[o].cooldown = "ahead"
    /\ objective' = [objective EXCEPT ![o].cooldown = "passed"]
    /\ UNCHANGED <<safeMode, gateSafeMode, run, loop, crashes>>

DeadlineElapses(o) ==
    /\ objective[o].deadline = "ahead"
    /\ objective' = [objective EXCEPT ![o].deadline = "passed"]
    /\ UNCHANGED <<safeMode, gateSafeMode, run, loop, crashes>>

GraceElapses(o) ==
    /\ objective[o].cancel = "requested"
    /\ objective' = [objective EXCEPT ![o].cancel = "aged"]
    /\ UNCHANGED <<safeMode, gateSafeMode, run, loop, crashes>>

(* The process dies between two UPDATEs and starts again.                  *)
Crash ==
    /\ crashes < MaxCrashes
    /\ crashes' = crashes + 1
    /\ run' = [w \in Workers |-> Idle(run[w].obj)]
    /\ loop' = Free
    /\ gateSafeMode' = FALSE
    /\ UNCHANGED <<objective, safeMode>>

-----------------------------------------------------------------------------
Evaluate(w) ==
    \/ \E o \in Objectives : StartEvaluation(w, o)
    \/ ObserveHealthy(w)
    \/ Admit(w)
    \/ Refuse(w)

BridgeAnswers(w) ==
    \/ IgnoreStale(w)
    \/ \E outcome \in Outcome : AcceptResult(w, outcome)
    \/ BridgeThrows(w)

(* The steps of worker w that only wait for the event loop.                *)
Continue(w) ==
    \/ RejectExecution(w)
    \/ PlanNotFound(w)
    \/ StartExecution(w)
    \/ Settle(w)
    \/ Clear(w)

WatchdogStep(o) ==
    \/ RequestCancel(o)
    \/ ForceTerminate(o)
    \/ AccountTimeout(o)
    \/ ClearTimedOut(o)

Operator ==
    \/ \E o \in Objectives : ManualReset(o) \/ SetHold(o) \/ SetEnabled(o)
    \/ SetSafeMode
    \/ SetGateSafeMode

Elapse(o) == CooldownElapses(o) \/ DeadlineElapses(o) \/ GraceElapses(o)

Next ==
    \/ \E w \in Workers : Evaluate(w) \/ BridgeAnswers(w) \/ Continue(w)
    \/ \E o \in Objectives : WatchdogStep(o) \/ Elapse(o)
    \/ Operator
    \/ Crash

Spec == Init /\ [][Next]_vars

(***************************************************************************)
(* Fairness.  A chain that holds the loop is run on by the JavaScript      *)
(* engine; the clock advances; setInterval calls the watchdog again and    *)
(* again (strongly fair: each tick finds the loop free only now and then). *)
(* Nothing is assumed of evaluations, of the bridge or of operators.       *)
(***************************************************************************)
Fairness ==
    /\ \A w \in Workers : WF_vars(Continue(w))
    /\ \A o \in Objectives : SF_vars(WatchdogStep(o)) /\ WF_vars(Elapse(o))

FairSpec == Spec /\ Fairness

-----------------------------------------------------------------------------
(***************************************************************************)
(* Safety.                                                                 *)
(***************************************************************************)

(* No failure is charged twice, and none without an admission: the         *)
(* watchdog and a late trigger may both account for one attempt, each from *)
(* its own reading of the row, and the totals still never exceed the       *)
(* admissions made (applyFailedAttemptAccounting, handleExecutionFailure). *)
FailureAccounting ==
    \A o \in Objectives :
        /\ objective[o].failures <= objective[o].total
        /\ objective[o].total <= objective[o].generation

(* The circuit breaker: an objective is never reconciling with as many     *)
(* consecutive failures as its policy allows, whichever handler counted    *)
(* them and whatever an operator or a passive recovery did to its status   *)
(* in between (_evaluatePolicy).                                           *)
BreakerHolds ==
    \A o \in Objectives :
        objective[o].status = "reconciling" /\ Policy[o].stored
            => objective[o].failures < Policy[o].max

Live(w) == run[w].pc \in {"admitted", "executing", "settling", "clearing"}

(* One generation, one execution: evaluations that overlap, and a remedy   *)
(* that outlives its lease, never run under the same generation, so the    *)
(* generation is a fence (applyTransition, admitAndTransition).            *)
GenerationIsExclusive ==
    \A v, w \in Workers :
        v # w /\ Live(v) /\ Live(w) /\ run[v].obj = run[w].obj
            => run[v].gen # run[w].gen

(* From admission to the trigger's preconditions nothing can intervene:    *)
(* the row is still reconciling in the admitted generation, with no hold   *)
(* and no safe mode, when the trigger reads it again.                      *)
AdmissionStillValid ==
    \A w \in Workers :
        run[w].pc = "admitted" =>
            /\ Preconditions(objective[run[w].obj], run[w].gen, FALSE)
            /\ ~safeMode
            /\ ~gateSafeMode

(* A result the bridge returned changes the row only while its own attempt *)
(* holds the lease, in every UPDATE it leads to, and none once that attempt*)
(* has timed out or been superseded (the isStale test).                    *)
OnlyTheLeaseWrites ==
    [][\A w \in Workers :
          /\ run[w].pc \in {"executing", "settling", "clearing"}
          /\ run[w].outcome # "threw"
          /\ run'[w] # run[w]
          /\ objective' # objective
          => /\ objective[run[w].obj].attempt = run[w].gen
             /\ objective[run[w].obj].generation = run[w].gen]_vars

(***************************************************************************)
(* Liveness.                                                               *)
(***************************************************************************)

(* A lease ends: an enabled objective that is reconciling under a lease    *)
(* does not stay so, though the bridge never answers and the process       *)
(* crashes in the middle of a watchdog tick (handleExpiredLease).          *)
LeaseIsBounded ==
    \A o \in Objectives :
        (objective[o].status = "reconciling" /\ objective[o].attempt # 0)
            ~> (objective[o].status # "reconciling" \/ ~objective[o].enabled)

(***************************************************************************)
(* What comments in the code say and the code does not do.                 *)
(***************************************************************************)

(* "Admission grants bounded authority in time" (execution-watchdog.js): an*)
(* admitted reconciliation of an enabled objective ends.                   *)
AdmissionIsBounded ==
    \A o \in Objectives :
        (objective[o].status = "reconciling")
            ~> (objective[o].status # "reconciling" \/ ~objective[o].enabled)
=============================================================================
