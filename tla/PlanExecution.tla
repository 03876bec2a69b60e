---------------------------- MODULE PlanExecution ----------------------------
(***************************************************************************)
(* PlanExecutionEngine: plans of several steps execute concurrently in one *)
(* process.  A step waits for its dependencies and its condition, takes an *)
(* execution lock on each of its targets, passes the approval checkpoint,  *)
(* calls the action executor with a timeout and retries, verifies, and     *)
(* releases the locks.                                                     *)
(*                                                                         *)
(* An action is the stretch between two awaits on the lock table or on the *)
(* outside, so plans interleave as their microtasks may.  Such stretches   *)
(* take no time: the clock ticks only while every plan waits for a timer,  *)
(* for the executor or for the verification engine.                        *)
(***************************************************************************)
EXTENDS ExecutionLocks, Sequences

CONSTANTS
    Steps,        \* [Plans -> Seq(Step)]
    LockBuffer,   \* the 60 seconds added to a step's timeout, in ticks
    Approvals,    \* whether approvals are granted; {} if the engine has no approval manager
    HasLedger,    \* whether the engine was given a state graph to log to
    MaxCrashes    \* bound: process crashes

(* `ref` is 0 without a step_ref; `expression` says whether there is one.  *)
Condition ==
    [type : {"always", "if_succeeded", "if_failed", "custom"}, ref : Nat, expression : BOOLEAN]

Step ==
    [targets : Seq(Targets), dependsOn : SUBSET Nat, condition : Condition,
     needsApproval : BOOLEAN, timeout : Nat \ {0}, verify : Nat, attempts : Nat \ {0},
     delay : Nat, backoff : {"fixed", "linear", "exponential"}, aborts : BOOLEAN]

ASSUME StepsAssumption == Steps \in [Plans -> Seq(Step)]
ASSUME BoundsAssumption ==
    /\ LockBuffer \in Nat
    /\ Approvals \subseteq BOOLEAN
    /\ HasLedger \in BOOLEAN
    /\ MaxCrashes \in Nat

VARIABLES
    run,      \* [Plans -> Run], local variables of executePlan and what it calls
    status,   \* stepStates of each plan's context
    crashes   \* crashes so far

vars == <<locks, run, status, crashes>>

StepStatus ==
    {"pending", "ready", "running", "retrying", "completed", "failed", "skipped", "blocked"}

LockIds == [target : Targets, owner : Plans, step : Nat]

Pc == {"idle", "step", "sweep", "mark", "read", "decide", "rollback", "ready", "acting",
       "verifying", "waiting", "release", "done", "failed", "dead"}

Run ==
    [pc : Pc,
     step : Nat \ {0},            \* the current step
     next : Nat,                  \* which of its targets is being locked
     stale : SUBSET LockIds,      \* what expireStaleLocks selected
     seen : Lock,                 \* what getActiveLock returned
     acquired : SUBSET LockIds,   \* acquiredLocks of _acquireStepLocks
     held : SUBSET LockIds,       \* acquiredLocks of the plan's context
     attempt : Nat,
     timer : Nat,                 \* time until the pending timer fires
     thrown : BOOLEAN,            \* an error is on its way to executePlan
     orphans : SUBSET Nat]        \* steps with an action that outlived its timeout

StepsOf(p) == 1 .. Len(Steps[p])

TypeOK ==
    /\ locks \in [Targets -> Lock]
    /\ run \in [Plans -> Run]
    /\ DOMAIN status = Plans
    /\ \A p \in Plans : status[p] \in [StepsOf(p) -> StepStatus]
    /\ crashes \in 0 .. MaxCrashes

NotStarted ==
    [pc |-> "idle", step |-> 1, next |-> 0, stale |-> {}, seen |-> NoLock, acquired |-> {},
     held |-> {}, attempt |-> 0, timer |-> 0, thrown |-> FALSE, orphans |-> {}]

Init ==
    /\ NoLocks
    /\ run = [p \in Plans |-> NotStarted]
    /\ status = [p \in Plans |-> [i \in StepsOf(p) |-> "pending"]]
    /\ crashes = 0

-----------------------------------------------------------------------------
(***************************************************************************)
(* Helpers.                                                                *)
(***************************************************************************)
Current(p) == Steps[p][run[p].step]
TargetsOf(s) == {s.targets[k] : k \in DOMAIN s.targets}
Target(p) == Current(p).targets[run[p].next]

At(p, pc) == run[p].pc = pc
Become(p, r) == run' = [run EXCEPT ![p] = r]
SetStatus(p, st) == status' = [status EXCEPT ![p][run[p].step] = st]

(* A return from _executeStep to the loop of executePlan, which goes on    *)
(* with the next step whatever became of this one.                         *)
NextStep(r) ==
    [r EXCEPT !.pc = "step", !.step = @ + 1, !.next = 0, !.seen = NoLock, !.attempt = 0,
              !.timer = 0]

(* An error reached executePlan, which logs it and rethrows.               *)
Fail(r) == [r EXCEPT !.pc = "failed", !.next = 0, !.seen = NoLock, !.attempt = 0,
                     !.timer = 0, !.thrown = FALSE]

(* ttl_seconds of a step's locks.                                          *)
Ttl(s) == s.timeout + LockBuffer

(* _calculateRetryDelay.                                                   *)
RetryDelay(s, attempt) ==
    CASE s.backoff = "linear" -> s.delay * attempt
      [] s.backoff = "exponential" -> s.delay * 2 ^ (attempt - 1)
      [] OTHER -> s.delay

-----------------------------------------------------------------------------
(***************************************************************************)
(* Choosing the steps: executePlan and the head of _executeStep.           *)
(***************************************************************************)
StartPlan(p) ==
    /\ At(p, "idle")
    /\ Become(p, [run[p] EXCEPT !.pc = "step"])
    /\ UNCHANGED <<locks, status, crashes>>

(* Mutant: a failed dependency counts as done.                             *)
DependenciesEnded(p, s) ==
    \A d \in s.dependsOn :
        d \in StepsOf(p) /\ status[p][d] \in {"completed", "skipped", "failed"}

(* areDependenciesSatisfied.                                               *)
DependenciesSatisfied(p, s) ==
    \A d \in s.dependsOn : d \in StepsOf(p) /\ status[p][d] \in {"completed", "skipped"}

(* isConditionMet: the values it can return.  A custom condition reads the *)
(* result of the step it refers to, which only a completed step has; with  *)
(* no step to refer to, or no expression, a condition is met.              *)
ConditionValues(p, c) ==
    IF c.type = "always" \/ c.ref = 0 THEN {TRUE}
    ELSE IF c.ref \notin StepsOf(p) THEN {FALSE}
    ELSE CASE c.type = "if_succeeded" -> {status[p][c.ref] = "completed"}
           [] c.type = "if_failed" -> {status[p][c.ref] = "failed"}
           [] c.type = "custom" /\ c.expression -> {FALSE, status[p][c.ref] = "completed"}
           [] OTHER -> {TRUE}

BlockStep(p) ==
    /\ At(p, "step")
    /\ run[p].step \in StepsOf(p)
    /\ ~DependenciesSatisfied(p, Current(p))
    /\ SetStatus(p, "blocked")
    /\ Become(p, NextStep(run[p]))
    /\ UNCHANGED <<locks, crashes>>

SkipStep(p) ==
    /\ At(p, "step")
    /\ run[p].step \in StepsOf(p)
    /\ DependenciesSatisfied(p, Current(p))
    /\ FALSE \in ConditionValues(p, Current(p).condition)
    /\ SetStatus(p, "skipped")
    /\ Become(p, NextStep(run[p]))
    /\ UNCHANGED <<locks, crashes>>

EnterStep(p) ==
    /\ At(p, "step")
    /\ run[p].step \in StepsOf(p)
    /\ DependenciesSatisfied(p, Current(p))
    /\ TRUE \in ConditionValues(p, Current(p).condition)
    /\ IF Current(p).targets = << >>
       THEN /\ SetStatus(p, "ready")
            /\ Become(p, [run[p] EXCEPT !.pc = "ready"])
       ELSE /\ UNCHANGED status
            /\ Become(p, [run[p] EXCEPT !.pc = "sweep", !.next = 1])
    /\ UNCHANGED <<locks, crashes>>

(* After the last step.                                                    *)
FinishPlan(p) ==
    /\ At(p, "step")
    /\ run[p].step \notin StepsOf(p)
    /\ Become(p, [run[p] EXCEPT !.pc = "done"])
    /\ UNCHANGED <<locks, status, crashes>>

(* _determinePlanOutcome.                                                  *)
PlanOutcome(p) ==
    LET reached == {status[p][i] : i \in StepsOf(p)} IN
    CASE "failed" \in reached -> "failed"
      [] "failed" \notin reached /\ "blocked" \in reached -> "blocked"
      [] reached \subseteq {"completed", "skipped"} -> "success"
      [] OTHER -> "partial"

-----------------------------------------------------------------------------
(***************************************************************************)
(* _acquireStepLocks: one acquireLock per target, in order.                *)
(***************************************************************************)
Sweep(p) ==
    /\ At(p, "sweep")
    /\ Become(p, [run[p] EXCEPT !.pc = "mark", !.stale = StaleLocks])
    /\ UNCHANGED <<locks, status, crashes>>

MarkExpired(p) ==
    /\ At(p, "mark")
    /\ ExpireLocks(run[p].stale)
    /\ Become(p, [run[p] EXCEPT !.pc = "read", !.stale = {}])
    /\ UNCHANGED <<status, crashes>>

ReadLock(p) ==
    /\ At(p, "read")
    /\ Become(p, [run[p] EXCEPT !.pc = "decide", !.seen = ActiveLock(Target(p))])
    /\ UNCHANGED <<locks, status, crashes>>

(* acquireLock succeeded with the lock `id`; after the last target the     *)
(* locks are the context's and the step is ready.                          *)
Acquired(p, id) ==
    LET ids == run[p].acquired \cup {id} IN
    IF run[p].next < Len(Current(p).targets)
    THEN /\ Become(p, [run[p] EXCEPT !.pc = "sweep", !.next = @ + 1, !.seen = NoLock,
                                     !.acquired = ids])
         /\ UNCHANGED status
    ELSE /\ Become(p, [run[p] EXCEPT !.pc = "ready", !.next = 0, !.seen = NoLock,
                                     !.acquired = {}, !.held = @ \cup ids])
         /\ SetStatus(p, "ready")

TakeLock(p) ==
    LET step == run[p].step IN
    /\ At(p, "decide")
    /\ run[p].seen.owner = Nobody
    /\ InsertLock(Target(p), p, step, Ttl(Current(p)))
    /\ Acquired(p, [target |-> Target(p), owner |-> p, step |-> step])
    /\ UNCHANGED crashes

(* The same execution has it already, from a step that kept it: the lock   *)
(* is used as it is.                                                       *)
ReenterLock(p) ==
    LET seen == run[p].seen IN
    /\ At(p, "decide")
    /\ seen.owner = p
    /\ Acquired(p, [target |-> Target(p), owner |-> p, step |-> seen.step])
    /\ UNCHANGED <<locks, crashes>>

(* Mutant: the lock is awaited.                                            *)
ConflictWaits(p) ==
    /\ At(p, "decide")
    /\ run[p].seen.owner \notin {Nobody, p}
    /\ Become(p, [run[p] EXCEPT !.pc = "sweep", !.seen = NoLock])
    /\ UNCHANGED <<locks, status, crashes>>

(* Another execution has it: what was acquired is released and the step    *)
(* blocked.                                                                *)
Conflict(p) ==
    /\ At(p, "decide")
    /\ run[p].seen.owner \notin {Nobody, p}
    /\ Become(p, [run[p] EXCEPT !.pc = "rollback"])
    /\ UNCHANGED <<locks, status, crashes>>

(* Another execution inserted a row since the SELECT: the INSERT throws,   *)
(* what was acquired is released and the plan fails.                       *)
InsertFails(p) ==
    /\ At(p, "decide")
    /\ run[p].seen.owner = Nobody
    /\ Held(Target(p))
    /\ Become(p, [run[p] EXCEPT !.pc = "rollback", !.thrown = TRUE])
    /\ UNCHANGED <<locks, status, crashes>>

RollbackLock(p) ==
    \E id \in run[p].acquired :
        /\ At(p, "rollback")
        /\ ReleaseLock(id)
        /\ Become(p, [run[p] EXCEPT !.acquired = @ \ {id}])
        /\ UNCHANGED <<status, crashes>>

(* Mutant: what was acquired is not released.                              *)
EndRollbackKeeping(p) ==
    /\ At(p, "rollback")
    /\ Become(p, IF run[p].thrown THEN Fail(run[p]) ELSE NextStep(run[p]))
    /\ SetStatus(p, "blocked")
    /\ UNCHANGED <<locks, crashes>>

(* Mutant: the step's state is not updated.                                *)
EndRollbackSilently(p) ==
    /\ At(p, "rollback")
    /\ run[p].acquired = {}
    /\ Become(p, IF run[p].thrown THEN Fail(run[p]) ELSE NextStep(run[p]))
    /\ UNCHANGED <<locks, status, crashes>>

(* The step is blocked, or the error rethrown, when all is released.       *)
EndRollback(p) ==
    /\ At(p, "rollback")
    /\ run[p].acquired = {}
    /\ IF run[p].thrown
       THEN /\ Become(p, Fail(run[p]))
            /\ UNCHANGED status
       ELSE /\ Become(p, NextStep(run[p]))
            /\ SetStatus(p, "blocked")
    /\ UNCHANGED <<locks, crashes>>

-----------------------------------------------------------------------------
(***************************************************************************)
(* Approval checkpoint, action, verification and retries.                  *)
(***************************************************************************)
Acting(p, attempt) ==
    [run[p] EXCEPT !.pc = "acting", !.attempt = attempt, !.timer = Current(p).timeout]

StartAction(p) ==
    /\ At(p, "ready")
    /\ ~Current(p).needsApproval \/ Approvals = {}
    /\ Become(p, Acting(p, 1))
    /\ SetStatus(p, "running")
    /\ UNCHANGED <<locks, crashes>>

(* _checkApprovalResolution, then a ledger event with the stage 'approval'.*)
(* The ledger does not know that stage and throws, outside the try block   *)
(* whose finally releases the locks; without a ledger a step that is not   *)
(* granted returns, outside that block too.                                *)
ResolveApproval(p) ==
    \E granted \in Approvals :
        /\ At(p, "ready")
        /\ Current(p).needsApproval
        /\ Become(p, CASE HasLedger -> Fail(run[p])
                       [] ~HasLedger /\ granted -> Acting(p, 1)
                       [] ~HasLedger /\ ~granted -> NextStep(run[p]))
        /\ SetStatus(p, CASE ~granted -> "failed"
                          [] granted /\ HasLedger -> "ready"
                          [] granted /\ ~HasLedger -> "running")
        /\ UNCHANGED <<locks, crashes>>

Completed(p) ==
    /\ Become(p, [run[p] EXCEPT !.pc = "release", !.timer = 0])
    /\ SetStatus(p, "completed")

(* The executor returned; the result is not inspected.                     *)
ActionReturns(p) ==
    /\ At(p, "acting")
    /\ IF Current(p).verify = 0
       THEN Completed(p)
       ELSE /\ Become(p, [run[p] EXCEPT !.pc = "verifying", !.timer = Current(p).verify])
            /\ UNCHANGED status
    /\ UNCHANGED <<locks, crashes>>

(* The verification's verdict is recorded and not inspected.               *)
VerificationReturns(p) ==
    /\ At(p, "verifying")
    /\ Completed(p)
    /\ UNCHANGED <<locks, crashes>>

(* Mutant: the failure strategy is not applied.                            *)
AttemptFailsQuietly(p, orphans) ==
    LET s == Current(p)
        r == [run[p] EXCEPT !.orphans = orphans]
    IN
    IF r.attempt < s.attempts
    THEN /\ Become(p, [r EXCEPT !.pc = "waiting", !.timer = RetryDelay(s, r.attempt)])
         /\ UNCHANGED status
    ELSE /\ Become(p, [r EXCEPT !.pc = "release", !.timer = 0])
         /\ SetStatus(p, "failed")

(* The catch block of the retry loop: another attempt after the delay, or  *)
(* the step has failed and _handleStepFailure may abort the plan.          *)
AttemptFails(p, orphans) ==
    LET s == Current(p)
        r == [run[p] EXCEPT !.orphans = orphans]
    IN
    IF r.attempt < s.attempts
    THEN /\ Become(p, [r EXCEPT !.pc = "waiting", !.timer = RetryDelay(s, r.attempt)])
         /\ UNCHANGED status
    ELSE /\ Become(p, [r EXCEPT !.pc = "release", !.timer = 0, !.thrown = s.aborts])
         /\ SetStatus(p, "failed")

ActionThrows(p) ==
    /\ At(p, "acting")
    /\ AttemptFails(p, run[p].orphans)
    /\ UNCHANGED <<locks, crashes>>

(* Promise.race: the attempt fails and the action runs on.                 *)
ActionTimesOut(p) ==
    /\ At(p, "acting")
    /\ run[p].timer = 0
    /\ AttemptFails(p, run[p].orphans \cup {run[p].step})
    /\ UNCHANGED <<locks, crashes>>

VerificationThrows(p) ==
    /\ At(p, "verifying")
    /\ AttemptFails(p, run[p].orphans)
    /\ UNCHANGED <<locks, crashes>>

Retry(p) ==
    /\ At(p, "waiting")
    /\ run[p].timer = 0
    /\ Become(p, Acting(p, run[p].attempt + 1))
    /\ SetStatus(p, "retrying")
    /\ UNCHANGED <<locks, crashes>>

(* An action that had outlived its timeout ends.                           *)
OrphanEnds(p) ==
    \E i \in run[p].orphans :
        /\ Become(p, [run[p] EXCEPT !.orphans = @ \ {i}])
        /\ UNCHANGED <<locks, status, crashes>>

-----------------------------------------------------------------------------
(***************************************************************************)
(* The finally block: _releaseStepLocks, for a step that has targets.      *)
(***************************************************************************)
ReleaseStepLock(p) ==
    \E id \in run[p].held :
        /\ At(p, "release")
        /\ Current(p).targets # << >>
        /\ ReleaseLock(id)
        /\ Become(p, [run[p] EXCEPT !.held = @ \ {id}])
        /\ UNCHANGED <<status, crashes>>

EndStep(p) ==
    /\ At(p, "release")
    /\ Current(p).targets = << >> \/ run[p].held = {}
    /\ Become(p, IF run[p].thrown THEN Fail(run[p]) ELSE NextStep(run[p]))
    /\ UNCHANGED <<locks, status, crashes>>

-----------------------------------------------------------------------------
(***************************************************************************)
(* Time and failures.                                                      *)
(***************************************************************************)
Timed == {"acting", "verifying", "waiting"}

(* Nothing is left to do at this instant.                                  *)
Quiet(p) ==
    \/ run[p].pc \in {"idle", "done", "failed", "dead"}
    \/ run[p].pc \in Timed /\ run[p].timer > 0

Tick ==
    /\ \A p \in Plans : Quiet(p)
    /\ LocksTick
    /\ run' = [p \in Plans |-> IF run[p].pc \in Timed
                               THEN [run[p] EXCEPT !.timer = @ - 1] ELSE run[p]]
    /\ UNCHANGED <<status, crashes>>

(* The process dies and starts again: the plans that were executing are    *)
(* not resumed, their locks stay.                                          *)
Crash ==
    /\ crashes < MaxCrashes
    /\ crashes' = crashes + 1
    /\ run' = [p \in Plans |->
                  [NotStarted EXCEPT !.pc = IF At(p, "idle") THEN "idle" ELSE "dead"]]
    /\ UNCHANGED <<locks, status>>

-----------------------------------------------------------------------------
ChooseStep(p) == BlockStep(p) \/ SkipStep(p) \/ EnterStep(p) \/ FinishPlan(p)

AcquireStepLocks(p) ==
    \/ Sweep(p)
    \/ MarkExpired(p)
    \/ ReadLock(p)
    \/ TakeLock(p)
    \/ ReenterLock(p)
    \/ Conflict(p)
    \/ InsertFails(p)
    \/ RollbackLock(p)
    \/ EndRollback(p)

(* What the executor does when it likes.                                   *)
ExecutorAnswers(p) == ActionReturns(p) \/ ActionThrows(p) \/ OrphanEnds(p)

ExecuteStep(p) ==
    \/ StartAction(p)
    \/ ResolveApproval(p)
    \/ ActionTimesOut(p)
    \/ VerificationReturns(p)
    \/ VerificationThrows(p)
    \/ Retry(p)
    \/ ReleaseStepLock(p)
    \/ EndStep(p)

(* The steps that need nobody but the JavaScript engine, its timers and    *)
(* the verification engine, which bounds its own time.                     *)
Continue(p) == ChooseStep(p) \/ AcquireStepLocks(p) \/ ExecuteStep(p)

Next ==
    \/ \E p \in Plans : StartPlan(p) \/ Continue(p) \/ ExecutorAnswers(p)
    \/ Tick
    \/ Crash

Spec == Init /\ [][Next]_vars

(***************************************************************************)
(* Fairness.  The JavaScript engine runs what is ready and fires timers,   *)
(* and the clock advances.  Nothing is assumed of the callers that start   *)
(* plans or of the action executor.                                        *)
(***************************************************************************)
Fairness == (\A p \in Plans : WF_vars(Continue(p))) /\ WF_vars(Tick)

FairSpec == Spec /\ Fairness

-----------------------------------------------------------------------------
(***************************************************************************)
(* Safety.                                                                 *)
(***************************************************************************)

(* The attempts of a step, with the delays between them, fit in the lease  *)
(* that its locks are taken for.  Nothing in the code sees to it: the ttl  *)
(* is one timeout and a buffer, whatever retry_policy says.                *)
LeaseCovers(s) ==
    \E d \in 0 .. Ttl(s) :
        /\ \A a \in 1 .. s.attempts - 1 : RetryDelay(s, a) <= d
        /\ s.attempts * (s.timeout + s.verify) + (s.attempts - 1) * d < Ttl(s)

LeasesCover ==
    \A p \in Plans : \A i \in StepsOf(p) :
        Steps[p][i].targets # << >> => LeaseCovers(Steps[p][i])

(* A step that may stop at the approval checkpoint keeps its locks.        *)
KeepsLocks(p, i) == Steps[p][i].needsApproval /\ Approvals # {}

(* What a plan is working on: the targets of a step from its first attempt *)
(* to its last.                                                            *)
Working(p) == IF run[p].pc \in Timed THEN TargetsOf(Current(p)) ELSE {}

Mutex == INSTANCE ExclusiveTargets WITH working <- [p \in Plans |-> Working(p)]

(* Where leases cover the steps, plans take a step's targets all at once   *)
(* and exclusively, although they lock them one by one, in any order, each *)
(* after a SELECT that may be out of date when the INSERT follows.         *)
TargetsAreExclusive == Mutex!Spec

(* A plan that works on a target holds its lock, unexpired, to the end of  *)
(* the last attempt: nobody sweeps, replaces or releases it meanwhile.     *)
WorkIsLocked ==
    \A p \in Plans : \A t \in Working(p) : ActiveLock(t).owner = p

(* All or nothing, and no leak: an active lock belongs to the step its     *)
(* owner is at, through conflicts, failed inserts, retries and errors.     *)
(* What is left behind is the lock of a plan that died, and that of a step *)
(* which stopped at the approval checkpoint.                               *)
LocksReturned ==
    \A t \in Targets : Held(t) =>
        LET p == locks[t].owner IN
        \/ At(p, "dead")
        \/ KeepsLocks(p, locks[t].step)
        \/ locks[t].step = run[p].step /\ run[p].pc \notin {"idle", "step", "done", "failed"}

(* A step that was given the go-ahead has all its dependencies completed   *)
(* or skipped, and they stay so.                                           *)
DependenciesHold ==
    \A p \in Plans : \A i \in StepsOf(p) :
        status[p][i] \notin {"pending", "blocked"} =>
            \A d \in Steps[p][i].dependsOn :
                d \in StepsOf(p) /\ status[p][d] \in {"completed", "skipped"}

(* The failure of a step whose strategy is abort ends the plan: no later   *)
(* step runs and the plan does not complete.  A step that is not granted   *)
(* its approval is marked failed and aborts nothing.                       *)
AbortEndsThePlan ==
    \A p \in Plans : \A i \in StepsOf(p) :
        status[p][i] = "failed" /\ Steps[p][i].aborts /\ ~Steps[p][i].needsApproval =>
            /\ ~At(p, "done")
            /\ \A j \in StepsOf(p) : j > i => status[p][j] = "pending"

(* A plan that completes has decided every step: the outcome 'partial' is  *)
(* never reported.                                                         *)
OutcomeIsDecided == \A p \in Plans : At(p, "done") => PlanOutcome(p) # "partial"

(***************************************************************************)
(* Liveness.                                                               *)
(***************************************************************************)

(* Every plan that is started ends, though the executor never answers and  *)
(* other plans contend for its targets: locks are refused, not awaited.    *)
PlanEnds == \A p \in Plans : At(p, "step") ~> run[p].pc \in {"done", "failed", "dead"}

(***************************************************************************)
(* What comments in the code say and the code does not do.                 *)
(***************************************************************************)
Modifying(p) ==
    (IF At(p, "acting") THEN TargetsOf(Current(p)) ELSE {})
        \cup UNION {TargetsOf(Steps[p][i]) : i \in run[p].orphans}

(* "No two plans can concurrently modify the same target" (the header of   *)
(* execution-lock-manager.js), the actions that outlive their timeout      *)
(* included.                                                               *)
NoConcurrentModification ==
    \A p, q \in Plans : p # q => Modifying(p) \cap Modifying(q) = {}
=============================================================================
