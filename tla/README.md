# Verification of the Vienna OS execution core

Vienna OS governs what software agents may do to real systems: it observes
managed objectives, decides whether to repair them, plans the repair, executes
the plan under locks and approvals, and keeps evidence of it all. This directory
holds TLA+ models of the parts of that path where concurrency, time and failure
make the code hard to test, the TLC runs that check them, and TLAPS proofs of
their main properties. Paths below are relative to
`src/services/vienna-lib/` unless they start with `src/`.

1. [Inventory](#1-inventory)
2. [Plan](#2-plan)
3. [Modules](#3-modules)
4. [Runs](#4-runs)
5. [Proofs](#5-proofs)
6. [What is only model-checked, and what is not modelled](#6-limits)
7. [How to run](#7-how-to-run)

## 1. Inventory

The program is JavaScript on a single-threaded event loop. Its state is in a
SQLite database behind `state/state-graph.js`, whose calls are synchronous: an
UPDATE commits when it returns, and no transaction spans two of them. Code runs
to completion between two awaits; where an `async` function awaits another that
does no I/O, only microtasks come in between. Timers (`setInterval`,
`setTimeout`) and promises of external work are the only sources of real
interleaving. A process can die between any two statements.

### Components with logic of their own

**Objective reconciliation** (`core/objective-evaluator-integrated.js`,
`core/reconciliation-gate.js`, `core/remediation-trigger-integrated.js`,
`core/execution-watchdog.js`, `core/reconciliation-state-machine.js`,
`core/failure-policy-schema.js`, `core/objective-coordinator-integrated.js`).
*State*: one row of `managed_objectives` per objective: status, generation,
failure counters, the active attempt with its deadline and cancel request,
cooldown, the last terminal reason, manual hold, enabled. *Operations*: evaluate
(observe, then admit or recover), execute an admitted remediation, settle its
result, watchdog tick and startup sweep, manual reset, hold, safe mode.
*Interaction*: all of them write the same row; the evaluator calls the gate, the
gate's admission is handed to the trigger, the trigger awaits a bridge that
executes a plan. *Hard*: overlapping evaluations, a remedy that outlives its
lease, a crash between the UPDATEs of one handler, two parties charging one
failure. *Correct when*: failures are charged at most once per admission, the
circuit breaker holds, generations fence executions, a result is written only
under its own lease, leases end.

**Plan execution engine** (`core/plan-execution-engine.js`,
`core/plan-step-schema.js`, `core/approval-resolution-handler.js`,
`core/target-extractor.js`). *State*: in memory, per execution: step states,
acquired locks, attempts. *Operations*: for each step dependencies, condition,
locks, approval checkpoint, action with timeout and retries, verification,
failure strategy, release. *Interaction*: with the lock table, the approval
manager, the action executor, the verification engine, the ledger. *Hard*: many
exits, of which some leave a `try` and some precede it; an action that outlives
its timeout. *Correct when*: work is done under locks, locks go back,
dependencies and `abort` are obeyed, every plan ends.

**Execution locks** (`execution/execution-lock-manager.js`, the table
`execution_locks` and its partial unique index in `state/schema.sql`). *State*:
one active row per target, with owner and expiry. *Operations*: acquire (sweep
expired rows, SELECT, INSERT), release, expire, extend. *Hard*: each acquisition
is several database calls with awaits in between. *Correct when*: what the
engine builds on it is mutual exclusion.

**Queued executor** (`execution/queued-executor.js` and the queue, dead letters,
control, budgets, rate limits, retry policy and recursion guard beside it).
*State*: a FIFO of envelopes with a log on disk, counters, a pause flag.
*Operations*: submit, execute next, retry, dead-letter, pause, resume, replay the
log. *Hard*: flags tested before an await and set after it, timeouts racing late
answers, retries that live in timers, replay after a crash. *Correct when*: an
envelope is executed once at a time, is not executed again once it has succeeded,
and is never forgotten.

**Governed work queue** (`queue/*.ts`). *State*: queue items, leases, execution
claims and workers in SQLite, shared by workers in several processes.
*Operations*: lease, claim, heartbeat, complete, retry, expire, recover. *Hard*:
read-then-insert across processes, leases that expire under a slow worker,
recovery of a dead one. *Correct when*: an item is executed at most once, its
end is final, and an item that is ready is served.

**Warrants and the warrant chain** (`governance/warrant.ts`,
`governance/warrant-chain.ts`, `governance/warrant-delegation.ts`, ...). *State*:
warrants with validity and revocation, a hash chain of them. *Operations*: issue,
verify, revoke, delegate, append, anchor. *Hard*: concurrent appends, revocation
that walks a tree others extend, delegation that must only narrow. *Correct
when*: the chain and its anchors verify, no delegation grants more or longer than
its ancestors had, a denial is not lost on the way down, and a revocation reaches all that was below.

**Approvals** (`core/approval-manager.js`, `core/approval-state-machine.js`,
...). *State*: requests that are pending, approved, denied or expired. *Hard*:
an answer racing the expiry. *Correct when*: a request is decided once. Not
modelled; see [section 6](#6-limits).

**Distributed locks and work distribution** (`distributed/*.js`). *State*: a
second lock table keyed by node, remote dispatches. *Hard*: as for execution
locks, with nodes that disappear and retried dispatches. Not modelled; see
[section 6](#6-limits).

### Components without a model of their own

- **Policy engine**, **intents and planning**: stateless evaluation of records.
- **Verification engine**: checks by I/O; its answer and its time limit
  (`runVerification` bounds itself, 15 s by default) are in the callers' models.
- **First-generation objectives**, **workflow engine**: superseded or simpler
  relatives of what is modelled.
- **State graph**: SQL; what callers rely on is modelled with the callers (the
  ledger's refusal of an unknown stage, `updateObjective`'s single UPDATE).
- **Providers, adapters, executors**: calls to models, shells and services,
  external here.
- **Crash recovery manager and runtime modes**: what recovery does to queued
  envelopes is in `QueuedExecution`; the rest writes events and resumes nothing.
- **Agents, learning, detection, simulation, governance extras, compliance,
  audit, workspaces**: heuristics, counters, reports.
- **Web applications and HTTP API** (`src/apps`), **SDKs, CLI, integrations**
  (`src/packages`, `src/sdks`, `src/integrations`): views and clients.

`PROJECT.json` lists the same components with their files, and under `hazards`
each place where the code can go wrong in a way a test would hardly reach, with
the properties that watch it or the reason why none does.

## 2. Plan

| step | modules | composes | to state | status |
|---|---|---|---|---|
| 1 | `Reconciliation` | evaluator, gate, trigger, watchdog, operator over one row | accounting, breaker, fencing, leases end | done, proved |
| 2 | `ExecutionLocks`, `PlanExecution`, `ExclusiveTargets` | engine over the lock table, implementing atomic exclusion | refinement, no leak, dependencies, termination | done, refinement proved |
| 3 | `ExecutionQueue`, `QueuedExecution`, `SerialExecution` | executor over queue, dead letters and log on disk, implementing a serial executor | one executor, slots returned, pause, durability, no second success, refinement, the queue drains | done, safety and refinement proved |
| 4 | `WorkQueue`, `GovernedItems` | scheduler cycles, detector, recovery over one database, implementing items with one execution | executed once, terminal states final, refinement, running ends, ready items are served | done, safety and refinement proved |
| 5 | `MerkleTree`, `WarrantChain`, `WarrantDelegation` | adapter over chain over store; delegation and revocation over their store | chain, anchors and Merkle proofs verify, authority and expiry shrink, revocation reaches | done, safety proved |
| 6 | approvals, distributed locks | | decided once; exclusion across nodes | not modelled, see section 6 |

Each module takes its actors, data and bounds as CONSTANTS with named
assumptions, has one action per handler stretch between two awaits, and no
RECURSIVE operator, so that it can be proved about. The modules of different
steps share no state: an envelope of the executor, a row of the work queue and a
warrant meet in the host program only, by calls these models take as input.

## 3. Modules

### `Reconciliation`

Variables: `objective` is the table, `safeMode` the flag in the state graph,
`gateSafeMode` the flag of the gate instance, `run[w]` the local variables of one
call of `evaluateSingleObjective` and all it calls, `loop` says who holds the
event loop, `crashes` counts.

*Grain.* One action is at most one UPDATE. A chain of calls that awaits nothing
but other such calls holds `loop` from its first UPDATE to its last, so nothing
but the clock and a crash comes between; it lets go at the observer's and at the
bridge's await. So `Admit` and the trigger's `StartExecution` are two actions
with a possible crash between them and nothing else, as in the code.

| code | actions |
|---|---|
| `evaluateObjective` | `StartEvaluation`, `ObserveHealthy`, `Admit`, `Refuse` |
| `requestAdmission`, `admitAndTransition` | `Admissible`, `AdmittedRow` |
| `executeAdmittedRemediation` | `RejectExecution`, `PlanNotFound`, `StartExecution`, `IgnoreStale`, `AcceptResult`, `BridgeThrows`, `Settle`, `Clear` |
| `watchdogTick`, `startupSweep`, `handleExpiredLease` | `RequestCancel`, `ForceTerminate`, `AccountTimeout`, `ClearTimedOut` |
| `manualReset`, hold, enable, safe mode | `ManualReset`, `SetHold`, `SetEnabled`, `SetSafeMode`, `SetGateSafeMode` |
| time | `CooldownElapses`, `DeadlineElapses`, `GraceElapses` |

*Data.* A timestamp is absent, ahead or passed. The attempt id is the generation
it executes. `CooldownActive` models the comparison of the column, an ISO string,
with what callers pass as the time: with a number it is always false.
`FailurePolicy` keeps the thresholds and whether the policy is stored at all.

*Assumptions.* One process per database. The evaluator was given its gate (the
coordinator in `core/objective-coordinator-integrated.js:173` builds one without;
then nothing is ever admitted). The database carries the columns of migration
10.3. Database calls do not throw. Policies have their thresholds. Default
observers resolve within the turn, injected ones suspend: suspending is modelled,
and covers both. The watchdog handles one row per step. `safe_mode` as a status
is never written; archived and suspended objectives, `attempt_count` and the
event log are left out.

### `ExecutionLocks`

The table as a function from targets to their active row (owner, step, time
left), and one operator per database call: `StaleLocks` and `ExpireLocks`
(`expireStaleLocks`, SELECT and UPDATEs), `ActiveLock` (`getActiveLock`),
`InsertLock` with the unique index, `ReleaseLock`, `LocksTick`. Rows that are
released or expired are never read for a decision and are left out; a lock id is
its target, owner and step. `extendLock` has no caller and is left out, as are
the listings.

### `PlanExecution`

Extends `ExecutionLocks`. `run[p]` is one call of `executePlan` with what it
calls: where it is (`pc`), the step, the target being locked, what the last
SELECT returned (`stale`, `seen`), the locks of `_acquireStepLocks` (`acquired`)
and of the plan's context (`held`), the attempt, the timer, an error under way,
and actions that outlived their timeout (`orphans`). `status[p]` is the
context's `stepStates`.

*Grain.* One action per stretch between two awaits on the lock table or the
outside; plans interleave at all of these, a superset of what microtasks do.

| code | actions |
|---|---|
| `executePlan` and the head of `_executeStep` | `StartPlan`, `BlockStep`, `SkipStep`, `EnterStep`, `FinishPlan` |
| `_acquireStepLocks`, `acquireLock` | `Sweep`, `MarkExpired`, `ReadLock`, then `TakeLock`, `ReenterLock`, `Conflict` or `InsertFails`; `RollbackLock`, `EndRollback` |
| approval checkpoint | `StartAction`, `ResolveApproval` |
| `_executeStepWithRetry`, `_executeStepAction`, `_verifyStep` | `ActionReturns`, `ActionThrows`, `ActionTimesOut`, `VerificationReturns`, `VerificationThrows`, `Retry`, `OrphanEnds` |
| `finally`, `_releaseStepLocks` | `ReleaseStepLock`, `EndStep` |

*Time.* One tick stands for 30 seconds in the instances; `LockBuffer` is the 60
seconds the engine adds to a step's timeout for its lease. The clock ticks only
when every plan waits for a timer or for the outside: code takes no time and
timers fire on time. What lateness there is in reality has the buffer to absorb
it; the properties about leases ask for strict slack.

*Approvals.* `Approvals` is the set of answers the checkpoint can give: empty
without an approval manager (the step proceeds), `{FALSE}` with the one in
`core/approval-manager.js`, whose rows have `required_tier` where
`resolveApprovalStatus` reads `tier`, so that nothing is ever granted, and
`{TRUE, FALSE}` with an injected one. A pending approval resolves to `missing`
and fails the step; the engine's branch for `pending_approval` is never taken.
An approval that is refused does not abort the plan, whatever its strategy.
`HasLedger` says whether the engine has a state graph: the ledger rejects the
stage `approval`, and the error leaves the step. Every construction in the
repository has neither (`platform/api-surface.js:32`,
`distributed/node-server.js:212`).

*Also in the model because the code does it*: the executor's result and the
verdict of a verification are not inspected; a conflict blocks the step and the
plan goes on with the next one; a reentrant acquisition does not renew the
lease; locks are rolled back and released in any order (the code: in that of
acquisition). *Assumptions*: each execution has an execution_id of its own; the
database does not fail but for the unique index; `max_attempts` and the timeout
are positive (`validatePlanStep`). *Left out*: other ledger events, target types
the extractor refuses, the plan's `parameters`.

### `ExclusiveTargets`

The abstract specification of locked execution: a plan begins work on a set of
targets at once, only if no other plan works on one of them, ends, and a crash
ends everything. `PlanExecution` maps `working[p]` to the targets of the step the
plan is in between its first attempt and its last.

### `ExecutionQueue`

The queue (`execution/execution-queue.js`) and the dead letters
(`execution/dead-letter-queue.js`): for each envelope its entry (state, retry
count, when it was queued), its place in the fifo, whether its result is cached,
and the last line about it in the log. A method of the code changes the map at
once and appends a line after an await; the module has the two halves as
operators (`Enqueue`, `Executing`, `Completed`, `Failed`, `Remove` and
`Persist`), which the executor's actions put together. `ClearCompleted` and
`RebuildQueueFile` are `clearCompleted` with its truncation of the log and the
write that follows; `LoadFromDisk` is what a new process makes of the log.
`torn` records that something was appended while the log was being rewritten and
may be lost. Capacity is modelled in the mode `reject`. Only the last line about
an envelope matters to a reload, so the log is a function.

### `QueuedExecution`

Extends `ExecutionQueue`. `run[r]` is a call of `executeNext`: the one that
`_triggerExecution` starts (`Loop`), and those of `processQueue` (`Batches`).
`executing` and `current` are the flag and the counter, `active` and `counted`
the agents' budgets, `call[e]` a submission or a requeue between its awaits,
`late` counts executions started since the pause.

*Grain.* One action per stretch between two awaits on the disk, on a timer or on
the executor. `queue.next` and the checks await memory only; they end before
the event loop turns, but not before other calls made in the same turn, which is
what the stop `picked` between the test of the flag and its setting is for.

| code | actions |
|---|---|
| `submit` | `Submit`, `SubmitDuplicate`, `Enqueued`, `EnqueueFails` |
| `requeueDeadLetter`, `cancel` | `RequeueDeadLetter`, `Requeued`, `RequeueFails`, `CancelDeadLetter` |
| `_triggerExecution`, `processQueue` | `LoopPicks`, `LoopStops`, `BatchPicks`, `BatchEnds`, `LookForMore` |
| `executeNext` to the call of the executor | `SkipExecuted`, `BudgetRefuses`, `Begin`, `MarkFails`, `Start` |
| `executeNext` after it | `ExecutionSucceeds`, `Complete`, `CompleteFails`, `ExecutionFails`, `AfterFailure`, `Bury`, `CatchFails` |
| retry timer, pause, resume, cleanup | `RetryTimerFires`, `PauseExecution`, `ResumeExecution`, `Cleanup`, `CleanupEnds` |
| process start, `recoverOrphanedEnvelope` | `Crash`, `RecoverOrphan`, `RecoveryEnds` |

*Assumptions.* An append fails or is written whole. Refusals of the rate limiter
and of the recursion guard change nothing that is read for a decision, so a
refused submission is one that is not made. The rate limiter in the repository
throws from `checkAdmission` (`execution/rate-limiter.js:218` calls `filter` on a
window that is no array), so that as committed nothing is ever submitted; what is
modelled is the executor behind a rate limiter that answers.
Recovery is run by the host at the start (nothing in the repository calls
`runRecovery`), before anything is submitted. What a timed-out execution still
does is left out, as are priorities, health counters and the ledger.

### `SerialExecution`

The abstract specification of the queued executor: it begins an envelope when it
works on none and the envelope has not succeeded, a success is that of the
envelope it works on, work ends with or without one, and a restart forgets all.
`QueuedExecution` maps `working` to the envelope of the call of `executeNext`
that is between `Begin` and its end, and `succeeded` to the cached `results`.
Submissions, requeues, clearing and dead letters are stutters.

### `WorkQueue`

The tables `queue_items`, `queue_leases` and `execution_claims` as functions of
the item (`item`, `pointer`, `rows`, `claim`), `cycle[c]` for each call of
`runSchedulerCycle` with its process in `worker`, and `recovery` for an item that
`recoverStuckItem` is about to settle. `entered` counts the calls of the governed
execution.

| code | actions |
|---|---|
| `runSchedulerCycle` | `List` |
| `acquireLease` | `SelectLease`, `InsertLease` |
| `processQueueItem` | `Claim`, `ToRunning`, `MarkStarted`, `Reenter`, `Answer`, `Settle`; thrown paths `LedgerFails`, `ReentryThrows`, `CatchClaim`, `CatchItem`; `Release` |
| expiry detector | `ExpireLease`, `AbandonClaim` |
| `RecoveryManager` | `Detect`, `Recover` |
| `CoordinationManager` | `Supersede`, `Wake` |
| time, processes | `Lapse`, `Crash` |

*Grain.* Calls on the database are synchronous: cycles of one process interleave
at awaits only (`Turn`). Another process can come at those awaits too, and between
`acquireLease`'s SELECT and its writes, the one place where a decision rests on a
row that somebody else may have changed. Statements that decide nothing are
grouped: the UPDATE to EXPIRED, the INSERT and the UPDATE of the item's pointer
(`queue/lease-manager.ts:79-128`), the two UPDATEs of a release and of an expiry
(`:194-211`, `:239-254`), and the read of `supersede` with its conditional UPDATE
(`queue/coordination-manager.ts:85-87`), which throws and changes nothing when the
state it read is gone. Between two statements of a group another process, or one
that starts after a crash there, sees the item's pointer as it was before, and
lists the item or not as it would have done then; who gets it is decided by the
lease row.

*Data.* `queue_leases` has UNIQUE(queue_item_id, status) ON CONFLICT IGNORE: an
item has at most one row per status, and one that would be the second is not
written (`Moved`, `Inserted`). A lease id that nothing refers to is used again
(`InUse`); one that only old rows hold is `Old`. Every claim is for attempt 1,
since nothing writes `attempt_count`. `BLOCKED` stands for the two states that
only a supersession ends.

*Assumptions.* The thresholds after which a claim or a RUNNING item counts as
stuck (`Overdue`) are longer than a lease, as the defaults are. The event that
the ledger refuses is a fault that may or may not come (`LedgerFails`); as
committed it always comes. `HasRecovery` says whether the detector was given its
recovery manager; as committed it is not. The worker registry, metrics and
`renewLease`, which nothing calls, are left out.

### `GovernedItems`

The abstract specification of the work queue: an item enters the governed
execution once at most, is completed only after that, may be dropped at any time,
and stays as it ended. `WorkQueue` maps `ending` to the terminal states:
COMPLETED is `completed`, FAILED and CANCELLED are `dropped`; leases, claims and
the other states are stutters.

### `MerkleTree`, `WarrantChain`

`MerkleTree` is `computeMerkleRoot`, `_buildMerkleProofPath` and
`verifyMerkleProof`, with a hash as the term it is the hash of. The loops are
recursive functions: `Levels` is the tree from its padded leaves up, by
`LevelAbove`, and `Climb` the hashes of a verification. `WarrantChain` is `ChainedWarrantAdapter` over
`MerkleWarrantChain` over one of its two stores (`uniqueIds` says which).

| code | actions |
|---|---|
| `Warrant.issue`, `invalidate` through `saveWarrant` | `Issue`, `Invalidate` |
| `append` | `GetLatest`, `AppendWarrant`, `AppendFails` |
| `createAnchor` | `ReadChain`, `SaveAnchor` |
| `verifyChain`, `verifyAgainstAnchor` | operators `VerifyChain`, `VerifyAgainstAnchor` |

*Assumptions.* Hashes have no collisions. One tenant: chains of two share
nothing. The hash of a warrant leaves its status out, as the code's does.

### `WarrantDelegation`

`WarrantDelegation` over its store in memory: `warrants` in the order they were
saved, each with its parent, all above it, depth, scope, deny list, the maximum of
one parameter, expiry and status; `root` the warrant they come from, kept in
another store; `call[c]` a `revoke` with the stack of `revokeByParent`.

| code | actions |
|---|---|
| `delegate` | `Delegate` (`DepthAllows`, `ScopeReduced`, `Remaining`, `Ttl`, `LimitTightened`; the deny list is the parent's) |
| `revoke`, `revokeByParent` | `Revoke`, `Cascade`, `RevokeChild`, `Return` |
| `verify`, `checkScope`, `_walkChain` | operators `Verify`, `CheckScope`, `EffectiveScope`, `LinksHold` |
| `Warrant.verifyScope`, on one record | operator `Grants` |
| time | `Tick` |

*Grain.* `delegate` has no await before its save. `revokeByParent` awaits each
recursive call, and other calls come in between.

*Data.* `CheckScope` is the set of all pairs of an action and an amount that
`checkScope` authorizes, `NoNumber` standing for a parameter that is not given,
which its test of the maximum lets pass. `checkScope` asks about the effective
scope and the constraints, never about the deny lists; `Grants` is what
`verifyScope` would say of a record, forbidden actions first. That `checkScope`
grants is compared with `Grants` of everything above.

*Assumptions.* `delegate` reads `allowed_actions` and `forbidden_actions` of what
it is passed; a delegated record calls the same lists `scope` and `deny`, and
passed on as it is would be refused every action (`governance/warrant-delegation.ts:165-174`). The
model is of a host that renames the two. `verify` never looks at the root. Of the
constraints the maximum of one parameter is modelled. A minimum is its mirror
image. Left out, and covered by no property, are `enum`, merged by intersection;
`pattern`, which `_validateConstraintStrictness` does not compare, so that a child
may ask for another, and which `checkScope` does not test; and the root's
`allowed`, which `delegate` passes on and `checkScope` does not know. A string of
digits passes `checkScope`'s maximum, where `verifyScope` would compare it; it is
left out as well.

### `MCReconciliation`, `MCPlanExecution`, `MCQueuedExecution`, `MCWorkQueue`, `MCWarrantChain`, `MCWarrantDelegation`

Instances for TLC: failure policies, plans, agents, placements of cycles in
processes, delegation requests, symmetry. `MCSteps` has two plans that lock two
targets in opposite orders, one with a retry, a step conditional on failure and a
`custom` one, the other with verification, an approval step and an abort.
`MCPlanExecution` asserts `LeasesCover` of its plans, since the properties about
exclusion are about plans that satisfy it. One of its conditions names no step to
look at and one has no expression: the code takes both for met. `MCRequests`
narrow, keep and widen what their parent has, for a part or all of the time left
or more, so that each refusal of `delegate` happens.

## 4. Runs

| run | checks | shows |
|---|---|---|
| `reconciliation` | `TypeOK`, `FailureAccounting`, `BreakerHolds`, `GenerationIsExclusive`, `AdmissionStillValid`, `OnlyTheLeaseWrites` | with two overlapping evaluations, operators, watchdog and a crash at any UPDATE, failures are charged once, the breaker holds, generations fence, only the lease holder writes |
| `reconciliation_liveness` | `LeaseIsBounded` | a lease of an enabled objective ends though the bridge never answers and crashes hit the watchdog's own UPDATEs |
| `plan_execution` | `TypeOK`, `WorkIsLocked`, `LocksReturned`, `DependenciesHold`, `AbortEndsThePlan`, `OutcomeIsDecided`, `TargetsAreExclusive`, `PlanEnds` | work is exclusive and refines `ExclusiveTargets`, locks go back, dependencies and abort are obeyed, no plan waits for another |
| `queued_execution` | `TypeOK`, `SingleExecutor`, `SlotsReturned`, `PauseAdmitsOne`, `QueueSurvives`, `SuccessIsFinal`, `ExecutesSerially` | loop and batch never execute together though the flag is raised late, every way out gives it back but a failing append, a pause lets one more start, the log holds what is queued, a success is not repeated; the whole refines `SerialExecution` |
| `queued_execution_liveness` | `QueueDrains` | without failures, crashes and a lasting pause no wake-up is missed: what is queued is executed |
| `work_queue` | `TypeOK`, `ExecutedOnce`, `TerminalIsFinal`, `WorkIsGoverned` | with two cycles in one process or two, lapsing leases, a detector, recovery and a crash or a failing ledger, an item is executed at most once, its end is final and COMPLETED only after an execution: the queue refines `GovernedItems` |
| `work_queue_liveness` | `RunningEnds`, `Served` | every path of a cycle ends RUNNING; leases left behind by others do not keep a ready item waiting, unless one that can never be claimed jams the head |
| `warrant_chain` | `TypeOK`, `ChainVerifies`, `AnchorsHold`, `ChainedIsSaved`, `ProofsVerify` | overlapping appends that are refused or fail leave a chain that verifies, anchors hold for ever, proofs verify what they are for and nothing else |
| `warrant_delegation` | `TypeOK`, `AuthorityOnlyShrinks`, `ExpiryIsInherited`, `CascadeReaches` | over three links with and without wildcards nothing is granted that a warrant above would not grant, a denied action excepted, which is then still on the deny list of the warrant; no warrant outlives one above it; two overlapping revocations reach all that was below |
| `reconciliation_orphan` | `AdmissionIsBounded`, violated | a crash between admission and lease leaves the objective reconciling for ever |
| `plan_execution_concurrent` | `NoConcurrentModification`, violated | an action that outlives its timeout works on beside the next lock holder |
| `queued_execution_retry` | `RetryHappens`, violated | the retry timer of a transient failure triggers a loop that takes queued entries only; the entry stays failed |

Every property of a passing run has a mutant in `PROJECT.json`: a small change
of one mapped definition, as a bug would make it, under which TLC finds the
property violated. The mutants stand in the modules beside what they change.

### Bounds

*Reconciliation.* Workers and rows interact only through the row of one
objective, so one objective suffices; two workers give every overlap of two
parties, a third only repeats one. Four admissions reach a breaker of three
failures with a manual reset in between and an execution that two successors
have overtaken; one crash covers each UPDATE. The policy's thresholds (3, 2)
differ from the watchdog's default of 3 so that the two are told apart. The
liveness run allows two crashes, one for the handler and one for its repair, and
two admissions, and the stored policy is missing, the case with the fewest exits.
1 159 994 and 203 048 states.

*Plan execution.* Two plans, two targets in opposite orders, three steps each:
conflicts with rollback, an INSERT that fails after a SELECT, stale sweeps,
reentry after a kept lock, retries within a lease, abort, and one crash.
40 384 states. Three plans would add no new pair of database calls.

*Queued executor.* Two envelopes of one agent whose budgets are one active and
two queued, so that budgets and the capacity of two bite; the loop and one batch,
the two callers of `executeNext`; two places in the fifo, enough for a
resubmission (`MaxTickets`); one crash or one failing append (`MaxTrouble`), at
every place. `MaxConcurrency` is the default of 5: the flag, not the counter,
decides. Dead letters, requeues, cancellations, pauses and cleanups are not
bounded. 1 392 882 and 266 938 states.

*Work queue.* One item and two cycles, in one process and in two: whatever two
cycles do to each other they do about one item. Three lease ids are what two
cycles and the stale row that one has read can use; one crash or ledger fault.
The liveness run has two items in a fixed order, for the head of the queue, one
cycle and no recovery manager, as committed. 717 441 and 131 735 states.

*Warrant chain.* Two warrants, two overlapping calls, five rows: both warrants
twice (in memory the id is not unique) and one more, three levels of the Merkle
tree with padding, an anchor in the middle. 21 953 states.

*Warrant delegation.* Four delegated warrants up to depth three, two calls of
`revoke`, two ticks of the clock. The code allows a depth of five; a chain of three
has a link that is neither first nor last, which is what `EffectiveScope` treats
apart, and reaches the limit. Both roots expire at 2. Under {a, b}, without a
maximum, {a, b} is delegated until 2 and {a} with a maximum until 1 or 2, so that
narrower and shorter warrants hang below wider and longer ones, at the first link
and at later ones; delegating from one that has expired is refused. Under the
wildcard with a maximum and b denied, the wildcard and {a, b} are delegated, the
second below the first, and `checkScope` grants b. 3 588 048 states. More
requests or a longer clock exceed what is practical: two different expiries below
the wildcard, and a chain that mixes all three scopes, are left to the theorems.

### Fairness

*Reconciliation*: a chain that holds the event loop goes on (weak); the clock
passes deadlines (weak); the watchdog's interval comes again and again, and finds
the loop free only now and then (strong). The host must start the watchdog:
nothing in the repository calls `startWatchdog`. Nothing is assumed of
evaluations, of the bridge or of operators. *Plan execution*: the engine's own
steps, its timers and the verification engine, which bounds its time, go on
(weak), and the clock ticks (weak). Nothing is assumed of callers or of the
action executor. *Queued executor*: the event loop serves every callback (weak):
appends end, immediates and timers fire, and an execution ends or its timer
does (`_executeWithTimeout`). Nothing is assumed of submitters or operators.
*Work queue*: the interval timer starts cycles for ever, a cycle that has started
runs on, time passes, and the detector's interval expires leases (weak). That a
cycle runs on includes that the governed execution it awaits answers: the
scheduler sets no limit, and the promise depends on the host there. Nothing is
assumed of recovery, of supersession or of what wakes an item.

## 5. Proofs

For every value of the constants; no bound of section 4 applies (`MaxGeneration`
and `MaxCrashes` are parameters). The assumptions are the ASSUMEs of the modules,
which TLC evaluates on the instances.

### `ReconciliationProofs`

- `TypeCorrect`: `TypeOK`, by one step per action.
- `FailuresAreAccounted`: `FailureAccounting` is not inductive, since a handler
  adds one to counters it read before the bridge's await. `AccountingInv` says
  more: a row being reconciled has been charged for fewer failures than it has
  generations, an execution read its counters when its own generation was not
  charged, and no live generation is ahead of its row.
- `BreakerAlwaysHolds`: a row is reconciling because it was, with the same
  counters, or because the gate has just admitted it (`ReconcilingSteps`).
- `GenerationAlwaysExclusive`: an admission's generation exceeds every live one.
- `AdmissionAlwaysValid`, `OnlyTheLeaseEverWrites`: by `TurnInv`, which says what
  a chain that holds the event loop has established and nobody can undo
  (`RunToCompletion`).

### `PlanExecutionProofs`

- `TypeCorrect`: `TypeOK` with `WellPlaced`: a plan is at a step of its own, at a
  target of that step, within its attempts.
- `LocksAlwaysReturned`: `LocksReturned` says where an owner may be. The
  invariant `OwnersKnow` adds that the owner, if it lives, has the lock's id in
  the set that rollback or the `finally` block is going to release, or may have
  kept it at an approval and is past that step (`Kept`).
- `WorkAlwaysLocked` and `LocksImplementExclusion` hold for plans with approval
  steps too, whether approvals are granted or not, under two assumptions.
  `LeasesCover`: the attempts of a step that has targets, with verification and
  delays, fit in its lease. The code does not see to it: the lease is one timeout
  and 60 seconds whatever `retry_policy` says. `NothingReentered`: no step has a
  target of an earlier one that may have kept its lock at the approval checkpoint
  (section 6). It is true of every engine without an approval manager, as the
  repository constructs it, and of every engine with a ledger, in which no plan
  goes on after that checkpoint. Elsewhere it is needed: after a step whose
  approval on a target is refused, a step without targets may take longer than
  the lease, and a step that then reenters the lock works under a lapsed one. It
  is used once, where a plan finds its own lock (`ReadLock` in `MovesAcquire`).
  Under the two, `ExclusionInv` is inductive: a plan that is locking has full
  leases on the locks of its step, a plan that works has more left than it still
  `Need`s (the rest of the attempt and, for each attempt after it, delay, timeout
  and verification); it owns the locks it has passed; and what any plan has
  selected as stale, however long ago, belongs to a step that is `Over`. Hence no
  sweep, release or insert touches a lock in use (`LockEffects`), and `Tick`
  takes from the need what it takes from the lease (`TickTakesBoth`). The
  refinement then has one case per kind of step: begin, end, or stutter.

  The provers know nothing of `^`; that an exponential retry delay is a number
  follows from the powers of two being cardinalities (`DelayIsNumber`, by
  `FS_SUBSET`).

### `PlanProgressProofs`

- `DependenciesAlwaysHold`, `AbortAlwaysEndsThePlan`, `OutcomeAlwaysDecided`: one
  invariant, `ProgressInv`. While a plan lives it is `OnCourse`: the steps before
  the current one are decided and none of them is a failure that aborts, those
  after it are untouched, the current one is in a state that its place in the
  code allows, and its dependencies are met from the moment it was let in. What
  the states say of each other (`Told`) survives a crash. The heart is
  `ToldStatus`: the one state that changes was neither completed nor skipped, so
  nothing that waited for a dependency waited for it.

### `QueuedExecutionProofs`

- `TypeCorrect`, `SlotsAlwaysReturned`: the two together are inductive
  (`SlotsInv`): each step takes a slot, keeps it, gives it back, loses it with a
  fault, or starts again, and one lemma says for each what becomes of the
  cardinality of the calls under way.
- `AlwaysSingleExecutor`, `PauseAlwaysAdmitsOne`, `SuccessAlwaysFinal`: the flag
  is tested by a pick and raised at the end of the same turn, so all three rest
  on `OnePick`: no two calls of `executeNext` pick in the same turn. It can fail
  only if a host calls `processQueue` twice in one turn, which the code does not
  prevent; it is a premise of the theorems (`Spec /\ []OnePick`), and
  `OneBatchSingleExecutor` shows that with one batch it always holds. The
  invariant (`ExecutorInv`) adds that a call that has begun found no result
  (`Fresh`) and that, once an execution has started after a pause, no other call
  is between its pick and its start (`PauseInv`).
- `QueueAlwaysSurvives`: an append says what the entry was when it began, so the
  invariant (`LogInv`) is about the lines still to come: each carries the number
  of its submission (`Stamps`), what it says of the entry is still true of that
  submission (`Lines`), recovery is over before anything is written
  (`RecoveryFirst`), and what the log holds, or will hold when the rewriting is
  done, covers each active entry (`Covers`).
- `ExecutorIsSerial`: the refinement of `SerialExecution`, one case per kind of
  step (`PickStep`, `BeginStep`, ... of the lemma `Steps`), under the invariant
  of `AlwaysSingleExecutor`: the CHOOSE in the mapping has one candidate at most
  (`WorkingIsPending`), a call keeps its envelope from its start to its end, and
  only `ExecutionSucceeds` adds a result, that of this envelope.
- `OneBatchKeepsAll`: all five conclusions without the premise where there is one
  batch, by `OneBatchOnePick`.

### `WorkQueueProofs`

- `AlwaysExecutedOnce`: the invariant (`OnceInv`) says that of the cycles that
  are between their claim and the governed execution there is one per item, that
  its claim is used and that it has not entered (`AttemptsApart`). Leases have
  no part in the proof: what the code calls a compare-and-set is not needed for
  it, which is why the ignored INSERT does no harm.
- `TerminalAlwaysFinal`: whatever a step does to an item is a transition from a
  state that is not terminal, the one it names or the one it read (`ItemSteps`).
- `QueueIsGoverned`: the refinement of `GovernedItems`. `ItemSteps` says also that
  only a cycle that has marked its claim completes an item; such a cycle has
  executed it (`ExecutedInside`), and with `ExecutedOnce` exactly once, whatever
  has happened to its lease and claim since. Recovery closes what is stuck as
  failed, never as completed.

### `MerkleProofs`

About the operators of `MerkleTree`, for any sequence of leaves. A tree has as
many levels as its height, each half as long as the one below (`LevelsDefined`,
`LevelShape`), the place of a leaf halves from level to level and its sibling is
beside it (`PlaceInLevel`, `SiblingInLevel`), so that a step of the path leads
from the leaf's ancestor at one level to its ancestor at the next (`PathStep`,
`ClimbsToRoot`), and two contents that differ climb to hashes that differ
(`ClimbsApart`). Hence `ProofOfLeaf`: the proof built for a leaf verifies its
content and no other. `RootBindsLeaves`: as many leaves with the same root are the
same leaves, for a path down determines every level from the one above. The
recursive functions are over the levels: the library's induction theorems take an
operator and cannot be used, so `SetInduction` proves induction over sets of
naturals from the least element of its complement, and the hypotheses are stated
as such sets. That equal pairs have equal components is a fact about terms here and
the assumption that SHA-256 has no collisions in the code.

### `WarrantChainProofs`

`ChainInv` is inductive: the chain verifies; a call that has read the head is
behind the chain or holds its head (`LinkedTo`), so that what the store accepts
continues the chain; what is being appended is saved (`Saved`); an anchor was
made of a prefix of the chain (`Anchored`), and a prefix stays one. The content
of a hash is never looked into. The theorems are for both stores.
`ProofsAlwaysVerify` is `ProofOfLeaf` for the contents of the chain.
`AnchorBindsContents` says what an anchor is for: two chains that both verify
against it agree on every content below its length (`RootBindsLeaves`).

### `WarrantDelegationProofs`

`DelegationInv`: the warrants form a tree in the order they were saved
(`Placed`), each is no wider and lives no longer than its parent, has at least its
denials, and hence, link by link, those of all above it (`Inherits`); and for a revocation under way, whatever
was below its warrant when it began and is still active has an ancestor, or
itself, in a frame of its stack (`Pending`, `Reaches`), so that an empty stack
leaves nothing. `AuthorityAlwaysShrinks` needs more than the parent's word:
`checkScope` takes the scope of the first link, and the proof follows the
wildcard from there to the leaf. It is a theorem about `verifyScope`'s verdict on
every record above, with the exception the code makes: an action denied above may
be granted, and is then on the deny list of the warrant it is granted on and
granted above but for the denial (`RecordAbove`).

Not provable here and left to TLC: liveness under fairness.

<a name="6-limits"></a>
## 6. What is only model-checked, and what is not modelled

### Only model-checked

`LeaseIsBounded`, `PlanEnds`, `QueueDrains`, `RunningEnds` and `Served`
(liveness); `TargetsAreExclusive` and `WorkIsLocked` for a plan that reenters a
lock kept at an approval, which the theorems exclude and the run includes; and
all violations.

### Deviations that are in the models

The models follow the code where it differs from its comments and documents. Met
while modelling, without a run of their own:

*Reconciliation.* The cooldown compares a number with an ISO string and delays
nothing (`core/objective-evaluator-integrated.js:240`). After one timeout the
staleness test drops timely results (`core/remediation-trigger-integrated.js:542`).
The bridge in the repository reports success where the trigger does not look, so
that a verified remedy is settled as a failure (`:588`). A bridge that throws
late overwrites counters and status of a newer attempt (the `catch` has no
staleness test); passive recovery writes `idle` from a status read before the
observer ran, over a reconciliation that began meanwhile; `manualReset` leaves
the active attempt in place; forced termination is a mark, so a remedy can run
beside its successor; a caller's safe-mode flag makes the trigger reject what the
gate admitted and leaves the row reconciling; the transition table in
`src/docs/architecture/STATE-MACHINES.md:139-157` names other states than the
code.

*Plan execution.* The approval checkpoint is outside the `try` that releases, so
that every way out of it keeps the step's locks (`core/plan-execution-engine.js:388`).
A step that handles the failure of a step it depends on is blocked by it (`:90`).
After a lock conflict the plan goes on although a comment says it stops.
`restart_service` with its retry, delay and verification needs 95 seconds of a
90-second lease; its steps name no targets today.

*Queued executor.* The end of `markCompleted` takes an envelope out of the fifo
that was cleared away and submitted again during its append; it stays queued, and
the loop, which sees it, spins (`Overtaken`). `Bury` removes such an entry
altogether. A submission that finds its envelope in the queue, or completed,
counts it as queued for good, which eats up the agent's budget. A failed append
in the catch block leaves `currentExecutions` one too high for ever. A failure
ends the loop until something triggers it. Cancelling a requeued letter does not
stop it. Cached results, and what recovery puts back, are in memory only.

*Work queue.* The table ignores the INSERT of a second lease and `acquireLease`
returns `acquired` all the same; `queue/scheduler.ts:110` calls it an atomic
compare-and-set. `scheduler.ts` uses `ClaimManager` without importing it,
`emitQueueLedgerEvent` leaves out fields without which the ledger throws, the
expiry detector is not given the recovery manager it calls, and nothing creates a
scheduler. The disposition of recovery is computed without `hasStartedClaim`.
`retry_json` and `next_retry_at` are never written after the enqueue, so a retry
never falls due, every claim is for attempt 1, and an item that its first attempt
sent back to wait is, once woken, listed first and refused for ever (`Jam`). Nobody calls `renewLease`.

*Warrants.* `delegate` copies the parent's forbidden actions to the child
(`governance/warrant-delegation.ts:215-218`, "child inherits parent denials"), and
`checkScope` (`:323-356`) never reads them, whereas `verifyScope` refuses a
forbidden action first (`governance/warrant.ts:345`). So a root with the wildcard
and b forbidden delegates b, and `checkScope` grants it: `AuthorityOnlyShrinks`
names the exception and the run reaches it. `checkScope` tests a maximum only on
numbers, and a `pattern` never. A refused or failed append to the chain is only logged, so a saved
warrant may be outside the chain (`governance/chained-warrant-adapter.ts:6` says
every warrant is chained). `invalidate` appends the warrant a second time in
memory and is refused in Postgres. The canonical form that is hashed drops the
keys of nested objects. `delegate` does not look at its parent's status: the
child of a revoked warrant is active. A root's invalidation does not cascade,
since the root is in another store. A child with named actions under a delegated
parent with the wildcard gets an empty effective scope: less than it was given,
never more.

### Not modelled

- *Approvals.* `approve`, `deny` and `expire` read the row, await, and UPDATE it
  by its id alone, so that two decisions made in one turn both pass
  `validateTransition` and the later overwrites a terminal status. Beyond that
  one race the lifecycle is a transition table; and `resolveApprovalStatus` reads
  `tier`, which stored rows do not have, so no stored approval is granted.
  `PlanExecution` takes its answers as input.
- *Distributed locks and work distribution.* The SQL of
  `distributed/lock-manager.js` names columns the schema does not have,
  `node-server.js` imports a class that does not exist, and nothing starts it:
  there is no running behaviour to be faithful to.
- *Workflow engine, first-generation objectives.* In memory or superseded; what
  is hard about them is in the plan engine and in the reconciliation.
- *Policy engine, intents, planning, verification, providers, agents, learning,
  compliance*: stateless evaluation, data, or I/O.
- *Web applications, HTTP API, SDKs, CLI*: most lines of the repository, and no
  protocol of their own.
- Within the modelled parts: database errors in `Reconciliation` and
  `PlanExecution`; several processes on one database there (the execution lock
  table would allow them, the engine's in-memory context does not); what an
  execution of the queued executor does after its timeout; signatures; wording
  of events, ledger and logs.

## 7. How to run

    tlc -workers 2 -config Reconciliation.cfg MCReconciliation
    tlc -workers 2 -config ReconciliationLiveness.cfg MCReconciliation
    tlc -workers 2 -config PlanExecution.cfg MCPlanExecution
    tlc -workers 2 -config QueuedExecution.cfg MCQueuedExecution
    tlc -workers 2 -config QueuedExecutionLiveness.cfg MCQueuedExecution
    tlc -workers 2 -config WorkQueue.cfg MCWorkQueue
    tlc -workers 2 -config WorkQueueLiveness.cfg MCWorkQueue
    tlc -workers 2 -config WarrantChain.cfg MCWarrantChain
    tlc -workers 2 -config WarrantDelegation.cfg MCWarrantDelegation

and, printing the shortest trace to the violation they expect,

    tlc -workers 2 -config ReconciliationOrphan.cfg MCReconciliation
    tlc -workers 2 -config PlanExecutionConcurrent.cfg MCPlanExecution
    tlc -workers 2 -config QueuedExecutionRetry.cfg MCQueuedExecution

The proofs: `tlapm M.tla` for M each of `ReconciliationProofs`,
`PlanExecutionProofs`, `PlanProgressProofs`, `QueuedExecutionProofs`,
`WorkQueueProofs`, `MerkleProofs`, `WarrantChainProofs` and
`WarrantDelegationProofs`.
