--------------------------- MODULE QueuedExecution ---------------------------
(***************************************************************************)
(* QueuedExecutor: envelopes are submitted, queued, executed one at a time *)
(* by executeNext, retried or dead-lettered when they fail, and requeued   *)
(* or cancelled by an operator, who can pause the whole.  CrashRecovery-   *)
(* Manager takes up after a crash.                                         *)
(*                                                                         *)
(* An action is the stretch between two awaits on the disk, on a timer or  *)
(* on the executor.  An await on what is in memory ends before the event   *)
(* loop turns: executeNext goes from its pick to its start (pc "picked")   *)
(* before any other callback runs, but not before other calls made in the  *)
(* same turn.                                                              *)
(***************************************************************************)
EXTENDS ExecutionQueue

CONSTANTS
    Nobody,              \* the envelope of an idle run
    Agent,               \* [Envelopes -> agents], proposed_by
    MaxActive,           \* max_active_envelopes_per_agent
    MaxQueued,           \* max_queued_envelopes_per_agent
    MaxConcurrency,
    MaxRetries,          \* of RetryPolicy
    MaxRecoveryRetries,  \* of CrashRecoveryManager
    Loop,                \* the run that _triggerExecution starts
    Batches,             \* runs of processQueue
    MaxTrouble           \* bound: crashes and appends that fail, together

Runs == Batches \union {Loop}

ASSUME ExecutorAssumption ==
    /\ Nobody \notin Envelopes
    /\ Loop \notin Batches
    /\ IsFiniteSet(Batches)
    /\ {MaxActive, MaxQueued, MaxConcurrency, MaxRetries, MaxRecoveryRetries} \subseteq Nat \ {0}
    /\ MaxTrouble \in Nat

VARIABLES
    run,          \* the calls of executeNext
    executing,    \* the flag executing
    current,      \* currentExecutions
    active,       \* AgentBudget.agentActive, all agents together
    counted,      \* AgentBudget.agentQueued
    paused,       \* pause-state.json, read and written at once
    late,         \* executions started since it says paused
    triggered,    \* a setImmediate of _triggerExecution is pending
    timers,       \* envelopes whose retry timer is pending
    call,         \* the submit or requeueDeadLetter in progress for each envelope
    recovering,   \* the process has started and runRecovery may still act
    crashes,
    faults

budgetVars == <<active, counted>>
controlVars == <<paused, late>>
slotVars == <<executing, current>>
boundVars == <<crashes, faults>>
vars == <<queueVars, logVars, letterVars, run, slotVars, budgetVars, controlVars, triggered,
          timers, call, recovering, boundVars>>

Pc == {"idle", "again", "picked", "marking", "running", "completing", "failing", "burying"}

Run ==
    [pc : Pc,
     envelope : Envelopes \union {Nobody},
     line : Entry,          \* the line its append is writing
     retryable : BOOLEAN]   \* the failure is transient

Idle == [pc |-> "idle", envelope |-> Nobody, line |-> Absent, retryable |-> FALSE]

Call == [pc : {"idle", "requeueing", "enqueueing"}, line : Entry]
NoCall == [pc |-> "idle", line |-> Absent]

TypeOK ==
    /\ {entry, disk} \subseteq Entries
    /\ place \in [Envelopes -> Int]
    /\ results \subseteq Envelopes
    /\ rewriting \in Rewriting
    /\ {torn, executing, paused, triggered, recovering} \subseteq BOOLEAN
    /\ ticket \in 0 .. MaxTickets
    /\ {dlq, dlqDisk} \subseteq [Envelopes -> DLQState]
    /\ run \in [Runs -> Run]
    /\ \A r \in Runs : run[r].pc \in {"idle", "again"} <=> run[r].envelope = Nobody
    /\ current \in Nat /\ late \in Nat
    /\ {active, counted, timers} \subseteq SUBSET Envelopes
    /\ call \in [Envelopes -> Call]
    /\ {crashes, faults} \subseteq Nat /\ crashes + faults <= MaxTrouble

Init ==
    /\ QueueInit
    /\ run = [r \in Runs |-> Idle]
    /\ executing = FALSE
    /\ current = 0
    /\ active = {} /\ counted = {}
    /\ paused = FALSE /\ late = 0
    /\ triggered = FALSE
    /\ timers = {}
    /\ call = [e \in Envelopes |-> NoCall]
    /\ recovering = FALSE
    /\ crashes = 0 /\ faults = 0

-----------------------------------------------------------------------------
(***************************************************************************)
(* Helpers.                                                                *)
(***************************************************************************)
Pending(r) == run[r].pc \notin {"idle", "again", "picked"}
Become(r, new) == run' = [run EXCEPT ![r] = new]

OfAgent(S, e) == {f \in S : Agent[f] = Agent[e]}

(* _triggerExecution.                                                      *)
Trigger == triggered' = (triggered \/ (~executing /\ current < MaxConcurrency))

(* Mutant: the loop does not look for more work.                           *)
LeaveIt(r) == UNCHANGED triggered

(* After executeNext returned: the callback of _triggerExecution looks for *)
(* more work; processQueue calls again by itself.                          *)
LookForMore(r) ==
    triggered' =
        (triggered \/ (/\ r = Loop
                       /\ \E e \in Envelopes : entry'[e].state = "queued"
                       /\ ~executing' /\ current' < MaxConcurrency))

(* A disk error: one of the bounded number of appends that fail.           *)
Fault ==
    /\ crashes + faults < MaxTrouble
    /\ faults' = faults + 1

-----------------------------------------------------------------------------
(***************************************************************************)
(* submit and requeueDeadLetter.  The refusals of the rate limiter and the *)
(* recursion guard change nothing and pass with time, so they need no      *)
(* action: a submission that is refused is one that is not made.  What is  *)
(* submitted here has passed a rate limiter that answers; the one in the   *)
(* repository throws (_cleanupWindows filters what is not an array).       *)
(***************************************************************************)
(* AgentBudget.checkAdmission.                                             *)
Admits(e) == Cardinality(OfAgent(counted, e)) < MaxQueued

BeginEnqueue(e) ==
    /\ Enqueue(e)
    /\ call' = [call EXCEPT ![e] = [pc |-> "enqueueing", line |-> NewEntry]]

Submit(e) ==
    /\ ~recovering
    /\ call[e].pc = "idle"
    /\ Admits(e)
    /\ ~QueueFull /\ ~Duplicate(e)
    /\ BeginEnqueue(e)
    /\ UNCHANGED <<logVars, letterVars, run, slotVars, budgetVars, controlVars, triggered,
                   timers, recovering, boundVars>>

(* enqueue returns the existing queue_id and submit counts the envelope as *)
(* queued, whatever its state.                                             *)
SubmitDuplicate(e) ==
    /\ ~recovering
    /\ Admits(e)
    /\ ~QueueFull /\ Duplicate(e)
    /\ counted' = counted \union {e}
    /\ Trigger
    /\ UNCHANGED <<queueVars, logVars, letterVars, run, slotVars, active, controlVars,
                   timers, call, recovering, boundVars>>

(* The append is done: submit and requeueDeadLetter record the envelope    *)
(* and trigger the loop.                                                   *)
Enqueued(e) ==
    /\ call[e].pc = "enqueueing"
    /\ Persist(e, call[e].line)
    /\ call' = [call EXCEPT ![e] = NoCall]
    /\ counted' = counted \union {e}
    /\ Trigger
    /\ UNCHANGED <<queueVars, letterVars, run, slotVars, active, controlVars, timers,
                   recovering, boundVars>>

(* The append fails: the caller is told so, but the entry stays queued.    *)
EnqueueFails(e) ==
    /\ call[e].pc = "enqueueing"
    /\ Fault
    /\ call' = [call EXCEPT ![e] = NoCall]
    /\ UNCHANGED <<queueVars, logVars, letterVars, run, slotVars, budgetVars, controlVars,
                   triggered, timers, recovering, crashes>>

(* DeadLetterQueue.requeue changes the state before its line is appended.  *)
RequeueDeadLetter(e) ==
    /\ ~recovering
    /\ call[e].pc = "idle"
    /\ dlq[e] = "dead_lettered"
    /\ SetLetter(e, "requeued")
    /\ call' = [call EXCEPT ![e].pc = "requeueing"]
    /\ UNCHANGED <<queueVars, logVars, dlqDisk, run, slotVars, budgetVars, controlVars,
                   triggered, timers, recovering, boundVars>>

(* The line is appended, the budget reset, and the envelope enqueued: it   *)
(* may be refused for want of room, or be in the queue again already.      *)
Requeued(e) ==
    /\ call[e].pc = "requeueing"
    /\ PersistLetter(e, "requeued")
    /\ active' = active \ {e}
    /\ \/ /\ QueueFull
          /\ call' = [call EXCEPT ![e] = NoCall]
          /\ counted' = counted \ {e}
          /\ UNCHANGED <<queueVars, triggered>>
       \/ /\ ~QueueFull /\ Duplicate(e)
          /\ call' = [call EXCEPT ![e] = NoCall]
          /\ counted' = counted \union {e}
          /\ Trigger
          /\ UNCHANGED queueVars
       \/ /\ ~QueueFull /\ ~Duplicate(e)
          /\ BeginEnqueue(e)
          /\ counted' = counted \ {e}
          /\ UNCHANGED triggered
    /\ UNCHANGED <<logVars, dlq, run, slotVars, controlVars, timers, recovering, boundVars>>

RequeueFails(e) ==
    /\ call[e].pc = "requeueing"
    /\ Fault
    /\ call' = [call EXCEPT ![e] = NoCall]
    /\ UNCHANGED <<queueVars, logVars, letterVars, run, slotVars, budgetVars, controlVars,
                   triggered, timers, recovering, crashes>>

(* cancel takes a requeued letter as well as a dead one.                   *)
CancelDeadLetter(e) ==
    /\ ~recovering
    /\ dlq[e] \in {"dead_lettered", "requeued"}
    /\ SetLetter(e, "cancelled")
    /\ PersistLetter(e, "cancelled")
    /\ UNCHANGED <<queueVars, logVars, run, slotVars, budgetVars, controlVars, triggered,
                   timers, call, recovering, boundVars>>

-----------------------------------------------------------------------------
(***************************************************************************)
(* executeNext, up to the call of the executor.                            *)
(***************************************************************************)
(* Mutant: the flag is not tested.                                         *)
MayStartBeside == current < MaxConcurrency /\ ~paused

(* Mutant: the pause is not tested.                                        *)
MayStartPaused == ~executing /\ current < MaxConcurrency

MayStart == ~executing /\ current < MaxConcurrency /\ ~paused

(* The checks and queue.next, which awaits nothing but memory.             *)
Pick(r, e) ==
    /\ MayStart
    /\ NextIs(e)
    /\ Become(r, [Idle EXCEPT !.pc = "picked", !.envelope = e])
    /\ UNCHANGED <<queueVars, logVars, letterVars, slotVars, budgetVars, controlVars,
                   timers, call, recovering, boundVars>>

NothingPicked == \A r \in Runs : run[r].pc # "picked"

(* The immediate fires once every call made before has got past its pick.  *)
LoopPicks ==
    /\ triggered /\ ~recovering
    /\ run[Loop].pc = "idle" /\ NothingPicked
    /\ \E e \in Envelopes : Pick(Loop, e)
    /\ triggered' = FALSE

(* executeNext returns null at once.  If something is queued and the flag  *)
(* is down (it is paused), the loop triggers itself and spins.             *)
LoopStops ==
    /\ triggered /\ ~recovering
    /\ ~MayStart \/ ~\E e \in Envelopes : NextIs(e)
    /\ executing \/ InState("queued") = {} \/ current >= MaxConcurrency
    /\ triggered' = FALSE
    /\ UNCHANGED <<queueVars, logVars, letterVars, run, slotVars, budgetVars, controlVars,
                   timers, call, recovering, boundVars>>

(* processQueue calls executeNext, and again after each result.            *)
BatchPicks(b) ==
    /\ ~recovering
    /\ run[b].pc \in {"idle", "again"} /\ run[Loop].pc # "picked"
    /\ \E e \in Envelopes : Pick(b, e)
    /\ UNCHANGED triggered

BatchEnds(b) ==
    /\ run[b].pc = "again"
    /\ ~MayStart \/ ~\E e \in Envelopes : NextIs(e)
    /\ Become(b, Idle)
    /\ UNCHANGED <<queueVars, logVars, letterVars, slotVars, budgetVars, controlVars, triggered,
                   timers, call, recovering, boundVars>>

(* How a call of executeNext that has a result returns to its caller.      *)
Returned(r) == [Idle EXCEPT !.pc = IF r = Loop THEN "idle" ELSE "again"]

(* isAlreadyExecuted: the cached result is returned.                       *)
SkipExecuted(r) ==
    LET e == run[r].envelope
    IN  /\ run[r].pc = "picked"
        /\ e \in results
        /\ Remove(e)
        /\ Become(r, Returned(r))
        /\ UNCHANGED <<results, ticket, logVars, letterVars, slotVars, budgetVars, controlVars,
                       timers, call, recovering, boundVars>>
        /\ LookForMore(r)

Spends(e) == Cardinality(OfAgent(active, e)) < MaxActive

(* AgentBudget.checkExecution refuses: the envelope stays at the head.     *)
BudgetRefuses(r) ==
    LET e == run[r].envelope
    IN  /\ run[r].pc = "picked"
        /\ e \notin results /\ ~Spends(e)
        /\ Become(r, Idle)
        /\ UNCHANGED <<queueVars, logVars, letterVars, slotVars, budgetVars, controlVars,
                       timers, call, recovering, boundVars>>
        /\ LookForMore(r)

(* Mutant: results are not consulted.                                      *)
BeginAnyway(r) ==
    LET e == run[r].envelope
    IN  /\ run[r].pc = "picked"
        /\ Spends(e)
        /\ executing' = TRUE
        /\ current' = current + 1
        /\ SetEntry(e, Executing(e))
        /\ Become(r, [run[r] EXCEPT !.pc = "marking", !.line = Executing(e)])
        /\ UNCHANGED <<place, results, ticket, logVars, letterVars, budgetVars, controlVars,
                       triggered, timers, call, recovering, boundVars>>

(* The flag goes up and markExecuting begins.                              *)
Begin(r) ==
    LET e == run[r].envelope
    IN  /\ run[r].pc = "picked"
        /\ e \notin results /\ Spends(e)
        /\ executing' = TRUE
        /\ current' = current + 1
        /\ SetEntry(e, Executing(e))
        /\ Become(r, [run[r] EXCEPT !.pc = "marking", !.line = Executing(e)])
        /\ UNCHANGED <<place, results, ticket, logVars, letterVars, budgetVars, controlVars,
                       triggered, timers, call, recovering, boundVars>>

(* The line is written and the executor called, paused or not.             *)
Start(r) ==
    LET e == run[r].envelope
    IN  /\ run[r].pc = "marking"
        /\ Persist(e, run[r].line)
        /\ counted' = counted \ {e}
        /\ active' = active \union {e}
        /\ late' = IF paused THEN late + 1 ELSE late
        /\ Become(r, [run[r] EXCEPT !.pc = "running"])
        /\ UNCHANGED <<queueVars, letterVars, slotVars, paused, triggered, timers, call,
                       recovering, boundVars>>

-----------------------------------------------------------------------------
(***************************************************************************)
(* executeNext, after the executor.                                        *)
(***************************************************************************)
(* The catch block: markFailed begins.                                     *)
BeginFailure(r, retryable) ==
    LET e == run[r].envelope
    IN  /\ SetEntry(e, Failed(e))
        /\ Become(r, [run[r] EXCEPT !.pc = "failing", !.line = Failed(e), !.retryable = retryable])

(* markExecuting fails, with an error the classifier finds permanent.      *)
MarkFails(r) ==
    /\ run[r].pc = "marking"
    /\ Fault
    /\ BeginFailure(r, FALSE)
    /\ UNCHANGED <<place, results, ticket, logVars, letterVars, slotVars, budgetVars,
                   controlVars, triggered, timers, call, recovering, crashes>>

(* The executor answers with an error, or the timer of _executeWithTimeout *)
(* wins, which RetryPolicy never retries; the execution itself goes on     *)
(* then, and what becomes of it is ignored.                                *)
ExecutionFails(r, retryable) ==
    /\ run[r].pc = "running"
    /\ BeginFailure(r, retryable)
    /\ UNCHANGED <<place, results, ticket, logVars, letterVars, slotVars, budgetVars,
                   controlVars, triggered, timers, call, recovering, boundVars>>

(* markCompleted begins: the result is cached before the line is written.  *)
ExecutionSucceeds(r) ==
    LET e == run[r].envelope
    IN  /\ run[r].pc = "running"
        /\ SetEntry(e, Completed(e))
        /\ results' = results \union {e}
        /\ Become(r, [run[r] EXCEPT !.pc = "completing", !.line = Completed(e)])
        /\ UNCHANGED <<place, ticket, logVars, letterVars, slotVars, budgetVars, controlVars,
                       triggered, timers, call, recovering, boundVars>>

(* Mutant: the flag stays up.                                              *)
KeepSlot == current' = current - 1 /\ UNCHANGED executing

(* Mutant: the counter is decremented in a finally as well.                *)
FreeTwice == executing' = FALSE /\ current' = current - 2

FreeSlot == executing' = FALSE /\ current' = current - 1

Complete(r) ==
    LET e == run[r].envelope
    IN  /\ run[r].pc = "completing"
        /\ Persist(e, run[r].line)
        /\ LeaveFifo(e)
        /\ active' = active \ {e}
        /\ FreeSlot
        /\ Become(r, Returned(r))
        /\ UNCHANGED <<entry, results, ticket, letterVars, counted, controlVars, timers,
                       call, recovering, boundVars>>
        /\ LookForMore(r)

(* The completion cannot be written: an execution that succeeded fails.    *)
CompleteFails(r) ==
    /\ run[r].pc = "completing"
    /\ entry[run[r].envelope].state # "none"
    /\ Fault
    /\ BeginFailure(r, FALSE)
    /\ UNCHANGED <<place, results, ticket, logVars, letterVars, slotVars, budgetVars,
                   controlVars, triggered, timers, call, recovering, crashes>>

(* RetryPolicy.shouldRetry, of the count in the entry at that time.        *)
ShouldRetry(r) == run[r].retryable /\ entry[run[r].envelope].retry < MaxRetries

(* The failure is written.  A transient one arms a timer and is thrown,    *)
(* which ends the loop or the batch; another goes to the dead letters.     *)
AfterFailure(r) ==
    LET e == run[r].envelope
    IN  /\ run[r].pc = "failing"
        /\ Persist(e, run[r].line)
        /\ active' = active \ {e}
        /\ \/ /\ ShouldRetry(r)
              /\ timers' = timers \union {e}
              /\ FreeSlot
              /\ Become(r, Idle)
              /\ UNCHANGED dlq
           \/ /\ ~ShouldRetry(r)
              /\ SetLetter(e, "dead_lettered")
              /\ Become(r, [run[r] EXCEPT !.pc = "burying"])
              /\ UNCHANGED <<timers, slotVars>>
        /\ UNCHANGED <<queueVars, dlqDisk, counted, controlVars, triggered, call,
                       recovering, boundVars>>

Bury(r) ==
    LET e == run[r].envelope
    IN  /\ run[r].pc = "burying"
        /\ PersistLetter(e, "dead_lettered")
        /\ Remove(e)
        /\ FreeSlot
        /\ Become(r, Idle)
        /\ UNCHANGED <<results, ticket, logVars, dlq, budgetVars, controlVars, triggered,
                       timers, call, recovering, boundVars>>

(* An error in the catch block, an append that fails or markFailed of an   *)
(* entry that cleanup took away, leaves executeNext: only the loop's own   *)
(* handler lowers the flag, and nobody the counter.                        *)
CatchFails(r) ==
    /\ \/ run[r].pc \in {"failing", "burying"}
       \/ run[r].pc = "completing" /\ entry[run[r].envelope].state = "none"
    /\ Fault
    /\ Become(r, Idle)
    /\ executing' = (executing /\ r # Loop)
    /\ UNCHANGED <<queueVars, logVars, letterVars, current, budgetVars, controlVars, triggered,
                   timers, call, recovering, crashes>>

(* The retry timer triggers the loop, which takes queued entries only.     *)
RetryTimerFires(e) ==
    /\ e \in timers
    /\ timers' = timers \ {e}
    /\ Trigger
    /\ UNCHANGED <<queueVars, logVars, letterVars, run, slotVars, budgetVars, controlVars,
                   call, recovering, boundVars>>

-----------------------------------------------------------------------------
(***************************************************************************)
(* The operator, housekeeping, crashes and recovery.                       *)
(***************************************************************************)
PauseExecution ==
    /\ ~paused
    /\ paused' = TRUE
    /\ UNCHANGED <<queueVars, logVars, letterVars, run, slotVars, budgetVars, late, triggered,
                   timers, call, recovering, boundVars>>

(* Also an operator's way to wake the loop: it triggers in any case.       *)
ResumeExecution ==
    /\ ~recovering
    /\ paused' = FALSE
    /\ late' = 0
    /\ Trigger
    /\ UNCHANGED <<queueVars, logVars, letterVars, run, slotVars, budgetVars, timers, call,
                   recovering, boundVars>>

Cleanup ==
    /\ ~recovering
    /\ InState("completed") # {}
    /\ ClearCompleted
    /\ UNCHANGED <<letterVars, run, slotVars, budgetVars, controlVars, triggered, timers,
                   call, recovering, boundVars>>

CleanupEnds ==
    /\ RebuildQueueFile
    /\ UNCHANGED <<queueVars, letterVars, run, slotVars, budgetVars, controlVars, triggered,
                   timers, call, recovering, boundVars>>

(* The process dies and starts again; both logs are read.                  *)
Crash ==
    /\ crashes + faults < MaxTrouble
    /\ crashes' = crashes + 1
    /\ LoadFromDisk
    /\ dlq' = dlqDisk
    /\ run' = [r \in Runs |-> Idle]
    /\ executing' = FALSE /\ current' = 0
    /\ active' = {} /\ counted' = {}
    /\ late' = 0
    /\ triggered' = FALSE
    /\ timers' = {}
    /\ call' = [e \in Envelopes |-> NoCall]
    /\ recovering' = TRUE
    /\ UNCHANGED <<dlqDisk, paused, faults>>

(* recoverOrphanedEnvelope: back to the front of the fifo, in memory only, *)
(* or to the dead letters.                                                 *)
RecoverOrphan(e) ==
    /\ recovering
    /\ entry[e].state = "executing"
    /\ \/ /\ entry[e].retry < MaxRecoveryRetries
          /\ ticket < MaxTickets
          /\ SetEntry(e, [entry[e] EXCEPT !.state = "queued", !.retry = @ + 1])
          /\ place' = [place EXCEPT ![e] = -(ticket + 1)]
          /\ ticket' = ticket + 1
          /\ UNCHANGED letterVars
       \/ /\ entry[e].retry >= MaxRecoveryRetries
          /\ SetLetter(e, "dead_lettered")
          /\ PersistLetter(e, "dead_lettered")
          /\ Remove(e)
          /\ UNCHANGED ticket
    /\ UNCHANGED <<results, logVars, run, slotVars, budgetVars, controlVars, triggered,
                   timers, call, recovering, boundVars>>

(* The scan is over.  It passes over executions younger than its           *)
(* threshold.                                                              *)
RecoveryEnds ==
    /\ recovering
    /\ recovering' = FALSE
    /\ UNCHANGED <<queueVars, logVars, letterVars, run, slotVars, budgetVars, controlVars,
                   triggered, timers, call, boundVars>>

-----------------------------------------------------------------------------
Admission(e) ==
    \/ Submit(e) \/ SubmitDuplicate(e) \/ Enqueued(e) \/ EnqueueFails(e)
    \/ RequeueDeadLetter(e) \/ Requeued(e) \/ RequeueFails(e) \/ CancelDeadLetter(e)

(* What a call of executeNext does next.                                   *)
Continue(r) ==
    \/ SkipExecuted(r) \/ BudgetRefuses(r) \/ Begin(r) \/ Start(r) \/ MarkFails(r)
    \/ \E retryable \in BOOLEAN : ExecutionFails(r, retryable)
    \/ ExecutionSucceeds(r)
    \/ Complete(r) \/ CompleteFails(r) \/ AfterFailure(r) \/ Bury(r) \/ CatchFails(r)

Operate ==
    \/ PauseExecution \/ ResumeExecution \/ Cleanup \/ CleanupEnds \/ Crash \/ RecoveryEnds
    \/ \E e \in Envelopes : RecoverOrphan(e) \/ RetryTimerFires(e)

Next ==
    \/ \E e \in Envelopes : Admission(e)
    \/ LoopPicks \/ LoopStops
    \/ \E b \in Batches : BatchPicks(b) \/ BatchEnds(b)
    \/ \E r \in Runs : Continue(r)
    \/ Operate

Spec == Init /\ [][Next]_vars

(* The event loop serves every callback: awaits end, immediates and timers *)
(* fire, an execution ends or times out, processQueue goes on.             *)
Fairness ==
    /\ \A e \in Envelopes : /\ WF_vars(Enqueued(e) \/ EnqueueFails(e))
                            /\ WF_vars(Requeued(e) \/ RequeueFails(e))
                            /\ WF_vars(RetryTimerFires(e))
    /\ \A r \in Runs : WF_vars(Continue(r))
    /\ \A b \in Batches : WF_vars(run[b].pc = "again" /\ (BatchPicks(b) \/ BatchEnds(b)))
    /\ WF_vars(LoopPicks) /\ WF_vars(LoopStops)
    /\ WF_vars(CleanupEnds) /\ WF_vars(RecoveryEnds)

FairSpec == Spec /\ Fairness

-----------------------------------------------------------------------------
(***************************************************************************)
(* Properties.                                                             *)
(***************************************************************************)
(* One executor: executeNext tests the flag, awaits the queue and raises   *)
(* the flag, and yet two of its calls are never between their start and    *)
(* their end together, as long as processQueue is not called twice in one  *)
(* turn; the flag is up whenever one is.                                   *)
SingleExecutor ==
    \A r, s \in Runs :
        Pending(r) => executing /\ (Pending(s) \/ run[s].pc = "picked" => r = s)

(* The flag and the counter are given back by every way out of executeNext *)
(* but an append that fails: without one the flag is up only during an     *)
(* execution and the counter counts it.                                    *)
SlotsReturned ==
    LET pending == {r \in Runs : Pending(r)}
    IN  /\ executing /\ pending = {} => faults > 0
        /\ Cardinality(pending) <= current
        /\ current <= Cardinality(pending) + faults

(* A pause stops all but one execution: the one between the test of        *)
(* isPaused and the call of the executor when the pause came.              *)
PauseAdmitsOne == late <= 1

(* Until the next crash an envelope that succeeded is not executed again,  *)
(* however often it is submitted, cleared away or requeued.                *)
SuccessIsFinal ==
    [][\A r \in Runs :
        run[r].pc = "marking" /\ run'[r].pc = "running" => run[r].envelope \notin results]_vars

Working ==
    IF \E r \in Runs : Pending(r) THEN run[CHOOSE r \in Runs : Pending(r)].envelope ELSE Nobody

Serial == INSTANCE SerialExecution WITH working <- Working, succeeded <- results

(* However the calls of executeNext meet submissions, requeues, cleanup,   *)
(* failing appends and crashes, the executor works as SerialExecution says:*)
(* the result of an envelope is cached while the executor works on it.     *)
ExecutesSerially == Serial!Spec

(* Durability: an entry that its caller knows to be queued survives a      *)
(* crash at any later moment, unless an append failed, the rewriting of    *)
(* the log overtook it, or a line about an earlier submission of the same  *)
(* envelope did.                                                           *)
QueueSurvives ==
    \A e \in Active :
        \/ disk[e].state \in {"queued", "executing"}
        \/ call[e].pc = "enqueueing"
        \/ disk[e].queuedAt \in 1 .. entry[e].queuedAt - 1
        \/ faults > 0 \/ torn \/ rewriting.on

(* While nothing fails, crashes or is held by a pause, whatever is queued  *)
(* is executed: each submission wakes the loop, or finds it awake and is   *)
(* seen by it before it goes to sleep.  Not so an envelope that is cleared *)
(* away and submitted again before its completion is written: the end of   *)
(* markCompleted takes the new entry out of the fifo.                      *)
Overtaken == \E r \in Runs : run[r].pc = "completing" /\ entry[run[r].envelope].state = "queued"

Trouble ==
    \/ crashes > 0 \/ faults > 0 \/ Overtaken
    \/ \E e \in Envelopes : entry[e].state = "failed"

QueueDrains ==
    (<>[]~paused /\ []~Trouble) =>
        \A e \in Envelopes : entry[e].state = "queued" ~> entry[e].state # "queued"

(* As retry-policy.js says, transient failures are retried: an envelope    *)
(* whose retry timer was set does not stay failed.                         *)
RetryHappens ==
    \A e \in Envelopes : e \in timers ~> entry[e].state # "failed"
=============================================================================
