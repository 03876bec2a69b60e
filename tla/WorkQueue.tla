------------------------------ MODULE WorkQueue ------------------------------
(***************************************************************************)
(* The governed work queue (services/vienna-lib/queue): cycles of the      *)
(* scheduler, in one process or in several, take READY items from one      *)
(* SQLite database, lease them, claim their one attempt, execute them and  *)
(* settle their state.  The expiry detector expires leases and abandons    *)
(* claims, RecoveryManager settles what stays RUNNING.                     *)
(*                                                                         *)
(* An action is the stretch between two awaits.  Inside one, the calls of  *)
(* a process on the database are not interrupted by its own callbacks.  Of *)
(* the statements of two processes, those that another's can come between  *)
(* are acquireLease's SELECT and its writes.  Its writes are one step, and *)
(* so are those of a release and of an expiry, and the read of supersede   *)
(* with its UPDATE, which changes nothing if the state read is gone.       *)
(*                                                                         *)
(* retry_json is written by enqueueItem only, so attempt_count stays 0,    *)
(* every claim is for attempt 1, and an item has at most one claim; and    *)
(* next_retry_at stays unset, so an item in RETRY_SCHEDULED is never       *)
(* eligible again.  BLOCKED stands for BLOCKED_LOCK and BLOCKED_APPROVAL,  *)
(* which nothing in the queue ends but a supersession.                     *)
(***************************************************************************)
EXTENDS Integers, FiniteSets

CONSTANTS
    Items,
    Rank,        \* [Items -> Nat], the order of compareQueueItems
    Retryable,   \* items whose policy allows a second attempt
    Gated,       \* items whose resume condition may be unmet
    Replaceable, \* items that may be superseded
    HasRecovery, \* the detector has a RecoveryManager; as committed it has none
    Workers,     \* processes that run a scheduler
    Cycles,      \* overlapping calls of runSchedulerCycle
    Placements,  \* subset of [Cycles -> Workers]: where the cycles may run
    Outcomes,    \* the answers of executeGovernanceReentry: COMPLETED when allowed,
                 \* CANCELLED on CANCEL, a state to wait in on REQUEUE
    Leases,      \* lease ids: one that is out of use is used again
    None,        \* no lease
    Old,         \* an id that nobody holds any more
    MaxTrouble   \* bound: crashes and ledger writes that fail, together

Blocked == {"BLOCKED", "BLOCKED_DEPENDENCY"}

ASSUME QueueAssumption ==
    /\ Rank \in [Items -> Nat]
    /\ \A i, j \in Items : Rank[i] = Rank[j] => i = j
    /\ Retryable \subseteq Items
    /\ Gated \subseteq Items
    /\ HasRecovery \in BOOLEAN
    /\ {None, Old} \cap Leases = {}
    /\ None # Old
    /\ None \notin Items
    /\ Placements \subseteq [Cycles -> Workers]
    /\ Outcomes \subseteq {"COMPLETED", "CANCELLED", "RETRY_SCHEDULED"} \union Blocked
    /\ MaxTrouble \in Nat

VARIABLES
    item,       \* queue_items.state
    pointer,    \* queue_items.scheduler_lease_id
    rows,       \* queue_leases: the id in each status, at most one of each per item
    lapsed,     \* leases whose expires_at has passed
    claim,      \* execution_claims: the claim for attempt 1
    cycle,      \* the calls of runSchedulerCycle
    worker,     \* the process of each cycle
    recovery,   \* the item recoverStuckItem is about to settle, and its disposition
    entered,    \* how often executeGovernanceReentry was called for the item
    crashes,
    faults

leaseVars == <<pointer, rows, lapsed>>
boundVars == <<crashes, faults>>
vars == <<item, leaseVars, claim, cycle, worker, recovery, entered, boundVars>>

Terminal == {"COMPLETED", "FAILED", "CANCELLED"}
QueueState == {"READY", "RETRY_SCHEDULED", "RUNNING"} \union Blocked \union Terminal

LeaseStatus == {"ACTIVE", "RELEASED", "EXPIRED"}
NoRows == [s \in LeaseStatus |-> None]

ActiveClaim == {"CLAIMED", "STARTED"}
ClaimStatus == {"NONE"} \union ActiveClaim \union {"COMPLETED", "FAILED", "ABANDONED"}
NoWorker == "nobody"
NoRecovery == <<>>
NoClaim == [status |-> "NONE", worker |-> NoWorker]

Pc == {"idle", "listed", "acquiring", "leased", "claimed", "running", "started",
       "entered", "marked", "failing", "failed", "releasing"}

Idle == [pc |-> "idle", item |-> None, lease |-> None, stale |-> None, outcome |-> "none"]

Cycle ==
    [pc : Pc,
     item : Items \union {None},
     lease : Leases \union {None},
     stale : Leases \union {None},      \* the expired lease that acquireLease read
     outcome : Outcomes \union {"none"}]

TypeOK ==
    /\ item \in [Items -> QueueState]
    /\ pointer \in [Items -> Leases \union {None}]
    /\ rows \in [Items -> [LeaseStatus -> Leases \union {None, Old}]]
    /\ lapsed \subseteq Leases
    /\ claim \in [Items -> [status : ClaimStatus, worker : Workers \union {NoWorker}]]
    /\ cycle \in [Cycles -> Cycle]
    /\ worker \in [Cycles -> Workers]
    /\ recovery \in (Items \X {"RECLAIM", "FAIL_CLOSED"}) \union {NoRecovery}
    /\ entered \in [Items -> Nat]
    /\ crashes \in Nat
    /\ faults \in Nat
    /\ crashes + faults <= MaxTrouble
    /\ \A c \in Cycles :
          /\ cycle[c].pc # "idle" => cycle[c].item \in Items
          /\ cycle[c].pc \notin {"idle", "listed", "acquiring"} => cycle[c].lease \in Leases

\* An item is enqueued blocked on what it waits for, or for a retry; never READY.
Init ==
    /\ item \in [Items -> Blocked \union {"RETRY_SCHEDULED"}]
    /\ pointer = [i \in Items |-> None]
    /\ rows = [i \in Items |-> NoRows]
    /\ lapsed = {}
    /\ claim = [i \in Items |-> NoClaim]
    /\ cycle = [c \in Cycles |-> Idle]
    /\ worker \in Placements
    /\ recovery = NoRecovery
    /\ entered = [i \in Items |-> 0]
    /\ crashes = 0
    /\ faults = 0

At(c, pc) == cycle[c].pc = pc

GoTo(c, pc) == cycle' = [cycle EXCEPT ![c].pc = pc]

\* The event loop of c's process is free: acquireLease is not between its SELECT and
\* its INSERT in another cycle of that process.
Turn(c) == \A d \in Cycles \ {c} : At(d, "acquiring") => worker[d] # worker[c]

\* Mutant: the UPDATE names the item only.
TransitionFromAny(i, from, to) == item' = [item EXCEPT ![i] = to]

\* transitionItem: the UPDATE is conditional on from_state; otherwise it throws.
Transition(i, from, to) ==
    /\ item[i] = from
    /\ item' = [item EXCEPT ![i] = to]

Throws(i, from) == item[i] # from /\ UNCHANGED item

-----------------------------------------------------------------------------
(* queue_leases.  UNIQUE(queue_item_id, status) ON CONFLICT IGNORE: a row that would *)
(* be the second of its item in a status is silently not written.                    *)

\* UPDATE queue_leases SET status = to, for the row of lease l.
Moved(r, l, to) ==
    IF r[to] # None THEN r
    ELSE [s \in LeaseStatus |-> IF s = to /\ \E t \in LeaseStatus : r[t] = l THEN l
                                ELSE IF r[s] = l THEN None
                                ELSE r[s]]

Inserted(r, l) == IF r["ACTIVE"] # None THEN r ELSE [r EXCEPT !["ACTIVE"] = l]

\* Only an acquireLease that has read a row as ACTIVE may still ask for it by its id.
Stales(C) == {cycle[c].stale : c \in C}
Known(r, ids) ==
    [s \in LeaseStatus |-> IF s = "ACTIVE" \/ r[s] \in ids \union {None} THEN r[s] ELSE Old]

InUse ==
    {cycle[c].lease : c \in Cycles} \union Stales(Cycles)
        \union {pointer[i] : i \in Items} \union {rows[i]["ACTIVE"] : i \in Items}

Unexpired(i) == rows[i]["ACTIVE"] # None /\ rows[i]["ACTIVE"] \notin lapsed

\* Mutant: only the row of the lease is updated.
PointerLeft(i, l) == pointer

PointerCleared(i, l) == IF pointer[i] = l THEN [pointer EXCEPT ![i] = None] ELSE pointer

-----------------------------------------------------------------------------
(* The scheduler cycle *)

Listed ==
    {i \in Items : item[i] = "READY" /\ (pointer[i] = None \/ pointer[i] \in lapsed)}

IsFirst(i, S) == i \in S /\ \A j \in S : Rank[i] <= Rank[j]

\* listEligibleItems, then the resume conditions; only the first item is processed.
List(c) ==
    /\ At(c, "idle")
    /\ Turn(c)
    /\ \E met \in SUBSET (Listed \intersect Gated), i \in Items :
          /\ IsFirst(i, (Listed \ Gated) \union met)
          /\ cycle' = [cycle EXCEPT ![c] = [Idle EXCEPT !.pc = "listed", !.item = i]]
    /\ UNCHANGED <<item, leaseVars, claim, worker, recovery, entered, boundVars>>

\* Mutant: an unexpired lease that the worker's own cycle holds counts as acquired.
SelectOwnLease(c) ==
    /\ At(c, "listed")
    /\ Turn(c)
    /\ IF Unexpired(cycle[c].item)
       THEN IF \E d \in Cycles : /\ cycle[d].lease = rows[cycle[c].item]["ACTIVE"]
                                 /\ worker[d] = worker[c]
            THEN GoTo(c, "leased")
            ELSE cycle' = [cycle EXCEPT ![c] = Idle]
       ELSE cycle' = [cycle EXCEPT ![c].pc = "acquiring",
                                   ![c].stale = rows[cycle[c].item]["ACTIVE"]]
    /\ UNCHANGED <<item, leaseVars, claim, worker, recovery, entered, boundVars>>

\* acquireLease up to the test of the lease it finds.
SelectLease(c) ==
    /\ At(c, "listed")
    /\ Turn(c)
    /\ IF Unexpired(cycle[c].item)
       THEN cycle' = [cycle EXCEPT ![c] = Idle]
       ELSE cycle' = [cycle EXCEPT ![c].pc = "acquiring",
                                   ![c].stale = rows[cycle[c].item]["ACTIVE"]]
    /\ UNCHANGED <<item, leaseVars, claim, worker, recovery, entered, boundVars>>

\* acquireLease from there: expire the lease it found, insert its own, point the item at
\* it, and return acquired, whether or not the INSERT was ignored.
InsertLease(c) ==
    LET i == cycle[c].item
        stale == cycle[c].stale
    IN
    /\ At(c, "acquiring")
    /\ Leases \ InUse # {}
    /\ LET l == CHOOSE l \in Leases : l \notin InUse
           expired == IF stale = None THEN rows[i] ELSE Moved(rows[i], stale, "EXPIRED")
       IN
       /\ rows' = [j \in Items |-> Known(IF j = i THEN Inserted(expired, l) ELSE rows[j],
                                         Stales(Cycles \ {c}))]
       /\ pointer' = [pointer EXCEPT ![i] = l]
       /\ lapsed' = (lapsed \intersect InUse) \ {l}
       /\ cycle' = [cycle EXCEPT ![c].pc = "leased", ![c].lease = l, ![c].stale = None]
    /\ UNCHANGED <<item, claim, worker, recovery, entered, boundVars>>

\* emitQueueLedgerEvent throws: on QUEUE_ITEM_LEASE_ACQUIRED, on GOVERNANCE_REENTRY_STARTED,
\* or on the event that follows the answer.
LedgerFails(c) ==
    /\ cycle[c].pc \in {"leased", "started", "marked"}
    /\ crashes + faults < MaxTrouble
    /\ faults' = faults + 1
    /\ Turn(c)
    /\ GoTo(c, "failing")
    /\ UNCHANGED <<item, leaseVars, claim, worker, recovery, entered, crashes>>

\* Mutant: an attempt that failed or was abandoned may be claimed again.
ClaimAnew(c) ==
    LET i == cycle[c].item IN
    /\ At(c, "leased")
    /\ Turn(c)
    /\ \/ /\ claim[i].status \in {"NONE", "FAILED", "ABANDONED"}
          /\ claim' = [claim EXCEPT ![i] = [status |-> "CLAIMED", worker |-> worker[c]]]
          /\ GoTo(c, "claimed")
       \/ /\ claim[i].status \notin {"NONE", "FAILED", "ABANDONED"}
          /\ GoTo(c, "releasing")
          /\ UNCHANGED claim
    /\ UNCHANGED <<item, leaseVars, worker, recovery, entered, boundVars>>

\* acquireClaim: UNIQUE(queue_item_id, attempt_number).  Without a claim the cycle returns.
Claim(c) ==
    LET i == cycle[c].item IN
    /\ At(c, "leased")
    /\ Turn(c)
    /\ \/ /\ claim[i].status = "NONE"
          /\ claim' = [claim EXCEPT ![i] = [status |-> "CLAIMED", worker |-> worker[c]]]
          /\ GoTo(c, "claimed")
       \/ /\ claim[i].status # "NONE"
          /\ GoTo(c, "releasing")
          /\ UNCHANGED claim
    /\ UNCHANGED <<item, leaseVars, worker, recovery, entered, boundVars>>

ToRunning(c) ==
    LET i == cycle[c].item IN
    /\ At(c, "claimed")
    /\ Turn(c)
    /\ \/ Transition(i, "READY", "RUNNING") /\ GoTo(c, "running")
       \/ Throws(i, "READY") /\ GoTo(c, "failing")
    /\ UNCHANGED <<leaseVars, claim, worker, recovery, entered, boundVars>>

\* markStarted, whose result nobody reads.
MarkStarted(c) ==
    LET i == cycle[c].item IN
    /\ At(c, "running")
    /\ Turn(c)
    /\ claim' = IF claim[i].status = "CLAIMED"
                THEN [claim EXCEPT ![i].status = "STARTED"] ELSE claim
    /\ GoTo(c, "started")
    /\ UNCHANGED <<item, leaseVars, worker, recovery, entered, boundVars>>

Reenter(c) ==
    /\ At(c, "started")
    /\ Turn(c)
    /\ entered' = [entered EXCEPT ![cycle[c].item] = @ + 1]
    /\ GoTo(c, "entered")
    /\ UNCHANGED <<item, leaseVars, claim, worker, recovery, boundVars>>

\* markCompleted, markFailed and markAbandoned.
EndClaim(i, status) ==
    claim' = IF claim[i].status \in ActiveClaim
             THEN [claim EXCEPT ![i].status = status] ELSE claim

\* The answer of the governance re-entry, and the mark on the claim that follows it.
Answer(c) ==
    /\ At(c, "entered")
    /\ Turn(c)
    /\ \E outcome \in Outcomes :
          /\ EndClaim(cycle[c].item, IF outcome = "COMPLETED" THEN "COMPLETED" ELSE "FAILED")
          /\ cycle' = [cycle EXCEPT ![c].pc = "marked", ![c].outcome = outcome]
    /\ UNCHANGED <<item, leaseVars, worker, recovery, entered, boundVars>>

ReentryThrows(c) ==
    /\ At(c, "entered")
    /\ Turn(c)
    /\ GoTo(c, "failing")
    /\ UNCHANGED <<item, leaseVars, claim, worker, recovery, entered, boundVars>>

Settle(c) ==
    LET i == cycle[c].item IN
    /\ At(c, "marked")
    /\ Turn(c)
    /\ \/ Transition(i, "RUNNING", cycle[c].outcome) /\ GoTo(c, "releasing")
       \/ Throws(i, "RUNNING") /\ GoTo(c, "failing")
    /\ UNCHANGED <<leaseVars, claim, worker, recovery, entered, boundVars>>

\* catch: the active claim of the item, if this worker holds it, fails.
CatchClaim(c) ==
    LET i == cycle[c].item IN
    /\ At(c, "failing")
    /\ Turn(c)
    /\ IF claim[i].worker = worker[c] THEN EndClaim(i, "FAILED") ELSE UNCHANGED claim
    /\ GoTo(c, "failed")
    /\ UNCHANGED <<item, leaseVars, worker, recovery, entered, boundVars>>

AfterError(i) == IF i \in Retryable THEN "RETRY_SCHEDULED" ELSE "FAILED"

\* Mutant: an item whose policy allows no other attempt is left as it is.
CatchRetryable(c) ==
    LET i == cycle[c].item IN
    /\ At(c, "failed")
    /\ Turn(c)
    /\ IF i \in Retryable
       THEN Transition(i, "RUNNING", AfterError(i)) \/ Throws(i, "RUNNING")
       ELSE UNCHANGED item
    /\ GoTo(c, "releasing")
    /\ UNCHANGED <<leaseVars, claim, worker, recovery, entered, boundVars>>

\* catch: the item is settled, unless it is not RUNNING.
CatchItem(c) ==
    LET i == cycle[c].item IN
    /\ At(c, "failed")
    /\ Turn(c)
    /\ Transition(i, "RUNNING", AfterError(i)) \/ Throws(i, "RUNNING")
    /\ GoTo(c, "releasing")
    /\ UNCHANGED <<leaseVars, claim, worker, recovery, entered, boundVars>>

\* finally: releaseLease.
Release(c) ==
    LET i == cycle[c].item
        l == cycle[c].lease
    IN
    /\ At(c, "releasing")
    /\ Turn(c)
    /\ rows' = IF rows[i]["ACTIVE"] = l
               THEN [rows EXCEPT ![i] = Known(Moved(@, l, "RELEASED"), Stales(Cycles))]
               ELSE rows
    /\ pointer' = PointerCleared(i, l)
    /\ cycle' = [cycle EXCEPT ![c] = Idle]
    /\ UNCHANGED <<item, lapsed, claim, worker, recovery, entered, boundVars>>

-----------------------------------------------------------------------------
(* Time, crashes, the expiry detector, recovery and the coordination manager *)

\* Thirty seconds have passed since the lease was acquired; nobody renews it.
Lapse(l) ==
    /\ l \in (InUse \intersect Leases) \ lapsed
    /\ lapsed' = lapsed \union {l}
    /\ UNCHANGED <<item, pointer, rows, claim, cycle, worker, recovery, entered, boundVars>>

\* A process dies, and comes back with the same worker id.
Crash(w) ==
    /\ crashes + faults < MaxTrouble
    /\ \E c \in Cycles : worker[c] = w /\ ~At(c, "idle")
    /\ crashes' = crashes + 1
    /\ cycle' = [c \in Cycles |-> IF worker[c] = w THEN Idle ELSE cycle[c]]
    /\ UNCHANGED <<item, leaseVars, claim, worker, recovery, entered, faults>>

\* findExpiredLeases and expireLease.
ExpireLease(i) ==
    LET l == rows[i]["ACTIVE"] IN
    /\ l \in lapsed
    /\ rows' = [rows EXCEPT ![i] = Known(Moved(@, l, "EXPIRED"), Stales(Cycles))]
    /\ pointer' = PointerCleared(i, l)
    /\ UNCHANGED <<item, lapsed, claim, cycle, worker, recovery, entered, boundVars>>

\* The time a claim or a RUNNING item must last before it counts as stuck is longer than
\* a lease: whoever still works on the item has let its lease lapse.
Overdue(i) ==
    \A c \in Cycles :
        cycle[c].item = i /\ cycle[c].pc \in {"claimed", "running", "started", "entered", "marked"}
            => cycle[c].lease \in lapsed

\* findAbandonedClaims and markAbandoned.
AbandonClaim(i) ==
    /\ claim[i].status \in ActiveClaim
    /\ Overdue(i)
    /\ EndClaim(i, "ABANDONED")
    /\ UNCHANGED <<item, leaseVars, cycle, worker, recovery, entered, boundVars>>

\* detectStuckWork, with determineRecoveryDisposition called without hasStartedClaim.  The
\* loop over the stuck items is taken one item at a time.
Detect(i) ==
    /\ HasRecovery
    /\ recovery = NoRecovery
    /\ item[i] = "RUNNING"
    /\ ~Unexpired(i) \/ claim[i].status \notin ActiveClaim \/ Overdue(i)
    /\ recovery' = <<i, IF claim[i].status = "CLAIMED" THEN "RECLAIM" ELSE "FAIL_CLOSED">>
    /\ UNCHANGED <<item, leaseVars, claim, cycle, worker, entered, boundVars>>

\* Mutant: what was stuck in its execution is closed as if that had ended.
ClosedAsDone(disposition) == IF disposition = "RECLAIM" THEN "RETRY_SCHEDULED" ELSE "COMPLETED"

Settled(disposition) == IF disposition = "RECLAIM" THEN "RETRY_SCHEDULED" ELSE "FAILED"

\* recoverStuckItem
Recover ==
    /\ recovery # NoRecovery
    /\ \/ Transition(recovery[1], "RUNNING", Settled(recovery[2]))
       \/ Throws(recovery[1], "RUNNING")
    /\ recovery' = NoRecovery
    /\ UNCHANGED <<leaseVars, claim, cycle, worker, entered, boundVars>>

\* CoordinationManager.supersede: the transition from the state it read to CANCELLED.
Supersede(i) ==
    /\ i \in Replaceable
    /\ item[i] \notin Terminal
    /\ Transition(i, item[i], "CANCELLED")
    /\ UNCHANGED <<leaseVars, claim, cycle, worker, recovery, entered, boundVars>>

\* wakeupDependents
Wake(i) ==
    /\ Transition(i, "BLOCKED_DEPENDENCY", "READY")
    /\ UNCHANGED <<leaseVars, claim, cycle, worker, recovery, entered, boundVars>>

-----------------------------------------------------------------------------
Work(c) ==
    \/ SelectLease(c) \/ InsertLease(c) \/ Claim(c) \/ ToRunning(c) \/ MarkStarted(c)
    \/ Reenter(c) \/ Answer(c) \/ ReentryThrows(c) \/ Settle(c)
    \/ CatchClaim(c) \/ CatchItem(c) \/ Release(c)

Next ==
    \/ \E c \in Cycles : List(c) \/ Work(c) \/ LedgerFails(c)
    \/ \E l \in Leases : Lapse(l)
    \/ \E w \in Workers : Crash(w)
    \/ \E i \in Items :
          ExpireLease(i) \/ AbandonClaim(i) \/ Detect(i) \/ Supersede(i) \/ Wake(i)
    \/ Recover

Spec == Init /\ [][Next]_vars

\* The interval timer starts cycles for ever, a cycle that has started runs on (the host's
\* re-entry answers), time passes, and the detector runs on its own interval.
FairSpec ==
    /\ Spec
    /\ \A c \in Cycles : WF_vars(List(c)) /\ WF_vars(Work(c))
    /\ \A l \in Leases : WF_vars(Lapse(l))
    /\ \A i \in Items : WF_vars(ExpireLease(i))

-----------------------------------------------------------------------------
(* Properties *)

\* "No duplicate execution for same attempt number" (claim-manager.ts:5), although leases
\* lapse under their holders, rows of leases are silently not written, cycles of a process
\* overlap and processes crash: an item enters the governed execution at most once.
ExecutedOnce == \A i \in Items : entered[i] <= 1

\* A late settle, a late catch or a late recovery changes no item that has reached
\* COMPLETED, FAILED or CANCELLED meanwhile.
TerminalIsFinal ==
    [][\A i \in Items : item[i] \in Terminal => item'[i] = item[i]]_vars

Ending ==
    [i \in Items |-> IF item[i] = "COMPLETED" THEN "completed"
                     ELSE IF item[i] \in Terminal THEN "dropped" ELSE "open"]

Governed == INSTANCE GovernedItems WITH ending <- Ending

\* An item is COMPLETED only after its one entry into the governed execution, whichever of
\* the scheduler, its late cycles, recovery and supersession settles it: the queue does
\* what GovernedItems promises.
WorkIsGoverned == Governed!Spec

\* Unless its process crashes, every path through processQueueItem, the thrown ones
\* included, takes a RUNNING item out of RUNNING.
RunningEnds ==
    \A i \in Items : item[i] = "RUNNING" ~> (item[i] # "RUNNING" \/ crashes > 0)

\* A READY item whose claim is used: it is listed again and again, and refused each time.
Jam == \E i \in Items : item[i] = "READY" /\ claim[i].status # "NONE"

\* Leases of crashed or slow cycles do not keep an item from its execution: a READY item
\* whose condition holds leaves READY, unless an item that can never be claimed again jams
\* the head of the queue.
Served ==
    \A i \in Items \ Gated : item[i] = "READY" ~> (item[i] # "READY" \/ Jam)
=============================================================================
