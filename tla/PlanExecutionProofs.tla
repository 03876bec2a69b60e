------------------------ MODULE PlanExecutionProofs ------------------------
(***************************************************************************)
(* Proofs about PlanExecution, for any number of plans, targets and        *)
(* crashes and for plans of any steps.                                     *)
(***************************************************************************)
EXTENDS PlanExecution, FiniteSetTheorems, TLAPS

-----------------------------------------------------------------------------
(***************************************************************************)
(* Facts about the state's parts.                                          *)
(***************************************************************************)

(* A plan's own step leaves the other plans' records alone.                *)
LEMMA BecomeOne ==
    ASSUME run \in [Plans -> Run], NEW p \in Plans, NEW r \in Run, Become(p, r)
    PROVE  /\ run' \in [Plans -> Run]
           /\ run'[p] = r
           /\ \A q \in Plans \ {p} : run'[q] = run[q]
BY DEF Become

(* The same of the step states, when the current step is one of the plan's.*)
LEMMA SetOneStatus ==
    ASSUME DOMAIN status = Plans, \A q \in Plans : status[q] \in [StepsOf(q) -> StepStatus],
           NEW p \in Plans, run[p].step \in StepsOf(p), NEW st \in StepStatus,
           SetStatus(p, st)
    PROVE  /\ DOMAIN status' = Plans
           /\ \A q \in Plans : status'[q] \in [StepsOf(q) -> StepStatus]
           /\ \A q \in Plans \ {p} : status'[q] = status[q]
           /\ status'[p] = [status[p] EXCEPT ![run[p].step] = st]
BY DEF SetStatus

(* A step of a plan is a Step.                                             *)
LEMMA StepType ==
    ASSUME NEW p \in Plans, NEW i \in StepsOf(p)
    PROVE  Steps[p][i] \in Step
<1>1. Steps[p] \in Seq(Step)
  BY StepsAssumption
<1>2. i \in 1 .. Len(Steps[p])
  BY DEF StepsOf
<1>. QED
  BY <1>1, <1>2

LEMMA StepFields ==
    ASSUME NEW s \in Step
    PROVE  /\ s.targets \in Seq(Targets)
           /\ s.timeout \in Nat \ {0}
           /\ s.verify \in Nat
           /\ s.attempts \in Nat \ {0}
           /\ s.aborts \in BOOLEAN
           /\ s.needsApproval \in BOOLEAN
           /\ s.dependsOn \subseteq Nat
           /\ Ttl(s) \in Nat
BY BoundsAssumption DEF Step, Ttl

(* A retry delay is a number: 2 ^ k counts the sets of k numbers.           *)
LEMMA DelayIsNumber ==
    ASSUME NEW s \in Step, NEW a \in Nat \ {0}
    PROVE  RetryDelay(s, a) \in Nat
<1>1. s.delay \in Nat /\ s.backoff \in {"fixed", "linear", "exponential"}
  BY DEF Step
<1>2. a - 1 \in Nat
  OBVIOUS
<1>3. 2 ^ (a - 1) \in Nat
  <2>1. \A k \in Nat : IsFiniteSet(1 .. k) /\ Cardinality(1 .. k) = k
    BY FS_Interval
  <2>2. IsFiniteSet(SUBSET (1 .. a - 1)) /\ Cardinality(SUBSET (1 .. a - 1)) = 2 ^ (a - 1)
    BY <1>2, <2>1, FS_SUBSET
  <2>. QED  BY <2>2, FS_CardinalityType
<1>4. \A x, y \in Nat : x * y \in Nat
  OBVIOUS
<1>. QED  BY <1>1, <1>3, <1>4 DEF RetryDelay

LEMMA StepsOfPositive ==
    ASSUME NEW p \in Plans, NEW i \in StepsOf(p)
    PROVE  i \in Nat \ {0}
<1>1. Len(Steps[p]) \in Nat
  BY StepsAssumption
<1>. QED
  BY <1>1 DEF StepsOf

(* The rows and identities of locks.                                       *)
LEMMA LockTypes ==
    ASSUME locks \in [Targets -> Lock]
    PROVE  /\ NoLock \in Lock
           /\ \A t \in Targets : ActiveLock(t) \in Lock
           /\ \A t \in Targets : Held(t) => locks[t].owner \in Plans
           /\ \A t \in Targets : Held(t) => LockId(t) \in LockIds
           /\ StaleLocks \subseteq LockIds
<1>1. NoLock \in Lock
  BY DEF NoLock, Lock
<1>2. \A t \in Targets : Held(t) => locks[t].owner \in Plans
  BY DEF Held, Lock
<1>3. \A t \in Targets : Held(t) => LockId(t) \in LockIds
  BY <1>2 DEF LockId, LockIds, Lock
<1>. QED
  BY <1>1, <1>2, <1>3 DEF ActiveLock, StaleLocks, Lapsed

LEMMA NextStepType ==
    ASSUME NEW r \in Run
    PROVE  /\ NextStep(r) \in Run
           /\ NextStep(r).pc = "step"
           /\ NextStep(r).step = r.step + 1
           /\ NextStep(r).stale = r.stale
           /\ NextStep(r).acquired = r.acquired
           /\ NextStep(r).held = r.held
           /\ NextStep(r).thrown = r.thrown
<1>1. NoLock \in Lock
  BY DEF NoLock, Lock
<1>2. r.step + 1 \in Nat \ {0}
  BY DEF Run
<1>3. "step" \in Pc
  BY DEF Pc
<1>. QED
  BY <1>1, <1>2, <1>3 DEF NextStep, Run

LEMMA FailType ==
    ASSUME NEW r \in Run
    PROVE  /\ Fail(r) \in Run
           /\ Fail(r).pc = "failed"
           /\ Fail(r).step = r.step
           /\ Fail(r).stale = r.stale
           /\ Fail(r).acquired = r.acquired
           /\ Fail(r).held = r.held
<1>1. NoLock \in Lock
  BY DEF NoLock, Lock
<1>. QED
  BY <1>1 DEF Fail, Run, Pc

LEMMA NotStartedType ==
    /\ NotStarted \in Run
    /\ [NotStarted EXCEPT !.pc = "dead"] \in Run
    /\ [NotStarted EXCEPT !.pc = "idle"] \in Run
<1>1. NoLock \in Lock
  BY DEF NoLock, Lock
<1>2. {"idle", "dead"} \subseteq Pc
  BY DEF Pc
<1>3. NotStarted \in Run
  BY <1>1, <1>2 DEF NotStarted, Run
<1>. QED
  BY <1>2, <1>3 DEF Run

-----------------------------------------------------------------------------
(***************************************************************************)
(* Type correctness.  That timers and locks are well typed rests on where  *)
(* a plan is: it works on a step of its own, locks one of its targets, and *)
(* counts its attempts.                                                    *)
(***************************************************************************)
Locking == {"sweep", "mark", "read", "decide"}
Acquiring == Locking \cup {"rollback"}
Holding == {"ready", "acting", "verifying", "waiting", "release"}

WellPlaced(p, r) ==
    /\ r.pc = "idle" => r.step = 1
    /\ r.pc \in Acquiring \cup Holding => r.step \in StepsOf(p)
    /\ r.pc \in Locking => r.next \in 1 .. Len(Steps[p][r.step].targets)
    /\ r.pc \in Timed => r.attempt \in 1 .. Steps[p][r.step].attempts
    /\ r.pc = "waiting" => r.attempt + 1 \in 1 .. Steps[p][r.step].attempts

TypeInv == TypeOK /\ \A p \in Plans : WellPlaced(p, run[p])

LEMMA RunType ==
    ASSUME TypeOK, NEW p \in Plans
    PROVE  run[p] \in Run
BY DEF TypeOK

LEMMA PlanStepType ==
    ASSUME TypeInv, NEW p \in Plans, NEW r \in Run, WellPlaced(p, r), Become(p, r)
    PROVE  /\ run' \in [Plans -> Run]
           /\ \A q \in Plans : WellPlaced(q, run'[q])
<1>1. /\ run' \in [Plans -> Run]
      /\ run'[p] = r
      /\ \A q \in Plans \ {p} : run'[q] = run[q]
  BY BecomeOne DEF TypeInv, TypeOK
<1>. QED
  BY <1>1 DEF TypeInv

LEMMA TypeInit == Init => TypeInv
<1>. SUFFICES ASSUME Init PROVE TypeInv
  OBVIOUS
<1>1. locks \in [Targets -> Lock]
  BY DEF Init, NoLocks, NoLock, Lock
<1>2. run \in [Plans -> Run]
  BY NotStartedType DEF Init
<1>3. /\ DOMAIN status = Plans
      /\ \A p \in Plans : status[p] \in [StepsOf(p) -> StepStatus]
  BY DEF Init, StepStatus
<1>4. \A p \in Plans : WellPlaced(p, run[p])
  BY DEF Init, NotStarted, WellPlaced, Acquiring, Holding, Locking, Timed
<1>. QED
  BY <1>1, <1>2, <1>3, <1>4, BoundsAssumption DEF TypeInv, TypeOK, Init

(* What a plan does outside the steps with locks.                          *)
LEMMA TypeChoose ==
    ASSUME TypeInv, NEW p \in Plans, StartPlan(p) \/ ChooseStep(p)
    PROVE  TypeInv'
<1>. USE DEF TypeInv, TypeOK
<1>1. run[p] \in Run
  BY RunType
<1>2. CASE StartPlan(p)
  <2>. DEFINE r == [run[p] EXCEPT !.pc = "step"]
  <2>1. r \in Run /\ WellPlaced(p, r)
    BY <1>1 DEF Run, Pc, WellPlaced, Acquiring, Holding, Locking, Timed
  <2>. QED
    BY <1>2, <2>1, PlanStepType DEF StartPlan
<1>3. CASE BlockStep(p) \/ SkipStep(p)
  <2>1. NextStep(run[p]) \in Run /\ WellPlaced(p, NextStep(run[p]))
    BY <1>1, NextStepType DEF WellPlaced, Acquiring, Holding, Locking, Timed
  <2>2. run' \in [Plans -> Run] /\ \A q \in Plans : WellPlaced(q, run'[q])
    BY <1>3, <2>1, PlanStepType DEF BlockStep, SkipStep
  <2>3. /\ DOMAIN status' = Plans
        /\ \A q \in Plans : status'[q] \in [StepsOf(q) -> StepStatus]
    BY <1>3, SetOneStatus DEF BlockStep, SkipStep, StepStatus
  <2>. QED
    BY <1>3, <2>2, <2>3 DEF BlockStep, SkipStep
<1>4. CASE EnterStep(p)
  <2>1. CASE Current(p).targets = << >>
    <3>. DEFINE r == [run[p] EXCEPT !.pc = "ready"]
    <3>1. r \in Run /\ WellPlaced(p, r)
      BY <1>1, <1>4 DEF EnterStep, Run, Pc, WellPlaced, Acquiring, Holding, Locking, Timed
    <3>2. Become(p, r) /\ SetStatus(p, "ready") /\ run[p].step \in StepsOf(p)
      BY <1>4, <2>1 DEF EnterStep
    <3>3. run' \in [Plans -> Run] /\ \A q \in Plans : WellPlaced(q, run'[q])
      BY <3>1, <3>2, PlanStepType
    <3>4. /\ DOMAIN status' = Plans
          /\ \A q \in Plans : status'[q] \in [StepsOf(q) -> StepStatus]
      BY <3>2, SetOneStatus DEF StepStatus
    <3>. QED
      BY <1>4, <3>3, <3>4 DEF EnterStep
  <2>2. CASE Current(p).targets # << >>
    <3>. DEFINE r == [run[p] EXCEPT !.pc = "sweep", !.next = 1]
    <3>1. /\ r \in Run
          /\ r.pc = "sweep"
          /\ r.next = 1
          /\ r.step = run[p].step
      BY <1>1 DEF Run, Pc
    <3>2. r.step \in StepsOf(p)
      BY <1>4, <3>1 DEF EnterStep
    <3>3. 1 \in 1 .. Len(Steps[p][r.step].targets)
      <4>1. Steps[p][r.step].targets \in Seq(Targets) /\ Steps[p][r.step].targets # << >>
        BY <2>2, <3>1, <3>2, StepType, StepFields DEF Current
      <4>. QED
        BY <4>1
    <3>4. WellPlaced(p, r)
      BY <3>1, <3>2, <3>3 DEF WellPlaced, Timed
    <3>. QED
      BY <1>4, <2>2, <3>1, <3>4, PlanStepType DEF EnterStep
  <2>. QED
    BY <2>1, <2>2
<1>5. CASE FinishPlan(p)
  <2>. DEFINE r == [run[p] EXCEPT !.pc = "done"]
  <2>1. r \in Run /\ WellPlaced(p, r)
    BY <1>1 DEF Run, Pc, WellPlaced, Acquiring, Holding, Locking, Timed
  <2>. QED
    BY <1>5, <2>1, PlanStepType DEF FinishPlan
<1>. QED
  BY <1>2, <1>3, <1>4, <1>5 DEF ChooseStep

(* Whatever is written to the lock table is well typed.                    *)
LEMMA LocksWritten ==
    ASSUME locks \in [Targets -> Lock]
    PROVE  /\ \A ids : ExpireLocks(ids) => locks' \in [Targets -> Lock]
           /\ \A id : ReleaseLock(id) => locks' \in [Targets -> Lock]
           /\ LocksTick => locks' \in [Targets -> Lock]
           /\ \A t \in Targets, p \in Plans, i \in Nat, ttl \in Nat :
                  InsertLock(t, p, i, ttl) => locks' \in [Targets -> Lock]
<1>1. NoLock \in Lock
  BY LockTypes
<1>2. \A ids : ExpireLocks(ids) => locks' \in [Targets -> Lock]
  BY <1>1 DEF ExpireLocks
<1>3. \A id : ReleaseLock(id) => locks' \in [Targets -> Lock]
  BY <1>1 DEF ReleaseLock
<1>4. ASSUME LocksTick
      PROVE  locks' \in [Targets -> Lock]
  <2>1. ASSUME NEW t \in Targets
        PROVE  [locks[t] EXCEPT !.left = IF @ = 0 THEN 0 ELSE @ - 1] \in Lock
    BY DEF Lock
  <2>. QED
    BY <1>4, <2>1 DEF LocksTick
<1>5. ASSUME NEW t \in Targets, NEW p \in Plans, NEW i \in Nat, NEW ttl \in Nat,
             InsertLock(t, p, i, ttl)
      PROVE  locks' \in [Targets -> Lock]
  <2>1. [owner |-> p, step |-> i, left |-> ttl] \in Lock
    BY DEF Lock
  <2>. QED
    BY <1>5, <2>1 DEF InsertLock
<1>. QED
  BY <1>2, <1>3, <1>4, <1>5

(* The target whose lock a plan is taking.                                 *)
LEMMA TargetType ==
    ASSUME TypeInv, NEW p \in Plans, run[p].pc \in Locking
    PROVE  /\ run[p].step \in StepsOf(p)
           /\ Current(p) \in Step
           /\ run[p].next \in 1 .. Len(Current(p).targets)
           /\ Len(Current(p).targets) \in Nat
           /\ Target(p) \in Targets
           /\ Target(p) \in TargetsOf(Current(p))
<1>1. run[p].step \in StepsOf(p) /\ run[p].next \in 1 .. Len(Current(p).targets)
  BY DEF TypeInv, WellPlaced, Acquiring, Current
<1>2. Current(p) \in Step
  BY <1>1, StepType DEF Current
<1>3. Current(p).targets \in Seq(Targets)
  BY <1>2, StepFields
<1>. QED
  BY <1>1, <1>2, <1>3 DEF Target, TargetsOf

(* A successful acquisition goes on to the next target, or makes the step  *)
(* ready.                                                                  *)
LEMMA AcquiredType ==
    ASSUME TypeInv, NEW p \in Plans, At(p, "decide"), NEW id \in LockIds, Acquired(p, id)
    PROVE  /\ run' \in [Plans -> Run]
           /\ \A q \in Plans : WellPlaced(q, run'[q])
           /\ DOMAIN status' = Plans
           /\ \A q \in Plans : status'[q] \in [StepsOf(q) -> StepStatus]
<1>. DEFINE ids == run[p].acquired \cup {id}
            more == [run[p] EXCEPT !.pc = "sweep", !.next = @ + 1, !.seen = NoLock,
                                   !.acquired = ids]
            last == [run[p] EXCEPT !.pc = "ready", !.next = 0, !.seen = NoLock,
                                   !.acquired = {}, !.held = @ \cup ids]
<1>1. run[p] \in Run /\ NoLock \in Lock
  BY LockTypes DEF TypeInv, TypeOK
<1>2. /\ run[p].step \in StepsOf(p)
      /\ run[p].next \in 1 .. Len(Current(p).targets)
      /\ Len(Current(p).targets) \in Nat
  BY TargetType DEF At, Locking
<1>3. ids \subseteq LockIds /\ run[p].held \cup ids \subseteq LockIds
  BY <1>1 DEF Run
<1>4. CASE run[p].next < Len(Current(p).targets)
  <2>1. run[p].next + 1 \in 1 .. Len(Current(p).targets)
    BY <1>2, <1>4
  <2>2. more \in Run
    <3>1. run[p].next + 1 \in Nat
      BY <1>1 DEF Run
    <3>2. "sweep" \in Pc
      BY DEF Pc
    <3>. QED
      BY <1>1, <1>3, <3>1, <3>2 DEF Run
  <2>3. more.pc = "sweep" /\ more.step = run[p].step /\ more.next = run[p].next + 1
    BY <1>1 DEF Run
  <2>4. WellPlaced(p, more)
    BY <1>2, <2>1, <2>3 DEF WellPlaced, Timed, Current
  <2>5. Become(p, more) /\ status' = status
    BY <1>4 DEF Acquired
  <2>. QED
    BY <2>2, <2>4, <2>5, PlanStepType DEF TypeInv, TypeOK
<1>5. CASE ~(run[p].next < Len(Current(p).targets))
  <2>2. last \in Run
    BY <1>1, <1>3 DEF Run, Pc
  <2>3. last.pc = "ready" /\ last.step = run[p].step
    BY <1>1 DEF Run
  <2>4. WellPlaced(p, last)
    BY <1>2, <2>3 DEF WellPlaced, Timed, Locking
  <2>5. Become(p, last) /\ SetStatus(p, "ready")
    BY <1>5 DEF Acquired
  <2>6. "ready" \in StepStatus
    BY DEF StepStatus
  <2>. QED
    BY <1>2, <2>2, <2>4, <2>5, <2>6, PlanStepType, SetOneStatus DEF TypeInv, TypeOK
<1>. QED
  BY <1>4, <1>5

(* Taking the locks of a step, and giving them back after a conflict.      *)
LEMMA TypeAcquire ==
    ASSUME TypeInv, NEW p \in Plans, AcquireStepLocks(p)
    PROVE  TypeInv'
<1>. USE DEF TypeInv, TypeOK
<1>1. run[p] \in Run /\ NoLock \in Lock
  BY LockTypes
<1>2. ASSUME run[p].pc \in Acquiring
      PROVE  run[p].step \in StepsOf(p)
  BY <1>2 DEF WellPlaced
<1>3. CASE Sweep(p)
  <2>. DEFINE r == [run[p] EXCEPT !.pc = "mark", !.stale = StaleLocks]
  <2>1. r \in Run
    BY <1>1, LockTypes DEF Run, Pc
  <2>2. WellPlaced(p, r)
    BY <1>1, <1>3 DEF Sweep, At, Run, WellPlaced, Acquiring, Locking, Timed
  <2>. QED
    BY <1>3, <2>1, <2>2, PlanStepType DEF Sweep
<1>4. CASE MarkExpired(p)
  <2>. DEFINE r == [run[p] EXCEPT !.pc = "read", !.stale = {}]
  <2>1. r \in Run
    BY <1>1 DEF Run, Pc
  <2>2. WellPlaced(p, r)
    BY <1>1, <1>4 DEF MarkExpired, At, Run, WellPlaced, Acquiring, Locking, Timed
  <2>. QED
    BY <1>4, <2>1, <2>2, PlanStepType, LocksWritten DEF MarkExpired
<1>5. CASE ReadLock(p)
  <2>. DEFINE r == [run[p] EXCEPT !.pc = "decide", !.seen = ActiveLock(Target(p))]
  <2>1. ActiveLock(Target(p)) \in Lock
    BY <1>5, TargetType, LockTypes DEF ReadLock, At, Locking
  <2>2. r \in Run
    BY <1>1, <2>1 DEF Run, Pc
  <2>3. WellPlaced(p, r)
    BY <1>1, <1>5 DEF ReadLock, At, Run, WellPlaced, Acquiring, Locking, Timed
  <2>. QED
    BY <1>5, <2>2, <2>3, PlanStepType DEF ReadLock
<1>6. CASE TakeLock(p)
  <2>. DEFINE id == [target |-> Target(p), owner |-> p, step |-> run[p].step]
  <2>1. Target(p) \in Targets /\ run[p].step \in Nat /\ Ttl(Current(p)) \in Nat
    BY <1>1, <1>6, TargetType, StepFields DEF TakeLock, At, Locking, Run
  <2>2. id \in LockIds
    BY <2>1 DEF LockIds
  <2>3. locks' \in [Targets -> Lock]
    BY <1>6, <2>1, LocksWritten DEF TakeLock
  <2>. QED
    BY <1>6, <2>2, <2>3, AcquiredType DEF TakeLock
<1>7. CASE ReenterLock(p)
  <2>. DEFINE id == [target |-> Target(p), owner |-> p, step |-> run[p].seen.step]
  <2>1. Target(p) \in Targets /\ run[p].seen.step \in Nat
    BY <1>1, <1>7, TargetType DEF ReenterLock, At, Locking, Run, Lock
  <2>2. id \in LockIds
    BY <2>1 DEF LockIds
  <2>. QED
    BY <1>7, <2>2, AcquiredType DEF ReenterLock
<1>8. CASE Conflict(p) \/ InsertFails(p)
  <2>1. run[p].step \in StepsOf(p)
    BY <1>2, <1>8 DEF Conflict, InsertFails, At, Acquiring, Locking
  <2>2. \E r \in Run : WellPlaced(p, r) /\ Become(p, r)
    <3>1. CASE Conflict(p)
      <4>. DEFINE r == [run[p] EXCEPT !.pc = "rollback"]
      <4>1. r \in Run /\ WellPlaced(p, r)
        BY <1>1, <2>1 DEF Run, Pc, WellPlaced, Acquiring, Locking, Timed
      <4>. QED
        BY <3>1, <4>1 DEF Conflict
    <3>2. CASE InsertFails(p)
      <4>. DEFINE r == [run[p] EXCEPT !.pc = "rollback", !.thrown = TRUE]
      <4>1. r \in Run /\ WellPlaced(p, r)
        BY <1>1, <2>1 DEF Run, Pc, WellPlaced, Acquiring, Locking, Timed
      <4>. QED
        BY <3>2, <4>1 DEF InsertFails
    <3>. QED
      BY <1>8, <3>1, <3>2
  <2>. QED
    BY <1>8, <2>2, PlanStepType DEF Conflict, InsertFails
<1>9. CASE RollbackLock(p)
  <2>1. PICK id \in run[p].acquired :
           /\ At(p, "rollback")
           /\ ReleaseLock(id)
           /\ Become(p, [run[p] EXCEPT !.acquired = @ \ {id}])
           /\ UNCHANGED <<status, crashes>>
    BY <1>9 DEF RollbackLock
  <2>. DEFINE r == [run[p] EXCEPT !.acquired = @ \ {id}]
  <2>2. r \in Run
    BY <1>1 DEF Run
  <2>3. WellPlaced(p, r)
    BY <1>1, <1>2, <2>1 DEF At, Run, WellPlaced, Acquiring, Locking, Timed
  <2>. QED
    BY <2>1, <2>2, <2>3, PlanStepType, LocksWritten
<1>10. CASE EndRollback(p)
  <2>1. run[p].step \in StepsOf(p)
    BY <1>2, <1>10 DEF EndRollback, At, Acquiring
  <2>2. \E r \in Run : WellPlaced(p, r) /\ Become(p, r)
    BY <1>1, <1>10, NextStepType, FailType
       DEF EndRollback, WellPlaced, Acquiring, Holding, Locking, Timed
  <2>3. /\ DOMAIN status' = Plans
        /\ \A q \in Plans : status'[q] \in [StepsOf(q) -> StepStatus]
    <3>1. "blocked" \in StepStatus
      BY DEF StepStatus
    <3>. QED
      BY <1>10, <2>1, <3>1, SetOneStatus DEF EndRollback
  <2>. QED
    BY <1>10, <2>2, <2>3, PlanStepType DEF EndRollback
<1>. QED
  BY <1>3, <1>4, <1>5, <1>6, <1>7, <1>8, <1>9, <1>10 DEF AcquireStepLocks

(* The records of a plan that acts, waits, verifies or has finished a step.*)
LEMMA ActingType ==
    ASSUME TypeInv, NEW p \in Plans, run[p].step \in StepsOf(p),
           NEW a \in 1 .. Current(p).attempts
    PROVE  /\ Acting(p, a) \in Run
           /\ WellPlaced(p, Acting(p, a))
<1>1. run[p] \in Run
  BY DEF TypeInv, TypeOK
<1>2. Current(p).timeout \in Nat /\ Current(p).attempts \in Nat
  BY StepType, StepFields DEF Current
<1>3. a \in Nat /\ "acting" \in Pc
  BY <1>2 DEF Pc
<1>4. Acting(p, a) \in Run
  BY <1>1, <1>2, <1>3 DEF Acting, Run
<1>5. /\ Acting(p, a).pc = "acting"
      /\ Acting(p, a).step = run[p].step
      /\ Acting(p, a).attempt = a
  BY <1>1 DEF Acting, Run
<1>. QED
  BY <1>4, <1>5 DEF WellPlaced, Locking, Current

LEMMA CompletedType ==
    ASSUME TypeInv, NEW p \in Plans, run[p].step \in StepsOf(p), Completed(p)
    PROVE  /\ run' \in [Plans -> Run]
           /\ \A q \in Plans : WellPlaced(q, run'[q])
           /\ DOMAIN status' = Plans
           /\ \A q \in Plans : status'[q] \in [StepsOf(q) -> StepStatus]
<1>. DEFINE r == [run[p] EXCEPT !.pc = "release", !.timer = 0]
<1>1. run[p] \in Run /\ "release" \in Pc /\ "completed" \in StepStatus
  BY DEF TypeInv, TypeOK, Pc, StepStatus
<1>2. r \in Run
  BY <1>1 DEF Run
<1>3. WellPlaced(p, r)
  BY <1>1 DEF Run, WellPlaced, Locking, Timed
<1>. QED
  BY <1>1, <1>2, <1>3, PlanStepType, SetOneStatus DEF Completed, TypeInv, TypeOK

LEMMA AttemptFailsType ==
    ASSUME TypeInv, NEW p \in Plans, run[p].pc \in {"acting", "verifying"},
           NEW orphans \in SUBSET Nat, AttemptFails(p, orphans)
    PROVE  /\ run' \in [Plans -> Run]
           /\ \A q \in Plans : WellPlaced(q, run'[q])
           /\ DOMAIN status' = Plans
           /\ \A q \in Plans : status'[q] \in [StepsOf(q) -> StepStatus]
<1>. DEFINE s == Current(p)
            r == [run[p] EXCEPT !.orphans = orphans]
            wait == [r EXCEPT !.pc = "waiting", !.timer = RetryDelay(s, r.attempt)]
            end == [r EXCEPT !.pc = "release", !.timer = 0, !.thrown = s.aborts]
<1>1. run[p] \in Run
  BY DEF TypeInv, TypeOK
<1>2. r \in Run
  BY <1>1 DEF Run
<1>3. r.step = run[p].step /\ r.attempt = run[p].attempt
  BY <1>1 DEF Run
<1>4. run[p].step \in StepsOf(p) /\ run[p].attempt \in 1 .. s.attempts
  BY DEF TypeInv, WellPlaced, Holding, Timed, Current
<1>5. s \in Step
  BY <1>4, StepType DEF Current
<1>6. {"waiting", "release"} \subseteq Pc /\ "failed" \in StepStatus
  BY DEF Pc, StepStatus
<1>7. CASE r.attempt < s.attempts
  <2>1. RetryDelay(s, r.attempt) \in Nat
    BY <1>3, <1>4, <1>5, DelayIsNumber
  <2>2. wait \in Run
    BY <1>2, <1>6, <2>1 DEF Run
  <2>3. /\ wait.pc = "waiting"
        /\ wait.step = run[p].step
        /\ wait.attempt = run[p].attempt
    BY <1>2, <1>3 DEF Run
  <2>4. run[p].attempt + 1 \in 1 .. s.attempts
    BY <1>3, <1>4, <1>5, <1>7, StepFields
  <2>5. WellPlaced(p, wait)
    BY <1>4, <2>3, <2>4 DEF WellPlaced, Locking, Current
  <2>6. Become(p, wait) /\ status' = status
    BY <1>7 DEF AttemptFails
  <2>. QED
    BY <2>2, <2>5, <2>6, PlanStepType DEF TypeInv, TypeOK
<1>8. CASE ~(r.attempt < s.attempts)
  <2>1. s.aborts \in BOOLEAN
    BY <1>5, StepFields
  <2>2. end \in Run
    BY <1>2, <1>6, <2>1 DEF Run
  <2>3. end.pc = "release" /\ end.step = run[p].step
    BY <1>2, <1>3 DEF Run
  <2>4. WellPlaced(p, end)
    BY <1>4, <2>3 DEF WellPlaced, Locking, Timed
  <2>5. Become(p, end) /\ SetStatus(p, "failed")
    BY <1>8 DEF AttemptFails
  <2>. QED
    BY <1>4, <1>6, <2>2, <2>4, <2>5, PlanStepType, SetOneStatus DEF TypeInv, TypeOK
<1>. QED
  BY <1>7, <1>8

(* From the approval checkpoint to the end of a step.                      *)
LEMMA TypeExecute ==
    ASSUME TypeInv, NEW p \in Plans, ExecuteStep(p) \/ ExecutorAnswers(p)
    PROVE  TypeInv'
<1>. USE DEF TypeInv, TypeOK
<1>1. run[p] \in Run
  OBVIOUS
<1>2. ASSUME run[p].pc \in Holding
      PROVE  /\ run[p].step \in StepsOf(p)
             /\ Current(p) \in Step
  BY <1>2, StepType DEF WellPlaced, Current
<1>3. {"ready", "failed", "running", "retrying"} \subseteq StepStatus
  BY DEF StepStatus
<1>4. CASE StartAction(p) \/ ResolveApproval(p)
  <2>1. run[p].step \in StepsOf(p) /\ Current(p) \in Step
    BY <1>2, <1>4 DEF StartAction, ResolveApproval, At, Holding
  <2>2. 1 \in 1 .. Current(p).attempts
    BY <2>1, StepFields
  <2>3. Acting(p, 1) \in Run /\ WellPlaced(p, Acting(p, 1))
    BY <2>1, <2>2, ActingType
  <2>4. /\ NextStep(run[p]) \in Run /\ WellPlaced(p, NextStep(run[p]))
        /\ Fail(run[p]) \in Run /\ WellPlaced(p, Fail(run[p]))
    BY <1>1, NextStepType, FailType DEF WellPlaced, Acquiring, Holding, Locking, Timed
  <2>5. \E r \in Run : WellPlaced(p, r) /\ Become(p, r)
    <3>1. CASE StartAction(p)
      BY <2>3, <3>1 DEF StartAction
    <3>2. CASE ResolveApproval(p)
      <4>1. PICK granted \in Approvals :
               Become(p, CASE HasLedger -> Fail(run[p])
                           [] ~HasLedger /\ granted -> Acting(p, 1)
                           [] ~HasLedger /\ ~granted -> NextStep(run[p]))
        BY <3>2 DEF ResolveApproval
      <4>2. HasLedger \in BOOLEAN /\ granted \in BOOLEAN
        BY BoundsAssumption
      <4>3. CASE HasLedger
        BY <2>4, <4>1, <4>3
      <4>4. CASE ~HasLedger /\ granted
        BY <2>3, <4>1, <4>4
      <4>5. CASE ~HasLedger /\ ~granted
        BY <2>4, <4>1, <4>5
      <4>. QED
        BY <4>2, <4>3, <4>4, <4>5
    <3>. QED
      BY <1>4, <3>1, <3>2
  <2>6. \E st \in StepStatus : SetStatus(p, st)
    <3>1. CASE StartAction(p)
      BY <1>3, <3>1 DEF StartAction
    <3>2. CASE ResolveApproval(p)
      <4>1. PICK granted \in Approvals :
               SetStatus(p, CASE ~granted -> "failed"
                              [] granted /\ HasLedger -> "ready"
                              [] granted /\ ~HasLedger -> "running")
        BY <3>2 DEF ResolveApproval
      <4>2. HasLedger \in BOOLEAN /\ granted \in BOOLEAN
        BY BoundsAssumption
      <4>3. CASE ~granted
        BY <1>3, <4>1, <4>3
      <4>4. CASE granted /\ HasLedger
        BY <1>3, <4>1, <4>4
      <4>5. CASE granted /\ ~HasLedger
        BY <1>3, <4>1, <4>5
      <4>. QED
        BY <4>2, <4>3, <4>4, <4>5
    <3>. QED
      BY <1>4, <3>1, <3>2
  <2>7. locks' = locks /\ crashes' = crashes
    BY <1>4 DEF StartAction, ResolveApproval
  <2>. QED
    BY <2>1, <2>5, <2>6, <2>7, PlanStepType, SetOneStatus
<1>5. CASE ActionReturns(p)
  <2>1. /\ run[p].step \in StepsOf(p)
        /\ Current(p) \in Step
        /\ run[p].attempt \in 1 .. Current(p).attempts
    BY <1>2, <1>5 DEF ActionReturns, At, Holding, WellPlaced, Timed, Current
  <2>2. CASE Current(p).verify = 0
    BY <1>5, <2>1, <2>2, CompletedType DEF ActionReturns
  <2>3. CASE Current(p).verify # 0
    <3>. DEFINE r == [run[p] EXCEPT !.pc = "verifying", !.timer = Current(p).verify]
    <3>1. Current(p).verify \in Nat /\ "verifying" \in Pc
      BY <2>1, StepFields DEF Pc
    <3>2. r \in Run
      BY <1>1, <3>1 DEF Run
    <3>3. /\ r.pc = "verifying"
          /\ r.step = run[p].step
          /\ r.attempt = run[p].attempt
      BY <1>1 DEF Run
    <3>4. WellPlaced(p, r)
      BY <2>1, <3>3 DEF WellPlaced, Locking, Current
    <3>. QED
      BY <1>5, <2>3, <3>2, <3>4, PlanStepType DEF ActionReturns
  <2>. QED
    BY <2>2, <2>3
<1>6. CASE VerificationReturns(p)
  <2>1. run[p].step \in StepsOf(p)
    BY <1>2, <1>6 DEF VerificationReturns, At, Holding
  <2>. QED
    BY <1>6, <2>1, CompletedType DEF VerificationReturns
<1>7. CASE ActionThrows(p) \/ VerificationThrows(p)
  <2>1. run[p].orphans \in SUBSET Nat
    BY <1>1 DEF Run
  <2>. QED
    BY <1>7, <2>1, AttemptFailsType DEF ActionThrows, VerificationThrows, At
<1>8. CASE ActionTimesOut(p)
  <2>1. run[p].orphans \cup {run[p].step} \in SUBSET Nat
    BY <1>1 DEF Run
  <2>. QED
    BY <1>8, <2>1, AttemptFailsType DEF ActionTimesOut, At
<1>9. CASE Retry(p)
  <2>1. /\ run[p].step \in StepsOf(p)
        /\ run[p].attempt + 1 \in 1 .. Current(p).attempts
    BY <1>2, <1>9 DEF Retry, At, Holding, WellPlaced, Current
  <2>2. Acting(p, run[p].attempt + 1) \in Run /\ WellPlaced(p, Acting(p, run[p].attempt + 1))
    BY <2>1, ActingType
  <2>. QED
    BY <1>3, <1>9, <2>1, <2>2, PlanStepType, SetOneStatus DEF Retry
<1>10. CASE OrphanEnds(p)
  <2>1. PICK i \in run[p].orphans :
           /\ Become(p, [run[p] EXCEPT !.orphans = @ \ {i}])
           /\ UNCHANGED <<locks, status, crashes>>
    BY <1>10 DEF OrphanEnds
  <2>. DEFINE r == [run[p] EXCEPT !.orphans = @ \ {i}]
  <2>2. r \in Run
    BY <1>1 DEF Run
  <2>3. /\ r.pc = run[p].pc
        /\ r.step = run[p].step
        /\ r.next = run[p].next
        /\ r.attempt = run[p].attempt
    BY <1>1 DEF Run
  <2>4. WellPlaced(p, r)
    BY <2>3 DEF WellPlaced
  <2>. QED
    BY <2>1, <2>2, <2>4, PlanStepType
<1>11. CASE ReleaseStepLock(p)
  <2>1. PICK id \in run[p].held :
           /\ At(p, "release")
           /\ ReleaseLock(id)
           /\ Become(p, [run[p] EXCEPT !.held = @ \ {id}])
           /\ UNCHANGED <<status, crashes>>
    BY <1>11 DEF ReleaseStepLock
  <2>. DEFINE r == [run[p] EXCEPT !.held = @ \ {id}]
  <2>2. r \in Run
    BY <1>1 DEF Run
  <2>3. r.pc = "release" /\ r.step = run[p].step /\ run[p].step \in StepsOf(p)
    BY <1>1, <1>2, <2>1 DEF At, Run, Holding
  <2>4. WellPlaced(p, r)
    BY <2>3 DEF WellPlaced, Locking, Timed
  <2>. QED
    BY <2>1, <2>2, <2>4, PlanStepType, LocksWritten
<1>12. CASE EndStep(p)
  <2>1. \E r \in Run : WellPlaced(p, r) /\ Become(p, r)
    BY <1>1, <1>12, NextStepType, FailType
       DEF EndStep, WellPlaced, Acquiring, Holding, Locking, Timed
  <2>. QED
    BY <1>12, <2>1, PlanStepType DEF EndStep
<1>. QED
  BY <1>4, <1>5, <1>6, <1>7, <1>8, <1>9, <1>10, <1>11, <1>12 DEF ExecuteStep, ExecutorAnswers

LEMMA TypeTime ==
    ASSUME TypeInv, Tick \/ Crash
    PROVE  TypeInv'
<1>. USE DEF TypeInv, TypeOK
<1>1. CASE Tick
  <2>1. ASSUME NEW p \in Plans
        PROVE  run'[p] \in Run /\ WellPlaced(p, run'[p])
    <3>1. run[p] \in Run /\ WellPlaced(p, run[p])
      OBVIOUS
    <3>2. CASE run[p].pc \in Timed
      <4>. DEFINE r == [run[p] EXCEPT !.timer = @ - 1]
      <4>1. run[p].timer > 0 /\ run[p].timer \in Nat
        BY <1>1, <3>1, <3>2 DEF Tick, Quiet, Timed, Run
      <4>2. r \in Run
        BY <3>1, <4>1 DEF Run
      <4>3. r.pc = run[p].pc /\ r.step = run[p].step /\ r.next = run[p].next
            /\ r.attempt = run[p].attempt
        BY <3>1 DEF Run
      <4>4. WellPlaced(p, r)
        BY <3>1, <4>3 DEF WellPlaced
      <4>5. run'[p] = r
        BY <1>1, <3>2 DEF Tick
      <4>. QED
        BY <4>2, <4>4, <4>5
    <3>3. CASE run[p].pc \notin Timed
      BY <1>1, <3>1, <3>3 DEF Tick
    <3>. QED
      BY <3>2, <3>3
  <2>2. run' \in [Plans -> Run]
    BY <1>1, <2>1 DEF Tick
  <2>3. locks' \in [Targets -> Lock]
    BY <1>1, LocksWritten DEF Tick
  <2>. QED
    BY <1>1, <2>1, <2>2, <2>3 DEF Tick
<1>2. CASE Crash
  <2>1. ASSUME NEW p \in Plans
        PROVE  run'[p] \in Run /\ WellPlaced(p, run'[p])
    <3>. DEFINE r == [NotStarted EXCEPT !.pc = IF At(p, "idle") THEN "idle" ELSE "dead"]
    <3>1. r \in Run
      BY NotStartedType
    <3>2. r.pc \in {"idle", "dead"} /\ r.step = 1
      BY DEF NotStarted
    <3>3. WellPlaced(p, r)
      BY <3>2 DEF WellPlaced, Acquiring, Holding, Locking, Timed
    <3>. QED
      BY <1>2, <3>1, <3>3 DEF Crash
  <2>2. run' \in [Plans -> Run]
    BY <1>2, <2>1 DEF Crash
  <2>3. crashes' \in 0 .. MaxCrashes
    BY <1>2, BoundsAssumption DEF Crash
  <2>. QED
    BY <1>2, <2>1, <2>2, <2>3 DEF Crash
<1>. QED
  BY <1>1, <1>2

LEMMA TypeStep ==
    ASSUME TypeInv, [Next]_vars
    PROVE  TypeInv'
<1>1. ASSUME NEW p \in Plans, StartPlan(p) \/ Continue(p) \/ ExecutorAnswers(p)
      PROVE  TypeInv'
  BY <1>1, TypeChoose, TypeAcquire, TypeExecute DEF Continue
<1>2. CASE Tick \/ Crash
  BY <1>2, TypeTime
<1>3. CASE UNCHANGED vars
  BY <1>3 DEF vars, TypeInv, TypeOK
<1>. QED
  BY <1>1, <1>2, <1>3 DEF Next

(* Every reachable state is well typed: a plan works on a step it has,     *)
(* locks a target the step names and makes no attempt beyond the last, so  *)
(* every timer and every lease is a number (executePlan).                  *)
THEOREM TypeCorrect == Spec => []TypeOK
<1>1. Init => TypeInv
  BY TypeInit
<1>2. TypeInv /\ [Next]_vars => TypeInv'
  BY TypeStep
<1>3. TypeInv => TypeOK
  BY DEF TypeInv
<1>. QED
  BY <1>1, <1>2, <1>3, PTL DEF Spec

-----------------------------------------------------------------------------
(***************************************************************************)
(* Locks are returned.  LocksReturned says only where an owner may be; the *)
(* inductive invariant says also that the owner knows of the lock: its id  *)
(* is among those that rollback or the finally block is going to release.  *)
(***************************************************************************)
Mine(r) ==
    IF r.pc \in Acquiring THEN r.acquired
    ELSE IF r.pc \in Holding THEN r.held ELSE {}

(* The plan will not work on its step i any more.                          *)
Ended == {"rollback", "release", "failed"}

Passed(i, r) ==
    \/ i < r.step
    \/ i = r.step /\ r.pc \in Ended

(* The plan may have kept the locks of its step i at the approval; where   *)
(* there is a ledger, it did not live on.                                  *)
Kept(p, i, r) ==
    /\ KeepsLocks(p, i)
    /\ Passed(i, r)
    /\ HasLedger => r.pc = "failed"

(* An active lock of a plan that lives.                                    *)
Known(p, t, r) ==
    \/ Kept(p, locks[t].step, r)
    \/ locks[t].step = r.step /\ LockId(t) \in Mine(r)

Accounted(t) ==
    LET p == locks[t].owner
        i == locks[t].step
    IN
    /\ i \in StepsOf(p)
    /\ t \in TargetsOf(Steps[p][i])
    /\ ~At(p, "dead") => Known(p, t, run[p])

OwnersKnow == \A t \in Targets : Held(t) => Accounted(t)

LocksInv == TypeInv /\ OwnersKnow

(* A plan goes through its steps one after the other.                      *)
Onward(p, r) ==
    /\ run[p].step <= r.step
    /\ run[p].pc \in Ended => r.pc \in Ended \/ run[p].step < r.step
    /\ run[p].pc = "failed" => r.pc = "failed"

LEMMA PassedForGood ==
    ASSUME NEW p \in Plans, run[p] \in Run, NEW r \in Run, Onward(p, r),
           NEW i \in Nat, Passed(i, run[p])
    PROVE  Passed(i, r)
<1>1. run[p].step \in Nat /\ r.step \in Nat
  BY DEF Run
<1>. QED
  BY <1>1 DEF Onward, Passed

LEMMA OutOfStep ==
    ASSUME NEW p \in Plans, run[p] \in Run, run[p].pc # "failed"
    PROVE  \A r \in {NextStep(run[p]), Fail(run[p])} :
               r \in Run /\ Onward(p, r) /\ Passed(run[p].step, r)
<1>1. run[p].step \in Nat
  BY DEF Run
<1>. QED
  BY <1>1, NextStepType, FailType DEF Onward, Passed, Ended

(* Rows are left alone or deleted.                                         *)
OnlyDeletes == \A t \in Targets : locks'[t] = locks[t] \/ locks'[t] = NoLock

LEMMA Deletes ==
    ASSUME TypeInv
    PROVE  /\ locks' = locks => OnlyDeletes
           /\ \A ids : ExpireLocks(ids) => OnlyDeletes
           /\ \A id : ReleaseLock(id) => OnlyDeletes
BY DEF OnlyDeletes, ExpireLocks, ReleaseLock, TypeInv, TypeOK

(* A step of a plan that deletes rows at most, and after which the plan    *)
(* knows the rows it has left.                                             *)
LEMMA StillKnown ==
    ASSUME LocksInv, NEW p \in Plans, NEW r \in Run, Become(p, r), OnlyDeletes,
           run[p].pc = "dead" => r.pc = "dead",
           \A t \in Targets :
               Held(t) /\ locks'[t] = locks[t] /\ locks[t].owner = p /\ ~At(p, "dead")
                   => Known(p, t, r)
    PROVE  OwnersKnow'
<1>1. run'[p] = r /\ \A q \in Plans \ {p} : run'[q] = run[q]
  BY BecomeOne DEF LocksInv, TypeInv, TypeOK
<1>2. ASSUME NEW t \in Targets, Held(t)'
      PROVE  Accounted(t)'
  <2>1. locks'[t] = locks[t] /\ Held(t)
    BY <1>2 DEF Held, OnlyDeletes, NoLock
  <2>. DEFINE q == locks[t].owner
  <2>2. q \in Plans
    BY <2>1, LockTypes DEF LocksInv, TypeInv, TypeOK
  <2>3. Accounted(t)
    BY <2>1 DEF LocksInv, OwnersKnow
  <2>4. LockId(t)' = LockId(t)
    BY <2>1 DEF LockId
  <2>5. CASE q = p
    <3>1. ~(r.pc = "dead") => Known(p, t, r)
      BY <2>1, <2>5 DEF At
    <3>. QED
      BY <1>1, <2>1, <2>3, <2>4, <2>5, <3>1 DEF Accounted, Known, At
  <2>6. CASE q # p
    <3>1. run'[q] = run[q]
      BY <1>1, <2>2, <2>6
    <3>. QED
      BY <2>1, <2>3, <2>4, <3>1 DEF Accounted, Known, At
  <2>. QED
    BY <2>5, <2>6
<1>. QED
  BY <1>2 DEF OwnersKnow

(* In particular, a step of the plan after which it knows what it knew.    *)
LEMMA StillKnownSame ==
    ASSUME LocksInv, NEW p \in Plans, NEW r \in Run, Become(p, r), OnlyDeletes,
           run[p].pc = "dead" => r.pc = "dead",
           r.step = run[p].step, run[p].pc \in Ended => r.pc = run[p].pc,
           Mine(run[p]) \subseteq Mine(r)
    PROVE  OwnersKnow'
<1>1. ASSUME NEW t \in Targets, Held(t), locks[t].owner = p, ~At(p, "dead")
      PROVE  Known(p, t, r)
  BY <1>1 DEF LocksInv, OwnersKnow, Accounted, Known, Kept, Passed, Ended
<1>. QED
  BY <1>1, StillKnown

(* And one of a plan that knows of no lock but those it keeps.             *)
LEMMA StillKnownNone ==
    ASSUME LocksInv, NEW p \in Plans, NEW r \in Run, Become(p, r), OnlyDeletes,
           run[p].pc # "dead", Onward(p, r),
           \A t \in Targets :
               Held(t) /\ locks[t].owner = p /\ locks[t].step = run[p].step
               /\ LockId(t) \in Mine(run[p])
                   => Kept(p, run[p].step, r)
    PROVE  OwnersKnow'
<1>1. ASSUME NEW t \in Targets, Held(t), locks[t].owner = p
      PROVE  Known(p, t, r)
  <2>1. run[p] \in Run /\ locks[t].step \in Nat /\ Known(p, t, run[p])
    BY <1>1, LockTypes DEF LocksInv, TypeInv, TypeOK, Lock, OwnersKnow, Accounted, At
  <2>2. CASE Kept(p, locks[t].step, run[p])
    BY <2>1, <2>2, PassedForGood DEF Known, Kept, Onward
  <2>3. CASE locks[t].step = run[p].step /\ LockId(t) \in Mine(run[p])
    BY <1>1, <2>3 DEF Known
  <2>. QED
    BY <2>1, <2>2, <2>3 DEF Known
<1>. QED
  BY <1>1, StillKnown

(* Where a plan holds no lock that it must give back.                      *)
LEMMA NothingMine ==
    ASSUME LocksInv, NEW p \in Plans, NEW r \in Run, Become(p, r), OnlyDeletes,
           run[p].pc \notin Acquiring \cup Holding \cup {"dead"}, Onward(p, r)
    PROVE  OwnersKnow'
BY StillKnownNone DEF Mine

(* A successful acquisition: the plan knows what it knew and the new lock. *)
LEMMA OwnersAcquired ==
    ASSUME LocksInv, NEW p \in Plans, At(p, "decide"), NEW id \in LockIds, Acquired(p, id)
    PROVE  /\ run'[p] \in Run
           /\ run'[p].step = run[p].step
           /\ run'[p].pc \in {"sweep", "ready"}
           /\ Mine(run'[p]) = Mine(run[p]) \cup {id} \cup
                                 (IF run'[p].pc = "ready" THEN run[p].held ELSE {})
           /\ Become(p, run'[p])
<1>. DEFINE ids == run[p].acquired \cup {id}
            more == [run[p] EXCEPT !.pc = "sweep", !.next = @ + 1, !.seen = NoLock,
                                   !.acquired = ids]
            last == [run[p] EXCEPT !.pc = "ready", !.next = 0, !.seen = NoLock,
                                   !.acquired = {}, !.held = @ \cup ids]
<1>1. run[p] \in Run /\ run \in [Plans -> Run]
  BY DEF LocksInv, TypeInv, TypeOK
<1>2. run'[p] \in Run
  BY AcquiredType DEF LocksInv
<1>3. Mine(run[p]) = run[p].acquired
  BY DEF At, Mine, Acquiring, Locking
<1>4. CASE run[p].next < Len(Current(p).targets)
  <2>1. Become(p, more)
    BY <1>4 DEF Acquired
  <2>2. run'[p] = more
    BY <1>1, <2>1 DEF Become
  <2>3. more.pc = "sweep" /\ more.step = run[p].step /\ more.acquired = ids
    BY <1>1 DEF Run
  <2>4. Mine(more) = ids
    BY <2>3 DEF Mine, Acquiring, Locking
  <2>. QED
    BY <1>2, <1>3, <2>1, <2>2, <2>3, <2>4
<1>5. CASE ~(run[p].next < Len(Current(p).targets))
  <2>1. Become(p, last)
    BY <1>5 DEF Acquired
  <2>2. run'[p] = last
    BY <1>1, <2>1 DEF Become
  <2>3. last.pc = "ready" /\ last.step = run[p].step /\ last.held = run[p].held \cup ids
    BY <1>1 DEF Run
  <2>4. Mine(last) = run[p].held \cup ids
    BY <2>3 DEF Mine, Acquiring, Holding, Locking
  <2>. QED
    BY <1>2, <1>3, <2>1, <2>2, <2>3, <2>4
<1>. QED
  BY <1>4, <1>5

LEMMA OwnersTake ==
    ASSUME LocksInv, NEW p \in Plans, TakeLock(p)
    PROVE  OwnersKnow'
<1>. DEFINE u == Target(p)
            id == [target |-> u, owner |-> p, step |-> run[p].step]
<1>1. run[p] \in Run /\ locks \in [Targets -> Lock]
  BY DEF LocksInv, TypeInv, TypeOK
<1>2. At(p, "decide") /\ InsertLock(u, p, run[p].step, Ttl(Current(p))) /\ Acquired(p, id)
  BY DEF TakeLock
<1>3. u \in TargetsOf(Current(p)) /\ u \in Targets /\ run[p].step \in StepsOf(p)
  BY <1>2, TargetType DEF At, Locking, LocksInv
<1>4. id \in LockIds
  BY <1>1, <1>3 DEF LockIds, Run
<1>5. /\ run'[p] \in Run
      /\ run'[p].step = run[p].step
      /\ Mine(run[p]) \cup {id} \subseteq Mine(run'[p])
      /\ Become(p, run'[p])
  BY <1>2, <1>4, OwnersAcquired
<1>6. \A q \in Plans \ {p} : run'[q] = run[q]
  BY <1>5, BecomeOne DEF LocksInv, TypeInv, TypeOK
<1>7. ASSUME NEW t \in Targets, Held(t)'
      PROVE  Accounted(t)'
  <2>1. CASE t = u
    <3>1. locks'[t].owner = p /\ locks'[t].step = run[p].step
      BY <1>1, <1>2, <2>1 DEF InsertLock
    <3>2. LockId(t)' = id
      BY <2>1, <3>1 DEF LockId
    <3>. QED
      BY <1>3, <1>5, <2>1, <3>1, <3>2 DEF Accounted, Known, Current
  <2>2. CASE t # u
    <3>1. locks'[t] = locks[t]
      BY <1>1, <1>2, <2>2 DEF InsertLock
    <3>2. Held(t) /\ LockId(t)' = LockId(t) /\ Accounted(t)
      BY <1>7, <3>1 DEF Held, LockId, LocksInv, OwnersKnow
    <3>3. locks[t].owner \in Plans
      BY <1>1, <3>2, LockTypes
    <3>4. CASE locks[t].owner = p
      <4>1. run[p].pc \notin Ended /\ ~At(p, "dead")
        BY <1>2 DEF At, Ended
      <4>2. Known(p, t, run'[p])
        BY <1>5, <3>2, <3>4, <4>1 DEF Accounted, Known, Kept, Passed, Ended
      <4>. QED
        BY <3>1, <3>2, <3>4, <4>2 DEF Accounted, Known, At
    <3>5. CASE locks[t].owner # p
      BY <1>6, <3>1, <3>2, <3>3, <3>5 DEF Accounted, Known, At
    <3>. QED
      BY <3>4, <3>5
  <2>. QED
    BY <2>1, <2>2
<1>. QED
  BY <1>7 DEF OwnersKnow

LEMMA OwnersAcquire ==
    ASSUME LocksInv, NEW p \in Plans, AcquireStepLocks(p)
    PROVE  OwnersKnow'
<1>1. run[p] \in Run /\ NoLock \in Lock /\ locks \in [Targets -> Lock]
  BY LockTypes DEF LocksInv, TypeInv, TypeOK
<1>2. CASE Sweep(p)
  <2>. DEFINE r == [run[p] EXCEPT !.pc = "mark", !.stale = StaleLocks]
  <2>1. r \in Run
    BY <1>1, LockTypes DEF Run, Pc
  <2>2. r.step = run[p].step /\ Mine(r) = Mine(run[p]) /\ run[p].pc \notin Ended \cup {"dead"}
    BY <1>1, <1>2 DEF Sweep, At, Mine, Acquiring, Locking, Run, Ended
  <2>3. Become(p, r) /\ OnlyDeletes
    BY <1>2, Deletes DEF Sweep, LocksInv
  <2>. QED
    BY <2>1, <2>2, <2>3, StillKnownSame
<1>3. CASE MarkExpired(p)
  <2>. DEFINE r == [run[p] EXCEPT !.pc = "read", !.stale = {}]
  <2>1. r \in Run
    BY <1>1 DEF Run, Pc
  <2>2. r.step = run[p].step /\ Mine(r) = Mine(run[p]) /\ run[p].pc \notin Ended \cup {"dead"}
    BY <1>1, <1>3 DEF MarkExpired, At, Mine, Acquiring, Locking, Run, Ended
  <2>3. Become(p, r) /\ OnlyDeletes
    BY <1>3, Deletes DEF MarkExpired, LocksInv
  <2>. QED
    BY <2>1, <2>2, <2>3, StillKnownSame
<1>4. CASE ReadLock(p)
  <2>. DEFINE r == [run[p] EXCEPT !.pc = "decide", !.seen = ActiveLock(Target(p))]
  <2>1. ActiveLock(Target(p)) \in Lock
    BY <1>1, <1>4, TargetType, LockTypes DEF ReadLock, At, Locking, LocksInv
  <2>2. r \in Run
    BY <1>1, <2>1 DEF Run, Pc
  <2>3. r.step = run[p].step /\ Mine(r) = Mine(run[p]) /\ run[p].pc \notin Ended \cup {"dead"}
    BY <1>1, <1>4 DEF ReadLock, At, Mine, Acquiring, Locking, Run, Ended
  <2>4. Become(p, r) /\ OnlyDeletes
    BY <1>4, Deletes DEF ReadLock, LocksInv
  <2>. QED
    BY <2>2, <2>3, <2>4, StillKnownSame
<1>5. CASE TakeLock(p)
  BY <1>5, OwnersTake
<1>6. CASE ReenterLock(p)
  <2>. DEFINE id == [target |-> Target(p), owner |-> p, step |-> run[p].seen.step]
  <2>1. At(p, "decide") /\ Acquired(p, id) /\ locks' = locks
    BY <1>6 DEF ReenterLock
  <2>2. Target(p) \in Targets /\ run[p].seen.step \in Nat
    BY <1>1, <2>1, TargetType DEF At, Locking, Run, Lock, LocksInv
  <2>3. id \in LockIds
    BY <2>2 DEF LockIds
  <2>4. /\ run'[p] \in Run
        /\ run'[p].step = run[p].step
        /\ Mine(run[p]) \subseteq Mine(run'[p])
        /\ Become(p, run'[p])
    BY <2>1, <2>3, OwnersAcquired
  <2>5. OnlyDeletes /\ run[p].pc \notin Ended \cup {"dead"}
    BY <2>1, Deletes DEF At, LocksInv, Ended
  <2>. QED
    BY <2>4, <2>5, StillKnownSame
<1>7. CASE Conflict(p) \/ InsertFails(p)
  <2>1. OnlyDeletes /\ run[p].pc = "decide" /\ run[p].pc \notin Ended
    BY <1>7, Deletes DEF Conflict, InsertFails, At, LocksInv, Ended
  <2>2. \E r \in Run : /\ Become(p, r)
                       /\ r.step = run[p].step
                       /\ Mine(r) = Mine(run[p])
    <3>1. CASE Conflict(p)
      <4>. DEFINE r == [run[p] EXCEPT !.pc = "rollback"]
      <4>1. r \in Run /\ r.step = run[p].step /\ Mine(r) = Mine(run[p])
        BY <1>1, <2>1 DEF Run, Pc, Mine, Acquiring, Locking
      <4>. QED
        BY <3>1, <4>1 DEF Conflict
    <3>2. CASE InsertFails(p)
      <4>. DEFINE r == [run[p] EXCEPT !.pc = "rollback", !.thrown = TRUE]
      <4>1. r \in Run /\ r.step = run[p].step /\ Mine(r) = Mine(run[p])
        BY <1>1, <2>1 DEF Run, Pc, Mine, Acquiring, Locking
      <4>. QED
        BY <3>2, <4>1 DEF InsertFails
    <3>. QED
      BY <1>7, <3>1, <3>2
  <2>. QED
    BY <2>1, <2>2, StillKnownSame
<1>8. CASE RollbackLock(p)
  <2>1. PICK id \in run[p].acquired :
           /\ At(p, "rollback")
           /\ ReleaseLock(id)
           /\ Become(p, [run[p] EXCEPT !.acquired = @ \ {id}])
    BY <1>8 DEF RollbackLock
  <2>. DEFINE r == [run[p] EXCEPT !.acquired = @ \ {id}]
  <2>2. r \in Run
    BY <1>1 DEF Run
  <2>3. r.step = run[p].step /\ Mine(r) = Mine(run[p]) \ {id}
    BY <1>1, <2>1 DEF At, Run, Mine, Acquiring
  <2>4. OnlyDeletes
    BY <2>1, Deletes DEF LocksInv
  <2>5. ASSUME NEW t \in Targets, Held(t), locks'[t] = locks[t]
        PROVE  LockId(t) # id
    BY <1>1, <2>1, <2>5 DEF ReleaseLock, HasId, Held, LockId, NoLock
  <2>6. ASSUME NEW t \in Targets, Held(t), locks'[t] = locks[t], locks[t].owner = p,
               ~At(p, "dead")
        PROVE  Known(p, t, r)
    <3>1. r.pc = run[p].pc
      BY <1>1 DEF Run
    <3>. QED
      BY <2>3, <2>5, <2>6, <3>1 DEF LocksInv, OwnersKnow, Accounted, Known, Kept, Passed
  <2>. QED
    BY <2>1, <2>2, <2>4, <2>6, StillKnown DEF At
<1>9. CASE EndRollback(p)
  <2>1. /\ run[p].pc = "rollback"
        /\ run[p].acquired = {}
        /\ \E r \in Run : Become(p, r) /\ Onward(p, r)
    BY <1>1, <1>9, OutOfStep DEF EndRollback, At
  <2>2. Mine(run[p]) = {} /\ OnlyDeletes
    BY <1>9, <2>1, Deletes DEF EndRollback, Mine, Acquiring, LocksInv
  <2>. QED
    BY <2>1, <2>2, StillKnownNone
<1>. QED
  BY <1>2, <1>3, <1>4, <1>5, <1>6, <1>7, <1>8, <1>9 DEF AcquireStepLocks

LEMMA OwnersChoose ==
    ASSUME LocksInv, NEW p \in Plans, StartPlan(p) \/ ChooseStep(p)
    PROVE  OwnersKnow'
<1>1. run[p] \in Run
  BY DEF LocksInv, TypeInv, TypeOK
<1>2. OnlyDeletes
  BY Deletes DEF StartPlan, ChooseStep, BlockStep, SkipStep, EnterStep, FinishPlan, LocksInv
<1>3. run[p].pc \in {"idle", "step"}
  BY DEF StartPlan, ChooseStep, BlockStep, SkipStep, EnterStep, FinishPlan, At
<1>4. \E r \in Run : Become(p, r) /\ Onward(p, r)
  <2>. DEFINE start == [run[p] EXCEPT !.pc = "step"]
              ready == [run[p] EXCEPT !.pc = "ready"]
              sweep == [run[p] EXCEPT !.pc = "sweep", !.next = 1]
              finish == [run[p] EXCEPT !.pc = "done"]
  <2>1. /\ start \in Run /\ start.step = run[p].step
        /\ ready \in Run /\ ready.step = run[p].step
        /\ sweep \in Run /\ sweep.step = run[p].step
        /\ finish \in Run /\ finish.step = run[p].step
    BY <1>1 DEF Run, Pc
  <2>2. run[p].step <= run[p].step /\ run[p].pc \notin Ended
    BY <1>1, <1>3 DEF Run, Ended
  <2>3. Onward(p, start) /\ Onward(p, ready) /\ Onward(p, sweep) /\ Onward(p, finish)
    BY <2>1, <2>2 DEF Onward, Ended
  <2>4. NextStep(run[p]) \in Run /\ Onward(p, NextStep(run[p]))
    BY <1>1, <1>3, OutOfStep
  <2>. QED
    BY <2>1, <2>3, <2>4 DEF StartPlan, ChooseStep, BlockStep, SkipStep, EnterStep, FinishPlan
<1>. QED
  BY <1>2, <1>3, <1>4, NothingMine DEF Acquiring, Holding, Locking

(* A failed attempt keeps the step's locks, for a retry or for the finally *)
(* block.                                                                  *)
LEMMA OwnersAttempt ==
    ASSUME LocksInv, NEW p \in Plans, run[p].pc \in {"acting", "verifying"},
           NEW orphans \in SUBSET Nat, AttemptFails(p, orphans), locks' = locks
    PROVE  OwnersKnow'
<1>. DEFINE s == Current(p)
            r == [run[p] EXCEPT !.orphans = orphans]
            wait == [r EXCEPT !.pc = "waiting", !.timer = RetryDelay(s, r.attempt)]
            end == [r EXCEPT !.pc = "release", !.timer = 0, !.thrown = s.aborts]
<1>1. run[p] \in Run /\ run \in [Plans -> Run]
  BY DEF LocksInv, TypeInv, TypeOK
<1>2. r \in Run /\ r.step = run[p].step /\ r.held = run[p].held
  BY <1>1 DEF Run
<1>3. Become(p, wait) \/ Become(p, end)
  BY DEF AttemptFails
<1>4. run'[p] = wait \/ run'[p] = end
  BY <1>1, <1>3 DEF Become
<1>5. run'[p] \in Run
  BY AttemptFailsType DEF LocksInv
<1>6. /\ wait.pc = "waiting" /\ wait.step = run[p].step /\ wait.held = run[p].held
      /\ end.pc = "release" /\ end.step = run[p].step /\ end.held = run[p].held
  BY <1>2 DEF Run
<1>7. Mine(run[p]) = run[p].held /\ Mine(wait) = run[p].held /\ Mine(end) = run[p].held
  BY <1>6 DEF Mine, Acquiring, Locking, Holding
<1>8. Become(p, run'[p])
  BY <1>1, <1>3 DEF Become
<1>9. run'[p].step = run[p].step /\ Mine(run[p]) \subseteq Mine(run'[p])
  BY <1>4, <1>6, <1>7
<1>10. OnlyDeletes /\ run[p].pc \notin Ended \cup {"dead"}
  BY Deletes DEF LocksInv, Ended
<1>. QED
  BY <1>5, <1>8, <1>9, <1>10, StillKnownSame

LEMMA OwnersExecute ==
    ASSUME LocksInv, NEW p \in Plans, ExecuteStep(p) \/ ExecutorAnswers(p)
    PROVE  OwnersKnow'
<1>1. run[p] \in Run /\ locks \in [Targets -> Lock] /\ TypeInv
  BY DEF LocksInv, TypeInv, TypeOK
<1>2. ASSUME run[p].pc \in Holding
      PROVE  /\ run[p].step \in StepsOf(p)
             /\ Mine(run[p]) = run[p].held
             /\ run[p].pc # "dead"
  BY <1>1, <1>2 DEF TypeInv, WellPlaced, Mine, Acquiring, Locking, Holding
<1>3. ASSUME NEW a \in 1 .. Current(p).attempts, run[p].pc \in {"ready", "waiting"},
             locks' = locks, Become(p, Acting(p, a))
      PROVE  OwnersKnow'
  <2>1. run[p].step \in StepsOf(p) /\ Mine(run[p]) = run[p].held
    BY <1>2, <1>3 DEF Holding
  <2>2. Acting(p, a) \in Run
    BY <1>1, <2>1, <1>3, ActingType
  <2>3. /\ Acting(p, a).pc = "acting"
        /\ Acting(p, a).step = run[p].step
        /\ Acting(p, a).held = run[p].held
    BY <1>1 DEF Acting, Run
  <2>4. Mine(Acting(p, a)) = run[p].held
    BY <2>3 DEF Mine, Acquiring, Locking, Holding
  <2>5. OnlyDeletes /\ run[p].pc \notin Ended \cup {"dead"}
    BY <1>1, <1>3, Deletes DEF Ended
  <2>. QED
    BY <1>3, <2>1, <2>2, <2>3, <2>4, <2>5, StillKnownSame
<1>4. CASE StartAction(p)
  <2>1. run[p].pc = "ready" /\ run[p].step \in StepsOf(p)
    BY <1>2, <1>4 DEF StartAction, At, Holding
  <2>2. 1 \in 1 .. Current(p).attempts
    BY <2>1, StepType, StepFields DEF Current
  <2>. QED
    BY <1>3, <1>4, <2>1, <2>2 DEF StartAction
<1>5. CASE ResolveApproval(p)
  <2>1. run[p].pc = "ready" /\ run[p].step \in StepsOf(p) /\ locks' = locks
    BY <1>2, <1>5 DEF ResolveApproval, At, Holding
  <2>2. 1 \in 1 .. Current(p).attempts
    BY <2>1, StepType, StepFields DEF Current
  <2>3. PICK granted \in Approvals :
           /\ Current(p).needsApproval
           /\ Become(p, CASE HasLedger -> Fail(run[p])
                          [] ~HasLedger /\ granted -> Acting(p, 1)
                          [] ~HasLedger /\ ~granted -> NextStep(run[p]))
    BY <1>5 DEF ResolveApproval
  <2>4. KeepsLocks(p, run[p].step) /\ HasLedger \in BOOLEAN /\ granted \in BOOLEAN
    BY <2>3, BoundsAssumption DEF KeepsLocks, Current
  <2>5. CASE ~HasLedger /\ granted
    BY <1>3, <2>1, <2>2, <2>3, <2>5
  <2>6. CASE HasLedger \/ ~granted
    <3>1. Become(p, Fail(run[p])) \/ (~HasLedger /\ Become(p, NextStep(run[p])))
      BY <2>3, <2>4, <2>6
    <3>2. \A r \in {NextStep(run[p]), Fail(run[p])} :
              r \in Run /\ Onward(p, r) /\ Passed(run[p].step, r)
      BY <1>1, <2>1, OutOfStep
    <3>3. \E r \in Run : /\ Become(p, r)
                         /\ Onward(p, r)
                         /\ Kept(p, run[p].step, r)
      <4>1. Fail(run[p]).pc = "failed"
        BY <1>1, FailType
      <4>2. Kept(p, run[p].step, Fail(run[p]))
        BY <2>4, <3>2, <4>1 DEF Kept
      <4>3. ~HasLedger => Kept(p, run[p].step, NextStep(run[p]))
        BY <2>4, <3>2 DEF Kept
      <4>. QED
        BY <3>1, <3>2, <4>2, <4>3
    <3>4. OnlyDeletes
      BY <1>1, <2>1, Deletes
    <3>. QED
      BY <2>1, <3>3, <3>4, StillKnownNone
  <2>. QED
    BY <2>4, <2>5, <2>6
<1>6. CASE ActionReturns(p) \/ VerificationReturns(p)
  <2>. DEFINE end == [run[p] EXCEPT !.pc = "release", !.timer = 0]
              verify == [run[p] EXCEPT !.pc = "verifying", !.timer = Current(p).verify]
  <2>1. /\ run[p].pc \in {"acting", "verifying"}
        /\ locks' = locks
        /\ Become(p, end) \/ Become(p, verify)
    BY <1>6 DEF ActionReturns, VerificationReturns, Completed, At
  <2>2. run[p].step \in StepsOf(p) /\ Mine(run[p]) = run[p].held
    BY <1>2, <2>1 DEF Holding
  <2>3. Current(p).verify \in Nat
    BY <2>2, StepType, StepFields DEF Current
  <2>4. end \in Run /\ verify \in Run
    BY <1>1, <2>3 DEF Run, Pc
  <2>5. /\ end.pc = "release" /\ end.step = run[p].step /\ end.held = run[p].held
        /\ verify.pc = "verifying" /\ verify.step = run[p].step /\ verify.held = run[p].held
    BY <1>1 DEF Run
  <2>6. Mine(end) = run[p].held /\ Mine(verify) = run[p].held
    BY <2>5 DEF Mine, Acquiring, Locking, Holding
  <2>7. OnlyDeletes /\ run[p].pc \notin Ended \cup {"dead"}
    BY <1>1, <2>1, Deletes DEF Ended
  <2>. QED
    BY <2>1, <2>2, <2>4, <2>5, <2>6, <2>7, StillKnownSame
<1>7. CASE ActionThrows(p) \/ VerificationThrows(p)
  <2>1. run[p].orphans \in SUBSET Nat
    BY <1>1 DEF Run
  <2>. QED
    BY <1>7, <2>1, OwnersAttempt DEF ActionThrows, VerificationThrows, At
<1>8. CASE ActionTimesOut(p)
  <2>1. run[p].orphans \cup {run[p].step} \in SUBSET Nat
    BY <1>1 DEF Run
  <2>. QED
    BY <1>8, <2>1, OwnersAttempt DEF ActionTimesOut, At
<1>9. CASE Retry(p)
  <2>1. run[p].pc = "waiting" /\ run[p].attempt + 1 \in 1 .. Current(p).attempts
    BY <1>1, <1>9 DEF Retry, At, TypeInv, WellPlaced, Current
  <2>. QED
    BY <1>3, <1>9, <2>1 DEF Retry
<1>10. CASE OrphanEnds(p)
  <2>1. PICK i \in run[p].orphans :
           /\ Become(p, [run[p] EXCEPT !.orphans = @ \ {i}])
           /\ UNCHANGED <<locks, status, crashes>>
    BY <1>10 DEF OrphanEnds
  <2>. DEFINE r == [run[p] EXCEPT !.orphans = @ \ {i}]
  <2>2. /\ r \in Run
        /\ r.pc = run[p].pc
        /\ r.step = run[p].step
        /\ r.held = run[p].held
        /\ r.acquired = run[p].acquired
    BY <1>1 DEF Run
  <2>3. Mine(r) = Mine(run[p])
    BY <2>2 DEF Mine
  <2>4. OnlyDeletes
    BY <1>1, <2>1, Deletes
  <2>. QED
    BY <2>1, <2>2, <2>3, <2>4, StillKnownSame
<1>11. CASE ReleaseStepLock(p)
  <2>1. PICK id \in run[p].held :
           /\ At(p, "release")
           /\ ReleaseLock(id)
           /\ Become(p, [run[p] EXCEPT !.held = @ \ {id}])
    BY <1>11 DEF ReleaseStepLock
  <2>. DEFINE r == [run[p] EXCEPT !.held = @ \ {id}]
  <2>2. r \in Run
    BY <1>1 DEF Run
  <2>3. r.step = run[p].step /\ Mine(r) = Mine(run[p]) \ {id}
    BY <1>1, <2>1 DEF At, Run, Mine, Acquiring, Locking, Holding
  <2>4. OnlyDeletes
    BY <1>1, <2>1, Deletes
  <2>5. ASSUME NEW t \in Targets, Held(t), locks'[t] = locks[t]
        PROVE  LockId(t) # id
    BY <1>1, <2>1, <2>5 DEF ReleaseLock, HasId, Held, LockId, NoLock
  <2>6. ASSUME NEW t \in Targets, Held(t), locks'[t] = locks[t], locks[t].owner = p,
               ~At(p, "dead")
        PROVE  Known(p, t, r)
    <3>1. r.pc = run[p].pc
      BY <1>1 DEF Run
    <3>. QED
      BY <2>3, <2>5, <2>6, <3>1 DEF LocksInv, OwnersKnow, Accounted, Known, Kept, Passed
  <2>. QED
    BY <2>1, <2>2, <2>4, <2>6, StillKnown DEF At
<1>12. CASE EndStep(p)
  <2>1. /\ run[p].pc = "release" /\ locks' = locks
        /\ \E r \in Run : Become(p, r) /\ Onward(p, r)
    BY <1>1, <1>12, OutOfStep DEF EndStep, At
  <2>2. run[p].step \in StepsOf(p) /\ Mine(run[p]) = run[p].held
    BY <1>2, <2>1 DEF Holding
  <2>3. ASSUME NEW t \in Targets, Held(t), locks[t].owner = p, locks[t].step = run[p].step
        PROVE  LockId(t) \notin run[p].held
    <3>1. t \in TargetsOf(Current(p))
      BY <2>3 DEF LocksInv, OwnersKnow, Accounted, Current
    <3>2. Current(p).targets # << >>
      BY <3>1 DEF TargetsOf
    <3>. QED
      BY <1>12, <3>2 DEF EndStep
  <2>4. OnlyDeletes
    BY <1>1, <2>1, Deletes
  <2>. QED
    BY <2>1, <2>2, <2>3, <2>4, StillKnownNone
<1>. QED
  BY <1>4, <1>5, <1>6, <1>7, <1>8, <1>9, <1>10, <1>11, <1>12 DEF ExecuteStep, ExecutorAnswers

LEMMA OwnersTime ==
    ASSUME LocksInv, Tick \/ Crash
    PROVE  OwnersKnow'
<1>1. run \in [Plans -> Run] /\ locks \in [Targets -> Lock]
  BY DEF LocksInv, TypeInv, TypeOK
<1>2. CASE Tick
  <2>1. ASSUME NEW t \in Targets
        PROVE  locks'[t].owner = locks[t].owner /\ locks'[t].step = locks[t].step
    BY <1>1, <1>2 DEF Tick, LocksTick, Lock
  <2>2. ASSUME NEW p \in Plans
        PROVE  /\ run'[p].pc = run[p].pc
               /\ run'[p].step = run[p].step
               /\ Mine(run'[p]) = Mine(run[p])
    <3>1. run'[p] = IF run[p].pc \in Timed
                    THEN [run[p] EXCEPT !.timer = @ - 1] ELSE run[p]
      BY <1>2 DEF Tick
    <3>2. /\ run'[p].pc = run[p].pc
          /\ run'[p].step = run[p].step
          /\ run'[p].acquired = run[p].acquired
          /\ run'[p].held = run[p].held
      BY <1>1, <3>1 DEF Run
    <3>. QED
      BY <3>2 DEF Mine
  <2>3. ASSUME NEW t \in Targets, Held(t)'
        PROVE  Accounted(t)'
    <3>1. Held(t) /\ LockId(t)' = LockId(t)
      BY <2>1, <2>3 DEF Held, LockId
    <3>2. locks[t].owner \in Plans /\ Accounted(t)
      BY <1>1, <3>1, LockTypes DEF LocksInv, OwnersKnow
    <3>. QED
      BY <2>1, <2>2, <3>1, <3>2 DEF Accounted, Known, Kept, Passed, At
  <2>. QED
    BY <2>3 DEF OwnersKnow
<1>3. CASE Crash
  <2>1. locks' = locks
    BY <1>3 DEF Crash
  <2>2. ASSUME NEW p \in Plans
        PROVE  \/ /\ At(p, "idle") /\ Mine(run[p]) = {}
                  /\ \A i \in StepsOf(p) : ~Passed(i, run[p])
               \/ At(p, "dead")'
    <3>1. CASE At(p, "idle")
      <4>1. run[p].step = 1 /\ Mine(run[p]) = {} /\ run[p].pc \notin Ended
        BY <3>1 DEF LocksInv, TypeInv, WellPlaced, At, Mine, Acquiring, Locking, Holding, Ended
      <4>. QED
        BY <3>1, <4>1, StepsOfPositive DEF Passed
    <3>2. CASE ~At(p, "idle")
      BY <1>3, <3>2 DEF Crash, At, NotStarted
    <3>. QED
      BY <3>1, <3>2
  <2>3. ASSUME NEW t \in Targets, Held(t)'
        PROVE  Accounted(t)'
    <3>1. Held(t) /\ locks[t].owner \in Plans /\ Accounted(t)
      BY <1>1, <2>1, <2>3, LockTypes DEF Held, LocksInv, OwnersKnow
    <3>. QED
      BY <2>1, <2>2, <3>1 DEF Accounted, Known, Kept, At, KeepsLocks
  <2>. QED
    BY <2>3 DEF OwnersKnow
<1>. QED
  BY <1>2, <1>3

LEMMA LocksInvInductive ==
    /\ Init => LocksInv
    /\ LocksInv /\ [Next]_vars => LocksInv'
<1>1. Init => OwnersKnow
  BY DEF Init, NoLocks, NoLock, OwnersKnow, Held
<1>2. ASSUME LocksInv, [Next]_vars
      PROVE  OwnersKnow'
  <2>1. ASSUME NEW p \in Plans, StartPlan(p) \/ Continue(p) \/ ExecutorAnswers(p)
        PROVE  OwnersKnow'
    BY <1>2, <2>1, OwnersChoose, OwnersAcquire, OwnersExecute DEF Continue
  <2>2. CASE Tick \/ Crash
    BY <1>2, <2>2, OwnersTime
  <2>3. CASE UNCHANGED vars
    BY <1>2, <2>3 DEF vars, LocksInv, OwnersKnow, Accounted, Known, Held, LockId, At
  <2>. QED
    BY <1>2, <2>1, <2>2, <2>3 DEF Next
<1>. QED
  BY <1>1, <1>2, TypeInit, TypeStep DEF LocksInv

(* No lock is lost sight of, for plans of any steps: an active lock belongs*)
(* to the step its owner is at, or to a plan that died, or to a step that  *)
(* may have stopped at its approval (_acquireStepLocks, _releaseStepLocks).*)
THEOREM LocksAlwaysReturned == Spec => []LocksReturned
<1>1. LocksInv => LocksReturned
  <2>. SUFFICES ASSUME LocksInv, NEW t \in Targets, Held(t),
                       ~At(locks[t].owner, "dead"),
                       ~KeepsLocks(locks[t].owner, locks[t].step)
                PROVE  /\ locks[t].step = run[locks[t].owner].step
                       /\ run[locks[t].owner].pc \notin {"idle", "step", "done", "failed"}
    BY DEF LocksReturned
  <2>1. /\ locks[t].step = run[locks[t].owner].step
        /\ LockId(t) \in Mine(run[locks[t].owner])
    BY DEF LocksInv, OwnersKnow, Accounted, Known, Kept
  <2>. QED
    BY <2>1 DEF Mine, Acquiring, Locking, Holding
<1>. QED
  BY <1>1, LocksInvInductive, PTL DEF Spec

-----------------------------------------------------------------------------
(***************************************************************************)
(* Exclusion, where the leases cover the steps and no step comes back to a *)
(* target whose lock an earlier one may have kept at the approval          *)
(* checkpoint: a lock that is reentered is not renewed.  With a ledger no  *)
(* plan goes on after that checkpoint, so none does.  What is left of a    *)
(* lease exceeds what its plan still needs: the rest of this attempt and,  *)
(* for every attempt after it, the longest delay, the timeout and the      *)
(* verification.                                                           *)
(***************************************************************************)
NothingReentered ==
    \/ HasLedger
    \/ \A p \in Plans : \A i, j \in StepsOf(p) :
           i < j /\ KeepsLocks(p, i)
               => TargetsOf(Steps[p][i]) \cap TargetsOf(Steps[p][j]) = {}

DelayBound(s) ==
    CHOOSE d \in 0 .. Ttl(s) :
        /\ \A a \in 1 .. s.attempts - 1 : RetryDelay(s, a) <= d
        /\ s.attempts * (s.timeout + s.verify) + (s.attempts - 1) * d < Ttl(s)

Rest(s, k) == k * (s.timeout + s.verify + DelayBound(s))

Need(s, r) ==
    CASE r.pc = "acting" -> r.timer + s.verify + Rest(s, s.attempts - r.attempt)
      [] r.pc = "verifying" -> r.timer + Rest(s, s.attempts - r.attempt)
      [] r.pc = "waiting" -> r.timer + s.timeout + s.verify
                                + Rest(s, s.attempts - (r.attempt + 1))

LEMMA Product ==
    ASSUME NEW k \in Nat, NEW c \in Nat
    PROVE  /\ k * c \in Nat
           /\ (k + 1) * c = k * c + c
BY SMT

LEMMA Distribute ==
    ASSUME NEW n \in Nat, NEW c \in Nat, NEW d \in Nat
    PROVE  (n + 1) * c + n * d = c + n * (c + d)
BY SMT

LEMMA DelayBoundFits ==
    ASSUME NEW s \in Step, LeaseCovers(s)
    PROVE  /\ DelayBound(s) \in Nat
           /\ \A a \in 1 .. s.attempts - 1 : RetryDelay(s, a) <= DelayBound(s)
           /\ s.timeout + s.verify + Rest(s, s.attempts - 1) < Ttl(s)
           /\ \A k \in Nat : /\ Rest(s, k) \in Nat
                             /\ Rest(s, k + 1) = Rest(s, k) + s.timeout + s.verify
                                                    + DelayBound(s)
<1>. DEFINE c == s.timeout + s.verify
            n == s.attempts - 1
            d == DelayBound(s)
<1>1. /\ s.timeout \in Nat /\ s.verify \in Nat /\ s.attempts \in Nat \ {0} /\ Ttl(s) \in Nat
  BY StepFields
<1>2. /\ d \in 0 .. Ttl(s)
      /\ \A a \in 1 .. s.attempts - 1 : RetryDelay(s, a) <= d
      /\ s.attempts * c + (s.attempts - 1) * d < Ttl(s)
  BY DEF LeaseCovers, DelayBound
<1>3. d \in Nat /\ c \in Nat /\ n \in Nat /\ s.attempts = n + 1
  BY <1>1, <1>2
<1>4. (n + 1) * c + n * d = c + n * (c + d)
  BY <1>3, Distribute
<1>5. s.attempts * c + (s.attempts - 1) * d = c + n * (c + d)
  BY <1>3, <1>4
<1>6. Rest(s, s.attempts - 1) = n * (c + d)
  BY DEF Rest
<1>7. c + Rest(s, s.attempts - 1) < Ttl(s)
  BY <1>2, <1>5, <1>6
<1>8. ASSUME NEW k \in Nat
      PROVE  Rest(s, k) \in Nat /\ Rest(s, k + 1) = Rest(s, k) + c + d
  <2>1. c + d \in Nat
    BY <1>3
  <2>2. k * (c + d) \in Nat /\ (k + 1) * (c + d) = k * (c + d) + (c + d)
    BY <2>1, Product
  <2>. QED
    BY <1>3, <2>2 DEF Rest
<1>. QED
  BY <1>1, <1>2, <1>3, <1>7, <1>8

(* What an attempt needs, from its beginning to the next one's.            *)
LEMMA NeedSteps ==
    ASSUME NEW s \in Step, LeaseCovers(s), NEW n \in 1 .. s.attempts
    PROVE  /\ \A r : r.pc = "acting" /\ r.attempt = n /\ r.timer \in Nat
                  => /\ Need(s, r) = r.timer + s.verify + Rest(s, s.attempts - n)
                     /\ Need(s, r) \in Nat
           /\ \A r : r.pc = "verifying" /\ r.attempt = n /\ r.timer \in Nat
                  => /\ Need(s, r) = r.timer + Rest(s, s.attempts - n)
                     /\ Need(s, r) \in Nat
           /\ \A r : r.pc = "waiting" /\ r.attempt = n /\ r.timer \in Nat /\ n < s.attempts
                  => /\ Need(s, r) = r.timer + s.timeout + s.verify
                                        + Rest(s, s.attempts - (n + 1))
                     /\ Need(s, r) \in Nat
           /\ Rest(s, s.attempts - n) \in Nat
           /\ n < s.attempts =>
                 /\ Rest(s, s.attempts - (n + 1)) \in Nat
                 /\ Rest(s, s.attempts - n) = Rest(s, s.attempts - (n + 1)) + s.timeout
                                                + s.verify + DelayBound(s)
<1>1. s.timeout \in Nat /\ s.verify \in Nat /\ s.attempts \in Nat
  BY StepFields
<1>2. s.attempts - n \in Nat
  BY <1>1
<1>3. Rest(s, s.attempts - n) \in Nat
  BY <1>2, DelayBoundFits
<1>4. ASSUME n < s.attempts
      PROVE  /\ Rest(s, s.attempts - (n + 1)) \in Nat
             /\ Rest(s, s.attempts - n) = Rest(s, s.attempts - (n + 1)) + s.timeout
                                            + s.verify + DelayBound(s)
  <2>1. s.attempts - (n + 1) \in Nat /\ s.attempts - n = (s.attempts - (n + 1)) + 1
    BY <1>1, <1>4
  <2>. QED
    BY <2>1, DelayBoundFits
<1>5. \A r : r.pc = "acting" /\ r.attempt = n /\ r.timer \in Nat
          => /\ Need(s, r) = r.timer + s.verify + Rest(s, s.attempts - n)
             /\ Need(s, r) \in Nat
  BY <1>1, <1>3 DEF Need
<1>6. \A r : r.pc = "verifying" /\ r.attempt = n /\ r.timer \in Nat
          => /\ Need(s, r) = r.timer + Rest(s, s.attempts - n)
             /\ Need(s, r) \in Nat
  BY <1>1, <1>3 DEF Need
<1>7. \A r : r.pc = "waiting" /\ r.attempt = n /\ r.timer \in Nat /\ n < s.attempts
          => /\ Need(s, r) = r.timer + s.timeout + s.verify + Rest(s, s.attempts - (n + 1))
             /\ Need(s, r) \in Nat
  BY <1>1, <1>4 DEF Need
<1>. QED
  BY <1>3, <1>4, <1>5, <1>6, <1>7

Firm == Locking \cup {"ready"} \cup Timed

(* The lock of a target, in the lock table `table`, is that of the step    *)
(* which the plan p is at when its record is r.                            *)
Own(table, p, r, t) == table[t].owner = p /\ table[t].step = r.step

(* The leases of a plan's step are those it has just taken, or exceed what *)
(* it needs.                                                               *)
Leased(table, p, r) ==
    \A t \in Targets : Own(table, p, r, t) =>
        /\ r.pc \in Locking \cup {"ready"} => table[t].left = Ttl(Steps[p][r.step])
        /\ r.pc \in Timed => Need(Steps[p][r.step], r) < table[t].left

(* It has the locks it has asked for.                                      *)
Taken(table, p, r) ==
    /\ r.pc \in Locking =>
          \A k \in 1 .. r.next - 1 : Own(table, p, r, Steps[p][r.step].targets[k])
    /\ r.pc = "decide" /\ r.seen.owner = p =>
          Own(table, p, r, Steps[p][r.step].targets[r.next])
    /\ r.pc \in {"ready"} \cup Timed =>
          \A t \in TargetsOf(Steps[p][r.step]) : Own(table, p, r, t)

(* It releases no other plan's locks.                                      *)
OwnIds(p, r) == \A id \in r.acquired \cup r.held : id.owner = p

(* Nobody works under this lock any more, nor will.                        *)
Over(id) == At(id.owner, "dead") \/ Passed(id.step, run[id.owner])

ExclusionInv ==
    /\ LocksInv
    /\ \A p \in Plans : /\ Leased(locks, p, run[p])
                        /\ Taken(locks, p, run[p])
                        /\ OwnIds(p, run[p])
                        /\ \A id \in run[p].stale : Over(id)

LEMMA NotFirm ==
    ASSUME NEW table, NEW p, NEW r, r.pc \notin Firm
    PROVE  Leased(table, p, r) /\ Taken(table, p, r)
BY DEF Firm, Leased, Taken, Locking

(* An active lock that is not over is of the step its owner is at.         *)
LEMMA RowOfStep ==
    ASSUME LocksInv, NEW t \in Targets, Held(t), ~Over(LockId(t))
    PROVE  /\ locks[t].owner \in Plans
           /\ locks[t].step = run[locks[t].owner].step
           /\ locks[t].step \in StepsOf(locks[t].owner)
           /\ t \in TargetsOf(Current(locks[t].owner))
           /\ run[locks[t].owner].pc \in Acquiring \cup Holding
           /\ LockId(t) \in Mine(run[locks[t].owner])
<1>1. locks[t].owner \in Plans
  BY LockTypes DEF LocksInv, TypeInv, TypeOK
<1>2. ~At(locks[t].owner, "dead") /\ ~Passed(locks[t].step, run[locks[t].owner])
  BY DEF Over, LockId
<1>3. /\ locks[t].step \in StepsOf(locks[t].owner)
      /\ t \in TargetsOf(Steps[locks[t].owner][locks[t].step])
      /\ Known(locks[t].owner, t, run[locks[t].owner])
  BY <1>2 DEF LocksInv, OwnersKnow, Accounted
<1>4. /\ locks[t].step = run[locks[t].owner].step
      /\ LockId(t) \in Mine(run[locks[t].owner])
  BY <1>2, <1>3 DEF Known, Kept
<1>. QED
  BY <1>1, <1>3, <1>4 DEF Mine, Current

(* The lock of a step that is locking its targets or working on them is    *)
(* not over.                                                               *)
LEMMA OwnIsNotOver ==
    ASSUME LocksInv, NEW t \in Targets, Held(t), locks[t].step = run[locks[t].owner].step,
           run[locks[t].owner].pc \in Firm
    PROVE  ~Over(LockId(t))
<1>. DEFINE p == locks[t].owner
<1>1. LockId(t).owner = p /\ LockId(t).step = locks[t].step
  BY DEF LockId
<1>2. run[p].step \in Nat
  BY LockTypes DEF LocksInv, TypeInv, TypeOK, Run
<1>3. run[p].pc \notin Ended \cup {"dead"}
  BY DEF Firm, Locking, Timed, Ended
<1>. QED
  BY <1>1, <1>2, <1>3 DEF Over, Passed, At

(* A step with a lock has targets, so its lease covers it.                 *)
LEMMA RowCovered ==
    ASSUME LeasesCover, LocksInv, NEW t \in Targets, Held(t), ~Over(LockId(t))
    PROVE  /\ Current(locks[t].owner) \in Step
           /\ LeaseCovers(Current(locks[t].owner))
<1>1. /\ locks[t].owner \in Plans
      /\ run[locks[t].owner].step \in StepsOf(locks[t].owner)
      /\ t \in TargetsOf(Current(locks[t].owner))
  BY RowOfStep
<1>2. Current(locks[t].owner).targets # << >>
  BY <1>1 DEF TargetsOf
<1>. QED
  BY <1>1, <1>2, StepType DEF LeasesCover, Current

(* The need of a plan that works under a lock is a number.                 *)
LEMMA NeedType ==
    ASSUME LeasesCover, LocksInv, NEW t \in Targets, Held(t), ~Over(LockId(t)),
           run[locks[t].owner].pc \in Timed
    PROVE  Need(Current(locks[t].owner), run[locks[t].owner]) \in Nat
<1>. DEFINE p == locks[t].owner
            s == Current(p)
<1>1. s \in Step /\ LeaseCovers(s) /\ p \in Plans
  BY RowCovered, RowOfStep
<1>2. run[p] \in Run /\ WellPlaced(p, run[p])
  BY <1>1 DEF LocksInv, TypeInv, TypeOK
<1>3. run[p].timer \in Nat /\ run[p].attempt \in 1 .. s.attempts
  BY <1>2 DEF Run, WellPlaced, Current
<1>4. run[p].pc = "waiting" => run[p].attempt < s.attempts
  <2>1. s.attempts \in Nat /\ run[p].attempt \in Nat
    BY <1>1, <1>3, StepFields
  <2>2. run[p].pc = "waiting" => run[p].attempt + 1 \in 1 .. s.attempts
    BY <1>2 DEF WellPlaced, Current
  <2>. QED
    BY <2>1, <2>2
<1>. QED
  BY <1>1, <1>3, <1>4, NeedSteps DEF Timed

(* What a sweep finds lapsed is over.                                      *)
LEMMA SweptIsOver ==
    ASSUME LeasesCover, ExclusionInv
    PROVE  \A id \in StaleLocks : Over(id)
<1>. SUFFICES ASSUME NEW t \in Targets, Lapsed(t), ~Over(LockId(t))
              PROVE  FALSE
  BY DEF StaleLocks
<1>. DEFINE p == locks[t].owner
<1>1. Held(t) /\ locks[t].left = 0
  BY DEF Lapsed
<1>2. /\ p \in Plans
      /\ locks[t].step = run[p].step
      /\ run[p].pc \in Acquiring \cup Holding
      /\ Current(p) \in Step
  BY <1>1, RowOfStep, RowCovered DEF ExclusionInv
<1>3. Leased(locks, p, run[p]) /\ Own(locks, p, run[p], t)
  BY <1>2 DEF ExclusionInv, Own
<1>4. run[p].pc \notin Locking \cup {"ready"}
  <2>1. Ttl(Current(p)) # 0
    BY <1>2, BoundsAssumption DEF Ttl, Step
  <2>. QED
    BY <1>1, <1>3, <2>1 DEF Leased, Current
<1>5. run[p].pc \notin Timed
  <2>1. ASSUME run[p].pc \in Timed
        PROVE  FALSE
    <3>1. Need(Current(p), run[p]) \in Nat
      BY <1>1, <2>1, NeedType DEF ExclusionInv
    <3>2. Need(Current(p), run[p]) < 0
      BY <1>1, <1>3, <2>1 DEF Leased, Current
    <3>. QED
      BY <3>1, <3>2
  <2>. QED
    BY <2>1
<1>6. run[p].pc \in Ended
  BY <1>2, <1>4, <1>5 DEF Ended, Acquiring, Holding, Timed
<1>. QED
  BY <1>2, <1>6 DEF Over, Passed, LockId

(* A step of a plan touches no lock that a plan needs: it deletes locks    *)
(* that are over and its own, and inserts where there is none.             *)
LEMMA LockEffects ==
    ASSUME ExclusionInv, NEW p \in Plans,
           StartPlan(p) \/ Continue(p) \/ ExecutorAnswers(p)
    PROVE  /\ \A t \in Targets : \/ locks'[t] = locks[t]
                                 \/ locks'[t] = NoLock
                                 \/ locks'[t].owner = p
           /\ \A q \in Plans : \A t \in Targets :
                  Own(locks, q, run[q], t) /\ run[q].pc \in Firm => locks'[t] = locks[t]
<1>1. locks \in [Targets -> Lock] /\ LocksInv
  BY DEF ExclusionInv, LocksInv, TypeInv, TypeOK
<1>2. CASE locks' = locks
  BY <1>2
<1>3. CASE MarkExpired(p)
  <2>1. ExpireLocks(run[p].stale)
    BY <1>3 DEF MarkExpired
  <2>2. ASSUME NEW q \in Plans, NEW t \in Targets, Own(locks, q, run[q], t),
               run[q].pc \in Firm, LockId(t) \in run[p].stale
        PROVE  FALSE
    <3>1. Held(t)
      BY <2>2, NobodyAssumption DEF Held, Own
    <3>2. ~Over(LockId(t))
      BY <1>1, <2>2, <3>1, OwnIsNotOver DEF Own
    <3>. QED
      BY <2>2, <3>2 DEF ExclusionInv
  <2>. QED
    BY <1>1, <2>1, <2>2 DEF ExpireLocks
<1>4. CASE TakeLock(p)
  <2>1. ~Held(Target(p)) /\ locks' = [locks EXCEPT ![Target(p)] =
                               [owner |-> p, step |-> run[p].step, left |-> Ttl(Current(p))]]
    BY <1>4 DEF TakeLock, InsertLock
  <2>. QED
    BY <1>1, <2>1, NobodyAssumption DEF Held, Own
<1>5. ASSUME NEW id \in run[p].acquired \cup run[p].held, ReleaseLock(id), run[p].pc \notin Firm
      PROVE  /\ \A t \in Targets : locks'[t] = locks[t] \/ locks'[t] = NoLock
             /\ \A q \in Plans : \A t \in Targets :
                    Own(locks, q, run[q], t) /\ run[q].pc \in Firm => locks'[t] = locks[t]
  <2>1. id.owner = p
    BY <1>5 DEF ExclusionInv, OwnIds
  <2>2. ASSUME NEW t \in Targets, LockId(t) = id
        PROVE  locks[t].owner = p
    BY <2>1, <2>2 DEF LockId
  <2>. QED
    BY <1>1, <1>5, <2>2 DEF ReleaseLock, HasId, Own
<1>6. CASE RollbackLock(p)
  BY <1>5, <1>6 DEF RollbackLock, At, Firm, Locking, Timed
<1>7. CASE ReleaseStepLock(p)
  BY <1>5, <1>7 DEF ReleaseStepLock, At, Firm, Locking, Timed
<1>8. \/ locks' = locks
      \/ MarkExpired(p) \/ TakeLock(p) \/ RollbackLock(p) \/ ReleaseStepLock(p)
  <2>1. CASE StartPlan(p) \/ ChooseStep(p)
    BY <2>1 DEF StartPlan, ChooseStep, BlockStep, SkipStep, EnterStep, FinishPlan
  <2>2. CASE AcquireStepLocks(p)
    BY <2>2 DEF AcquireStepLocks, Sweep, ReadLock, ReenterLock, Conflict, InsertFails,
                EndRollback
  <2>3. CASE ExecuteStep(p)
    BY <2>3 DEF ExecuteStep, StartAction, ResolveApproval, ActionTimesOut,
                VerificationReturns, VerificationThrows, Retry, EndStep
  <2>4. CASE ExecutorAnswers(p)
    BY <2>4 DEF ExecutorAnswers, ActionReturns, ActionThrows, OrphanEnds
  <2>. QED
    BY <2>1, <2>2, <2>3, <2>4 DEF Continue
<1>. QED
  BY <1>2, <1>3, <1>4, <1>6, <1>7, <1>8

(* So the other plans are where they were, with the locks they had.        *)
LEMMA OthersKeep ==
    ASSUME ExclusionInv, NEW p \in Plans,
           StartPlan(p) \/ Continue(p) \/ ExecutorAnswers(p), NEW q \in Plans \ {p}
    PROVE  Leased(locks', q, run[q]) /\ Taken(locks', q, run[q])
<1>. DEFINE r == run[q]
            s == Steps[q][r.step]
<1>1. /\ locks \in [Targets -> Lock]
      /\ LocksInv
      /\ TypeInv
      /\ r \in Run
      /\ Leased(locks, q, r)
      /\ Taken(locks, q, r)
  BY DEF ExclusionInv, LocksInv, TypeInv, TypeOK
<1>2. ASSUME NEW t \in Targets, locks'[t].owner = q
      PROVE  locks'[t] = locks[t]
  <2>1. q # Nobody
    BY NobodyAssumption
  <2>. QED
    BY <1>2, <2>1, LockEffects DEF NoLock
<1>3. ASSUME NEW t \in Targets, Own(locks, q, r, t), r.pc \in Firm
      PROVE  Own(locks', q, r, t)
  BY <1>3, LockEffects DEF Own
<1>4. Leased(locks', q, r)
  BY <1>1, <1>2 DEF Leased, Own
<1>5. CASE r.pc \in Locking
  <2>1. /\ Current(q) = s
        /\ s \in Step
        /\ r.next \in 1 .. Len(s.targets)
        /\ s.targets \in Seq(Targets)
    BY <1>1, <1>5, TargetType, StepFields DEF Current
  <2>2. \A k \in 1 .. r.next : s.targets[k] \in Targets
    BY <2>1
  <2>3. r.pc \in Firm /\ r.pc \notin {"ready"} \cup Timed
    BY <1>5 DEF Firm, Locking, Timed
  <2>4. ASSUME NEW k \in 1 .. r.next - 1
        PROVE  Own(locks', q, r, s.targets[k])
    <3>1. Own(locks, q, r, s.targets[k])
      BY <1>1, <1>5, <2>4 DEF Taken
    <3>2. k \in 1 .. r.next
      BY <2>1, <2>4
    <3>. QED
      BY <1>3, <2>2, <2>3, <3>1, <3>2
  <2>5. ASSUME r.pc = "decide", r.seen.owner = q
        PROVE  Own(locks', q, r, s.targets[r.next])
    <3>1. Own(locks, q, r, s.targets[r.next])
      BY <1>1, <2>5 DEF Taken
    <3>2. r.next \in 1 .. r.next
      BY <2>1
    <3>. QED
      BY <1>3, <2>2, <2>3, <3>1, <3>2
  <2>. QED
    BY <1>4, <2>3, <2>4, <2>5 DEF Taken
<1>6. CASE r.pc \in {"ready"} \cup Timed
  <2>1. r.pc \in Firm /\ r.pc \notin Locking /\ r.pc \in Holding /\ r.pc # "decide"
    BY <1>6 DEF Firm, Locking, Timed, Holding
  <2>2. s \in Step
    BY <1>1, <2>1, StepType DEF TypeInv, WellPlaced
  <2>3. TargetsOf(s) \subseteq Targets
    BY <2>2, StepFields DEF TargetsOf
  <2>. QED
    BY <1>1, <1>3, <1>4, <1>6, <2>1, <2>3 DEF Taken
<1>7. CASE r.pc \notin Firm
  BY <1>7, NotFirm
<1>. QED
  BY <1>5, <1>6, <1>7 , <1>4 DEF Firm

-----------------------------------------------------------------------------
(***************************************************************************)
(* A plan's own steps, from its record to the record r.                    *)
(***************************************************************************)
Moves(p, r) ==
    /\ r \in Run
    /\ Become(p, r)
    /\ Onward(p, r)
    /\ run[p].pc = "dead" => r.pc = "dead"
    /\ r.stale \subseteq run[p].stale \cup StaleLocks
    /\ OwnIds(p, r)
    /\ r.pc \in Timed => run[p].pc \in Timed \cup {"ready"} /\ r.step = run[p].step
    /\ Leased(locks', p, r)
    /\ Taken(locks', p, r)

(* On to the next step of the plan, or out of it.                          *)
LEMMA MovesOn ==
    ASSUME ExclusionInv, NEW p \in Plans, run[p].pc \notin {"dead", "failed"},
           \/ Become(p, NextStep(run[p]))
           \/ Become(p, Fail(run[p])) /\ run[p].pc # "step"
    PROVE  \E r \in Run : Moves(p, r)
<1>1. run[p] \in Run /\ OwnIds(p, run[p])
  BY DEF ExclusionInv, LocksInv, TypeInv, TypeOK
<1>2. CASE Become(p, NextStep(run[p]))
  <2>. DEFINE r == NextStep(run[p])
  <2>1. /\ r \in Run /\ r.pc = "step" /\ r.step = run[p].step + 1 /\ r.stale = run[p].stale
        /\ r.acquired = run[p].acquired /\ r.held = run[p].held
    BY <1>1, NextStepType
  <2>2. Leased(locks', p, r) /\ Taken(locks', p, r)
    BY <2>1, NotFirm DEF Firm, Locking, Timed
  <2>3. OwnIds(p, r)
    BY <1>1, <2>1 DEF OwnIds
  <2>4. Onward(p, r) /\ r.pc \notin Timed
    BY <1>1, <2>1, OutOfStep DEF Timed
  <2>. QED
    BY <1>2, <2>1, <2>2, <2>3, <2>4 DEF Moves
<1>3. CASE Become(p, Fail(run[p]))
  <2>. DEFINE r == Fail(run[p])
  <2>1. /\ r \in Run /\ r.pc = "failed" /\ r.step = run[p].step /\ r.stale = run[p].stale
        /\ r.acquired = run[p].acquired /\ r.held = run[p].held
    BY <1>1, FailType
  <2>2. Leased(locks', p, r) /\ Taken(locks', p, r)
    BY <2>1, NotFirm DEF Firm, Locking, Timed
  <2>3. OwnIds(p, r)
    BY <1>1, <2>1 DEF OwnIds
  <2>4. Onward(p, r) /\ r.pc \notin Timed
    BY <1>1, <2>1, OutOfStep DEF Timed
  <2>. QED
    BY <1>3, <2>1, <2>2, <2>3, <2>4 DEF Moves
<1>. QED
  BY <1>2, <1>3

(* Within a step, with the ids it had or fewer.                            *)
LEMMA MovesWithin ==
    ASSUME ExclusionInv, NEW p \in Plans, NEW r \in Run, Become(p, r),
           r.step = run[p].step,
           r.stale \subseteq run[p].stale \cup StaleLocks,
           r.acquired \cup r.held \subseteq run[p].acquired \cup run[p].held,
           run[p].pc = "dead" => r.pc = "dead",
           run[p].pc \in Ended => r.pc = run[p].pc,
           r.pc \in Timed => run[p].pc \in Timed \cup {"ready"},
           Leased(locks', p, r), Taken(locks', p, r)
    PROVE  \E x \in Run : Moves(p, x)
<1>1. run[p] \in Run /\ OwnIds(p, run[p])
  BY DEF ExclusionInv, LocksInv, TypeInv, TypeOK
<1>2. Onward(p, r)
  BY <1>1 DEF Run, Onward, Ended
<1>3. OwnIds(p, r)
  BY <1>1 DEF OwnIds
<1>. QED
  BY <1>2, <1>3 DEF Moves

LEMMA MovesChoose ==
    ASSUME ExclusionInv, NEW p \in Plans, StartPlan(p) \/ ChooseStep(p)
    PROVE  \E r \in Run : Moves(p, r)
<1>1. run[p] \in Run /\ LocksInv
  BY DEF ExclusionInv, LocksInv, TypeInv, TypeOK
<1>2. /\ run[p].pc \in {"idle", "step"}
      /\ run[p].pc # "dead"
      /\ run[p].pc \notin Ended
      /\ locks' = locks
  BY DEF StartPlan, ChooseStep, BlockStep, SkipStep, EnterStep, FinishPlan, At, Ended
<1>3. ASSUME NEW t \in Targets, Own(locks, p, run[p], t)
      PROVE  FALSE
  <2>1. Held(t) /\ LockId(t).owner = p /\ LockId(t).step = run[p].step
    BY <1>3, NobodyAssumption DEF Held, LockId, Own
  <2>2. ~Over(LockId(t))
    BY <1>1, <1>2, <2>1 DEF Over, Passed, At, Run
  <2>. QED
    BY <1>1, <1>2, <1>3, <2>1, <2>2, RowOfStep DEF Own, Acquiring, Locking, Holding
<1>4. CASE StartPlan(p) \/ FinishPlan(p)
  <2>. DEFINE start == [run[p] EXCEPT !.pc = "step"]
              finish == [run[p] EXCEPT !.pc = "done"]
  <2>1. /\ start \in Run /\ start.pc = "step" /\ start.step = run[p].step
        /\ start.stale = run[p].stale
        /\ start.acquired = run[p].acquired /\ start.held = run[p].held
        /\ finish \in Run /\ finish.pc = "done" /\ finish.step = run[p].step
        /\ finish.stale = run[p].stale
        /\ finish.acquired = run[p].acquired /\ finish.held = run[p].held
    BY <1>1 DEF Run, Pc
  <2>2. /\ Leased(locks', p, start) /\ Taken(locks', p, start)
        /\ Leased(locks', p, finish) /\ Taken(locks', p, finish)
        /\ start.pc \notin Timed /\ finish.pc \notin Timed
    BY <2>1, NotFirm DEF Firm, Locking, Timed
  <2>3. Become(p, start) \/ Become(p, finish)
    BY <1>4 DEF StartPlan, FinishPlan
  <2>4. CASE Become(p, start)
    BY <1>2, <2>1, <2>2, <2>4, MovesWithin
  <2>5. CASE Become(p, finish)
    BY <1>2, <2>1, <2>2, <2>5, MovesWithin
  <2>. QED
    BY <2>3, <2>4, <2>5
<1>5. CASE BlockStep(p) \/ SkipStep(p)
  BY <1>2, <1>5, MovesOn DEF BlockStep, SkipStep, Ended
<1>6. CASE EnterStep(p)
  <2>. DEFINE ready == [run[p] EXCEPT !.pc = "ready"]
              sweep == [run[p] EXCEPT !.pc = "sweep", !.next = 1]
  <2>1. /\ ready \in Run /\ ready.pc = "ready" /\ ready.step = run[p].step
        /\ ready.stale = run[p].stale
        /\ ready.acquired = run[p].acquired /\ ready.held = run[p].held
        /\ sweep \in Run /\ sweep.pc = "sweep" /\ sweep.step = run[p].step
        /\ sweep.stale = run[p].stale /\ sweep.next = 1
        /\ sweep.acquired = run[p].acquired /\ sweep.held = run[p].held
    BY <1>1 DEF Run, Pc
  <2>2. Leased(locks', p, ready) /\ Leased(locks', p, sweep)
    BY <1>2, <1>3, <2>1 DEF Leased, Own
  <2>3. ready.pc \notin Timed /\ sweep.pc \notin Timed
    BY <2>1 DEF Timed
  <2>4. CASE Current(p).targets = << >>
    <3>1. TargetsOf(Steps[p][ready.step]) = {}
      BY <2>1, <2>4 DEF TargetsOf, Current
    <3>2. Taken(locks', p, ready)
      BY <2>1, <3>1 DEF Taken, Locking
    <3>3. Become(p, ready)
      BY <1>6, <2>4 DEF EnterStep
    <3>. QED
      BY <1>2, <2>1, <2>2, <2>3, <3>2, <3>3, MovesWithin
  <2>5. CASE Current(p).targets # << >>
    <3>1. Taken(locks', p, sweep)
      BY <2>1 DEF Taken, Locking, Timed
    <3>2. Become(p, sweep)
      BY <1>6, <2>5 DEF EnterStep
    <3>. QED
      BY <1>2, <2>1, <2>2, <2>3, <3>1, <3>2, MovesWithin
  <2>. QED
    BY <2>4, <2>5
<1>. QED
  BY <1>4, <1>5, <1>6 DEF ChooseStep

(* The targets of a step by their place, for a plan that is locking them.  *)
LEMMA LockingTargets ==
    ASSUME TypeInv, NEW p \in Plans, run[p].pc \in Locking
    PROVE  /\ run[p].step \in StepsOf(p)
           /\ run[p].next \in Nat \ {0}
           /\ \A k \in 1 .. run[p].next : Current(p).targets[k] \in Targets
           /\ Target(p) = Current(p).targets[run[p].next]
           /\ \A k \in 1 .. run[p].next : k \in 1 .. run[p].next - 1 \/ k = run[p].next
<1>1. /\ run[p].step \in StepsOf(p)
      /\ Current(p) \in Step
      /\ run[p].next \in 1 .. Len(Current(p).targets)
      /\ Current(p).targets \in Seq(Targets)
  BY TargetType, StepFields
<1>2. Len(Current(p).targets) \in Nat
  BY <1>1
<1>3. run[p].next \in Nat \ {0}
  BY <1>1, <1>2
<1>4. \A k \in 1 .. run[p].next : Current(p).targets[k] \in Targets
  BY <1>1, <1>2, <1>3
<1>. QED
  BY <1>1, <1>3, <1>4 DEF Target

(* What a plan that is locking has when the locks it held are still there  *)
(* and the one it was after is its own.                                    *)
LEMMA MovesAcquired ==
    ASSUME ExclusionInv, NEW p \in Plans, At(p, "decide"),
           NEW id \in LockIds, id.owner = p, Acquired(p, id),
           Own(locks', p, run[p], Target(p)),
           \A t \in Targets : Own(locks, p, run[p], t) => Own(locks', p, run[p], t),
           \A t \in Targets :
               Own(locks', p, run[p], t) => locks'[t].left = Ttl(Current(p))
    PROVE  \E r \in Run : Moves(p, r)
<1>. DEFINE ids == run[p].acquired \cup {id}
            more == [run[p] EXCEPT !.pc = "sweep", !.next = @ + 1, !.seen = NoLock,
                                   !.acquired = ids]
            last == [run[p] EXCEPT !.pc = "ready", !.next = 0, !.seen = NoLock,
                                   !.acquired = {}, !.held = @ \cup ids]
<1>1. /\ run[p] \in Run
      /\ NoLock \in Lock
      /\ TypeInv
      /\ Taken(locks, p, run[p])
      /\ OwnIds(p, run[p])
  BY LockTypes DEF ExclusionInv, LocksInv, TypeInv, TypeOK
<1>2. run[p].pc = "decide" /\ run[p].pc \in Locking /\ run[p].pc \notin Ended
  BY DEF At, Locking, Ended
<1>3. /\ run[p].step \in StepsOf(p)
      /\ run[p].next \in Nat \ {0}
      /\ \A k \in 1 .. run[p].next : Current(p).targets[k] \in Targets
      /\ Target(p) = Current(p).targets[run[p].next]
      /\ \A k \in 1 .. run[p].next : k \in 1 .. run[p].next - 1 \/ k = run[p].next
  BY <1>1, <1>2, LockingTargets
<1>4. \A k \in 1 .. run[p].next : Own(locks', p, run[p], Current(p).targets[k])
  <2>. SUFFICES ASSUME NEW k \in 1 .. run[p].next
                PROVE  Own(locks', p, run[p], Current(p).targets[k])
    OBVIOUS
  <2>1. CASE k = run[p].next
    BY <1>3, <2>1
  <2>2. CASE k \in 1 .. run[p].next - 1
    <3>1. Own(locks, p, run[p], Current(p).targets[k])
      BY <1>1, <1>2, <2>2 DEF Taken, Current
    <3>. QED
      BY <1>3, <3>1
  <2>. QED
    BY <1>3, <2>1, <2>2
<1>5. run'[p] \in Run
  BY AcquiredType DEF ExclusionInv, LocksInv
<1>6. \A r : r.step = run[p].step => Onward(p, r)
  BY <1>1, <1>2 DEF Run, Onward, Ended
<1>7. CASE run[p].next < Len(Current(p).targets)
  <2>1. Become(p, more)
    BY <1>7 DEF Acquired
  <2>2. run'[p] = more
    BY <1>1, <2>1 DEF Become, TypeInv, TypeOK
  <2>3. /\ more.pc = "sweep" /\ more.step = run[p].step /\ more.next = run[p].next + 1
        /\ more.acquired = ids /\ more.held = run[p].held /\ more.stale = run[p].stale
    BY <1>1 DEF Run
  <2>4. Leased(locks', p, more)
    BY <2>3 DEF Leased, Own, Locking, Timed, Current
  <2>5. more.next - 1 = run[p].next
    BY <1>3, <2>3
  <2>6. Taken(locks', p, more)
    BY <1>4, <2>3, <2>5 DEF Taken, Own, Locking, Timed, Current
  <2>7. OwnIds(p, more)
    BY <1>1, <2>3 DEF OwnIds
  <2>8. more.pc \notin Timed
    BY <2>3 DEF Timed
  <2>. QED
    BY <1>2, <1>5, <1>6, <2>1, <2>2, <2>3, <2>4, <2>6, <2>7, <2>8 DEF Moves
<1>8. CASE ~(run[p].next < Len(Current(p).targets))
  <2>1. Become(p, last)
    BY <1>8 DEF Acquired
  <2>2. run'[p] = last
    BY <1>1, <2>1 DEF Become, TypeInv, TypeOK
  <2>3. /\ last.pc = "ready" /\ last.step = run[p].step
        /\ last.acquired = {} /\ last.held = run[p].held \cup ids
        /\ last.stale = run[p].stale
    BY <1>1 DEF Run
  <2>4. Leased(locks', p, last)
    BY <2>3 DEF Leased, Own, Locking, Timed, Current
  <2>5. Len(Current(p).targets) = run[p].next
    <3>1. run[p].next \in 1 .. Len(Current(p).targets) /\ Len(Current(p).targets) \in Nat
      BY <1>1, <1>2, TargetType
    <3>. QED
      BY <1>8, <3>1
  <2>6. \A t \in TargetsOf(Current(p)) : Own(locks', p, run[p], t)
    <3>1. DOMAIN Current(p).targets = 1 .. Len(Current(p).targets)
      BY <1>3, StepType, StepFields DEF Current
    <3>. QED
      BY <1>4, <2>5, <3>1 DEF TargetsOf
  <2>7. Taken(locks', p, last)
    BY <2>3, <2>6 DEF Taken, Own, Locking, Timed, Current
  <2>8. OwnIds(p, last)
    BY <1>1, <2>3 DEF OwnIds
  <2>9. last.pc \notin Timed
    BY <2>3 DEF Timed
  <2>. QED
    BY <1>2, <1>5, <1>6, <2>1, <2>2, <2>3, <2>4, <2>7, <2>8, <2>9 DEF Moves
<1>. QED
  BY <1>7, <1>8

LEMMA MovesAcquire ==
    ASSUME NothingReentered, ExclusionInv, NEW p \in Plans, AcquireStepLocks(p)
    PROVE  \E r \in Run : Moves(p, r)
<1>1. /\ run[p] \in Run
      /\ NoLock \in Lock
      /\ locks \in [Targets -> Lock]
      /\ TypeInv
      /\ Leased(locks, p, run[p])
      /\ Taken(locks, p, run[p])
      /\ p # Nobody
  BY LockTypes, NobodyAssumption DEF ExclusionInv, LocksInv, TypeInv, TypeOK
<1>2. CASE Sweep(p)
  <2>. DEFINE r == [run[p] EXCEPT !.pc = "mark", !.stale = StaleLocks]
  <2>1. r \in Run
    BY <1>1, LockTypes DEF Run, Pc
  <2>2. /\ r.pc = "mark" /\ r.step = run[p].step /\ r.stale = StaleLocks
        /\ r.acquired = run[p].acquired /\ r.held = run[p].held /\ r.next = run[p].next
    BY <1>1 DEF Run
  <2>3. /\ run[p].pc = "sweep" /\ run[p].pc # "dead" /\ run[p].pc \notin Ended
        /\ Become(p, r) /\ locks' = locks
    BY <1>2 DEF Sweep, At, Ended
  <2>4. Leased(locks', p, r) /\ Taken(locks', p, r) /\ r.pc \notin Timed
    BY <1>1, <2>2, <2>3 DEF Leased, Taken, Own, Locking, Timed
  <2>. QED
    BY <2>1, <2>2, <2>3, <2>4, MovesWithin
<1>3. CASE MarkExpired(p)
  <2>. DEFINE r == [run[p] EXCEPT !.pc = "read", !.stale = {}]
  <2>1. r \in Run
    BY <1>1 DEF Run, Pc
  <2>2. /\ r.pc = "read" /\ r.step = run[p].step /\ r.stale = {}
        /\ r.acquired = run[p].acquired /\ r.held = run[p].held /\ r.next = run[p].next
    BY <1>1 DEF Run
  <2>3. /\ run[p].pc = "mark" /\ run[p].pc # "dead" /\ run[p].pc \notin Ended
        /\ run[p].pc \in Locking /\ run[p].pc \in Firm
        /\ Become(p, r)
    BY <1>3 DEF MarkExpired, At, Ended, Locking, Firm
  <2>4. \A t \in Targets : locks'[t] = locks[t] \/ locks'[t] = NoLock
    BY <1>1, <1>3 DEF MarkExpired, ExpireLocks
  <2>5. \A t \in Targets : locks'[t].owner = p => locks'[t] = locks[t]
    BY <1>1, <2>4 DEF NoLock
  <2>6. Leased(locks', p, r)
    BY <1>1, <2>2, <2>3, <2>5 DEF Leased, Own, Locking, Timed
  <2>7. \A t \in Targets : Own(locks, p, run[p], t) => Own(locks', p, run[p], t)
    BY <1>3, <2>3, LockEffects DEF Own, Continue, AcquireStepLocks
  <2>8. Taken(locks', p, r)
    <3>1. ASSUME NEW k \in 1 .. run[p].next - 1
          PROVE  Own(locks', p, run[p], Current(p).targets[k])
      <4>1. Own(locks, p, run[p], Current(p).targets[k])
        BY <1>1, <2>3, <3>1 DEF Taken, Current
      <4>2. run[p].next \in Nat /\ Current(p).targets[k] \in Targets
        BY <1>1, <2>3, <3>1, LockingTargets
      <4>. QED
        BY <2>7, <4>1, <4>2
    <3>. QED
      BY <2>2, <3>1 DEF Taken, Own, Timed, Current
  <2>9. r.pc \notin Timed
    BY <2>2 DEF Timed
  <2>. QED
    BY <2>1, <2>2, <2>3, <2>6, <2>8, <2>9, MovesWithin
<1>4. CASE ReadLock(p)
  <2>. DEFINE r == [run[p] EXCEPT !.pc = "decide", !.seen = ActiveLock(Target(p))]
  <2>1. /\ run[p].pc = "read" /\ run[p].pc # "dead" /\ run[p].pc \notin Ended
        /\ run[p].pc \in Locking
        /\ Become(p, r) /\ locks' = locks
    BY <1>4 DEF ReadLock, At, Ended, Locking
  <2>2. ActiveLock(Target(p)) \in Lock /\ Target(p) = Current(p).targets[run[p].next]
    BY <1>1, <2>1, TargetType, LockTypes, LockingTargets
  <2>3. r \in Run
    BY <1>1, <2>2 DEF Run, Pc
  <2>4. /\ r.pc = "decide" /\ r.step = run[p].step /\ r.stale = run[p].stale
        /\ r.acquired = run[p].acquired /\ r.held = run[p].held /\ r.next = run[p].next
        /\ r.seen = ActiveLock(Target(p))
    BY <1>1 DEF Run
  <2>5. ASSUME r.seen.owner = p
        PROVE  Own(locks, p, run[p], Target(p))
    <3>. DEFINE t == Target(p)
                i == locks[t].step
                j == run[p].step
    <3>1. t \in Targets /\ t \in TargetsOf(Steps[p][j]) /\ j \in StepsOf(p)
      BY <1>1, <2>1, TargetType DEF Current
    <3>2. locks[t].owner = p /\ Held(t)
      BY <1>1, <2>4, <2>5 DEF ActiveLock, NoLock, Held
    <3>3. i \in StepsOf(p) /\ t \in TargetsOf(Steps[p][i]) /\ Known(p, t, run[p])
      BY <2>1, <3>1, <3>2 DEF ExclusionInv, LocksInv, OwnersKnow, Accounted, At
    <3>4. HasLedger \/ ~(KeepsLocks(p, i) /\ i < j)
      BY <3>1, <3>3 DEF NothingReentered
    <3>5. i = j
      BY <2>1, <3>3, <3>4 DEF Known, Kept, Passed
    <3>. QED
      BY <3>2, <3>5 DEF Own
  <2>6. Leased(locks', p, r) /\ r.pc \notin Timed
    BY <1>1, <2>1, <2>4 DEF Leased, Own, Locking, Timed
  <2>7. Taken(locks', p, r)
    BY <1>1, <2>1, <2>2, <2>4, <2>5 DEF Taken, Own, Locking, Timed, Current
  <2>. QED
    BY <2>1, <2>3, <2>4, <2>6, <2>7, MovesWithin
<1>5. CASE TakeLock(p)
  <2>. DEFINE u == Target(p)
              id == [target |-> u, owner |-> p, step |-> run[p].step]
  <2>1. /\ At(p, "decide") /\ Acquired(p, id) /\ ~Held(u)
        /\ locks' = [locks EXCEPT ![u] =
                        [owner |-> p, step |-> run[p].step, left |-> Ttl(Current(p))]]
    BY <1>5 DEF TakeLock, InsertLock
  <2>2. u \in Targets /\ run[p].step \in Nat
    BY <1>1, <2>1, TargetType DEF At, Locking, Run
  <2>3. id \in LockIds
    BY <2>2 DEF LockIds
  <2>4. \A t \in Targets : Own(locks, p, run[p], t) => locks[t].left = Ttl(Current(p))
    BY <1>1, <2>1 DEF Leased, At, Locking, Current
  <2>5. /\ Own(locks', p, run[p], u)
        /\ \A t \in Targets : Own(locks, p, run[p], t) => Own(locks', p, run[p], t)
        /\ \A t \in Targets :
               Own(locks', p, run[p], t) => locks'[t].left = Ttl(Current(p))
    BY <1>1, <2>1, <2>2, <2>4 DEF Own
  <2>. QED
    BY <2>1, <2>3, <2>5, MovesAcquired
<1>6. CASE ReenterLock(p)
  <2>. DEFINE id == [target |-> Target(p), owner |-> p, step |-> run[p].seen.step]
  <2>1. At(p, "decide") /\ Acquired(p, id) /\ locks' = locks /\ run[p].seen.owner = p
    BY <1>6 DEF ReenterLock
  <2>2. Target(p) \in Targets /\ run[p].seen.step \in Nat
    BY <1>1, <2>1, TargetType DEF At, Locking, Run, Lock
  <2>3. id \in LockIds
    BY <2>2 DEF LockIds
  <2>4. \A t \in Targets : Own(locks, p, run[p], t) => locks[t].left = Ttl(Current(p))
    BY <1>1, <2>1 DEF Leased, At, Locking, Current
  <2>5. Own(locks, p, run[p], Target(p))
    BY <1>1, <2>1 DEF Taken, At, Target, Current
  <2>. QED
    BY <2>1, <2>3, <2>4, <2>5, MovesAcquired DEF Own
<1>7. CASE Conflict(p) \/ InsertFails(p)
  <2>. DEFINE conflict == [run[p] EXCEPT !.pc = "rollback"]
              fails == [run[p] EXCEPT !.pc = "rollback", !.thrown = TRUE]
  <2>1. run[p].pc = "decide" /\ run[p].pc # "dead" /\ run[p].pc \notin Ended
    BY <1>7 DEF Conflict, InsertFails, At, Ended
  <2>2. Become(p, conflict) \/ Become(p, fails)
    BY <1>7 DEF Conflict, InsertFails
  <2>3. ASSUME NEW r \in {conflict, fails}
        PROVE  /\ r \in Run
               /\ r.pc = "rollback" /\ r.step = run[p].step /\ r.stale = run[p].stale
               /\ r.acquired = run[p].acquired /\ r.held = run[p].held
    BY <1>1 DEF Run, Pc
  <2>4. ASSUME NEW r \in {conflict, fails}
        PROVE  Leased(locks', p, r) /\ Taken(locks', p, r) /\ r.pc \notin Timed
    BY <2>3, NotFirm DEF Firm, Locking, Timed
  <2>5. PICK r \in {conflict, fails} : Become(p, r)
    BY <2>2
  <2>. QED
    BY <2>1, <2>3, <2>4, <2>5, MovesWithin
<1>8. CASE RollbackLock(p)
  <2>1. PICK id \in run[p].acquired :
           /\ At(p, "rollback")
           /\ Become(p, [run[p] EXCEPT !.acquired = @ \ {id}])
    BY <1>8 DEF RollbackLock
  <2>. DEFINE r == [run[p] EXCEPT !.acquired = @ \ {id}]
  <2>2. /\ r \in Run
        /\ r.pc = "rollback" /\ r.step = run[p].step /\ r.stale = run[p].stale
        /\ r.acquired \subseteq run[p].acquired /\ r.held = run[p].held
    BY <1>1, <2>1 DEF Run, At
  <2>3. /\ Leased(locks', p, r) /\ Taken(locks', p, r)
        /\ r.pc \notin Timed /\ r.pc = run[p].pc /\ run[p].pc # "dead"
    BY <2>1, <2>2, NotFirm DEF Firm, Locking, Timed, Ended, At
  <2>. QED
    BY <2>1, <2>2, <2>3, MovesWithin
<1>9. CASE EndRollback(p)
  BY <1>9, MovesOn DEF EndRollback, At
<1>. QED
  BY <1>2, <1>3, <1>4, <1>5, <1>6, <1>7, <1>8, <1>9 DEF AcquireStepLocks

(* A plan that works and goes on working under the same locks, with a need *)
(* that does not grow.                                                     *)
LEMMA MovesWorking ==
    ASSUME ExclusionInv, NEW p \in Plans, NEW r \in Run, Become(p, r), locks' = locks,
           run[p].pc \in Timed \cup {"ready"}, r.pc \in Timed,
           r.step = run[p].step, r.stale = run[p].stale,
           r.acquired = run[p].acquired, r.held = run[p].held,
           \A t \in Targets :
               Own(locks, p, run[p], t) => Need(Current(p), r) < locks[t].left
    PROVE  \E x \in Run : Moves(p, x)
<1>1. run[p].pc # "dead" /\ run[p].pc # "decide" /\ run[p].pc \notin Ended
  BY DEF Timed, Ended
<1>2. r.pc \notin Locking \cup {"ready"} /\ r.pc # "decide"
  BY DEF Timed, Locking
<1>3. Leased(locks', p, r)
  BY <1>2 DEF Leased, Own, Current
<1>4. Taken(locks', p, r)
  BY <1>2 DEF Taken, Own, ExclusionInv
<1>. QED
  BY <1>1, <1>3, <1>4, MovesWithin

(* A plan's lock, while it works, is covered and leaves enough.            *)
LEMMA WorkingRow ==
    ASSUME LeasesCover, ExclusionInv, NEW p \in Plans,
           run[p].pc \in Timed \cup {"ready"}, NEW t \in Targets, Own(locks, p, run[p], t)
    PROVE  /\ Current(p) \in Step
           /\ LeaseCovers(Current(p))
           /\ locks[t].left \in Nat
           /\ run[p].pc = "ready" => locks[t].left = Ttl(Current(p))
           /\ run[p].pc \in Timed => /\ Need(Current(p), run[p]) < locks[t].left
                                     /\ run[p].attempt \in 1 .. Current(p).attempts
                                     /\ run[p].timer \in Nat
<1>1. Leased(locks, p, run[p]) /\ LocksInv
  BY DEF ExclusionInv
<1>2. Held(t) /\ ~Over(LockId(t)) /\ locks[t].owner = p
  BY <1>1, OwnIsNotOver, NobodyAssumption DEF Held, Own, Firm
<1>3. run[p] \in Run /\ locks[t] \in Lock /\ WellPlaced(p, run[p])
  BY <1>1 DEF LocksInv, TypeInv, TypeOK
<1>4. Current(p) \in Step /\ LeaseCovers(Current(p))
  BY <1>1, <1>2, RowCovered
<1>5. locks[t].left \in Nat /\ run[p].timer \in Nat
  BY <1>3 DEF Lock, Run
<1>6. run[p].pc = "ready" => locks[t].left = Ttl(Current(p))
  BY <1>1 DEF Leased, Current
<1>7. run[p].pc \in Timed => /\ Need(Current(p), run[p]) < locks[t].left
                             /\ run[p].attempt \in 1 .. Current(p).attempts
  BY <1>1, <1>3 DEF Leased, WellPlaced, Current
<1>. QED
  BY <1>4, <1>5, <1>6, <1>7

LEMMA ActingFields ==
    ASSUME NEW p \in Plans, run[p] \in Run, NEW a
    PROVE  /\ Acting(p, a).pc = "acting"
           /\ Acting(p, a).step = run[p].step
           /\ Acting(p, a).stale = run[p].stale
           /\ Acting(p, a).acquired = run[p].acquired
           /\ Acting(p, a).held = run[p].held
           /\ Acting(p, a).attempt = a
           /\ Acting(p, a).timer = Current(p).timeout
BY DEF Acting, Run

LEMMA MovesAttempt ==
    ASSUME LeasesCover, ExclusionInv, NEW p \in Plans, locks' = locks,
           \/ run[p].pc = "ready" /\ Become(p, Acting(p, 1))
           \/ Retry(p)
    PROVE  \E r \in Run : Moves(p, r)
<1>1. run[p] \in Run /\ TypeInv
  BY DEF ExclusionInv, LocksInv, TypeInv, TypeOK
<1>2. CASE run[p].pc = "ready" /\ Become(p, Acting(p, 1))
  <2>. DEFINE r == Acting(p, 1)
              s == Current(p)
  <2>1. run[p].step \in StepsOf(p) /\ s \in Step
    BY <1>1, <1>2, StepType DEF TypeInv, WellPlaced, Holding, Current
  <2>2. 1 \in 1 .. s.attempts /\ s.timeout \in Nat /\ s.verify \in Nat
    BY <2>1, StepFields
  <2>3. r \in Run
    BY <1>1, <2>1, <2>2, ActingType
  <2>4. ASSUME NEW t \in Targets, Own(locks, p, run[p], t)
        PROVE  Need(s, r) < locks[t].left
    <3>1. LeaseCovers(s) /\ locks[t].left = Ttl(s)
      BY <1>2, <2>4, WorkingRow
    <3>2. s.timeout + s.verify + Rest(s, s.attempts - 1) < Ttl(s)
      BY <2>1, <3>1, DelayBoundFits
    <3>3. Need(s, r) = s.timeout + s.verify + Rest(s, s.attempts - 1)
      BY <1>1, <2>1, <2>2, <3>1, ActingFields, NeedSteps
    <3>. QED
      BY <3>1, <3>2, <3>3
  <2>5. r.pc \in Timed
    BY <1>1, ActingFields DEF Timed
  <2>. QED
    BY <1>1, <1>2, <2>3, <2>4, <2>5, ActingFields, MovesWorking
<1>3. CASE Retry(p)
  <2>. DEFINE a == run[p].attempt
              r == Acting(p, a + 1)
              s == Current(p)
  <2>1. run[p].pc = "waiting" /\ run[p].timer = 0 /\ Become(p, r)
    BY <1>3 DEF Retry, At
  <2>2. /\ run[p].step \in StepsOf(p) /\ s \in Step
        /\ a \in 1 .. s.attempts /\ a + 1 \in 1 .. s.attempts
    BY <1>1, <2>1, StepType DEF TypeInv, WellPlaced, Holding, Timed, Current
  <2>3. s.timeout \in Nat /\ s.verify \in Nat /\ s.attempts \in Nat /\ a < s.attempts
    BY <2>2, StepFields
  <2>4. r \in Run
    BY <1>1, <2>2, ActingType
  <2>5. ASSUME NEW t \in Targets, Own(locks, p, run[p], t)
        PROVE  Need(s, r) < locks[t].left
    <3>1. LeaseCovers(s) /\ Need(s, run[p]) < locks[t].left
      BY <2>1, <2>5, WorkingRow DEF Timed
    <3>2. Need(s, run[p]) = 0 + s.timeout + s.verify + Rest(s, s.attempts - (a + 1))
      BY <2>1, <2>2, <2>3, <3>1, NeedSteps
    <3>3. Need(s, r) = s.timeout + s.verify + Rest(s, s.attempts - (a + 1))
      BY <1>1, <2>2, <2>3, <3>1, ActingFields, NeedSteps
    <3>4. Need(s, run[p]) = Need(s, r)
      BY <2>3, <3>2, <3>3
    <3>. QED
      BY <3>1, <3>4
  <2>6. r.pc \in Timed /\ run[p].pc \in Timed
    BY <1>1, <2>1, ActingFields DEF Timed
  <2>. QED
    BY <1>1, <2>1, <2>4, <2>5, <2>6, ActingFields, MovesWorking
<1>. QED
  BY <1>2, <1>3

(* An attempt failed: what the next one needs, its delay included, was in  *)
(* the need of this one.                                                   *)
LEMMA MovesFailed ==
    ASSUME LeasesCover, ExclusionInv, NEW p \in Plans, locks' = locks,
           run[p].pc \in {"acting", "verifying"},
           NEW orphans \in SUBSET Nat, AttemptFails(p, orphans)
    PROVE  \E r \in Run : Moves(p, r)
<1>. DEFINE s == Current(p)
            a == run[p].attempt
            r == [run[p] EXCEPT !.orphans = orphans]
            wait == [r EXCEPT !.pc = "waiting", !.timer = RetryDelay(s, r.attempt)]
            end == [r EXCEPT !.pc = "release", !.timer = 0, !.thrown = s.aborts]
<1>1. run[p] \in Run /\ run \in [Plans -> Run] /\ TypeInv
  BY DEF ExclusionInv, LocksInv, TypeInv, TypeOK
<1>2. /\ r \in Run /\ r.step = run[p].step /\ r.stale = run[p].stale
      /\ r.acquired = run[p].acquired /\ r.held = run[p].held /\ r.attempt = a
  BY <1>1 DEF Run
<1>3. run'[p] \in Run
  BY <1>1, AttemptFailsType
<1>4. /\ run[p].step \in StepsOf(p) /\ s \in Step
      /\ a \in 1 .. s.attempts
  BY <1>1, StepType DEF TypeInv, WellPlaced, Holding, Timed, Current
<1>5. s.timeout \in Nat /\ s.verify \in Nat /\ s.attempts \in Nat
  BY <1>4, StepFields
<1>6. run[p].pc \in Timed /\ run[p].pc # "dead" /\ run[p].pc \notin Ended
  BY DEF Timed, Ended
<1>7. CASE a < s.attempts
  <2>1. Become(p, wait)
    BY <1>2, <1>7 DEF AttemptFails
  <2>2. wait \in Run
    BY <1>1, <1>3, <2>1 DEF Become
  <2>3. /\ wait.pc = "waiting" /\ wait.step = run[p].step /\ wait.stale = run[p].stale
        /\ wait.acquired = run[p].acquired /\ wait.held = run[p].held
        /\ wait.attempt = a /\ wait.timer = RetryDelay(s, a)
    BY <1>2 DEF Run
  <2>4. RetryDelay(s, a) \in Nat /\ a \in 1 .. s.attempts - 1
    BY <1>4, <1>5, <1>7, DelayIsNumber
  <2>5. ASSUME NEW t \in Targets, Own(locks, p, run[p], t)
        PROVE  Need(s, wait) < locks[t].left
    <3>1. /\ LeaseCovers(s) /\ Need(s, run[p]) < locks[t].left
          /\ locks[t].left \in Nat /\ run[p].timer \in Nat
      BY <1>6, <2>5, WorkingRow
    <3>2. RetryDelay(s, a) <= DelayBound(s) /\ DelayBound(s) \in Nat
      BY <1>4, <2>4, <3>1, DelayBoundFits
    <3>3. /\ Rest(s, s.attempts - (a + 1)) \in Nat
          /\ Rest(s, s.attempts - a) \in Nat
          /\ Rest(s, s.attempts - a) = Rest(s, s.attempts - (a + 1)) + s.timeout
                                         + s.verify + DelayBound(s)
      BY <1>4, <1>7, <3>1, NeedSteps
    <3>4. Need(s, wait) = RetryDelay(s, a) + s.timeout + s.verify
                             + Rest(s, s.attempts - (a + 1))
      <4>. HIDE DEF wait, s, a
      <4>. QED
        BY <1>4, <1>7, <2>3, <2>4, <3>1, NeedSteps
    <3>5. Need(s, wait) <= Rest(s, s.attempts - a)
      BY <1>5, <2>4, <3>2, <3>3, <3>4
    <3>6. Rest(s, s.attempts - a) <= Need(s, run[p]) /\ Need(s, run[p]) \in Nat
      <4>1. CASE run[p].pc = "acting"
        <5>1. Need(s, run[p]) = run[p].timer + s.verify + Rest(s, s.attempts - a)
          BY <1>4, <3>1, <4>1, NeedSteps
        <5>. QED
          BY <1>5, <3>1, <3>3, <5>1
      <4>2. CASE run[p].pc = "verifying"
        <5>1. Need(s, run[p]) = run[p].timer + Rest(s, s.attempts - a)
          BY <1>4, <3>1, <4>2, NeedSteps
        <5>. QED
          BY <3>1, <3>3, <5>1
      <4>. QED
        BY <4>1, <4>2
    <3>7. Need(s, wait) \in Nat
      BY <1>5, <2>4, <3>3, <3>4
    <3>. QED
      BY <3>1, <3>3, <3>5, <3>6, <3>7
  <2>6. wait.pc \in Timed
    BY <2>3 DEF Timed
  <2>. QED
    BY <1>6, <2>1, <2>2, <2>3, <2>5, <2>6, MovesWorking
<1>8. CASE ~(a < s.attempts)
  <2>1. Become(p, end)
    BY <1>2, <1>8 DEF AttemptFails
  <2>2. end \in Run
    BY <1>1, <1>3, <2>1 DEF Become
  <2>3. /\ end.pc = "release" /\ end.step = run[p].step /\ end.stale = run[p].stale
        /\ end.acquired = run[p].acquired /\ end.held = run[p].held
    BY <1>2 DEF Run
  <2>4. Leased(locks', p, end) /\ Taken(locks', p, end) /\ end.pc \notin Timed
    BY <2>3, NotFirm DEF Firm, Locking, Timed
  <2>. QED
    BY <1>6, <2>1, <2>2, <2>3, <2>4, MovesWithin
<1>. QED
  BY <1>7, <1>8

LEMMA MovesExecute ==
    ASSUME LeasesCover, ExclusionInv, NEW p \in Plans,
           ExecuteStep(p) \/ ExecutorAnswers(p)
    PROVE  \E r \in Run : Moves(p, r)
<1>1. /\ run[p] \in Run
      /\ TypeInv
      /\ Leased(locks, p, run[p])
      /\ Taken(locks, p, run[p])
  BY DEF ExclusionInv, LocksInv, TypeInv, TypeOK
<1>2. CASE StartAction(p) \/ Retry(p)
  BY <1>2, MovesAttempt DEF StartAction, Retry, At
<1>3. CASE ResolveApproval(p)
  <2>1. run[p].pc = "ready" /\ locks' = locks
    BY <1>3 DEF ResolveApproval, At
  <2>2. PICK granted \in Approvals :
           Become(p, CASE HasLedger -> Fail(run[p])
                       [] ~HasLedger /\ granted -> Acting(p, 1)
                       [] ~HasLedger /\ ~granted -> NextStep(run[p]))
    BY <1>3 DEF ResolveApproval
  <2>3. HasLedger \in BOOLEAN /\ granted \in BOOLEAN
    BY <2>2, BoundsAssumption
  <2>4. Become(p, Fail(run[p])) \/ Become(p, Acting(p, 1)) \/ Become(p, NextStep(run[p]))
    BY <2>2, <2>3
  <2>. QED
    BY <2>1, <2>4, MovesOn, MovesAttempt
<1>4. ASSUME run[p].pc \in {"acting", "verifying"}, locks' = locks, Completed(p)
      PROVE  \E r \in Run : Moves(p, r)
  <2>. DEFINE r == [run[p] EXCEPT !.pc = "release", !.timer = 0]
  <2>1. /\ r \in Run
        /\ r.pc = "release" /\ r.step = run[p].step /\ r.stale = run[p].stale
        /\ r.acquired = run[p].acquired /\ r.held = run[p].held
    BY <1>1 DEF Run, Pc
  <2>2. /\ Leased(locks', p, r) /\ Taken(locks', p, r)
        /\ r.pc \notin Timed /\ run[p].pc # "dead" /\ run[p].pc \notin Ended
    BY <1>4, <2>1, NotFirm DEF Firm, Locking, Timed, Ended
  <2>3. Become(p, r)
    BY <1>4 DEF Completed
  <2>. QED
    BY <2>1, <2>2, <2>3, MovesWithin
<1>5. CASE ActionReturns(p)
  <2>1. run[p].pc = "acting" /\ run[p].pc \in Timed /\ locks' = locks
    BY <1>5 DEF ActionReturns, At, Timed
  <2>2. CASE Current(p).verify = 0
    BY <1>4, <1>5, <2>1, <2>2 DEF ActionReturns
  <2>3. CASE Current(p).verify # 0
    <3>. DEFINE s == Current(p)
                r == [run[p] EXCEPT !.pc = "verifying", !.timer = s.verify]
    <3>1. s \in Step /\ s.verify \in Nat
      BY <1>1, <2>1, StepType, StepFields DEF TypeInv, WellPlaced, Holding, Current
    <3>2. /\ r \in Run
          /\ r.pc = "verifying" /\ r.step = run[p].step /\ r.stale = run[p].stale
          /\ r.acquired = run[p].acquired /\ r.held = run[p].held
          /\ r.attempt = run[p].attempt /\ r.timer = s.verify
      BY <1>1, <3>1 DEF Run, Pc
    <3>3. Become(p, r)
      BY <1>5, <2>3 DEF ActionReturns
    <3>4. ASSUME NEW t \in Targets, Own(locks, p, run[p], t)
          PROVE  Need(s, r) < locks[t].left
      <4>. DEFINE a == run[p].attempt
      <4>1. /\ LeaseCovers(s) /\ Need(s, run[p]) < locks[t].left
            /\ locks[t].left \in Nat /\ run[p].timer \in Nat /\ a \in 1 .. s.attempts
        BY <2>1, <3>4, WorkingRow
      <4>2. /\ Need(s, run[p]) = run[p].timer + s.verify + Rest(s, s.attempts - a)
            /\ Rest(s, s.attempts - a) \in Nat
        BY <2>1, <3>1, <4>1, NeedSteps
      <4>3. Need(s, r) = s.verify + Rest(s, s.attempts - a)
        <5>. HIDE DEF r, s, a
        <5>. QED
          BY <3>1, <3>2, <4>1, NeedSteps DEF a
      <4>. QED
        BY <3>1, <4>1, <4>2, <4>3
    <3>5. r.pc \in Timed
      BY <3>2 DEF Timed
    <3>. QED
      BY <2>1, <3>2, <3>3, <3>4, <3>5, MovesWorking
  <2>. QED
    BY <2>2, <2>3
<1>6. CASE VerificationReturns(p)
  BY <1>4, <1>6 DEF VerificationReturns, At
<1>7. CASE ActionThrows(p) \/ VerificationThrows(p)
  <2>1. run[p].orphans \in SUBSET Nat
    BY <1>1 DEF Run
  <2>. QED
    BY <1>7, <2>1, MovesFailed DEF ActionThrows, VerificationThrows, At
<1>8. CASE ActionTimesOut(p)
  <2>1. run[p].orphans \cup {run[p].step} \in SUBSET Nat
    BY <1>1 DEF Run
  <2>. QED
    BY <1>8, <2>1, MovesFailed DEF ActionTimesOut, At
<1>9. CASE OrphanEnds(p)
  <2>1. PICK i \in run[p].orphans :
           /\ Become(p, [run[p] EXCEPT !.orphans = @ \ {i}])
           /\ locks' = locks
    BY <1>9 DEF OrphanEnds
  <2>. DEFINE r == [run[p] EXCEPT !.orphans = @ \ {i}]
  <2>2. /\ r \in Run
        /\ r.pc = run[p].pc /\ r.step = run[p].step /\ r.stale = run[p].stale
        /\ r.acquired = run[p].acquired /\ r.held = run[p].held
        /\ r.next = run[p].next /\ r.seen = run[p].seen
        /\ r.attempt = run[p].attempt /\ r.timer = run[p].timer
    BY <1>1 DEF Run
  <2>3. \A s : Need(s, r) = Need(s, run[p])
    BY <2>2 DEF Need
  <2>4. Leased(locks', p, r)
    BY <1>1, <2>1, <2>2, <2>3 DEF Leased, Own
  <2>5. Taken(locks', p, r)
    BY <1>1, <2>1, <2>2 DEF Taken, Own
  <2>6. r.pc \in Timed => run[p].pc \in Timed \cup {"ready"}
    BY <2>2
  <2>. QED
    BY <2>1, <2>2, <2>4, <2>5, <2>6, MovesWithin
<1>10. CASE ReleaseStepLock(p)
  <2>1. PICK id \in run[p].held :
           /\ At(p, "release")
           /\ Become(p, [run[p] EXCEPT !.held = @ \ {id}])
    BY <1>10 DEF ReleaseStepLock
  <2>. DEFINE r == [run[p] EXCEPT !.held = @ \ {id}]
  <2>2. /\ r \in Run
        /\ r.pc = "release" /\ r.step = run[p].step /\ r.stale = run[p].stale
        /\ r.acquired = run[p].acquired /\ r.held \subseteq run[p].held
    BY <1>1, <2>1 DEF Run, At
  <2>3. /\ Leased(locks', p, r) /\ Taken(locks', p, r)
        /\ r.pc \notin Timed /\ r.pc = run[p].pc /\ run[p].pc # "dead"
    BY <2>1, <2>2, NotFirm DEF Firm, Locking, Timed, Ended, At
  <2>. QED
    BY <2>1, <2>2, <2>3, MovesWithin
<1>11. CASE EndStep(p)
  BY <1>11, MovesOn DEF EndStep, At
<1>. QED
  BY <1>2, <1>3, <1>5, <1>6, <1>7, <1>8, <1>9, <1>10, <1>11 DEF ExecuteStep, ExecutorAnswers

(* A plan's step leaves every plan with the locks it needs.                *)
LEMMA ExclusionPlan ==
    ASSUME NothingReentered, LeasesCover, ExclusionInv, NEW p \in Plans,
           StartPlan(p) \/ Continue(p) \/ ExecutorAnswers(p), LocksInv'
    PROVE  ExclusionInv'
<1>1. PICK r \in Run : Moves(p, r)
  BY MovesChoose, MovesAcquire, MovesExecute DEF Continue
<1>2. /\ run'[p] = r
      /\ \A q \in Plans \ {p} : run'[q] = run[q]
  BY <1>1, BecomeOne DEF Moves, ExclusionInv, LocksInv, TypeInv, TypeOK
<1>3. ASSUME NEW id \in LockIds, Over(id)
      PROVE  Over(id)'
  <2>1. id.owner \in Plans /\ id.step \in Nat
    BY DEF LockIds
  <2>2. CASE id.owner # p
    BY <1>2, <1>3, <2>1, <2>2 DEF Over, At
  <2>3. CASE id.owner = p
    <3>1. run[p] \in Run
      BY DEF ExclusionInv, LocksInv, TypeInv, TypeOK
    <3>. QED
      BY <1>1, <1>2, <1>3, <2>1, <2>3, <3>1, PassedForGood DEF Over, At, Moves
  <2>. QED
    BY <2>2, <2>3
<1>4. ASSUME NEW q \in Plans
      PROVE  /\ Leased(locks', q, run'[q])
             /\ Taken(locks', q, run'[q])
             /\ OwnIds(q, run'[q])
             /\ run'[q].stale \subseteq run[q].stale \cup StaleLocks
  <2>1. CASE q = p
    BY <1>1, <1>2, <2>1 DEF Moves
  <2>2. CASE q # p
    BY <1>2, <2>2, OthersKeep DEF ExclusionInv
  <2>. QED
    BY <2>1, <2>2
<1>5. ASSUME NEW q \in Plans, NEW id \in run'[q].stale
      PROVE  Over(id)'
  <2>1. id \in run[q].stale \/ id \in StaleLocks
    BY <1>4, <1>5
  <2>2. id \in LockIds
    BY <2>1, LockTypes DEF ExclusionInv, LocksInv, TypeInv, TypeOK, Run
  <2>3. Over(id)
    BY <2>1, SweptIsOver DEF ExclusionInv
  <2>. QED
    BY <1>3, <2>2, <2>3
<1>. QED
  BY <1>4, <1>5 DEF ExclusionInv, Leased, Taken, Own

LEMMA ExclusionInit == Init => ExclusionInv
<1>. SUFFICES ASSUME Init PROVE ExclusionInv
  OBVIOUS
<1>1. LocksInv
  BY LocksInvInductive
<1>2. ASSUME NEW p \in Plans
      PROVE  /\ run[p].pc = "idle"
             /\ run[p].stale = {}
             /\ run[p].acquired \cup run[p].held = {}
  BY DEF Init, NotStarted
<1>3. ASSUME NEW p \in Plans
      PROVE  Leased(locks, p, run[p]) /\ Taken(locks, p, run[p])
  BY <1>2, NotFirm DEF Firm, Locking, Timed
<1>. QED
  BY <1>1, <1>2, <1>3 DEF ExclusionInv, OwnIds

(* The clock takes from a lease what it takes from the need.               *)
LEMMA TickTakesBoth ==
    ASSUME LeasesCover, ExclusionInv, Tick, NEW p \in Plans,
           run[p].pc \in Timed, NEW t \in Targets, Own(locks, p, run[p], t)
    PROVE  Need(Current(p), run'[p]) < locks'[t].left
<1>. DEFINE s == Current(p)
            n == run[p].attempt
            r == run[p]
            x == run'[p]
<1>1. /\ s \in Step /\ LeaseCovers(s)
      /\ locks[t].left \in Nat
      /\ Need(s, r) < locks[t].left
      /\ n \in 1 .. s.attempts
      /\ r.timer \in Nat
  BY WorkingRow
<1>2. /\ r \in Run /\ WellPlaced(p, r)
      /\ locks \in [Targets -> Lock]
      /\ LocksInv
  BY DEF ExclusionInv, LocksInv, TypeInv, TypeOK
<1>3. r.timer > 0
  BY DEF Tick, Quiet, Timed
<1>4. x.pc = r.pc /\ x.attempt = n /\ x.timer = r.timer - 1
  <2>1. x = [r EXCEPT !.timer = @ - 1]
    BY DEF Tick
  <2>. QED
    BY <1>2, <2>1 DEF Run
<1>5. x.timer \in Nat
  BY <1>1, <1>3, <1>4
<1>6. r.pc = "waiting" => n < s.attempts
  <2>1. s.attempts \in Nat /\ n \in Nat
    BY <1>1, StepFields
  <2>2. r.pc = "waiting" => n + 1 \in 1 .. s.attempts
    BY <1>2 DEF WellPlaced, Current
  <2>. QED
    BY <2>1, <2>2
<1>7. s.timeout \in Nat /\ s.verify \in Nat
  BY <1>1, StepFields
<1>8. Need(s, r) \in Nat /\ Need(s, x) = Need(s, r) - 1
  <2>1. CASE r.pc = "acting"
    <3>1. /\ Need(s, r) = r.timer + s.verify + Rest(s, s.attempts - n)
          /\ Need(s, x) = x.timer + s.verify + Rest(s, s.attempts - n)
          /\ Rest(s, s.attempts - n) \in Nat
          /\ Need(s, r) \in Nat
      BY <1>1, <1>4, <1>5, <2>1, NeedSteps
    <3>. QED
      BY <1>1, <1>4, <1>7, <3>1
  <2>2. CASE r.pc = "verifying"
    <3>1. /\ Need(s, r) = r.timer + Rest(s, s.attempts - n)
          /\ Need(s, x) = x.timer + Rest(s, s.attempts - n)
          /\ Rest(s, s.attempts - n) \in Nat
          /\ Need(s, r) \in Nat
      BY <1>1, <1>4, <1>5, <2>2, NeedSteps
    <3>. QED
      BY <1>1, <1>4, <3>1
  <2>3. CASE r.pc = "waiting"
    <3>1. /\ Need(s, r) = r.timer + s.timeout + s.verify + Rest(s, s.attempts - (n + 1))
          /\ Need(s, x) = x.timer + s.timeout + s.verify + Rest(s, s.attempts - (n + 1))
          /\ Rest(s, s.attempts - (n + 1)) \in Nat
          /\ Need(s, r) \in Nat
      BY <1>1, <1>4, <1>5, <1>6, <2>3, NeedSteps
    <3>. QED
      BY <1>1, <1>4, <1>7, <3>1
  <2>. QED
    BY <2>1, <2>2, <2>3 DEF Timed
<1>9. locks'[t].left = locks[t].left - 1
  <2>1. locks[t].left # 0
    BY <1>1, <1>8
  <2>. QED
    BY <1>2, <2>1 DEF Tick, LocksTick, Lock
<1>. QED
  BY <1>1, <1>8, <1>9

LEMMA ExclusionTick ==
    ASSUME LeasesCover, ExclusionInv, Tick, LocksInv'
    PROVE  ExclusionInv'
<1>1. /\ locks \in [Targets -> Lock] /\ run \in [Plans -> Run]
      /\ TypeInv
  BY DEF ExclusionInv, LocksInv, TypeInv, TypeOK
<1>2. ASSUME NEW p \in Plans
      PROVE  /\ run'[p].pc = run[p].pc /\ run'[p].step = run[p].step
             /\ run'[p].stale = run[p].stale
             /\ run'[p].acquired = run[p].acquired /\ run'[p].held = run[p].held
             /\ run[p].pc \notin Timed => run'[p] = run[p]
  <2>1. run'[p] = IF run[p].pc \in Timed
                  THEN [run[p] EXCEPT !.timer = @ - 1] ELSE run[p]
    BY DEF Tick
  <2>. QED
    BY <1>1, <2>1 DEF Run
<1>3. ASSUME NEW t \in Targets
      PROVE  locks'[t].owner = locks[t].owner /\ locks'[t].step = locks[t].step
  BY <1>1 DEF Tick, LocksTick, Lock
<1>4. ASSUME NEW p \in Plans
      PROVE  Leased(locks', p, run'[p]) /\ Taken(locks', p, run'[p])
  <2>1. CASE run[p].pc \in Timed
    <3>1. run'[p].pc \in Timed /\ run'[p].pc \notin Locking /\ run'[p].pc \notin Locking \cup {"ready"}
          /\ run'[p].pc # "decide" /\ run[p].pc \in Holding
      BY <1>2, <2>1 DEF Timed, Locking, Holding
    <3>2. Steps[p][run'[p].step] = Current(p)
      BY <1>2 DEF Current
    <3>3. Current(p) \in Step
      BY <1>1, <3>1, StepType DEF TypeInv, WellPlaced, Current
    <3>4. TargetsOf(Current(p)) \subseteq Targets
      BY <3>3, StepFields DEF TargetsOf
    <3>5. Leased(locks', p, run'[p])
      BY <1>2, <1>3, <2>1, <3>1, <3>2, TickTakesBoth DEF Leased, Own
    <3>6. \A t \in TargetsOf(Current(p)) : Own(locks, p, run[p], t)
      BY <2>1 DEF ExclusionInv, Taken, Current
    <3>7. Taken(locks', p, run'[p])
      BY <1>2, <1>3, <3>1, <3>2, <3>4, <3>6 DEF Taken, Own
    <3>. QED
      BY <3>5, <3>7
  <2>2. CASE run[p].pc \notin Timed
    <3>1. run[p].pc \in {"idle", "done", "failed", "dead"}
      BY <2>2 DEF Tick, Quiet
    <3>. QED
      BY <1>2, <3>1, NotFirm DEF Firm, Locking, Timed
  <2>. QED
    BY <2>1, <2>2
<1>5. ASSUME NEW p \in Plans, NEW id \in run'[p].stale
      PROVE  Over(id)'
  <2>1. id \in LockIds /\ Over(id)
    BY <1>1, <1>2, <1>5 DEF ExclusionInv, Run
  <2>2. id.owner \in Plans
    BY <2>1 DEF LockIds
  <2>. QED
    BY <1>2, <2>1, <2>2 DEF Over, Passed, At
<1>6. ASSUME NEW p \in Plans
      PROVE  OwnIds(p, run'[p])
  BY <1>2 DEF ExclusionInv, OwnIds
<1>. QED
  BY <1>4, <1>5, <1>6 DEF ExclusionInv, Leased, Taken, Own

LEMMA ExclusionCrash ==
    ASSUME Crash, LocksInv'
    PROVE  ExclusionInv'
<1>1. ASSUME NEW p \in Plans
      PROVE  /\ run'[p].pc \in {"idle", "dead"}
             /\ run'[p].stale = {}
             /\ run'[p].acquired \cup run'[p].held = {}
  BY DEF Crash, NotStarted
<1>2. ASSUME NEW p \in Plans
      PROVE  Leased(locks', p, run'[p]) /\ Taken(locks', p, run'[p])
  BY <1>1, NotFirm DEF Firm, Locking, Timed
<1>. QED
  BY <1>1, <1>2 DEF ExclusionInv, OwnIds, Leased, Taken, Own

LEMMA ExclusionInvInductive ==
    ASSUME NothingReentered, LeasesCover, ExclusionInv, [Next]_vars
    PROVE  ExclusionInv'
<1>1. LocksInv'
  BY LocksInvInductive DEF ExclusionInv
<1>2. ASSUME NEW p \in Plans, StartPlan(p) \/ Continue(p) \/ ExecutorAnswers(p)
      PROVE  ExclusionInv'
  BY <1>1, <1>2, ExclusionPlan
<1>3. CASE Tick
  BY <1>1, <1>3, ExclusionTick
<1>4. CASE Crash
  BY <1>1, <1>4, ExclusionCrash
<1>5. CASE UNCHANGED vars
  <2>1. locks' = locks /\ run' = run
    BY <1>5 DEF vars
  <2>2. ASSUME NEW p \in Plans
        PROVE  /\ Leased(locks', p, run'[p])
               /\ Taken(locks', p, run'[p])
               /\ OwnIds(p, run'[p])
    BY <2>1 DEF ExclusionInv
  <2>3. ASSUME NEW p \in Plans, NEW id \in run'[p].stale
        PROVE  Over(id)'
    BY <2>1, <2>3 DEF ExclusionInv, Over, Passed, At
  <2>. QED
    BY <1>1, <2>2, <2>3 DEF ExclusionInv, Leased, Taken, Own
<1>. QED
  BY <1>2, <1>3, <1>4, <1>5 DEF Next

(* Whatever the plans, their approval checkpoints included, if every       *)
(* step's attempts fit in its lease and no step reenters a lock that an    *)
(* earlier one kept: a plan that works on a target has its lock, active    *)
(* and unexpired, whoever sweeps, conflicts, fails or crashes meanwhile    *)
(* (_executeStep, expireStaleLocks).                                       *)
THEOREM WorkAlwaysLocked ==
    ASSUME NothingReentered, LeasesCover
    PROVE  Spec => []WorkIsLocked
<1>1. ExclusionInv => WorkIsLocked
  <2>. SUFFICES ASSUME ExclusionInv, NEW p \in Plans, run[p].pc \in Timed,
                       NEW t \in TargetsOf(Current(p))
                PROVE  ActiveLock(t).owner = p
    BY DEF WorkIsLocked, Working
  <2>1. Own(locks, p, run[p], t) /\ locks[t].owner = p
    BY DEF ExclusionInv, Taken, Current, Own
  <2>2. t \in Targets
    <3>1. TypeInv /\ run[p].pc \in Holding
      BY DEF ExclusionInv, LocksInv, Timed, Holding
    <3>2. Current(p) \in Step
      BY <3>1, StepType DEF TypeInv, WellPlaced, Current
    <3>. QED
      BY <3>2, StepFields DEF TargetsOf
  <2>3. /\ Need(Current(p), run[p]) < locks[t].left
        /\ locks[t].left \in Nat
    BY <2>1, <2>2, WorkingRow
  <2>4. Need(Current(p), run[p]) \in Nat
    <3>1. Held(t) /\ locks[t].owner = p /\ ~Over(LockId(t))
      BY <2>1, <2>2, OwnIsNotOver, NobodyAssumption DEF Held, Own, Firm, ExclusionInv
    <3>. QED
      BY <2>2, <3>1, NeedType DEF ExclusionInv
  <2>5. ~Lapsed(t)
    BY <2>3, <2>4 DEF Lapsed
  <2>. QED
    BY <2>1, <2>5 DEF ActiveLock
<1>2. Init => ExclusionInv
  BY ExclusionInit
<1>3. ExclusionInv /\ [Next]_vars => ExclusionInv'
  BY ExclusionInvInductive
<1>. QED
  BY <1>1, <1>2, <1>3, PTL DEF Spec

-----------------------------------------------------------------------------
(***************************************************************************)
(* Refinement: every step of the engine begins or ends the work of a plan, *)
(* crashes, or leaves the work of all plans as it is.                      *)
(***************************************************************************)
TheWork == [p \in Plans |-> Working(p)]

LEMMA WorkingTargets ==
    ASSUME TypeInv, NEW p \in Plans,
           run[p].pc \in {"ready"} \cup Timed
    PROVE  TargetsOf(Current(p)) \subseteq Targets
<1>1. run[p].pc \in Holding
  BY DEF Timed, Holding
<1>2. Current(p) \in Step
  BY <1>1, StepType DEF TypeInv, WellPlaced, Current
<1>. QED
  BY <1>2, StepFields DEF TargetsOf

(* The locks of two plans that are past locking are on different targets.  *)
LEMMA Disjoint ==
    ASSUME ExclusionInv, NEW p \in Plans, NEW q \in Plans \ {p},
           run[p].pc \in {"ready"} \cup Timed
    PROVE  Working(q) \cap TargetsOf(Current(p)) = {}
<1>1. \A t \in TargetsOf(Current(p)) : locks[t].owner = p
  BY DEF ExclusionInv, Taken, Own, Current
<1>2. \A t \in Working(q) : locks[t].owner = q
  BY DEF Working, ExclusionInv, Taken, Own, Current
<1>. QED
  BY <1>1, <1>2

LEMMA RefinePlan ==
    ASSUME NothingReentered, LeasesCover, ExclusionInv, NEW p \in Plans,
           StartPlan(p) \/ Continue(p) \/ ExecutorAnswers(p)
    PROVE  Mutex!Next \/ TheWork' = TheWork
<1>1. PICK r \in Run : Moves(p, r)
  BY MovesChoose, MovesAcquire, MovesExecute DEF Continue
<1>2. /\ run'[p] = r
      /\ \A q \in Plans \ {p} : run'[q] = run[q]
      /\ TypeInv
  BY <1>1, BecomeOne DEF Moves, ExclusionInv, LocksInv, TypeInv, TypeOK
<1>3. \A q \in Plans \ {p} : Working(q)' = Working(q)
  BY <1>2 DEF Working, Current
<1>4. TheWork' = [TheWork EXCEPT ![p] = Working(p)']
  BY <1>3 DEF TheWork
<1>5. CASE r.pc \notin Timed
  <2>1. Working(p)' = {}
    BY <1>2, <1>5 DEF Working
  <2>2. Mutex!End(p)
    BY <1>4, <2>1 DEF Mutex!End, TheWork
  <2>. QED
    BY <2>2 DEF Mutex!Next
<1>6. CASE r.pc \in Timed /\ run[p].pc \in Timed
  <2>1. r.step = run[p].step
    BY <1>1, <1>6 DEF Moves
  <2>2. Working(p)' = Working(p)
    BY <1>2, <1>6, <2>1 DEF Working, Current
  <2>. QED
    BY <1>4, <2>2 DEF TheWork
<1>7. CASE r.pc \in Timed /\ run[p].pc \notin Timed
  <2>1. run[p].pc = "ready" /\ r.step = run[p].step
    BY <1>1, <1>7 DEF Moves
  <2>2. Working(p)' = TargetsOf(Current(p)) /\ Working(p) = {}
    BY <1>2, <1>7, <2>1 DEF Working, Current
  <2>3. TargetsOf(Current(p)) \in SUBSET Targets
    BY <1>2, <2>1, WorkingTargets
  <2>4. \A q \in Plans \ {p} : Working(q) \cap TargetsOf(Current(p)) = {}
    BY <2>1, Disjoint
  <2>5. Mutex!Begin(p)
    BY <1>4, <2>2, <2>3, <2>4 DEF Mutex!Begin, TheWork
  <2>. QED
    BY <2>5 DEF Mutex!Next
<1>. QED
  BY <1>5, <1>6, <1>7

LEMMA RefineTime ==
    ASSUME ExclusionInv, Tick \/ Crash \/ UNCHANGED vars
    PROVE  Mutex!Next \/ TheWork' = TheWork
<1>1. CASE Tick
  <2>1. run \in [Plans -> Run]
    BY DEF ExclusionInv, LocksInv, TypeInv, TypeOK
  <2>2. ASSUME NEW p \in Plans
        PROVE  run'[p].pc = run[p].pc /\ run'[p].step = run[p].step
    <3>1. run'[p] = IF run[p].pc \in Timed
                    THEN [run[p] EXCEPT !.timer = @ - 1] ELSE run[p]
      BY <1>1 DEF Tick
    <3>. QED
      BY <2>1, <3>1 DEF Run
  <2>. QED
    BY <2>2 DEF TheWork, Working, Current
<1>2. CASE Crash
  <2>1. \A p \in Plans : run'[p].pc \notin Timed
    BY <1>2 DEF Crash, NotStarted, Timed
  <2>2. Mutex!Crash
    BY <2>1 DEF Mutex!Crash, Working
  <2>. QED
    BY <2>2 DEF Mutex!Next
<1>3. CASE UNCHANGED vars
  BY <1>3 DEF vars, TheWork, Working, Current
<1>. QED
  BY <1>1, <1>2, <1>3

(* For any plans, steps and targets, where leases cover the steps and no   *)
(* step reenters a lock kept at an approval: the lock table, though taken  *)
(* row by row after SELECTs that may be out of date, implements plans that *)
(* take all the targets of a step at once and exclusively                  *)
(* (_acquireStepLocks, acquireLock, _executeStep, _releaseStepLocks).      *)
THEOREM LocksImplementExclusion ==
    ASSUME NothingReentered, LeasesCover
    PROVE  Spec => TargetsAreExclusive
<1>1. Init => ExclusionInv
  BY ExclusionInit
<1>2. ExclusionInv /\ [Next]_vars => ExclusionInv'
  BY ExclusionInvInductive
<1>3. Init => Mutex!Init
  BY DEF Init, NotStarted, Working, Timed, Mutex!Init
<1>4. ExclusionInv /\ [Next]_vars => [Mutex!Next]_TheWork
  <2>. SUFFICES ASSUME ExclusionInv, [Next]_vars
                PROVE  Mutex!Next \/ TheWork' = TheWork
    OBVIOUS
  <2>1. ASSUME NEW p \in Plans, StartPlan(p) \/ Continue(p) \/ ExecutorAnswers(p)
        PROVE  Mutex!Next \/ TheWork' = TheWork
    BY <2>1, RefinePlan
  <2>. QED
    BY <2>1, RefineTime DEF Next
<1>5. TheWork = [p \in Plans |-> Working(p)]
  BY DEF TheWork
<1>. QED
  BY <1>1, <1>2, <1>3, <1>4, PTL DEF Spec, TargetsAreExclusive, Mutex!Spec, TheWork
=============================================================================
