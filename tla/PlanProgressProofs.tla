------------------------- MODULE PlanProgressProofs -------------------------
(***************************************************************************)
(* Proofs about the course of a plan: what its steps' states say of their  *)
(* dependencies, of an abort and of the outcome, for plans of any steps.   *)
(***************************************************************************)
EXTENDS PlanExecutionProofs

Decided == {"completed", "failed", "skipped", "blocked"}

(* The states the current step can be in, by where its plan is.            *)
Reached(pc) ==
    IF pc \in {"idle", "step"} \cup Acquiring THEN {"pending"}
    ELSE IF pc = "ready" THEN {"ready"}
    ELSE IF pc \in Timed THEN {"running", "retrying"}
    ELSE IF pc = "release" THEN {"completed", "failed"}
    ELSE StepStatus

DependenciesMet(p, i, st) ==
    \A d \in Steps[p][i].dependsOn : d \in StepsOf(p) /\ st[d] \in {"completed", "skipped"}

Aborting(p, i, st) ==
    st[i] = "failed" /\ Steps[p][i].aborts /\ ~Steps[p][i].needsApproval

(* What the step states say whatever becomes of the plan.                  *)
Told(p, st) ==
    /\ \A i \in StepsOf(p) : st[i] \notin {"pending", "blocked"} => DependenciesMet(p, i, st)
    /\ \A i, j \in StepsOf(p) : Aborting(p, i, st) /\ j > i => st[j] = "pending"

(* Where a plan that lives has got to: the steps before the current one    *)
(* are decided, none of them aborting, and those after it untouched.       *)
OnCourse(p, r, st) ==
    /\ \A j \in StepsOf(p) : j < r.step => st[j] \in Decided /\ ~Aborting(p, j, st)
    /\ \A j \in StepsOf(p) : j > r.step => st[j] = "pending"
    /\ r.step \in StepsOf(p) => st[r.step] \in Reached(r.pc)
    /\ r.pc \in Acquiring \cup Holding => DependenciesMet(p, r.step, st)
    /\ r.pc = "release" /\ Aborting(p, r.step, st) => r.thrown
    /\ r.pc = "done" => r.step \notin StepsOf(p)
    /\ r.pc = "idle" => r.step = 1

Progress(p, r, st) == Told(p, st) /\ (r.pc # "dead" => OnCourse(p, r, st))

ProgressInv == TypeInv /\ \A p \in Plans : Progress(p, run[p], status[p])

-----------------------------------------------------------------------------
(***************************************************************************)
(* The four ways in which a step of a plan moves it.                       *)
(***************************************************************************)

(* It leaves place, step and error as they are.                            *)
LEMMA ProgressSame ==
    ASSUME NEW p, NEW r, NEW x, NEW st, Progress(p, r, st),
           x.pc = r.pc, x.step = r.step, x.thrown = r.thrown
    PROVE  Progress(p, x, st)
BY DEF Progress, OnCourse

(* It goes on within the step, or leaves the plan.                         *)
LEMMA ProgressWithin ==
    ASSUME NEW p, NEW r, NEW x, NEW st, Progress(p, r, st),
           r.pc # "dead", x.step = r.step, x.pc \notin {"idle", "done"},
           r.step \in StepsOf(p) => st[r.step] \in Reached(x.pc),
           x.pc \in Acquiring \cup Holding => DependenciesMet(p, r.step, st),
           x.pc # "release"
    PROVE  Progress(p, x, st)
BY DEF Progress, OnCourse

(* The state of the current step is changed: it was not completed, so no   *)
(* step that waited for its dependencies waited for this one.              *)
LEMMA ToldStatus ==
    ASSUME NEW p \in Plans, NEW r, NEW st \in [StepsOf(p) -> StepStatus],
           Progress(p, r, st), r.pc # "dead",
           r.step \in StepsOf(p), st[r.step] \notin {"completed", "skipped"},
           NEW s \in StepStatus, s = "blocked" \/ DependenciesMet(p, r.step, st),
           s # "pending"
    PROVE  LET new == [st EXCEPT ![r.step] = s] IN
           /\ Told(p, new)
           /\ new[r.step] = s
           /\ \A j \in StepsOf(p) : j # r.step => new[j] = st[j]
           /\ \A i \in StepsOf(p) : DependenciesMet(p, i, st) => DependenciesMet(p, i, new)
<1>. DEFINE new == [st EXCEPT ![r.step] = s]
            k == r.step
<1>1. new[k] = s /\ \A j \in StepsOf(p) : j # k => new[j] = st[j]
  OBVIOUS
<1>2. ASSUME NEW i \in StepsOf(p), DependenciesMet(p, i, st)
      PROVE  DependenciesMet(p, i, new)
  BY <1>1, <1>2 DEF DependenciesMet
<1>. HIDE DEF new
<1>3. ASSUME NEW i \in StepsOf(p), new[i] \notin {"pending", "blocked"}
      PROVE  DependenciesMet(p, i, new)
  <2>1. CASE i = k
    BY <1>1, <1>2, <1>3, <2>1
  <2>2. CASE i # k
    <3>1. DependenciesMet(p, i, st)
      BY <1>1, <1>3, <2>2 DEF Progress, Told
    <3>. QED
      BY <1>2, <3>1
  <2>. QED
    BY <2>1, <2>2
<1>4. ASSUME NEW i \in StepsOf(p), NEW j \in StepsOf(p), Aborting(p, i, new), j > i
      PROVE  new[j] = "pending"
  <2>0. i \in Nat /\ j \in Nat /\ k \in Nat
    BY StepsOfPositive
  <2>1. OnCourse(p, r, st)
    BY DEF Progress
  <2>2. CASE i = k
    BY <1>1, <1>4, <2>0, <2>1, <2>2 DEF OnCourse
  <2>3. CASE i < k
    <3>1. ~Aborting(p, i, st)
      BY <2>1, <2>3 DEF OnCourse
    <3>2. new[i] = st[i]
      BY <1>1, <2>0, <2>3
    <3>. QED
      BY <1>4, <3>1, <3>2 DEF Aborting
  <2>4. CASE i > k
    <3>1. st[i] = "pending" /\ new[i] = st[i]
      BY <1>1, <2>0, <2>1, <2>4 DEF OnCourse
    <3>. QED
      BY <1>4, <3>1 DEF Aborting
  <2>. QED
    BY <2>0, <2>2, <2>3, <2>4
<1>5. Told(p, new)
  BY <1>3, <1>4 DEF Told
<1>. QED
  BY <1>1, <1>2, <1>5 DEF new

(* The state of the current step changes, within the step or on leaving    *)
(* the plan.                                                               *)
LEMMA ProgressSets ==
    ASSUME NEW p \in Plans, NEW r, NEW x, NEW st \in [StepsOf(p) -> StepStatus],
           Progress(p, r, st), r.pc # "dead",
           r.step \in StepsOf(p), st[r.step] \notin {"completed", "skipped"},
           NEW s \in StepStatus, DependenciesMet(p, r.step, st), s # "pending",
           x.step = r.step, x.pc \notin {"idle", "done"}, s \in Reached(x.pc),
           x.pc = "release" /\ s = "failed" => x.thrown = Steps[p][r.step].aborts
    PROVE  Progress(p, x, [st EXCEPT ![r.step] = s])
<1>. DEFINE new == [st EXCEPT ![r.step] = s]
            k == r.step
<1>1. /\ Told(p, new)
      /\ new[k] = s
      /\ \A j \in StepsOf(p) : j # k => new[j] = st[j]
      /\ DependenciesMet(p, k, new)
  BY ToldStatus
<1>. HIDE DEF new
<1>2. OnCourse(p, r, st)
  BY DEF Progress
<1>3. \A j \in StepsOf(p) : j \in Nat
  BY StepsOfPositive
<1>4. ASSUME NEW j \in StepsOf(p), j < k
      PROVE  new[j] \in Decided /\ ~Aborting(p, j, new)
  <2>1. new[j] = st[j]
    BY <1>1, <1>3, <1>4
  <2>. QED
    BY <1>2, <1>4, <2>1 DEF OnCourse, Aborting
<1>5. ASSUME NEW j \in StepsOf(p), j > k
      PROVE  new[j] = "pending"
  BY <1>1, <1>2, <1>3, <1>5 DEF OnCourse
<1>6. x.pc = "release" /\ Aborting(p, k, new) => x.thrown
  BY <1>1 DEF Aborting
<1>7. OnCourse(p, x, new)
  BY <1>1, <1>4, <1>5, <1>6 DEF OnCourse
<1>. QED
  BY <1>1, <1>7 DEF Progress, new

(* On to the next step, when this one is decided and aborts nothing.       *)
LEMMA ProgressNext ==
    ASSUME NEW p \in Plans, NEW r, NEW x, NEW st, NEW new, Progress(p, r, st), r.pc # "dead",
           r.step \in StepsOf(p), x.pc = "step", x.step = r.step + 1,
           Told(p, new), \A j \in StepsOf(p) : j # r.step => new[j] = st[j],
           new[r.step] \in Decided, ~Aborting(p, r.step, new)
    PROVE  Progress(p, x, new)
<1>. DEFINE k == r.step
<1>1. OnCourse(p, r, st)
  BY DEF Progress
<1>2. k \in Nat /\ \A j \in StepsOf(p) : j \in Nat
  BY StepsOfPositive
<1>3. ASSUME NEW j \in StepsOf(p), j < k + 1
      PROVE  new[j] \in Decided /\ ~Aborting(p, j, new)
  <2>1. CASE j = k
    BY <2>1
  <2>2. CASE j # k
    <3>1. new[j] = st[j] /\ j < k
      BY <1>2, <1>3, <2>2
    <3>. QED
      BY <1>1, <3>1 DEF OnCourse, Aborting
  <2>. QED
    BY <2>1, <2>2
<1>4. ASSUME NEW j \in StepsOf(p), j > k
      PROVE  new[j] = "pending"
  BY <1>1, <1>2, <1>4 DEF OnCourse
<1>5. \A j \in StepsOf(p) : j > k + 1 => new[j] = "pending"
  BY <1>2, <1>4
<1>6. k + 1 \in StepsOf(p) => new[k + 1] \in Reached("step")
  BY <1>2, <1>4 DEF Reached
<1>7. x.pc \notin Acquiring \cup Holding \cup {"release", "done", "idle"}
  BY DEF Acquiring, Locking, Holding
<1>8. OnCourse(p, x, new)
  BY <1>3, <1>5, <1>6, <1>7 DEF OnCourse
<1>. QED
  BY <1>8 DEF Progress

-----------------------------------------------------------------------------
(***************************************************************************)
(* The actions.                                                            *)
(***************************************************************************)

(* What a plan's step does to the records and states of the plans.         *)
LEMMA Moved ==
    ASSUME TypeInv, NEW p \in Plans
    PROVE  /\ run[p] \in Run
           /\ status[p] \in [StepsOf(p) -> StepStatus]
           /\ \A r : Become(p, r) => run'[p] = r
           /\ \A s : SetStatus(p, s) => status'[p] = [status[p] EXCEPT ![run[p].step] = s]
           /\ run[p].pc \in Acquiring \cup Holding => run[p].step \in StepsOf(p)
BY DEF TypeInv, TypeOK, Become, SetStatus, WellPlaced

LEMMA FieldsOnLeaving ==
    ASSUME NEW r \in Run
    PROVE  /\ NextStep(r).pc = "step" /\ NextStep(r).step = r.step + 1
           /\ Fail(r).pc = "failed" /\ Fail(r).step = r.step
BY NextStepType, FailType

(* What the state of the current step is, where its plan is.               *)
LEMMA CurrentStatus ==
    ASSUME TypeInv, NEW p \in Plans, Progress(p, run[p], status[p]),
           run[p].pc \in {"step"} \cup Acquiring \cup Holding, run[p].step \in StepsOf(p)
    PROVE  /\ run[p].pc \in {"step"} \cup Acquiring => status[p][run[p].step] = "pending"
           /\ run[p].pc = "ready" => status[p][run[p].step] = "ready"
           /\ run[p].pc \in Timed => status[p][run[p].step] \in {"running", "retrying"}
           /\ run[p].pc = "release" => status[p][run[p].step] \in {"completed", "failed"}
           /\ run[p].pc # "dead"
           /\ run[p].pc \in Acquiring \cup Holding
                  => DependenciesMet(p, run[p].step, status[p])
<1>1. run[p].pc # "dead"
  BY DEF Acquiring, Locking, Holding
<1>2. OnCourse(p, run[p], status[p])
  BY <1>1 DEF Progress
<1>3. status[p][run[p].step] \in Reached(run[p].pc)
  BY <1>2 DEF OnCourse
<1>. QED
  BY <1>1, <1>2, <1>3 DEF OnCourse, Reached, Acquiring, Locking, Timed

(* A step is decided without having been worked on.                        *)
LEMMA ProgressPasses ==
    ASSUME TypeInv, NEW p \in Plans, Progress(p, run[p], status[p]),
           run[p].pc \in {"step"} \cup Acquiring \cup {"ready"}, run[p].step \in StepsOf(p),
           Become(p, NextStep(run[p])), NEW s \in Decided, SetStatus(p, s),
           s = "blocked" \/ DependenciesMet(p, run[p].step, status[p]),
           s = "failed" => Current(p).needsApproval
    PROVE  Progress(p, run'[p], status'[p])
<1>. DEFINE st == status[p]
            new == [st EXCEPT ![run[p].step] = s]
<1>1. /\ st \in [StepsOf(p) -> StepStatus]
      /\ run'[p] = NextStep(run[p]) /\ status'[p] = new
      /\ run'[p].pc = "step" /\ run'[p].step = run[p].step + 1
  BY Moved, FieldsOnLeaving
<1>2. st[run[p].step] \notin {"completed", "skipped"} /\ run[p].pc # "dead"
  BY CurrentStatus DEF Holding
<1>3. s \in StepStatus /\ s # "pending"
  BY DEF Decided, StepStatus
<1>4. /\ Told(p, new)
      /\ new[run[p].step] = s
      /\ \A j \in StepsOf(p) : j # run[p].step => new[j] = st[j]
  BY <1>1, <1>2, <1>3, ToldStatus
<1>. HIDE DEF new
<1>5. ~Aborting(p, run[p].step, new)
  BY <1>4 DEF Aborting, Current
<1>. QED
  BY <1>1, <1>2, <1>4, <1>5, ProgressNext

LEMMA ProgressChoose ==
    ASSUME TypeInv, NEW p \in Plans, Progress(p, run[p], status[p]),
           StartPlan(p) \/ ChooseStep(p)
    PROVE  Progress(p, run'[p], status'[p])
<1>. DEFINE r == run[p]
            st == status[p]
<1>1. r \in Run /\ st \in [StepsOf(p) -> StepStatus]
  BY Moved
<1>2. CASE StartPlan(p)
  <2>. DEFINE x == [r EXCEPT !.pc = "step"]
  <2>1. run'[p] = x /\ status'[p] = st /\ r.pc = "idle"
    BY <1>2, Moved DEF StartPlan, At
  <2>2. x.pc = "step" /\ x.step = r.step
    BY <1>1 DEF Run
  <2>3. r.step \in StepsOf(p) => st[r.step] \in Reached(x.pc)
    BY <2>1, <2>2 DEF Progress, OnCourse, Reached
  <2>4. x.pc \notin Acquiring \cup Holding
    BY <2>2 DEF Acquiring, Locking, Holding
  <2>. HIDE DEF x
  <2>. QED
    BY <2>1, <2>2, <2>3, <2>4, ProgressWithin
<1>3. CASE BlockStep(p)
  BY <1>3, ProgressPasses DEF BlockStep, At, Decided
<1>4. CASE SkipStep(p)
  <2>1. DependenciesMet(p, r.step, st)
    BY <1>4 DEF SkipStep, DependenciesSatisfied, DependenciesMet, Current
  <2>. QED
    BY <1>4, <2>1, ProgressPasses DEF SkipStep, At, Decided
<1>5. CASE EnterStep(p)
  <2>1. r.pc = "step" /\ r.step \in StepsOf(p) /\ DependenciesMet(p, r.step, st)
    BY <1>5 DEF EnterStep, At, DependenciesSatisfied, DependenciesMet, Current
  <2>2. st[r.step] = "pending"
    BY <2>1, CurrentStatus
  <2>3. CASE Current(p).targets = << >>
    <3>. DEFINE x == [r EXCEPT !.pc = "ready"]
    <3>1. run'[p] = x /\ status'[p] = [st EXCEPT ![r.step] = "ready"]
      BY <1>5, <2>3, Moved DEF EnterStep
    <3>2. x.pc = "ready" /\ x.step = r.step
      BY <1>1 DEF Run
    <3>3. "ready" \in StepStatus /\ "ready" \in Reached(x.pc)
      BY <3>2 DEF StepStatus, Reached, Acquiring, Locking
    <3>. HIDE DEF x
    <3>. QED
      BY <1>1, <2>1, <2>2, <3>1, <3>2, <3>3, ProgressSets
  <2>4. CASE Current(p).targets # << >>
    <3>. DEFINE x == [r EXCEPT !.pc = "sweep", !.next = 1]
    <3>1. run'[p] = x /\ status'[p] = st
      BY <1>5, <2>4, Moved DEF EnterStep
    <3>2. x.pc = "sweep" /\ x.step = r.step
      BY <1>1 DEF Run
    <3>3. st[r.step] \in Reached(x.pc)
      BY <2>2, <3>2 DEF Reached, Acquiring, Locking
    <3>. HIDE DEF x
    <3>. QED
      BY <2>1, <3>1, <3>2, <3>3, ProgressWithin
  <2>. QED
    BY <2>3, <2>4
<1>6. CASE FinishPlan(p)
  <2>. DEFINE x == [r EXCEPT !.pc = "done"]
  <2>1. run'[p] = x /\ status'[p] = st /\ r.pc = "step" /\ r.step \notin StepsOf(p)
    BY <1>6, Moved DEF FinishPlan, At
  <2>2. x.pc = "done" /\ x.step = r.step
    BY <1>1 DEF Run
  <2>3. x.pc \notin Acquiring \cup Holding
    BY <2>2 DEF Acquiring, Locking, Holding
  <2>. HIDE DEF x
  <2>. QED
    BY <2>1, <2>2, <2>3 DEF Progress, OnCourse
<1>. QED
  BY <1>2, <1>3, <1>4, <1>5, <1>6 DEF ChooseStep

(* While the step's locks are taken or rolled back.                        *)
LEMMA ProgressLocking ==
    ASSUME TypeInv, NEW p \in Plans, Progress(p, run[p], status[p]),
           run[p].pc \in Acquiring, NEW x, Become(p, x), UNCHANGED status,
           x.pc \in Acquiring \cup {"failed"}, x.step = run[p].step
    PROVE  Progress(p, run'[p], status'[p])
<1>1. run[p].step \in StepsOf(p) /\ run'[p] = x /\ status'[p] = status[p]
  BY Moved
<1>2. /\ status[p][run[p].step] = "pending" /\ run[p].pc # "dead"
      /\ DependenciesMet(p, run[p].step, status[p])
  BY <1>1, CurrentStatus
<1>3. status[p][run[p].step] \in Reached(x.pc)
  BY <1>2 DEF Reached, Acquiring, Locking, Timed, StepStatus
<1>4. x.pc \notin {"idle", "done", "release"}
  BY DEF Acquiring, Locking
<1>. QED
  BY <1>1, <1>2, <1>3, <1>4, ProgressWithin

LEMMA ProgressAcquired ==
    ASSUME TypeInv, NEW p \in Plans, Progress(p, run[p], status[p]), At(p, "decide"),
           NEW id, Acquired(p, id)
    PROVE  Progress(p, run'[p], status'[p])
<1>. DEFINE r == run[p]
            st == status[p]
            ids == r.acquired \cup {id}
<1>1. /\ r \in Run /\ st \in [StepsOf(p) -> StepStatus]
      /\ r.pc \in Acquiring /\ r.step \in StepsOf(p)
  BY Moved DEF At, Acquiring, Locking
<1>2. st[r.step] = "pending" /\ r.pc # "dead" /\ DependenciesMet(p, r.step, st)
  BY <1>1, CurrentStatus
<1>3. CASE r.next < Len(Current(p).targets)
  <2>. DEFINE x == [r EXCEPT !.pc = "sweep", !.next = @ + 1, !.seen = NoLock,
                             !.acquired = ids]
  <2>1. Become(p, x) /\ UNCHANGED status
    BY <1>3 DEF Acquired
  <2>2. x.pc = "sweep" /\ x.step = r.step
    BY <1>1 DEF Run
  <2>. HIDE DEF x
  <2>. QED
    BY <1>1, <2>1, <2>2, ProgressLocking DEF Acquiring, Locking
<1>4. CASE ~(r.next < Len(Current(p).targets))
  <2>. DEFINE x == [r EXCEPT !.pc = "ready", !.next = 0, !.seen = NoLock,
                             !.acquired = {}, !.held = @ \cup ids]
  <2>1. run'[p] = x /\ status'[p] = [st EXCEPT ![r.step] = "ready"]
    BY <1>4, Moved DEF Acquired
  <2>2. x.pc = "ready" /\ x.step = r.step
    BY <1>1 DEF Run
  <2>3. "ready" \in StepStatus /\ "ready" \in Reached(x.pc)
    BY <2>2 DEF StepStatus, Reached, Acquiring, Locking
  <2>. HIDE DEF x
  <2>. QED
    BY <1>1, <1>2, <2>1, <2>2, <2>3, ProgressSets
<1>. QED
  BY <1>3, <1>4

LEMMA ProgressAcquire ==
    ASSUME TypeInv, NEW p \in Plans, Progress(p, run[p], status[p]), AcquireStepLocks(p)
    PROVE  Progress(p, run'[p], status'[p])
<1>. DEFINE r == run[p]
<1>1. r \in Run
  BY Moved
<1>2. CASE Sweep(p)
  BY <1>1, <1>2, ProgressLocking DEF Sweep, At, Run, Acquiring, Locking
<1>3. CASE MarkExpired(p)
  BY <1>1, <1>3, ProgressLocking DEF MarkExpired, At, Run, Acquiring, Locking
<1>4. CASE ReadLock(p)
  BY <1>1, <1>4, ProgressLocking DEF ReadLock, At, Run, Acquiring, Locking
<1>5. CASE TakeLock(p) \/ ReenterLock(p)
  BY <1>5, ProgressAcquired DEF TakeLock, ReenterLock
<1>6. CASE Conflict(p)
  BY <1>1, <1>6, ProgressLocking DEF Conflict, At, Run, Acquiring, Locking
<1>7. CASE InsertFails(p)
  BY <1>1, <1>7, ProgressLocking DEF InsertFails, At, Run, Acquiring, Locking
<1>8. CASE RollbackLock(p)
  BY <1>1, <1>8, ProgressLocking DEF RollbackLock, At, Run, Acquiring, Locking
<1>9. CASE EndRollback(p)
  <2>1. r.pc = "rollback" /\ r.pc \in Acquiring
    BY <1>9 DEF EndRollback, At, Acquiring
  <2>2. CASE r.thrown
    <3>1. Become(p, Fail(r)) /\ UNCHANGED status
      BY <1>9, <2>2 DEF EndRollback
    <3>. QED
      BY <1>1, <2>1, <3>1, FieldsOnLeaving, ProgressLocking
  <2>3. CASE ~r.thrown
    <3>1. Become(p, NextStep(r)) /\ SetStatus(p, "blocked")
      BY <1>9, <2>3 DEF EndRollback
    <3>2. r.step \in StepsOf(p)
      BY <2>1, Moved
    <3>. QED
      BY <2>1, <3>1, <3>2, ProgressPasses DEF Decided
  <2>. QED
    BY <2>2, <2>3
<1>. QED
  BY <1>2, <1>3, <1>4, <1>5, <1>6, <1>7, <1>8, <1>9 DEF AcquireStepLocks

(* While the step is worked on: its state changes, and an error that comes *)
(* with a failure is the abort's.                                          *)
LEMMA ProgressWorking ==
    ASSUME TypeInv, NEW p \in Plans, Progress(p, run[p], status[p]),
           run[p].pc \in {"ready"} \cup Timed, NEW x, Become(p, x),
           x.step = run[p].step, x.pc \in Holding \cup {"failed"},
           NEW s \in StepStatus, SetStatus(p, s), s \in Reached(x.pc), s # "pending",
           x.pc = "release" /\ s = "failed" => x.thrown = Current(p).aborts
    PROVE  Progress(p, run'[p], status'[p])
<1>. DEFINE st == status[p]
<1>1. /\ st \in [StepsOf(p) -> StepStatus]
      /\ run[p].pc \in Holding /\ run[p].step \in StepsOf(p)
      /\ run'[p] = x /\ status'[p] = [st EXCEPT ![run[p].step] = s]
  BY Moved DEF Holding, Timed
<1>2. /\ st[run[p].step] \notin {"completed", "skipped"} /\ run[p].pc # "dead"
      /\ DependenciesMet(p, run[p].step, st)
  BY <1>1, CurrentStatus
<1>3. x.pc \notin {"idle", "done"}
  BY DEF Holding
<1>. QED
  BY <1>1, <1>2, <1>3, ProgressSets DEF Current

(* Its state stays.                                                        *)
LEMMA ProgressWaiting ==
    ASSUME TypeInv, NEW p \in Plans, Progress(p, run[p], status[p]),
           run[p].pc \in Timed, NEW x, Become(p, x), UNCHANGED status,
           x.step = run[p].step, x.pc \in Timed
    PROVE  Progress(p, run'[p], status'[p])
<1>1. /\ run[p].pc \in Holding /\ run[p].step \in StepsOf(p)
      /\ run'[p] = x /\ status'[p] = status[p]
  BY Moved DEF Holding, Timed
<1>2. /\ status[p][run[p].step] \in {"running", "retrying"} /\ run[p].pc # "dead"
      /\ DependenciesMet(p, run[p].step, status[p])
  BY <1>1, CurrentStatus
<1>3. /\ status[p][run[p].step] \in Reached(x.pc)
      /\ x.pc \notin {"idle", "done", "release"}
  BY <1>2 DEF Reached, Acquiring, Locking, Timed
<1>. QED
  BY <1>1, <1>2, <1>3, ProgressWithin

LEMMA ProgressAttempt ==
    ASSUME TypeInv, NEW p \in Plans, Progress(p, run[p], status[p]),
           run[p].pc \in Timed,
           Completed(p) \/ \E orphans : AttemptFails(p, orphans)
    PROVE  Progress(p, run'[p], status'[p])
<1>1. run[p] \in Run
  BY Moved
<1>2. {"completed", "failed"} \subseteq StepStatus /\ {"completed", "failed"} \subseteq Reached("release")
  BY DEF StepStatus, Reached, Acquiring, Locking, Timed
<1>3. CASE Completed(p)
  <2>. DEFINE x == [run[p] EXCEPT !.pc = "release", !.timer = 0]
  <2>1. Become(p, x) /\ SetStatus(p, "completed")
    BY <1>3 DEF Completed
  <2>2. x.pc = "release" /\ x.step = run[p].step
    BY <1>1 DEF Run
  <2>. HIDE DEF x
  <2>. QED
    BY <1>2, <2>1, <2>2, ProgressWorking DEF Holding
<1>4. ASSUME NEW orphans, AttemptFails(p, orphans)
      PROVE  Progress(p, run'[p], status'[p])
  <2>. DEFINE s == Current(p)
              r == [run[p] EXCEPT !.orphans = orphans]
              again == [r EXCEPT !.pc = "waiting", !.timer = RetryDelay(s, r.attempt)]
              end == [r EXCEPT !.pc = "release", !.timer = 0, !.thrown = s.aborts]
  <2>1. /\ again.pc = "waiting" /\ again.step = run[p].step
        /\ end.pc = "release" /\ end.step = run[p].step /\ end.thrown = s.aborts
    BY <1>1 DEF Run
  <2>2. \/ Become(p, again) /\ UNCHANGED status
        \/ Become(p, end) /\ SetStatus(p, "failed")
    BY <1>4 DEF AttemptFails
  <2>. HIDE DEF again, end
  <2>3. CASE Become(p, again) /\ UNCHANGED status
    BY <2>1, <2>3, ProgressWaiting DEF Timed
  <2>4. CASE Become(p, end) /\ SetStatus(p, "failed")
    BY <1>2, <2>1, <2>4, ProgressWorking DEF Holding
  <2>. QED
    BY <2>2, <2>3, <2>4
<1>. QED
  BY <1>3, <1>4

LEMMA ProgressActs ==
    ASSUME TypeInv, NEW p \in Plans, Progress(p, run[p], status[p]),
           run[p].pc \in {"ready"} \cup Timed, NEW a, Become(p, Acting(p, a)),
           NEW s \in {"running", "retrying"}, SetStatus(p, s)
    PROVE  Progress(p, run'[p], status'[p])
<1>1. Acting(p, a).pc = "acting" /\ Acting(p, a).step = run[p].step
  BY Moved DEF Acting, Run
<1>2. s \in StepStatus /\ s \in Reached("acting") /\ s # "pending"
  BY DEF StepStatus, Reached, Acquiring, Locking, Timed
<1>. QED
  BY <1>1, <1>2, ProgressWorking DEF Holding

LEMMA ProgressExecute ==
    ASSUME TypeInv, NEW p \in Plans, Progress(p, run[p], status[p]),
           ExecuteStep(p) \/ ExecutorAnswers(p)
    PROVE  Progress(p, run'[p], status'[p])
<1>. DEFINE r == run[p]
            st == status[p]
<1>1. r \in Run
  BY Moved
<1>2. CASE StartAction(p)
  BY <1>2, ProgressActs DEF StartAction, At
<1>3. CASE Retry(p)
  BY <1>3, ProgressActs DEF Retry, At, Timed
<1>4. CASE ResolveApproval(p)
  <2>1. PICK granted \in Approvals :
            /\ r.pc = "ready"
            /\ Current(p).needsApproval
            /\ Become(p, CASE HasLedger -> Fail(r)
                           [] ~HasLedger /\ granted -> Acting(p, 1)
                           [] ~HasLedger /\ ~granted -> NextStep(r))
            /\ SetStatus(p, CASE ~granted -> "failed"
                              [] granted /\ HasLedger -> "ready"
                              [] granted /\ ~HasLedger -> "running")
    BY <1>4 DEF ResolveApproval, At
  <2>2. granted \in BOOLEAN /\ HasLedger \in BOOLEAN
    BY BoundsAssumption
  <2>3. r.pc \in Holding /\ r.step \in StepsOf(p)
    BY <2>1, Moved DEF Holding
  <2>4. DependenciesMet(p, r.step, st)
    BY <2>3, CurrentStatus
  <2>5. CASE HasLedger
    <3>1. Become(p, Fail(r))
      BY <2>1, <2>5
    <3>2. SetStatus(p, "failed") \/ SetStatus(p, "ready")
      BY <2>1, <2>2, <2>5
    <3>3. {"failed", "ready"} \subseteq StepStatus /\ Reached("failed") = StepStatus
      BY DEF StepStatus, Reached, Acquiring, Locking, Timed
    <3>. QED
      BY <1>1, <2>1, <3>1, <3>2, <3>3, FieldsOnLeaving, ProgressWorking
  <2>6. CASE ~HasLedger /\ granted
    <3>1. Become(p, Acting(p, 1)) /\ SetStatus(p, "running")
      BY <2>1, <2>6
    <3>. QED
      BY <2>1, <3>1, ProgressActs
  <2>7. CASE ~HasLedger /\ ~granted
    <3>1. Become(p, NextStep(r)) /\ SetStatus(p, "failed")
      BY <2>1, <2>7
    <3>. QED
      BY <2>1, <2>3, <2>4, <3>1, ProgressPasses DEF Decided
  <2>. QED
    BY <2>2, <2>5, <2>6, <2>7
<1>5. CASE ActionReturns(p)
  <2>1. r.pc \in Timed
    BY <1>5 DEF ActionReturns, At, Timed
  <2>2. CASE Completed(p)
    BY <2>1, <2>2, ProgressAttempt
  <2>3. CASE ~Completed(p)
    <3>1. PICK x : /\ x = [r EXCEPT !.pc = "verifying", !.timer = Current(p).verify]
                   /\ Become(p, x) /\ UNCHANGED status
      BY <1>5, <2>3 DEF ActionReturns
    <3>2. x.pc = "verifying" /\ x.step = r.step
      BY <1>1, <3>1 DEF Run
    <3>. QED
      BY <2>1, <3>1, <3>2, ProgressWaiting DEF Timed
  <2>. QED
    BY <2>2, <2>3
<1>6. CASE ActionThrows(p) \/ ActionTimesOut(p) \/ VerificationThrows(p)
  BY <1>6, ProgressAttempt DEF ActionThrows, ActionTimesOut, VerificationThrows, At, Timed
<1>7. CASE VerificationReturns(p)
  BY <1>7, ProgressAttempt DEF VerificationReturns, At, Timed
<1>8. CASE OrphanEnds(p) \/ ReleaseStepLock(p)
  <2>1. /\ run'[p].pc = r.pc /\ run'[p].step = r.step /\ run'[p].thrown = r.thrown
        /\ status'[p] = st
    <3>1. PICK x : /\ \/ \E o : x = [r EXCEPT !.orphans = o]
                      \/ \E h : x = [r EXCEPT !.held = h]
                   /\ Become(p, x) /\ status' = status
      BY <1>8 DEF OrphanEnds, ReleaseStepLock
    <3>2. x.pc = r.pc /\ x.step = r.step /\ x.thrown = r.thrown
      BY <1>1, <3>1 DEF Run
    <3>. QED
      BY <3>1, <3>2, Moved
  <2>. QED
    BY <2>1, ProgressSame
<1>9. CASE EndStep(p)
  <2>1. /\ r.pc = "release" /\ r.pc \in Holding
        /\ r.pc # "dead" /\ r.step \in StepsOf(p) /\ status'[p] = st
    BY <1>9, Moved DEF EndStep, At, Holding
  <2>2. OnCourse(p, r, st) /\ Told(p, st)
    BY <2>1 DEF Progress
  <2>3. st[r.step] \in {"completed", "failed"}
    BY <2>1, CurrentStatus
  <2>4. CASE r.thrown
    <3>1. run'[p] = Fail(r)
      BY <1>9, <2>4, Moved DEF EndStep
    <3>2. run'[p].pc = "failed" /\ run'[p].step = r.step
      BY <1>1, <3>1, FieldsOnLeaving
    <3>3. st[r.step] \in Reached("failed") /\ "failed" \notin Acquiring \cup Holding
      BY <2>3 DEF Reached, StepStatus, Acquiring, Locking, Holding, Timed
    <3>. QED
      BY <2>1, <3>2, <3>3, ProgressWithin
  <2>5. CASE ~r.thrown
    <3>1. run'[p] = NextStep(r)
      BY <1>9, <2>5, Moved DEF EndStep
    <3>2. run'[p].pc = "step" /\ run'[p].step = r.step + 1
      BY <1>1, <3>1, FieldsOnLeaving
    <3>3. st[r.step] \in Decided /\ ~Aborting(p, r.step, st)
      BY <2>1, <2>2, <2>3, <2>5 DEF OnCourse, Decided
    <3>. QED
      BY <2>1, <2>2, <3>2, <3>3, ProgressNext
  <2>. QED
    BY <2>4, <2>5
<1>. QED
  BY <1>2, <1>3, <1>4, <1>5, <1>6, <1>7, <1>8, <1>9 DEF ExecuteStep, ExecutorAnswers

LEMMA ProgressTime ==
    ASSUME ProgressInv, Tick \/ Crash, NEW p \in Plans
    PROVE  Progress(p, run'[p], status'[p])
<1>1. /\ run[p] \in Run /\ status'[p] = status[p]
      /\ TypeInv /\ Progress(p, run[p], status[p])
  BY Moved DEF ProgressInv, Tick, Crash
<1>2. CASE Tick
  <2>1. run'[p] = IF run[p].pc \in Timed
                  THEN [run[p] EXCEPT !.timer = @ - 1] ELSE run[p]
    BY <1>2 DEF Tick
  <2>2. /\ run'[p].pc = run[p].pc /\ run'[p].step = run[p].step
        /\ run'[p].thrown = run[p].thrown
    BY <1>1, <2>1 DEF Run
  <2>. QED
    BY <1>1, <2>2, ProgressSame
<1>3. CASE Crash
  <2>1. /\ run'[p].pc = IF At(p, "idle") THEN "idle" ELSE "dead"
        /\ run'[p].step = 1
    BY <1>3 DEF Crash, NotStarted
  <2>2. CASE At(p, "idle")
    <3>1. run[p].pc = "idle" /\ run'[p].pc = "idle"
      BY <2>1, <2>2 DEF At
    <3>2. run[p].step = 1
      BY <1>1, <3>1 DEF Progress, OnCourse
    <3>3. OnCourse(p, run'[p], status[p])
      BY <1>1, <2>1, <3>1, <3>2 DEF Progress, OnCourse, Acquiring, Locking, Holding
    <3>. QED
      BY <1>1, <3>3 DEF Progress
  <2>3. CASE ~At(p, "idle")
    BY <1>1, <2>1, <2>3 DEF Progress
  <2>. QED
    BY <2>2, <2>3
<1>. QED
  BY <1>2, <1>3

(* A plan's step moves no other plan.                                      *)
LEMMA OthersStay ==
    ASSUME TypeInv, NEW p \in Plans, StartPlan(p) \/ Continue(p) \/ ExecutorAnswers(p),
           NEW q \in Plans \ {p}
    PROVE  run'[q] = run[q] /\ status'[q] = status[q]
<1>1. run \in [Plans -> Run] /\ DOMAIN status = Plans
  BY DEF TypeInv, TypeOK
<1>2. \A r : Become(p, r) => run'[q] = run[q]
  BY <1>1 DEF Become
<1>3. \A s : SetStatus(p, s) => status'[q] = status[q]
  BY <1>1 DEF SetStatus
<1>4. CASE StartPlan(p) \/ ChooseStep(p)
  BY <1>2, <1>3, <1>4 DEF StartPlan, ChooseStep, BlockStep, SkipStep, EnterStep, FinishPlan
<1>5. CASE AcquireStepLocks(p)
  <2>1. \A id : Acquired(p, id) => run'[q] = run[q] /\ status'[q] = status[q]
    BY <1>2, <1>3 DEF Acquired
  <2>. QED
    BY <1>2, <1>3, <1>5, <2>1 DEF AcquireStepLocks, Sweep, MarkExpired, ReadLock, TakeLock,
        ReenterLock, Conflict, InsertFails, RollbackLock, EndRollback
<1>6. CASE ExecuteStep(p) \/ ExecutorAnswers(p)
  <2>1. \A o : AttemptFails(p, o) => run'[q] = run[q] /\ status'[q] = status[q]
    BY <1>2, <1>3 DEF AttemptFails
  <2>2. Completed(p) => run'[q] = run[q] /\ status'[q] = status[q]
    BY <1>2, <1>3 DEF Completed
  <2>. QED
    BY <1>2, <1>3, <1>6, <2>1, <2>2 DEF ExecuteStep, ExecutorAnswers, StartAction,
        ResolveApproval, ActionReturns, ActionThrows, ActionTimesOut, VerificationReturns,
        VerificationThrows, Retry, OrphanEnds, ReleaseStepLock, EndStep
<1>. QED
  BY <1>4, <1>5, <1>6 DEF Continue

LEMMA ProgressInvariant == Spec => []ProgressInv
<1>1. Init => ProgressInv
  <2>. SUFFICES ASSUME Init, NEW p \in Plans
                PROVE  Progress(p, run[p], status[p])
    BY TypeInit DEF ProgressInv
  <2>1. run[p].pc = "idle" /\ run[p].step = 1
    BY DEF Init, NotStarted
  <2>2. \A i \in StepsOf(p) : status[p][i] = "pending" /\ i \in Nat \ {0}
    BY StepsOfPositive DEF Init
  <2>3. Told(p, status[p])
    BY <2>2 DEF Told, Aborting
  <2>4. OnCourse(p, run[p], status[p])
    BY <2>1, <2>2 DEF OnCourse, Reached, Acquiring, Locking, Holding
  <2>. QED
    BY <2>3, <2>4 DEF Progress
<1>2. ProgressInv /\ [Next]_vars => ProgressInv'
  <2>. SUFFICES ASSUME ProgressInv, [Next]_vars, NEW q \in Plans
                PROVE  Progress(q, run'[q], status'[q])
    BY TypeStep DEF ProgressInv
  <2>0. TypeInv /\ Progress(q, run[q], status[q])
    BY DEF ProgressInv
  <2>1. ASSUME NEW p \in Plans, StartPlan(p) \/ Continue(p) \/ ExecutorAnswers(p)
        PROVE  Progress(q, run'[q], status'[q])
    <3>1. CASE q = p
      BY <2>0, <2>1, <3>1, ProgressChoose, ProgressAcquire, ProgressExecute DEF Continue
    <3>2. CASE q # p
      BY <2>0, <2>1, <3>2, OthersStay
    <3>. QED
      BY <3>1, <3>2
  <2>2. CASE Tick \/ Crash
    BY <2>2, ProgressTime
  <2>3. CASE UNCHANGED vars
    BY <2>0, <2>3 DEF vars
  <2>. QED
    BY <2>1, <2>2, <2>3 DEF Next
<1>. QED
  BY <1>1, <1>2, PTL DEF Spec

-----------------------------------------------------------------------------
(* For plans of any steps, whatever fails or crashes: a step that was given*)
(* the go-ahead has its dependencies completed or skipped, and they stay   *)
(* so (areDependenciesSatisfied, _executeStep).                            *)
THEOREM DependenciesAlwaysHold == Spec => []DependenciesHold
<1>1. ProgressInv => DependenciesHold
  BY DEF ProgressInv, Progress, Told, DependenciesMet, DependenciesHold
<1>. QED
  BY <1>1, ProgressInvariant, PTL

(* The failure of a step whose strategy is abort is the last thing that    *)
(* happens in its plan (_handleStepFailure, executePlan).                  *)
THEOREM AbortAlwaysEndsThePlan == Spec => []AbortEndsThePlan
<1>1. ProgressInv => AbortEndsThePlan
  <2>. SUFFICES ASSUME ProgressInv, NEW p \in Plans, NEW i \in StepsOf(p),
                       Aborting(p, i, status[p])
                PROVE  /\ ~At(p, "done")
                       /\ \A j \in StepsOf(p) : j > i => status[p][j] = "pending"
    BY DEF AbortEndsThePlan, Aborting
  <2>1. Progress(p, run[p], status[p]) /\ run[p].step \in Nat \ {0} /\ i \in Nat
    BY StepsOfPositive, RunType DEF ProgressInv, TypeInv, Run
  <2>2. \A j \in StepsOf(p) : j > i => status[p][j] = "pending"
    BY <2>1 DEF Progress, Told
  <2>3. ASSUME run[p].pc = "done"
        PROVE  FALSE
    <3>1. OnCourse(p, run[p], status[p])
      BY <2>1, <2>3 DEF Progress
    <3>2. run[p].step \notin StepsOf(p)
      BY <2>3, <3>1 DEF OnCourse
    <3>3. i < run[p].step
      BY <2>1, <3>2, StepsAssumption DEF StepsOf
    <3>. QED
      BY <3>1, <3>3 DEF OnCourse
  <2>. QED
    BY <2>2, <2>3 DEF At
<1>. QED
  BY <1>1, ProgressInvariant, PTL

(* A plan that completes has decided all its steps, so the outcome partial *)
(* is never reported (executePlan, _determinePlanOutcome).                 *)
THEOREM OutcomeAlwaysDecided == Spec => []OutcomeIsDecided
<1>1. ProgressInv => OutcomeIsDecided
  <2>. SUFFICES ASSUME ProgressInv, NEW p \in Plans, run[p].pc = "done"
                PROVE  PlanOutcome(p) # "partial"
    BY DEF OutcomeIsDecided, At
  <2>1. OnCourse(p, run[p], status[p]) /\ run[p].step \in Nat \ {0}
    BY RunType DEF ProgressInv, TypeInv, Progress, Run
  <2>2. \A i \in StepsOf(p) : i < run[p].step
    <3>1. run[p].step \notin StepsOf(p)
      BY <2>1 DEF OnCourse
    <3>. QED
      BY <2>1, <3>1, StepsAssumption DEF StepsOf
  <2>3. {status[p][i] : i \in StepsOf(p)} \subseteq Decided
    BY <2>1, <2>2 DEF OnCourse
  <2>. QED
    BY <2>3 DEF PlanOutcome, Decided
<1>. QED
  BY <1>1, ProgressInvariant, PTL
=============================================================================
