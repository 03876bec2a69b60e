------------------------ MODULE ReconciliationProofs ------------------------
(***************************************************************************)
(* Proofs about Reconciliation, for any number of objectives, of           *)
(* concurrent evaluations, of admissions and of crashes, and for every     *)
(* failure policy.                                                         *)
(***************************************************************************)
EXTENDS Reconciliation, TLAPS

-----------------------------------------------------------------------------
(***************************************************************************)
(* Type correctness.                                                       *)
(***************************************************************************)

(* Writing a well-typed row keeps the table well typed.                    *)
LEMMA UpdateRowType ==
    ASSUME objective \in [Objectives -> Row], NEW o \in Objectives, NEW row \in Row,
           UpdateRow(o, row)
    PROVE  objective' \in [Objectives -> Row]
BY DEF UpdateRow

(* The values the handlers write are of the fields' types.                 *)
LEMMA FieldTypes ==
    /\ {"idle", "reconciling", "cooldown", "degraded"} \subseteq Status
    /\ {"none", "ahead", "passed"} \subseteq Time
    /\ 0 \in Generation
    /\ Generation \subseteq Nat
BY BoundAssumption DEF Status, Time, Generation

(* An evaluation that is over is well typed, and ending one keeps the      *)
(* evaluations so.                                                         *)
LEMMA IdleType ==
    ASSUME NEW o \in Objectives
    PROVE  Idle(o) \in Run
BY FieldTypes DEF Idle, Run

LEMMA FinishType ==
    ASSUME run \in [Workers -> Run], NEW w \in Workers, Finish(w)
    PROVE  run' \in [Workers -> Run]
<1>1. run[w].obj \in Objectives
  BY DEF Run
<1>. QED
  BY <1>1, IdleType DEF Finish

(* Who can hold the event loop.                                            *)
LEMMA LoopType ==
    /\ Free \in Loop
    /\ \A w \in Workers : HeldBy(w) \in Loop
    /\ \A o \in Objectives : \A pc \in {"accounting", "clearing"} : Watchdog(o, pc) \in Loop
BY DEF Loop

(* The rows that admission, the lease, a manual reset, clearing, failure   *)
(* and recovery write.                                                     *)
LEMMA AdmittedRowType ==
    ASSUME NEW row \in Row, AdmittedRow(row).generation <= MaxGeneration
    PROVE  AdmittedRow(row) \in Row
<1>1. AdmittedRow(row).generation = row.generation + 1
  BY DEF AdmittedRow, Row
<1>2. row.generation + 1 \in Generation
  BY <1>1, BoundAssumption DEF Row, Generation
<1>. QED
  BY <1>2, FieldTypes DEF AdmittedRow, Row

LEMMA LeasedRowType ==
    ASSUME NEW row \in Row, NEW g \in Generation
    PROVE  [row EXCEPT !.attempt = g, !.deadline = "ahead", !.cancel = "none"] \in Row
BY FieldTypes DEF Row

LEMMA ResetRowType ==
    ASSUME NEW row \in Row, NEW n \in Nat
    PROVE  [row EXCEPT !.status = "idle", !.cooldown = "none", !.failures = n] \in Row
BY FieldTypes DEF Row

LEMMA ClearedRowType ==
    ASSUME NEW row \in Row
    PROVE  ClearActiveAttempt(row) \in Row
BY FieldTypes DEF ClearActiveAttempt, Row

LEMMA FailedRowType ==
    ASSUME NEW row \in Row, NEW p, NEW failures \in Nat, NEW total \in Nat
    PROVE  FailedRow(row, p, failures, total) \in Row
<1>1. failures + 1 \in Nat /\ total + 1 \in Nat
  OBVIOUS
<1>2. CooldownUntil(p) \in Time
  BY FieldTypes DEF CooldownUntil
<1>. QED
  BY <1>1, <1>2, FieldTypes DEF FailedRow, Row

LEMMA RecoveredRowType ==
    ASSUME NEW row \in Row, NEW p
    PROVE  RecoveredRow(row, p) \in Row
BY FieldTypes DEF RecoveredRow, Row

(* Every step keeps the state well typed.                                  *)
LEMMA TypeStep ==
    ASSUME TypeOK, [Next]_vars
    PROVE  TypeOK'
<1>. USE DEF TypeOK
<1>1. ASSUME NEW w \in Workers, NEW o \in Objectives, StartEvaluation(w, o)
      PROVE TypeOK'
  <2>1. [Idle(o) EXCEPT !.pc = "observing", !.seen = objective[o].status] \in Run
    BY IdleType DEF Run, Row
  <2>. QED
    BY <1>1, <2>1 DEF StartEvaluation
<1>2. ASSUME NEW w \in Workers, ObserveHealthy(w)
      PROVE TypeOK'
  <2>1. run[w].obj \in Objectives
    BY DEF Run
  <2>2. objective' \in [Objectives -> Row]
    BY <1>2, <2>1, FieldTypes DEF ObserveHealthy, Row
  <2>. QED
    BY <1>2, <2>2, FinishType DEF ObserveHealthy
<1>3. ASSUME NEW w \in Workers, Admit(w)
      PROVE TypeOK'
  <2>. DEFINE o == run[w].obj
  <2>1. o \in Objectives /\ objective[o] \in Row
    BY DEF Run
  <2>2. AdmittedRow(objective[o]) \in Row
    BY <1>3, <2>1, AdmittedRowType DEF Admit
  <2>3. [run[w] EXCEPT !.pc = "admitted", !.gen = AdmittedRow(objective[o]).generation] \in Run
    <3>1. AdmittedRow(objective[o]).generation \in Generation
      BY <2>2 DEF Row
    <3>. QED
      BY <3>1 DEF Run
  <2>4. objective' \in [Objectives -> Row]
    BY <1>3, <2>1, <2>2, UpdateRowType DEF Admit
  <2>. QED
    BY <1>3, <2>3, <2>4, LoopType DEF Admit, KeepLoop
<1>4. ASSUME NEW w \in Workers, Refuse(w) \/ RejectExecution(w) \/ IgnoreStale(w)
      PROVE TypeOK'
  BY <1>4, FinishType, LoopType DEF Refuse, RejectExecution, IgnoreStale
<1>5. ASSUME NEW w \in Workers, PlanNotFound(w)
      PROVE TypeOK'
  <2>1. run[w].obj \in Objectives
    BY DEF Run
  <2>2. [objective[run[w].obj] EXCEPT !.status = "degraded"] \in Row
    BY <2>1, FieldTypes DEF Row
  <2>. QED
    BY <1>5, <2>1, <2>2, UpdateRowType, FinishType, LoopType DEF PlanNotFound
<1>6. ASSUME NEW w \in Workers, StartExecution(w)
      PROVE TypeOK'
  <2>. DEFINE o == run[w].obj
  <2>1. o \in Objectives /\ run[w].gen \in Generation
    BY DEF Run
  <2>2. [objective[o] EXCEPT !.attempt = run[w].gen, !.deadline = "ahead",
                             !.cancel = "none"] \in Row
    BY <2>1, LeasedRowType
  <2>3. [run[w] EXCEPT !.pc = "executing", !.failures = objective[o].failures,
                       !.total = objective[o].total] \in Run
    BY <2>1 DEF Run, Row
  <2>4. objective' \in [Objectives -> Row]
    BY <1>6, <2>1, <2>2, UpdateRowType DEF StartExecution
  <2>. QED
    BY <1>6, <2>3, <2>4, LoopType DEF StartExecution
<1>7. ASSUME NEW w \in Workers, NEW outcome \in Outcome, AcceptResult(w, outcome)
      PROVE TypeOK'
  <2>1. run[w].obj \in Objectives
    BY DEF Run
  <2>2. objective' \in [Objectives -> Row]
    BY <1>7, <2>1 DEF AcceptResult, Row
  <2>3. [run[w] EXCEPT !.pc = "settling", !.outcome = outcome] \in Run
    BY DEF Run
  <2>. QED
    BY <1>7, <2>2, <2>3, LoopType DEF AcceptResult, KeepLoop
<1>8. ASSUME NEW w \in Workers, BridgeThrows(w)
      PROVE TypeOK'
  <2>1. [run[w] EXCEPT !.pc = "settling", !.outcome = "threw"] \in Run
    BY DEF Run, Outcome
  <2>. QED
    BY <1>8, <2>1, LoopType DEF BridgeThrows, KeepLoop
<1>9. ASSUME NEW w \in Workers, Settle(w)
      PROVE TypeOK'
  <2>. DEFINE o == run[w].obj
  <2>1. o \in Objectives /\ objective[o] \in Row
        /\ run[w].failures \in Nat /\ run[w].total \in Nat
    BY DEF Run
  <2>2. /\ RecoveredRow(objective[o], Policy[o]) \in Row
        /\ FailedRow(objective[o], Policy[o], run[w].failures, run[w].total) \in Row
    BY <2>1, RecoveredRowType, FailedRowType
  <2>3. objective' \in [Objectives -> Row]
    BY <1>9, <2>1, <2>2, UpdateRowType DEF Settle
  <2>4. [run[w] EXCEPT !.pc = "clearing"] \in Run
    BY DEF Run
  <2>. QED
    BY <1>9, <2>3, <2>4 DEF Settle
<1>10. ASSUME NEW w \in Workers, Clear(w)
       PROVE TypeOK'
  <2>1. run[w].obj \in Objectives
    BY DEF Run
  <2>2. ClearActiveAttempt(objective[run[w].obj]) \in Row
    BY <2>1, ClearedRowType
  <2>. QED
    BY <1>10, <2>1, <2>2, UpdateRowType, FinishType, LoopType DEF Clear
<1>11. ASSUME NEW o \in Objectives, RequestCancel(o) \/ ForceTerminate(o)
       PROVE TypeOK'
  BY <1>11, LoopType DEF RequestCancel, ForceTerminate, Row
<1>12. ASSUME NEW o \in Objectives, AccountTimeout(o)
       PROVE TypeOK'
  <2>1. objective[o] \in Row /\ objective[o].failures \in Nat /\ objective[o].total \in Nat
    BY DEF Row
  <2>. QED
    BY <1>12, <2>1, FailedRowType, UpdateRowType, LoopType DEF AccountTimeout
<1>13. ASSUME NEW o \in Objectives, ClearTimedOut(o)
       PROVE TypeOK'
  BY <1>13, ClearedRowType, UpdateRowType, LoopType DEF ClearTimedOut
<1>14. ASSUME NEW o \in Objectives, ManualReset(o)
       PROVE TypeOK'
  <2>. DEFINE n == IF Policy[o].stored /\ Policy[o].resetOnManualReset
                   THEN 0 ELSE objective[o].failures
  <2>1. n \in Nat
    BY DEF Row
  <2>2. [objective[o] EXCEPT !.status = "idle", !.cooldown = "none", !.failures = n] \in Row
    BY <2>1, ResetRowType
  <2>. QED
    BY <1>14, <2>2, UpdateRowType DEF ManualReset
<1>15. ASSUME NEW o \in Objectives, SetHold(o) \/ SetEnabled(o)
       PROVE TypeOK'
  BY <1>15 DEF SetHold, SetEnabled, Row
<1>16. ASSUME SetSafeMode \/ SetGateSafeMode
       PROVE TypeOK'
  BY <1>16 DEF SetSafeMode, SetGateSafeMode
<1>17. ASSUME NEW o \in Objectives, Elapse(o)
       PROVE TypeOK'
  BY <1>17, FieldTypes DEF Elapse, CooldownElapses, DeadlineElapses, GraceElapses, Row
<1>18. ASSUME Crash
       PROVE TypeOK'
  <2>1. \A w \in Workers : Idle(run[w].obj) \in Run
    BY IdleType DEF Run
  <2>2. run' \in [Workers -> Run]
    BY <1>18, <2>1 DEF Crash
  <2>3. crashes' \in 0 .. MaxCrashes
    BY <1>18, BoundAssumption DEF Crash
  <2>. QED
    BY <1>18, <2>2, <2>3, LoopType DEF Crash
<1>19. CASE UNCHANGED vars
  BY <1>19 DEF vars
<1>. QED
  BY <1>1, <1>2, <1>3, <1>4, <1>5, <1>6, <1>7, <1>8, <1>9, <1>10, <1>11, <1>12,
     <1>13, <1>14, <1>15, <1>16, <1>17, <1>18, <1>19
  DEF Next, Evaluate, BridgeAnswers, Continue, WatchdogStep, Operator

(* The initial state is well typed.                                        *)
LEMMA InitType ==
    ASSUME Init
    PROVE  TypeOK
<1>1. FirstRow \in Row
  BY FieldTypes DEF FirstRow, Row
<1>2. Idle(CHOOSE o \in Objectives : TRUE) \in Run
  <2>1. (CHOOSE o \in Objectives : TRUE) \in Objectives
    BY ObjectivesAssumption
  <2>. QED
    BY <2>1, IdleType
<1>3. objective \in [Objectives -> Row] /\ run \in [Workers -> Run]
  BY <1>1, <1>2 DEF Init
<1>4. crashes \in 0 .. MaxCrashes
  <2>1. crashes = 0
    BY DEF Init
  <2>. QED
    BY <2>1, BoundAssumption
<1>5. safeMode \in BOOLEAN /\ gateSafeMode \in BOOLEAN /\ loop \in Loop
  BY LoopType DEF Init
<1>. QED
  BY <1>3, <1>4, <1>5 DEF TypeOK

(* Every reachable state is well typed: in particular no handler takes a   *)
(* generation beyond its bound, and each writes only what its column holds.*)
THEOREM TypeCorrect == Spec => []TypeOK
BY InitType, TypeStep, PTL DEF Spec

-----------------------------------------------------------------------------
(***************************************************************************)
(* Failure accounting.                                                     *)
(***************************************************************************)

(* A row whose current generation, while it is being reconciled, has not   *)
(* been charged with a failure yet.                                        *)
RowAccounts(row) ==
    /\ row.failures <= row.total
    /\ row.total <= row.generation
    /\ row.status = "reconciling" => row.total < row.generation

(* The counters a trigger read before it called the bridge are those of a  *)
(* time when its own generation had not been charged.                      *)
RunAccounts(r) ==
    r.pc \in {"executing", "settling"} => r.failures <= r.total /\ r.total < r.gen

(* FailureAccounting is not inductive: a failure handler adds one to       *)
(* counters it read long ago.                                              *)
AccountingInv ==
    /\ TypeOK
    /\ \A o \in Objectives : RowAccounts(objective[o])
    /\ \A w \in Workers : RunAccounts(run[w])
    /\ \A w \in Workers : Live(w) => run[w].gen <= objective[run[w].obj].generation
    /\ \A o \in Objectives :
          loop = Watchdog(o, "accounting") => objective[o].status = "reconciling"

(* The step charges row o with nothing and does not admit it.              *)
RowKept(o) ==
    /\ objective'[o].failures \in {0, objective[o].failures}
    /\ objective'[o].total = objective[o].total
    /\ objective'[o].generation = objective[o].generation
    /\ objective'[o].status = "reconciling" => objective[o].status = "reconciling"

(* Admission opens a generation that has not been charged yet.            *)
LEMMA AdmittedRowAccounts ==
    ASSUME NEW row \in Row, RowAccounts(row)
    PROVE  /\ RowAccounts(AdmittedRow(row))
           /\ AdmittedRow(row).generation = row.generation + 1
<1>1. /\ AdmittedRow(row).failures = row.failures
      /\ AdmittedRow(row).total = row.total
      /\ AdmittedRow(row).generation = row.generation + 1
  BY DEF AdmittedRow, Row
<1>2. row.failures \in Nat /\ row.total \in Nat /\ row.generation \in Nat
  BY FieldTypes DEF Row
<1>. QED
  BY <1>1, <1>2 DEF RowAccounts

(* A failure charges one generation, if the counters it starts from are    *)
(* those of a time when that generation was uncharged.                     *)
LEMMA FailedRowAccounts ==
    ASSUME NEW row \in Row, NEW p, NEW failures \in Nat, NEW total \in Nat,
           failures <= total, total < row.generation
    PROVE  /\ RowAccounts(FailedRow(row, p, failures, total))
           /\ FailedRow(row, p, failures, total).generation = row.generation
           /\ FailedRow(row, p, failures, total).status \in {"degraded", "cooldown"}
<1>. DEFINE new == FailedRow(row, p, failures, total)
<1>1. /\ new.failures = failures + 1
      /\ new.total = total + 1
      /\ new.generation = row.generation
      /\ new.status \in {"degraded", "cooldown"}
  BY DEF FailedRow, Row
<1>2. row.generation \in Nat
  BY FieldTypes DEF Row
<1>. QED
  BY <1>1, <1>2 DEF RowAccounts

(* Recovery may reset the consecutive count and charges nothing.           *)
LEMMA RecoveredRowAccounts ==
    ASSUME NEW row \in Row, NEW p, RowAccounts(row)
    PROVE  /\ RowAccounts(RecoveredRow(row, p))
           /\ RecoveredRow(row, p).generation = row.generation
<1>. DEFINE new == RecoveredRow(row, p)
<1>1. /\ new.failures \in {0, row.failures}
      /\ new.total = row.total
      /\ new.generation = row.generation
      /\ new.status = "idle"
  BY DEF RecoveredRow, Row
<1>2. row.failures \in Nat /\ row.total \in Nat
  BY DEF Row
<1>. QED
  BY <1>1, <1>2 DEF RowAccounts

(* A step keeps the accounts if each row it writes and each evaluation it  *)
(* moves has its own.                                                      *)
LEMMA AccountingFrame ==
    ASSUME AccountingInv, TypeOK',
           \A x \in Objectives :
               \/ objective'[x] = objective[x]
               \/ /\ RowAccounts(objective'[x])
                  /\ objective'[x].generation \in {objective[x].generation,
                                                  objective[x].generation + 1},
           \A v \in Workers :
               \/ run'[v] = run[v]
               \/ /\ RunAccounts(run'[v])
                  /\ Live(v)' => run'[v].gen <= objective'[run'[v].obj].generation,
           \A x \in Objectives :
               loop' = Watchdog(x, "accounting") => objective'[x].status = "reconciling"
    PROVE  AccountingInv'
<1>1. \A x \in Objectives : RowAccounts(objective'[x])
  BY DEF AccountingInv
<1>2. \A v \in Workers : RunAccounts(run'[v])
  BY DEF AccountingInv
<1>3. \A x \in Objectives : objective'[x].generation >= objective[x].generation
  <2>1. \A x \in Objectives : objective[x].generation \in Nat
    BY FieldTypes DEF AccountingInv, TypeOK, Row
  <2>. QED
    BY <2>1
<1>4. \A v \in Workers : Live(v)' => run'[v].gen <= objective'[run'[v].obj].generation
  <2>. SUFFICES ASSUME NEW v \in Workers, Live(v)', run'[v] = run[v]
                PROVE  run'[v].gen <= objective'[run'[v].obj].generation
    OBVIOUS
  <2>1. Live(v)
    BY DEF Live
  <2>2. run[v].obj \in Objectives /\ run[v].gen \in Nat
    BY FieldTypes DEF AccountingInv, TypeOK, Run
  <2>3. run[v].gen <= objective[run[v].obj].generation
    BY <2>1 DEF AccountingInv
  <2>4. /\ objective[run[v].obj].generation \in Nat
        /\ objective'[run[v].obj].generation \in Nat
    BY <2>2, FieldTypes DEF AccountingInv, TypeOK, Row
  <2>. QED
    BY <1>3, <2>2, <2>3, <2>4
<1>. QED
  BY <1>1, <1>2, <1>4 DEF AccountingInv

(* A step that admits no objective and counts no failure keeps the         *)
(* accounts, if the evaluations it moves keep theirs.                      *)
LEMMA AccountingKept ==
    ASSUME AccountingInv, TypeOK',
           \A x \in Objectives : RowKept(x),
           \A v \in Workers :
               \/ run'[v] = run[v]
               \/ run'[v].pc \in {"none", "observing"}
               \/ /\ RunAccounts(run'[v])
                  /\ Live(v)
                  /\ run'[v].gen = run[v].gen
                  /\ run'[v].obj = run[v].obj,
           \A x \in Objectives :
               loop' = Watchdog(x, "accounting") => objective'[x].status = "reconciling"
    PROVE  AccountingInv'
<1>1. \A x \in Objectives : RowAccounts(objective'[x])
  <2>. SUFFICES ASSUME NEW x \in Objectives PROVE RowAccounts(objective'[x])
    OBVIOUS
  <2>1. objective[x] \in Row /\ RowAccounts(objective[x]) /\ RowKept(x)
    BY DEF AccountingInv, TypeOK
  <2>2. objective[x].failures \in Nat /\ objective[x].total \in Nat
    BY <2>1 DEF Row
  <2>. QED
    BY <2>1, <2>2 DEF RowAccounts, RowKept
<1>2. \A v \in Workers :
        \/ run'[v] = run[v]
        \/ /\ RunAccounts(run'[v])
           /\ Live(v)' => run'[v].gen <= objective'[run'[v].obj].generation
  <2>. SUFFICES ASSUME NEW v \in Workers, run'[v] # run[v]
                PROVE  /\ RunAccounts(run'[v])
                       /\ Live(v)' => run'[v].gen <= objective'[run'[v].obj].generation
    OBVIOUS
  <2>1. run[v].obj \in Objectives
    BY DEF AccountingInv, TypeOK, Run
  <2>. QED
    BY <2>1 DEF AccountingInv, RunAccounts, Live, RowKept
<1>. QED
  BY <1>1, <1>2, AccountingFrame DEF RowKept

(* AccountingInv is inductive.                                             *)
LEMMA AccountingInvariant == Spec => []AccountingInv
<1>1. Init => AccountingInv
  <2>. SUFFICES ASSUME Init PROVE AccountingInv
    OBVIOUS
  <2>1. TypeOK
    BY InitType
  <2>2. \A o \in Objectives : RowAccounts(objective[o])
    <3>1. \A o \in Objectives : objective[o] = FirstRow
      BY DEF Init
    <3>2. RowAccounts(FirstRow)
      BY DEF FirstRow, RowAccounts
    <3>. QED
      BY <3>1, <3>2
  <2>3. \A w \in Workers : run[w].pc = "none"
    BY DEF Init, Idle
  <2>4. \A o \in Objectives : loop # Watchdog(o, "accounting")
    BY DEF Init, Free, Watchdog
  <2>. QED
    BY <2>1, <2>2, <2>3, <2>4 DEF AccountingInv, RunAccounts, Live
<1>2. AccountingInv /\ [Next]_vars => AccountingInv'
  <2>. SUFFICES ASSUME AccountingInv, [Next]_vars PROVE AccountingInv'
    OBVIOUS
  <2>0. TypeOK /\ TypeOK'
    BY TypeStep DEF AccountingInv
  <2>a. \A w \in Workers : run[w] \in Run /\ run[w].obj \in Objectives
    BY <2>0 DEF TypeOK, Run
  <2>b. \A o \in Objectives : objective[o] \in Row /\ objective'[o] \in Row
    BY <2>0 DEF TypeOK
  <2>c. \A o \in Objectives : RowAccounts(objective[o])
    BY DEF AccountingInv
  <2>d. \A w \in Workers : RunAccounts(run[w])
    BY DEF AccountingInv
  <2>e. \A x \in Objectives : Free # Watchdog(x, "accounting")
    BY DEF Free, Watchdog
  <2>f. \A w \in Workers : \A x \in Objectives : HeldBy(w) # Watchdog(x, "accounting")
    BY DEF HeldBy, Watchdog
  <2>1. ASSUME NEW w \in Workers, NEW o \in Objectives, StartEvaluation(w, o)
        PROVE  AccountingInv'
    <3>1. \A x \in Objectives : RowKept(x)
      BY <2>1 DEF StartEvaluation, RowKept
    <3>2. \A v \in Workers : run'[v] = run[v] \/ run'[v].pc = "observing"
      BY <2>0, <2>1 DEF StartEvaluation, Idle, TypeOK
    <3>. QED
      BY <2>0, <2>1, <2>e, <3>1, <3>2, AccountingKept DEF StartEvaluation
  <2>2. ASSUME NEW w \in Workers, ObserveHealthy(w)
        PROVE  AccountingInv'
    <3>1. \A x \in Objectives : RowKept(x)
      BY <2>0, <2>2, <2>a DEF ObserveHealthy, RowKept, TypeOK, Row
    <3>2. \A v \in Workers : run'[v] = run[v] \/ run'[v].pc = "none"
      BY <2>0, <2>2 DEF ObserveHealthy, Finish, Idle, TypeOK
    <3>. QED
      BY <2>0, <2>2, <2>e, <3>1, <3>2, AccountingKept DEF ObserveHealthy
  <2>3. ASSUME NEW w \in Workers, Admit(w)
        PROVE  AccountingInv'
    <3>. DEFINE o == run[w].obj
                row == AdmittedRow(objective[o])
    <3>1. RowAccounts(row) /\ row.generation = objective[o].generation + 1
      BY <2>a, <2>b, <2>c, AdmittedRowAccounts
    <3>2. objective' = [objective EXCEPT ![o] = row]
      BY <2>3 DEF Admit, UpdateRow
    <3>3. objective'[o] = row
      BY <3>2, <2>0, <2>a DEF TypeOK
    <3>4. \A v \in Workers :
            \/ run'[v] = run[v]
            \/ /\ run'[v].pc = "admitted"
               /\ run'[v].gen = row.generation
               /\ run'[v].obj = o
      BY <2>0, <2>3, <2>a DEF Admit, TypeOK, Run
    <3>5. row.generation \in Nat
      BY <3>3, <2>a, <2>b, FieldTypes DEF Row
    <3>. HIDE DEF row
    <3>. QED
      BY <2>0, <2>3, <2>f, <3>1, <3>2, <3>3, <3>4, <3>5, AccountingFrame
      DEF Admit, KeepLoop, RunAccounts, TypeOK
  <2>4. ASSUME NEW w \in Workers, Refuse(w) \/ RejectExecution(w) \/ IgnoreStale(w)
        PROVE  AccountingInv'
    <3>1. \A x \in Objectives : RowKept(x)
      BY <2>4 DEF Refuse, RejectExecution, IgnoreStale, RowKept
    <3>2. \A v \in Workers : run'[v] = run[v] \/ run'[v].pc = "none"
      BY <2>0, <2>4 DEF Refuse, RejectExecution, IgnoreStale, Finish, Idle, TypeOK
    <3>3. loop' = Free
      BY <2>4 DEF Refuse, RejectExecution, IgnoreStale
    <3>. QED
      BY <2>0, <2>e, <3>1, <3>2, <3>3, AccountingKept
  <2>5. ASSUME NEW w \in Workers, PlanNotFound(w)
        PROVE  AccountingInv'
    <3>1. \A x \in Objectives : RowKept(x)
      BY <2>0, <2>5, <2>a DEF PlanNotFound, UpdateRow, RowKept, TypeOK, Row
    <3>2. \A v \in Workers : run'[v] = run[v] \/ run'[v].pc = "none"
      BY <2>0, <2>5 DEF PlanNotFound, Finish, Idle, TypeOK
    <3>. QED
      BY <2>0, <2>5, <2>e, <3>1, <3>2, AccountingKept DEF PlanNotFound
  <2>6. ASSUME NEW w \in Workers, StartExecution(w)
        PROVE  AccountingInv'
    <3>. DEFINE o == run[w].obj
    <3>1. \A x \in Objectives : RowKept(x)
      BY <2>0, <2>6, <2>a DEF StartExecution, UpdateRow, RowKept, TypeOK, Row
    <3>2. objective[o].failures <= objective[o].total /\ objective[o].total < run[w].gen
      BY <2>6, <2>a, <2>c DEF StartExecution, Preconditions, RowAccounts
    <3>3. \A v \in Workers :
            \/ run'[v] = run[v]
            \/ RunAccounts(run'[v]) /\ Live(v) /\ run'[v].gen = run[v].gen
                                   /\ run'[v].obj = run[v].obj
      BY <2>0, <2>6, <2>a, <3>2 DEF StartExecution, RunAccounts, Live, TypeOK, Run
    <3>. QED
      BY <2>0, <2>6, <2>e, <3>1, <3>3, AccountingKept DEF StartExecution
  <2>7. ASSUME NEW w \in Workers,
               (\E outcome \in Outcome : AcceptResult(w, outcome)) \/ BridgeThrows(w)
        PROVE  AccountingInv'
    <3>1. \A x \in Objectives : RowKept(x)
      BY <2>0, <2>7, <2>a DEF AcceptResult, BridgeThrows, RowKept, TypeOK, Row
    <3>2. \A v \in Workers :
            \/ run'[v] = run[v]
            \/ RunAccounts(run'[v]) /\ Live(v) /\ run'[v].gen = run[v].gen
                                   /\ run'[v].obj = run[v].obj
      BY <2>0, <2>7, <2>a, <2>d DEF AcceptResult, BridgeThrows, RunAccounts, Live, TypeOK, Run
    <3>3. loop' = HeldBy(w)
      BY <2>7 DEF AcceptResult, BridgeThrows, KeepLoop
    <3>. QED
      BY <2>0, <2>f, <3>1, <3>2, <3>3, AccountingKept
  <2>8. ASSUME NEW w \in Workers, Settle(w)
        PROVE  AccountingInv'
    <3>. DEFINE o == run[w].obj
                recovered == RecoveredRow(objective[o], Policy[o])
                failed == FailedRow(objective[o], Policy[o], run[w].failures, run[w].total)
    <3>1. run[w].failures \in Nat /\ run[w].total \in Nat /\ run[w].gen \in Nat
      BY <2>a, FieldTypes DEF Run
    <3>2. run[w].failures <= run[w].total /\ run[w].total < run[w].gen
      BY <2>8, <2>d DEF Settle, RunAccounts
    <3>3. run[w].gen <= objective[o].generation
      BY <2>8 DEF Settle, AccountingInv, Live
    <3>4. objective[o].generation \in Nat
      BY <2>a, <2>b, FieldTypes DEF Row
    <3>5. run[w].total < objective[o].generation
      BY <3>1, <3>2, <3>3, <3>4
    <3>6. RowAccounts(failed) /\ failed.generation = objective[o].generation
      BY <2>a, <2>b, <3>1, <3>2, <3>5, FailedRowAccounts
    <3>7. RowAccounts(recovered) /\ recovered.generation = objective[o].generation
      BY <2>a, <2>b, <2>c, RecoveredRowAccounts
    <3>8. \E row \in {recovered, failed} : objective' = [objective EXCEPT ![o] = row]
      BY <2>8 DEF Settle, UpdateRow
    <3>9. \A x \in Objectives :
            \/ objective'[x] = objective[x]
            \/ /\ RowAccounts(objective'[x])
               /\ objective'[x].generation = objective[x].generation
      <4>. HIDE DEF recovered, failed
      <4>. QED
        BY <2>0, <2>a, <3>6, <3>7, <3>8 DEF TypeOK
    <3>10. \A v \in Workers :
             run'[v] = run[v] \/ run'[v] = [run[w] EXCEPT !.pc = "clearing"]
      BY <2>0, <2>8 DEF Settle, TypeOK
    <3>11. [run[w] EXCEPT !.pc = "clearing"].pc = "clearing"
           /\ [run[w] EXCEPT !.pc = "clearing"].gen = run[w].gen
           /\ [run[w] EXCEPT !.pc = "clearing"].obj = o
      BY <2>a DEF Run
    <3>12. objective'[o].generation = objective[o].generation
      BY <2>a, <3>9
    <3>13. \A v \in Workers :
             \/ run'[v] = run[v]
             \/ /\ RunAccounts(run'[v])
                /\ Live(v)' => run'[v].gen <= objective'[run'[v].obj].generation
      BY <3>3, <3>10, <3>11, <3>12 DEF RunAccounts
    <3>14. \A x \in Objectives : loop' # Watchdog(x, "accounting")
      BY <2>8, <2>f DEF Settle
    <3>. QED
      BY <2>0, <3>9, <3>13, <3>14, AccountingFrame
  <2>9. ASSUME NEW w \in Workers, Clear(w)
        PROVE  AccountingInv'
    <3>1. \A x \in Objectives : RowKept(x)
      BY <2>0, <2>9, <2>a DEF Clear, UpdateRow, ClearActiveAttempt, RowKept, TypeOK, Row
    <3>2. \A v \in Workers : run'[v] = run[v] \/ run'[v].pc = "none"
      BY <2>0, <2>9 DEF Clear, Finish, Idle, TypeOK
    <3>. QED
      BY <2>0, <2>9, <2>e, <3>1, <3>2, AccountingKept DEF Clear
  <2>10. ASSUME NEW o \in Objectives, RequestCancel(o)
         PROVE  AccountingInv'
    <3>1. \A x \in Objectives : RowKept(x)
      BY <2>0, <2>10 DEF RequestCancel, RowKept, TypeOK, Row
    <3>. QED
      BY <2>0, <2>10, <2>e, <3>1, AccountingKept DEF RequestCancel
  <2>11. ASSUME NEW o \in Objectives, ForceTerminate(o)
         PROVE  AccountingInv'
    <3>1. \A x \in Objectives : RowKept(x)
      BY <2>0, <2>11 DEF ForceTerminate, RowKept, TypeOK, Row
    <3>2. objective'[o].status = "reconciling"
      BY <2>0, <2>11 DEF ForceTerminate, Expired, TypeOK, Row
    <3>3. \A x \in Objectives : loop' = Watchdog(x, "accounting") => x = o
      BY <2>11 DEF ForceTerminate, Watchdog
    <3>. QED
      BY <2>0, <2>11, <3>1, <3>2, <3>3, AccountingKept DEF ForceTerminate
  <2>12. ASSUME NEW o \in Objectives, AccountTimeout(o)
         PROVE  AccountingInv'
    <3>. DEFINE row == objective[o]
                default == [stored |-> TRUE, degradeAfter |-> DefaultDegradeAfter, cools |-> TRUE]
                new == FailedRow(row, default, row.failures, row.total)
    <3>1. row.status = "reconciling"
      BY <2>12 DEF AccountTimeout, AccountingInv
    <3>2. row.failures \in Nat /\ row.total \in Nat
      BY <2>b DEF Row
    <3>3. row.failures <= row.total /\ row.total < row.generation
      BY <2>c, <3>1 DEF RowAccounts
    <3>4. RowAccounts(new) /\ new.generation = row.generation
      BY <2>b, <3>2, <3>3, FailedRowAccounts
    <3>5. objective' = [objective EXCEPT ![o] = new]
      BY <2>12 DEF AccountTimeout, UpdateRow
    <3>6. \A x \in Objectives : loop' # Watchdog(x, "accounting")
      BY <2>12 DEF AccountTimeout, Watchdog
    <3>7. \A x \in Objectives :
            \/ objective'[x] = objective[x]
            \/ RowAccounts(objective'[x]) /\ objective'[x].generation = objective[x].generation
      <4>. HIDE DEF new
      <4>. QED
        BY <2>0, <3>4, <3>5 DEF TypeOK
    <3>8. run' = run
      BY <2>12 DEF AccountTimeout
    <3>. QED
      BY <2>0, <3>6, <3>7, <3>8, AccountingFrame
  <2>13. ASSUME NEW o \in Objectives, ClearTimedOut(o)
         PROVE  AccountingInv'
    <3>1. \A x \in Objectives : RowKept(x)
      BY <2>0, <2>13 DEF ClearTimedOut, UpdateRow, ClearActiveAttempt, RowKept, TypeOK, Row
    <3>. QED
      BY <2>0, <2>13, <2>e, <3>1, AccountingKept DEF ClearTimedOut
  <2>14. ASSUME NEW o \in Objectives, ManualReset(o)
         PROVE  AccountingInv'
    <3>1. \A x \in Objectives : RowKept(x)
      BY <2>0, <2>14 DEF ManualReset, UpdateRow, RowKept, TypeOK, Row
    <3>. QED
      BY <2>0, <2>14, <2>e, <3>1, AccountingKept DEF ManualReset
  <2>15. ASSUME NEW o \in Objectives, SetHold(o) \/ SetEnabled(o)
         PROVE  AccountingInv'
    <3>1. \A x \in Objectives : RowKept(x)
      BY <2>0, <2>15 DEF SetHold, SetEnabled, RowKept, TypeOK, Row
    <3>. QED
      BY <2>0, <2>15, <2>e, <3>1, AccountingKept DEF SetHold, SetEnabled
  <2>16. ASSUME SetSafeMode \/ SetGateSafeMode
         PROVE  AccountingInv'
    <3>1. \A x \in Objectives : RowKept(x)
      BY <2>16 DEF SetSafeMode, SetGateSafeMode, RowKept
    <3>. QED
      BY <2>0, <2>16, <2>e, <3>1, AccountingKept DEF SetSafeMode, SetGateSafeMode
  <2>17. ASSUME NEW o \in Objectives, Elapse(o)
         PROVE  AccountingInv'
    <3>1. \A x \in Objectives : RowKept(x) /\ objective'[x].status = objective[x].status
      BY <2>0, <2>17
      DEF Elapse, CooldownElapses, DeadlineElapses, GraceElapses, RowKept, TypeOK, Row
    <3>2. run' = run /\ loop' = loop
      BY <2>17 DEF Elapse, CooldownElapses, DeadlineElapses, GraceElapses
    <3>3. \A x \in Objectives :
            loop' = Watchdog(x, "accounting") => objective'[x].status = "reconciling"
      BY <3>1, <3>2 DEF AccountingInv
    <3>. QED
      BY <2>0, <3>1, <3>2, <3>3, AccountingKept
  <2>18. ASSUME Crash
         PROVE  AccountingInv'
    <3>1. \A x \in Objectives : RowKept(x)
      BY <2>18 DEF Crash, RowKept
    <3>2. \A v \in Workers : run'[v].pc = "none"
      BY <2>18 DEF Crash, Idle
    <3>. QED
      BY <2>0, <2>18, <2>e, <3>1, <3>2, AccountingKept DEF Crash
  <2>19. CASE UNCHANGED vars
    <3>1. \A x \in Objectives : RowKept(x)
      BY <2>19 DEF vars, RowKept
    <3>2. \A x \in Objectives :
            loop' = Watchdog(x, "accounting") => objective'[x].status = "reconciling"
      BY <2>19 DEF vars, AccountingInv
    <3>3. run' = run
      BY <2>19 DEF vars
    <3>. QED
      BY <2>0, <3>1, <3>2, <3>3, AccountingKept
  <2>. QED
    BY <2>1, <2>2, <2>3, <2>4, <2>5, <2>6, <2>7, <2>8, <2>9, <2>10, <2>11, <2>12,
       <2>13, <2>14, <2>15, <2>16, <2>17, <2>18, <2>19
    DEF Next, Evaluate, BridgeAnswers, Continue, WatchdogStep, Operator
<1>. QED
  BY <1>1, <1>2, PTL DEF Spec

(* No failure is charged twice or without an admission, in every reachable *)
(* state: FailureAccounting.                                               *)
THEOREM FailuresAreAccounted == Spec => []FailureAccounting
<1>1. AccountingInv => FailureAccounting
  BY DEF AccountingInv, RowAccounts, FailureAccounting
<1>. QED
  BY <1>1, AccountingInvariant, PTL

-----------------------------------------------------------------------------
(***************************************************************************)
(* The circuit breaker.                                                    *)
(***************************************************************************)

(* A step after which a row is being reconciled leaves its failure count   *)
(* alone, and either the row was being reconciled already or the gate has  *)
(* just admitted it.                                                       *)
LEMMA ReconcilingSteps ==
    ASSUME TypeOK, [Next]_vars, NEW x \in Objectives, objective'[x].status = "reconciling"
    PROVE  /\ objective'[x].failures = objective[x].failures
           /\ objective[x].status = "reconciling" \/ Admissible(x, EvaluatorClock)
<1>. DEFINE Goal == /\ objective'[x].failures = objective[x].failures
                    /\ objective[x].status = "reconciling" \/ Admissible(x, EvaluatorClock)
<1>a. \A o \in Objectives : objective[o] \in Row
  BY DEF TypeOK
<1>b. \A w \in Workers : run[w].obj \in Objectives
  BY DEF TypeOK, Run
<1>1. CASE objective' = objective
  BY <1>1
<1>2. ASSUME NEW w \in Workers, ObserveHealthy(w) \/ PlanNotFound(w) \/ StartExecution(w)
                                \/ \E outcome \in Outcome : AcceptResult(w, outcome)
      PROVE  Goal
  <2>1. CASE ObserveHealthy(w)
    BY <2>1, <1>a, <1>b DEF ObserveHealthy, TypeOK, Row
  <2>2. CASE PlanNotFound(w)
    BY <2>2, <1>a, <1>b DEF PlanNotFound, UpdateRow, TypeOK, Row
  <2>3. CASE StartExecution(w)
    BY <2>3, <1>a, <1>b DEF StartExecution, UpdateRow, TypeOK, Row
  <2>4. CASE \E outcome \in Outcome : AcceptResult(w, outcome)
    BY <2>4, <1>a, <1>b DEF AcceptResult, TypeOK, Row
  <2>. QED
    BY <1>2, <2>1, <2>2, <2>3, <2>4
<1>3. ASSUME NEW w \in Workers, Admit(w)
      PROVE  Goal
  <2>1. AdmittedRow(objective[run[w].obj]).failures = objective[run[w].obj].failures
    BY <1>a, <1>b DEF AdmittedRow, Row
  <2>2. x # run[w].obj => objective'[x] = objective[x]
    BY <1>3, <1>b DEF Admit, UpdateRow, TypeOK
  <2>3. x = run[w].obj => objective'[x] = AdmittedRow(objective[x])
    BY <1>3, <1>b DEF Admit, UpdateRow, TypeOK
  <2>. QED
    BY <1>3, <2>1, <2>2, <2>3 DEF Admit
<1>4. ASSUME NEW w \in Workers, Settle(w)
      PROVE  Goal
  <2>. DEFINE o == run[w].obj
              recovered == RecoveredRow(objective[o], Policy[o])
              failed == FailedRow(objective[o], Policy[o], run[w].failures, run[w].total)
  <2>1. recovered.status = "idle" /\ failed.status \in {"degraded", "cooldown"}
    BY <1>a, <1>b DEF RecoveredRow, FailedRow, Row
  <2>2. \E row \in {recovered, failed} : objective' = [objective EXCEPT ![o] = row]
    BY <1>4 DEF Settle, UpdateRow
  <2>. HIDE DEF recovered, failed
  <2>. QED
    BY <2>1, <2>2, <1>b DEF TypeOK
<1>5. ASSUME NEW w \in Workers, Clear(w)
      PROVE  Goal
  BY <1>5, <1>a, <1>b DEF Clear, ClearActiveAttempt, UpdateRow, TypeOK, Row
<1>6. ASSUME NEW o \in Objectives, RequestCancel(o) \/ ForceTerminate(o) \/ ClearTimedOut(o)
      PROVE  Goal
  <2>1. CASE RequestCancel(o)
    BY <2>1, <1>a DEF RequestCancel, TypeOK, Row
  <2>2. CASE ForceTerminate(o)
    BY <2>2, <1>a DEF ForceTerminate, TypeOK, Row
  <2>3. CASE ClearTimedOut(o)
    BY <2>3, <1>a DEF ClearTimedOut, ClearActiveAttempt, UpdateRow, TypeOK, Row
  <2>. QED
    BY <1>6, <2>1, <2>2, <2>3
<1>7. ASSUME NEW o \in Objectives, AccountTimeout(o)
      PROVE  Goal
  <2>. DEFINE default == [stored |-> TRUE, degradeAfter |-> DefaultDegradeAfter, cools |-> TRUE]
              failed == FailedRow(objective[o], default, objective[o].failures, objective[o].total)
  <2>1. failed.status \in {"degraded", "cooldown"}
    BY <1>a DEF FailedRow, Row
  <2>2. objective' = [objective EXCEPT ![o] = failed]
    BY <1>7 DEF AccountTimeout, UpdateRow
  <2>. HIDE DEF failed
  <2>. QED
    BY <2>1, <2>2 DEF TypeOK
<1>8. ASSUME NEW o \in Objectives, ManualReset(o) \/ SetHold(o) \/ SetEnabled(o)
      PROVE  Goal
  <2>1. CASE ManualReset(o)
    BY <2>1, <1>a DEF ManualReset, UpdateRow, TypeOK, Row
  <2>2. CASE SetHold(o) \/ SetEnabled(o)
    BY <2>2, <1>a DEF SetHold, SetEnabled, TypeOK, Row
  <2>. QED
    BY <1>8, <2>1, <2>2
<1>9. ASSUME NEW o \in Objectives, Elapse(o)
      PROVE  Goal
  BY <1>9, <1>a DEF Elapse, CooldownElapses, DeadlineElapses, GraceElapses, TypeOK, Row
<1>10. \/ \E w \in Workers : \E o \in Objectives : StartEvaluation(w, o)
       \/ \E w \in Workers : Refuse(w) \/ RejectExecution(w) \/ IgnoreStale(w) \/ BridgeThrows(w)
       \/ SetSafeMode \/ SetGateSafeMode \/ Crash \/ UNCHANGED vars
       => objective' = objective
  BY DEF StartEvaluation, Refuse, RejectExecution, IgnoreStale, BridgeThrows, SetSafeMode,
         SetGateSafeMode, Crash, vars
<1>. QED
  BY <1>1, <1>2, <1>3, <1>4, <1>5, <1>6, <1>7, <1>8, <1>9, <1>10
  DEF Next, Evaluate, BridgeAnswers, Continue, WatchdogStep, Operator

(* No reachable state has an objective reconciling with as many failures   *)
(* as its policy allows: BreakerHolds.                                     *)
THEOREM BreakerAlwaysHolds == Spec => []BreakerHolds
<1>1. Init => TypeOK /\ BreakerHolds
  <2>1. Init => \A o \in Objectives : objective[o].status # "reconciling"
    <3>1. FirstRow.status # "reconciling"
      BY DEF FirstRow
    <3>. QED
      BY <3>1 DEF Init
  <2>2. Init => BreakerHolds
    BY <2>1 DEF BreakerHolds
  <2>. QED
    BY <2>2, InitType
<1>2. TypeOK /\ BreakerHolds /\ [Next]_vars => TypeOK' /\ BreakerHolds'
  <2>. SUFFICES ASSUME TypeOK, BreakerHolds, [Next]_vars,
                       NEW x \in Objectives, objective'[x].status = "reconciling",
                       Policy[x].stored
                PROVE  objective'[x].failures < Policy[x].max
    BY TypeStep DEF BreakerHolds
  <2>1. CASE objective[x].status = "reconciling"
    BY <2>1, ReconcilingSteps DEF BreakerHolds
  <2>2. CASE Admissible(x, EvaluatorClock)
    BY <2>2, ReconcilingSteps DEF Admissible
  <2>. QED
    BY <2>1, <2>2, ReconcilingSteps
<1>. QED
  BY <1>1, <1>2, PTL DEF Spec

-----------------------------------------------------------------------------
(***************************************************************************)
(* The generation as a fence.                                              *)
(***************************************************************************)

(* What a step can do to one evaluation.                                   *)
LEMMA RunSteps ==
    ASSUME TypeOK, [Next]_vars, NEW v \in Workers
    PROVE  \/ run'[v] = run[v]
           \/ run'[v].pc \in {"none", "observing"}
           \/ Admit(v) \/ StartExecution(v) \/ BridgeThrows(v) \/ Settle(v)
           \/ \E outcome \in Outcome : AcceptResult(v, outcome)
<1>. DEFINE Goal == \/ run'[v] = run[v]
                    \/ run'[v].pc \in {"none", "observing"}
                    \/ Admit(v) \/ StartExecution(v) \/ BridgeThrows(v) \/ Settle(v)
                    \/ \E outcome \in Outcome : AcceptResult(v, outcome)
<1>1. ASSUME NEW w \in Workers, NEW o \in Objectives, StartEvaluation(w, o)
      PROVE  Goal
  BY <1>1 DEF StartEvaluation, Idle, TypeOK
<1>2. ASSUME NEW w \in Workers, Finish(w)
      PROVE  Goal
  BY <1>2 DEF Finish, Idle, TypeOK
<1>3. ASSUME NEW w \in Workers, v # w,
             \/ Admit(w) \/ StartExecution(w) \/ BridgeThrows(w) \/ Settle(w)
             \/ \E outcome \in Outcome : AcceptResult(w, outcome)
      PROVE  run'[v] = run[v]
  BY <1>3 DEF Admit, StartExecution, BridgeThrows, Settle, AcceptResult, TypeOK
<1>4. ASSUME NEW w \in Workers,
             \/ ObserveHealthy(w) \/ Refuse(w) \/ RejectExecution(w)
             \/ PlanNotFound(w) \/ IgnoreStale(w) \/ Clear(w)
      PROVE  Goal
  <2>1. Finish(w)
    BY <1>4 DEF ObserveHealthy, Refuse, RejectExecution, PlanNotFound, IgnoreStale, Clear
  <2>. QED
    BY <1>2, <2>1
<1>5. Crash => Goal
  BY DEF Crash, Idle
<1>6. ASSUME NEW o \in Objectives, WatchdogStep(o) \/ Elapse(o)
      PROVE  Goal
  BY <1>6 DEF WatchdogStep, RequestCancel, ForceTerminate, AccountTimeout, ClearTimedOut,
              Elapse, CooldownElapses, DeadlineElapses, GraceElapses
<1>7. Operator \/ UNCHANGED vars => Goal
  BY DEF Operator, ManualReset, SetHold, SetEnabled, SetSafeMode, SetGateSafeMode, vars
<1>. QED
  BY <1>1, <1>3, <1>4, <1>5, <1>6, <1>7 DEF Next, Evaluate, BridgeAnswers, Continue

(* A live evaluation has just been admitted, or was live before the step   *)
(* for the same objective in the same generation.                          *)
LEMMA LiveSteps ==
    ASSUME TypeOK, [Next]_vars, NEW v \in Workers, Live(v)'
    PROVE  /\ run'[v].obj = run[v].obj
           /\ Admit(v) \/ (Live(v) /\ run'[v].gen = run[v].gen)
<1>1. CASE run'[v] = run[v]
  BY <1>1 DEF Live
<1>2. CASE Admit(v)
  BY <1>2 DEF Admit, TypeOK, Run
<1>3. CASE StartExecution(v)
  BY <1>3 DEF StartExecution, Live, TypeOK, Run
<1>4. CASE BridgeThrows(v) \/ Settle(v) \/ \E outcome \in Outcome : AcceptResult(v, outcome)
  BY <1>4 DEF BridgeThrows, Settle, AcceptResult, Live, TypeOK, Run
<1>. QED
  BY <1>1, <1>2, <1>3, <1>4, RunSteps DEF Live

(* An evaluation that has just been admitted runs in a generation that no  *)
(* other live evaluation of the objective has.                             *)
LEMMA AdmittedIsNew ==
    ASSUME AccountingInv, NEW v \in Workers, NEW w \in Workers, v # w,
           Admit(v), Live(w)', run'[v].obj = run'[w].obj
    PROVE  run'[v].gen # run'[w].gen
<1>. DEFINE o == run[v].obj
<1>1. o \in Objectives /\ objective[o] \in Row
  BY DEF AccountingInv, TypeOK, Run
<1>2. run'[v].gen = AdmittedRow(objective[o]).generation /\ run'[v].obj = o
  BY DEF Admit, AccountingInv, TypeOK, Run
<1>3. AdmittedRow(objective[o]).generation = objective[o].generation + 1
  BY <1>1 DEF AdmittedRow, Row
<1>4. run'[w] = run[w] /\ Live(w)
  BY DEF Admit, Live, AccountingInv, TypeOK
<1>5. run[w].gen <= objective[o].generation
  BY <1>2, <1>4 DEF AccountingInv
<1>6. run[w].gen \in Nat /\ objective[o].generation \in Nat
  BY <1>1, FieldTypes DEF AccountingInv, TypeOK, Run, Row
<1>. QED
  BY <1>2, <1>3, <1>4, <1>5, <1>6

(* No two live evaluations of one objective ever share a generation:       *)
(* GenerationIsExclusive.                                                  *)
THEOREM GenerationAlwaysExclusive == Spec => []GenerationIsExclusive
<1>1. Init => GenerationIsExclusive
  BY DEF Init, Idle, Live, GenerationIsExclusive
<1>2. AccountingInv /\ GenerationIsExclusive /\ [Next]_vars => GenerationIsExclusive'
  <2>. SUFFICES ASSUME AccountingInv, GenerationIsExclusive, [Next]_vars,
                       NEW v \in Workers, NEW w \in Workers, v # w,
                       Live(v)', Live(w)', run'[v].obj = run'[w].obj
                PROVE  run'[v].gen # run'[w].gen
    BY DEF GenerationIsExclusive
  <2>1. TypeOK
    BY DEF AccountingInv
  <2>2. CASE Admit(v) \/ Admit(w)
    BY <2>2, AdmittedIsNew
  <2>3. CASE ~Admit(v) /\ ~Admit(w)
    BY <2>1, <2>3, LiveSteps DEF GenerationIsExclusive
  <2>. QED
    BY <2>2, <2>3
<1>. QED
  BY <1>1, <1>2, AccountingInvariant, PTL DEF Spec

-----------------------------------------------------------------------------
(***************************************************************************)
(* Run to completion: from admission to the trigger's check, and from a    *)
(* result to the clearing of the attempt.                                  *)
(***************************************************************************)

(* The chains that hold the event loop are told apart.                     *)
LEMMA LoopHolders ==
    /\ \A w \in Workers : HeldBy(w) # Free
    /\ \A w, v \in Workers : HeldBy(w) = HeldBy(v) => w = v
    /\ \A w \in Workers : \A o \in Objectives :
          HeldBy(w) # Watchdog(o, "accounting") /\ HeldBy(w) # Watchdog(o, "clearing")
<1>1. \A w \in Workers : HeldBy(w).worker = w
  BY DEF HeldBy
<1>2. \A w \in Workers : HeldBy(w).kind = "worker"
  BY DEF HeldBy
<1>3. Free.kind = "free" /\ \A o \in Objectives : \A pc : Watchdog(o, pc).kind = "watchdog"
  BY DEF Free, Watchdog
<1>. QED
  BY <1>1, <1>2, <1>3

(* While an evaluation holds the event loop, only its own next step, the   *)
(* clock or a crash can happen.                                            *)
LEMMA RunToCompletion ==
    ASSUME [Next]_vars, NEW v \in Workers, loop = HeldBy(v)
    PROVE  Continue(v) \/ (\E o \in Objectives : Elapse(o)) \/ Crash \/ UNCHANGED vars
<1>1. loop # Free
  BY LoopHolders
<1>2. \A w \in Workers : ~Evaluate(w) /\ ~BridgeAnswers(w)
  BY <1>1 DEF Evaluate, StartEvaluation, ObserveHealthy, Admit, Refuse, BridgeAnswers,
              IgnoreStale, AcceptResult, BridgeThrows
<1>3. \A w \in Workers : Continue(w) => w = v
  BY LoopHolders DEF Continue, RejectExecution, PlanNotFound, StartExecution, Settle, Clear
<1>4. \A o \in Objectives : ~WatchdogStep(o)
  BY <1>1, LoopHolders
  DEF WatchdogStep, RequestCancel, ForceTerminate, AccountTimeout, ClearTimedOut
<1>5. ~Operator
  BY <1>1 DEF Operator, ManualReset, SetHold, SetEnabled, SetSafeMode, SetGateSafeMode
<1>. QED
  BY <1>2, <1>3, <1>4, <1>5 DEF Next

(* An evaluation between two UPDATEs of one turn holds the event loop; its *)
(* admission is still valid, or its result comes from the attempt that     *)
(* holds the lease.                                                        *)
InTurn(w) == run[w].pc \in {"admitted", "settling", "clearing"}

TurnInv(w) ==
    LET row == objective[run[w].obj] IN
    InTurn(w) =>
        /\ loop = HeldBy(w)
        /\ run[w].pc = "admitted" =>
              /\ row.status = "reconciling" /\ row.generation = run[w].gen /\ ~row.hold
              /\ ~safeMode /\ ~gateSafeMode
        /\ run[w].pc # "admitted" /\ run[w].outcome # "threw" =>
              row.attempt = run[w].gen /\ row.generation = run[w].gen

(* The clock changes nothing a turn relies on.                             *)
LEMMA ElapseKeeps ==
    ASSUME TypeOK, NEW o \in Objectives, Elapse(o), NEW x \in Objectives
    PROVE  /\ objective'[x].status = objective[x].status
           /\ objective'[x].generation = objective[x].generation
           /\ objective'[x].attempt = objective[x].attempt
           /\ objective'[x].hold = objective[x].hold
           /\ UNCHANGED <<safeMode, gateSafeMode, run, loop>>
BY DEF Elapse, CooldownElapses, DeadlineElapses, GraceElapses, TypeOK, Row

(* Neither do the rows that settling writes.                               *)
LEMMA SettledRowKeeps ==
    ASSUME TypeOK, NEW w \in Workers, Settle(w)
    PROVE  /\ objective'[run[w].obj].attempt = objective[run[w].obj].attempt
           /\ objective'[run[w].obj].generation = objective[run[w].obj].generation
<1>. DEFINE o == run[w].obj
            recovered == RecoveredRow(objective[o], Policy[o])
            failed == FailedRow(objective[o], Policy[o], run[w].failures, run[w].total)
<1>1. o \in Objectives /\ objective[o] \in Row
  BY DEF TypeOK, Run
<1>2. /\ recovered.attempt = objective[o].attempt
      /\ recovered.generation = objective[o].generation
      /\ failed.attempt = objective[o].attempt
      /\ failed.generation = objective[o].generation
  BY <1>1 DEF RecoveredRow, FailedRow, Row
<1>3. objective'[o] \in {recovered, failed}
  BY <1>1 DEF Settle, UpdateRow, TypeOK
<1>. HIDE DEF recovered, failed
<1>. QED
  BY <1>2, <1>3

(* TurnInv is inductive.                                                   *)
LEMMA TurnStep ==
    ASSUME TypeOK, [Next]_vars, NEW v \in Workers, TurnInv(v)
    PROVE  TurnInv(v)'
<1>. SUFFICES ASSUME InTurn(v)'
              PROVE  TurnInv(v)'
  BY DEF TurnInv
<1>. DEFINE o == run[v].obj
<1>0. o \in Objectives /\ objective[o] \in Row /\ run[v] \in Run
  BY DEF TypeOK, Run
<1>1. CASE Admit(v)
  <2>. DEFINE row == AdmittedRow(objective[o])
  <2>1. row.status = "reconciling" /\ row.hold = objective[o].hold
    BY <1>0 DEF AdmittedRow, Row
  <2>2. objective'[o] = row /\ run'[v].obj = o /\ run'[v].pc = "admitted"
        /\ run'[v].gen = row.generation /\ loop' = HeldBy(v)
    BY <1>0, <1>1 DEF Admit, UpdateRow, KeepLoop, TypeOK, Run
  <2>3. ~objective[o].hold /\ ~safeMode /\ ~gateSafeMode
    BY <1>1 DEF Admit, Admissible
  <2>4. safeMode' = safeMode /\ gateSafeMode' = gateSafeMode
    BY <1>1 DEF Admit
  <2>. HIDE DEF row
  <2>. QED
    BY <2>1, <2>2, <2>3, <2>4 DEF TurnInv
<1>2. CASE \E outcome \in Outcome : AcceptResult(v, outcome)
  <2>1. objective[o].generation = run[v].gen /\ objective[o].attempt = run[v].gen
    BY <1>2 DEF AcceptResult, Stale
  <2>2. /\ objective'[o].generation = objective[o].generation
        /\ objective'[o].attempt = objective[o].attempt
        /\ loop' = HeldBy(v) /\ run'[v].pc = "settling"
        /\ run'[v].obj = o /\ run'[v].gen = run[v].gen
    BY <1>0, <1>2 DEF AcceptResult, KeepLoop, TypeOK, Run, Row
  <2>. QED
    BY <2>1, <2>2 DEF TurnInv
<1>3. CASE BridgeThrows(v)
  BY <1>0, <1>3 DEF BridgeThrows, KeepLoop, TurnInv, TypeOK, Run
<1>4. CASE Settle(v)
  <2>1. /\ run'[v].pc = "clearing" /\ run'[v].gen = run[v].gen
        /\ run'[v].outcome = run[v].outcome /\ run'[v].obj = o
    BY <1>0, <1>4 DEF Settle, TypeOK, Run
  <2>2. loop' = loop /\ loop = HeldBy(v) /\ run[v].pc = "settling"
    BY <1>4 DEF Settle
  <2>. QED
    BY <1>4, <2>1, <2>2, SettledRowKeeps DEF TurnInv, InTurn
<1>5. CASE run'[v] = run[v]
  <2>1. InTurn(v) /\ loop = HeldBy(v)
    BY <1>5 DEF InTurn, TurnInv
  <2>2. CASE \E x \in Objectives : Elapse(x)
    BY <1>0, <1>5, <2>1, <2>2, ElapseKeeps DEF TurnInv, InTurn
  <2>3. CASE UNCHANGED vars
    BY <1>5, <2>1, <2>3 DEF TurnInv, InTurn, vars
  <2>4. ~Continue(v)
    <3>1. ~Settle(v) /\ ~StartExecution(v)
      BY <1>0, <1>5 DEF Settle, StartExecution, TypeOK, Run
    <3>2. Finish(v) => run'[v].pc = "none"
      BY DEF Finish, Idle, TypeOK
    <3>. QED
      BY <1>5, <2>1, <3>1, <3>2
      DEF Continue, RejectExecution, PlanNotFound, Clear, InTurn
  <2>5. ~Crash
    BY <1>5, <2>1 DEF Crash, Idle, InTurn
  <2>. QED
    BY <2>1, <2>2, <2>3, <2>4, <2>5, RunToCompletion
<1>6. ~StartExecution(v)
  BY <1>0 DEF StartExecution, InTurn, TypeOK, Run
<1>. QED
  BY <1>1, <1>2, <1>3, <1>4, <1>5, <1>6, RunSteps DEF InTurn

(* TurnInv holds throughout.                                               *)
LEMMA TurnInvariant == Spec => [](TypeOK /\ \A w \in Workers : TurnInv(w))
<1>1. Init => TypeOK /\ \A w \in Workers : TurnInv(w)
  <2>1. Init => \A w \in Workers : run[w].pc = "none"
    BY DEF Init, Idle
  <2>2. Init => \A w \in Workers : TurnInv(w)
    BY <2>1 DEF TurnInv, InTurn
  <2>. QED
    BY <2>2, InitType
<1>2. TypeOK /\ (\A w \in Workers : TurnInv(w)) /\ [Next]_vars
        => (TypeOK /\ \A w \in Workers : TurnInv(w))'
  BY TypeStep, TurnStep
<1>. QED
  BY <1>1, <1>2, PTL DEF Spec

(* The trigger's preconditions can fail only on the caller's own safe-mode *)
(* flag: AdmissionStillValid.                                              *)
THEOREM AdmissionAlwaysValid == Spec => []AdmissionStillValid
<1>1. TypeOK /\ (\A w \in Workers : TurnInv(w)) => AdmissionStillValid
  BY DEF TurnInv, InTurn, AdmissionStillValid, Preconditions
<1>. QED
  BY <1>1, TurnInvariant, PTL

(* No UPDATE is made on account of a result whose attempt has lost the     *)
(* lease: OnlyTheLeaseWrites.                                              *)
THEOREM OnlyTheLeaseEverWrites == Spec => OnlyTheLeaseWrites
<1>. DEFINE A(w) ==
         /\ run[w].pc \in {"executing", "settling", "clearing"}
         /\ run[w].outcome # "threw"
         /\ run'[w] # run[w]
         /\ objective' # objective
         => /\ objective[run[w].obj].attempt = run[w].gen
            /\ objective[run[w].obj].generation = run[w].gen
<1>1. ASSUME TypeOK, NEW w \in Workers, TurnInv(w), [Next]_vars
      PROVE  A(w)
  <2>. SUFFICES ASSUME run[w].pc \in {"executing", "settling", "clearing"},
                       run[w].outcome # "threw", run'[w] # run[w], objective' # objective
                PROVE  /\ objective[run[w].obj].attempt = run[w].gen
                       /\ objective[run[w].obj].generation = run[w].gen
    OBVIOUS
  <2>1. CASE run[w].pc \in {"settling", "clearing"}
    BY <1>1, <2>1 DEF TurnInv, InTurn
  <2>2. CASE run[w].pc = "executing"
    <3>1. \A v \in Workers : Continue(v) \/ Evaluate(v) => run'[w] = run[w]
      <4>1. ASSUME NEW v \in Workers, v # w,
                   Finish(v) \/ Admit(v) \/ StartExecution(v) \/ Settle(v)
                   \/ \E o \in Objectives : StartEvaluation(v, o)
            PROVE  run'[w] = run[w]
        BY <1>1, <4>1 DEF Finish, Admit, StartExecution, Settle, StartEvaluation, TypeOK
      <4>2. ~Continue(w) /\ ~Evaluate(w)
        BY <2>2 DEF Continue, Evaluate, RejectExecution, PlanNotFound, StartExecution, Settle,
                    Clear, StartEvaluation, ObserveHealthy, Admit, Refuse
      <4>. QED
        BY <4>1, <4>2 DEF Continue, Evaluate, RejectExecution, PlanNotFound, Clear,
                          ObserveHealthy, Refuse
    <3>2. \A o \in Objectives : ~WatchdogStep(o) /\ ~Elapse(o)
      BY DEF WatchdogStep, RequestCancel, ForceTerminate, AccountTimeout, ClearTimedOut,
             Elapse, CooldownElapses, DeadlineElapses, GraceElapses
    <3>3. ~Operator /\ ~Crash /\ ~UNCHANGED vars
      BY DEF Operator, ManualReset, SetHold, SetEnabled, SetSafeMode, SetGateSafeMode, Crash, vars
    <3>4. PICK v \in Workers : BridgeAnswers(v)
      BY <1>1, <3>1, <3>2, <3>3 DEF Next
    <3>5. PICK outcome \in Outcome : AcceptResult(v, outcome)
      BY <3>4 DEF BridgeAnswers, IgnoreStale, BridgeThrows
    <3>6. v = w
      BY <1>1, <3>5 DEF AcceptResult, TypeOK
    <3>. QED
      BY <3>5, <3>6 DEF AcceptResult, Stale
  <2>. QED
    BY <2>1, <2>2
<1>2. TypeOK /\ (\A w \in Workers : TurnInv(w)) /\ [Next]_vars => [\A w \in Workers : A(w)]_vars
  BY <1>1
<1>. QED
  BY <1>2, TurnInvariant, PTL DEF Spec, OnlyTheLeaseWrites
=============================================================================
