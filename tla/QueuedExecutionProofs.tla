----------------------- MODULE QueuedExecutionProofs -----------------------
(***************************************************************************)
(* Proofs about the queued executor: for any number of envelopes, agents,  *)
(* retries, crashes and failing appends, what executeNext takes it gives   *)
(* back, and, as long as no two calls of executeNext pick in the same      *)
(* turn, one envelope is executed at a time, a pause lets one more start,  *)
(* a success is final and a queued entry is in the log.                    *)
(***************************************************************************)
EXTENDS QueuedExecution, FiniteSetTheorems, TLAPS

(* The variables of TypeOK, in the groups that the steps change.           *)
TypedQueue ==
    /\ entry \in Entries
    /\ place \in [Envelopes -> Int]
    /\ results \subseteq Envelopes
    /\ ticket \in 0 .. MaxTickets

TypedLog ==
    /\ disk \in Entries
    /\ rewriting \in Rewriting
    /\ torn \in BOOLEAN

TypedLetters == dlq \in [Envelopes -> DLQState] /\ dlqDisk \in [Envelopes -> DLQState]

RunTyped(x) == x \in Run /\ (x.pc \in {"idle", "again"} <=> x.envelope = Nobody)

TypedRuns == run \in [Runs -> Run] /\ \A r \in Runs : RunTyped(run[r])

TypedSlots == executing \in BOOLEAN /\ current \in Nat

TypedRest ==
    /\ active \subseteq Envelopes /\ counted \subseteq Envelopes /\ timers \subseteq Envelopes
    /\ late \in Nat
    /\ paused \in BOOLEAN /\ triggered \in BOOLEAN /\ recovering \in BOOLEAN

TypedCalls == call \in [Envelopes -> Call]

TypedBounds == crashes \in Nat /\ faults \in Nat /\ crashes + faults <= MaxTrouble

pendingRuns == {r \in Runs : Pending(r)}

(* What SlotsReturned says, with the types it needs.                       *)
SlotsInv == TypeOK /\ SlotsReturned

-----------------------------------------------------------------------------
(***************************************************************************)
(* Lemmas about the operators of the steps.                                *)
(***************************************************************************)
LEMMA TypedGroups ==
    TypeOK <=> /\ TypedQueue /\ TypedLog /\ TypedLetters /\ TypedRuns
               /\ TypedSlots /\ TypedRest /\ TypedCalls /\ TypedBounds
BY DEF TypeOK, TypedQueue, TypedLog, TypedLetters, TypedRuns, RunTyped, TypedSlots, TypedRest,
       TypedCalls, TypedBounds

LEMMA TypedGroupsNext ==
    TypeOK' <=> /\ TypedQueue' /\ TypedLog' /\ TypedLetters' /\ TypedRuns'
                /\ TypedSlots' /\ TypedRest' /\ TypedCalls' /\ TypedBounds'
BY DEF TypeOK, TypedQueue, TypedLog, TypedLetters, TypedRuns, RunTyped, TypedSlots, TypedRest,
       TypedCalls, TypedBounds

LEMMA TypedSame ==
    ASSUME TypeOK
    PROVE  /\ UNCHANGED queueVars => TypedQueue'
           /\ UNCHANGED logVars => TypedLog'
           /\ UNCHANGED letterVars => TypedLetters'
           /\ UNCHANGED run => TypedRuns'
           /\ UNCHANGED slotVars => TypedSlots'
           /\ UNCHANGED call => TypedCalls'
           /\ UNCHANGED boundVars => TypedBounds'
<1>1. UNCHANGED queueVars => TypedQueue'
  BY TypedGroups DEF TypedQueue, queueVars
<1>2. UNCHANGED logVars => TypedLog'
  BY TypedGroups DEF TypedLog, logVars
<1>3. UNCHANGED letterVars => TypedLetters'
  BY TypedGroups DEF TypedLetters, letterVars
<1>4. UNCHANGED run => TypedRuns'
  BY TypedGroups DEF TypedRuns
<1>5. UNCHANGED slotVars => TypedSlots'
  BY TypedGroups DEF TypedSlots, slotVars
<1>6. UNCHANGED call => TypedCalls'
  BY TypedGroups DEF TypedCalls
<1>7. UNCHANGED boundVars => TypedBounds'
  BY TypedGroups DEF TypedBounds, boundVars
<1>. QED  BY <1>1, <1>2, <1>3, <1>4, <1>5, <1>6, <1>7

(* The entries that the steps make of an entry are entries.                *)
LEMMA EntryTyped ==
    ASSUME TypeOK, NEW e \in Envelopes
    PROVE  /\ entry[e] \in Entry /\ Absent \in Entry /\ NewEntry \in Entry
           /\ Executing(e) \in Entry /\ Completed(e) \in Entry /\ Failed(e) \in Entry
<1>1. entry[e] \in Entry /\ ticket \in Nat
  BY QueueAssumption DEF TypeOK, Entries
<1>2. Absent \in Entry /\ NewEntry \in Entry
  BY <1>1 DEF Absent, NewEntry, Entry, QueueState
<1>3. Executing(e) \in Entry /\ Completed(e) \in Entry
  BY <1>1 DEF Executing, Completed, Entry, QueueState
<1>4. Failed(e) \in Entry
  <2>1. ASSUME NEW x \in Entry PROVE [x EXCEPT !.state = "failed"] \in Entry
    BY DEF Entry, QueueState
  <2>2. ASSUME NEW x \in Entry PROVE [x EXCEPT !.retry = x.retry + 1] \in Entry
    BY DEF Entry
  <2>3. [entry[e] EXCEPT !.state = "failed"].retry = entry[e].retry
    BY <1>1 DEF Entry
  <2>. QED  BY <1>1, <2>1, <2>2, <2>3 DEF Failed
<1>. QED  BY <1>1, <1>2, <1>3, <1>4

LEMMA SetEntryTyped ==
    ASSUME TypeOK, NEW e \in Envelopes, NEW x \in Entry, SetEntry(e, x)
    PROVE  entry' \in Entries
BY DEF TypeOK, Entries, SetEntry

LEMMA LeaveFifoTyped ==
    ASSUME TypeOK, NEW e \in Envelopes, LeaveFifo(e)
    PROVE  place' \in [Envelopes -> Int]
BY DEF TypeOK, LeaveFifo

LEMMA RemoveTyped ==
    ASSUME TypeOK, NEW e \in Envelopes, Remove(e), UNCHANGED <<results, ticket>>
    PROVE  TypedQueue'
BY EntryTyped, SetEntryTyped, LeaveFifoTyped, TypedGroups DEF Remove, TypedQueue

LEMMA EnqueueTyped ==
    ASSUME TypeOK, NEW e \in Envelopes, BeginEnqueue(e)
    PROVE  TypedQueue' /\ TypedCalls'
<1>1. NewEntry \in Entry /\ ticket \in Nat /\ MaxTickets \in Nat
  BY EntryTyped, QueueAssumption DEF TypeOK
<1>2. entry' \in Entries
  BY <1>1, SetEntryTyped DEF BeginEnqueue, Enqueue
<1>3. ticket' \in 0 .. MaxTickets
  BY <1>1 DEF BeginEnqueue, Enqueue
<1>4. place' \in [Envelopes -> Int]
  BY <1>1 DEF BeginEnqueue, Enqueue, TypeOK
<1>5. results' \subseteq Envelopes
  BY DEF BeginEnqueue, Enqueue, TypeOK
<1>6. [pc |-> "enqueueing", line |-> NewEntry] \in Call
  BY <1>1 DEF Call
<1>7. TypedCalls'
  BY <1>6, TypedGroups DEF BeginEnqueue, TypedCalls
<1>. QED  BY <1>2, <1>3, <1>4, <1>5, <1>7 DEF TypedQueue

LEMMA PersistTyped ==
    ASSUME TypeOK, NEW e \in Envelopes, NEW x \in Entry, Persist(e, x)
    PROVE  TypedLog'
BY TypedGroups DEF TypedLog, Persist, Entries, Rewriting

LEMMA LettersTyped ==
    ASSUME TypeOK, NEW e \in Envelopes, NEW s \in DLQState
    PROVE  /\ SetLetter(e, s) /\ UNCHANGED dlqDisk => TypedLetters'
           /\ PersistLetter(e, s) /\ UNCHANGED dlq => TypedLetters'
           /\ SetLetter(e, s) /\ PersistLetter(e, s) => TypedLetters'
BY TypedGroups DEF TypedLetters, SetLetter, PersistLetter

LEMMA NoCallTyped ==
    ASSUME TypeOK, NEW e \in Envelopes, call' = [call EXCEPT ![e] = NoCall]
    PROVE  TypedCalls'
<1>1. NoCall \in Call
  BY EntryTyped DEF NoCall, Call
<1>. QED  BY <1>1, TypedGroups DEF TypedCalls

LEMMA FaultTyped ==
    ASSUME TypeOK, Fault, UNCHANGED crashes
    PROVE  TypedBounds' /\ faults' = faults + 1 /\ faults' > 0
BY TypedGroups, ExecutorAssumption DEF Fault, TypedBounds

LEMMA RunMoves ==
    ASSUME TypeOK, NEW r \in Runs, NEW x, RunTyped(x), Become(r, x)
    PROVE  /\ TypedRuns'
           /\ run'[r] = x /\ \A s \in Runs \ {r} : run'[s] = run[s]
BY TypedGroups DEF Become, TypedRuns, RunTyped

(* The runs that the steps make of a run.                                  *)
LEMMA RunsTyped ==
    ASSUME TypeOK, NEW r \in Runs
    PROVE  /\ RunTyped(Idle) /\ RunTyped(Returned(r))
           /\ \A e \in Envelopes : RunTyped([Idle EXCEPT !.pc = "picked", !.envelope = e])
           /\ run[r].line \in Entry
           /\ run[r].pc \notin {"idle", "again"} =>
                 /\ run[r].envelope \in Envelopes
                 /\ \A pc \in Pc \ {"idle", "again"} :
                       /\ RunTyped([run[r] EXCEPT !.pc = pc])
                       /\ \A x \in Entry :
                             /\ RunTyped([run[r] EXCEPT !.pc = pc, !.line = x])
                             /\ \A b \in BOOLEAN :
                                   RunTyped([run[r] EXCEPT !.pc = pc, !.line = x, !.retryable = b])
<1>1. Absent \in Entry
  BY DEF Absent, Entry
<1>2. RunTyped(Idle) /\ RunTyped(Returned(r))
  BY <1>1 DEF RunTyped, Idle, Returned, Run, Pc
<1>3. \A e \in Envelopes : RunTyped([Idle EXCEPT !.pc = "picked", !.envelope = e])
  BY <1>1, ExecutorAssumption DEF RunTyped, Idle, Run, Pc
<1>4. run[r] \in Run /\ RunTyped(run[r])
  BY TypedGroups DEF TypedRuns
<1>5. run[r].line \in Entry
  BY <1>4 DEF Run
<1>6. ASSUME run[r].pc \notin {"idle", "again"} PROVE run[r].envelope \in Envelopes
  BY <1>4, <1>6 DEF RunTyped, Run
<1>7. ASSUME run[r].pc \notin {"idle", "again"}, NEW pc \in Pc \ {"idle", "again"}
      PROVE  RunTyped([run[r] EXCEPT !.pc = pc])
  BY <1>4, <1>7 DEF RunTyped, Run
<1>8. ASSUME run[r].pc \notin {"idle", "again"}, NEW pc \in Pc \ {"idle", "again"}, NEW x \in Entry
      PROVE  RunTyped([run[r] EXCEPT !.pc = pc, !.line = x])
  BY <1>4, <1>8 DEF RunTyped, Run
<1>9. ASSUME run[r].pc \notin {"idle", "again"}, NEW pc \in Pc \ {"idle", "again"}, NEW x \in Entry,
             NEW b \in BOOLEAN
      PROVE  RunTyped([run[r] EXCEPT !.pc = pc, !.line = x, !.retryable = b])
  BY <1>4, <1>9 DEF RunTyped, Run
<1>. QED  BY <1>2, <1>3, <1>5, <1>6, <1>7, <1>8, <1>9

-----------------------------------------------------------------------------
(***************************************************************************)
(* The flag and the counter.                                               *)
(***************************************************************************)

LEMMA PendingFinite ==
    /\ IsFiniteSet(pendingRuns) /\ IsFiniteSet(pendingRuns')
    /\ Cardinality(pendingRuns) \in Nat /\ Cardinality(pendingRuns') \in Nat
<1>1. IsFiniteSet(Runs)
  BY ExecutorAssumption, FS_AddElement DEF Runs
<1>2. pendingRuns \subseteq Runs /\ pendingRuns' \subseteq Runs
  BY DEF pendingRuns
<1>. QED  BY <1>1, <1>2, FS_Subset, FS_CardinalityType

(* A run that moves changes the set of pending ones by itself alone.       *)
LEMMA PendingMoves ==
    ASSUME NEW r \in Runs, \A s \in Runs \ {r} : run'[s] = run[s]
    PROVE  /\ (Pending(r)' <=> Pending(r)) => pendingRuns' = pendingRuns
           /\ ~Pending(r) /\ Pending(r)' =>
                 r \notin pendingRuns /\ pendingRuns' = pendingRuns \union {r}
           /\ Pending(r) /\ ~Pending(r)' =>
                 r \in pendingRuns /\ pendingRuns' = pendingRuns \ {r}
BY DEF pendingRuns, Pending

(* What the steps do to both: nothing, ...                                 *)
LEMMA SlotKept ==
    ASSUME SlotsInv, pendingRuns' = pendingRuns, UNCHANGED slotVars, faults' \in Nat,
           faults' >= faults
    PROVE  TypedSlots' /\ SlotsReturned'
<1>1. TypedSlots'
  BY TypedGroups DEF SlotsInv, TypedSlots, slotVars
<1>2. SlotsReturned' <=> /\ executing' /\ pendingRuns' = {} => faults' > 0
                         /\ Cardinality(pendingRuns') <= current'
                         /\ current' <= Cardinality(pendingRuns') + faults'
  BY DEF SlotsReturned, pendingRuns
<1>3. /\ executing /\ pendingRuns = {} => faults > 0
      /\ Cardinality(pendingRuns) <= current
      /\ current <= Cardinality(pendingRuns) + faults
  BY DEF SlotsInv, SlotsReturned, pendingRuns
<1>4. faults \in Nat /\ current \in Nat
  BY DEF SlotsInv, TypeOK
<1>. HIDE DEF pendingRuns
<1>. QED  BY <1>1, <1>2, <1>3, <1>4, PendingFinite DEF slotVars

(* ... one raises them, ...                                                *)
LEMMA SlotTaken ==
    ASSUME SlotsInv, NEW r \in Runs, r \notin pendingRuns,
           pendingRuns' = pendingRuns \union {r}, executing' = TRUE, current' = current + 1,
           UNCHANGED faults
    PROVE  TypedSlots' /\ SlotsReturned'
<1>1. SlotsReturned' <=> /\ executing' /\ pendingRuns' = {} => faults' > 0
                         /\ Cardinality(pendingRuns') <= current'
                         /\ current' <= Cardinality(pendingRuns') + faults'
  BY DEF SlotsReturned, pendingRuns
<1>2. /\ Cardinality(pendingRuns) <= current
      /\ current <= Cardinality(pendingRuns) + faults
  BY DEF SlotsInv, SlotsReturned, pendingRuns
<1>3. faults \in Nat /\ current \in Nat
  BY DEF SlotsInv, TypeOK
<1>. HIDE DEF pendingRuns
<1>4. Cardinality(pendingRuns') = Cardinality(pendingRuns) + 1
  BY PendingFinite, FS_AddElement
<1>. QED  BY <1>1, <1>2, <1>3, <1>4, PendingFinite DEF TypedSlots

(* ... one gives them back, ...                                            *)
LEMMA SlotFreed ==
    ASSUME SlotsInv, NEW r \in Runs, r \in pendingRuns, pendingRuns' = pendingRuns \ {r},
           FreeSlot, UNCHANGED faults
    PROVE  TypedSlots' /\ SlotsReturned'
<1>1. SlotsReturned' <=> /\ executing' /\ pendingRuns' = {} => faults' > 0
                         /\ Cardinality(pendingRuns') <= current'
                         /\ current' <= Cardinality(pendingRuns') + faults'
  BY DEF SlotsReturned, pendingRuns
<1>2. /\ Cardinality(pendingRuns) <= current
      /\ current <= Cardinality(pendingRuns) + faults
  BY DEF SlotsInv, SlotsReturned, pendingRuns
<1>3. faults \in Nat /\ current \in Nat
  BY DEF SlotsInv, TypeOK
<1>. HIDE DEF pendingRuns
<1>4. Cardinality(pendingRuns') = Cardinality(pendingRuns) - 1
  BY PendingFinite, FS_RemoveElement
<1>5. executing' \in BOOLEAN /\ ~executing'
  BY Zenon DEF FreeSlot
<1>6. current' = current - 1
  BY DEF FreeSlot
<1>. QED  BY <1>1, <1>2, <1>3, <1>4, <1>5, <1>6, PendingFinite DEF TypedSlots

(* ... or one leaves without.                                              *)
LEMMA SlotLost ==
    ASSUME SlotsInv, NEW r \in Runs, r \in pendingRuns, pendingRuns' = pendingRuns \ {r},
           executing' \in BOOLEAN, UNCHANGED current, faults' = faults + 1
    PROVE  TypedSlots' /\ SlotsReturned'
<1>1. SlotsReturned' <=> /\ executing' /\ pendingRuns' = {} => faults' > 0
                         /\ Cardinality(pendingRuns') <= current'
                         /\ current' <= Cardinality(pendingRuns') + faults'
  BY DEF SlotsReturned, pendingRuns
<1>2. /\ Cardinality(pendingRuns) <= current
      /\ current <= Cardinality(pendingRuns) + faults
  BY DEF SlotsInv, SlotsReturned, pendingRuns
<1>3. faults \in Nat /\ current \in Nat
  BY DEF SlotsInv, TypeOK
<1>. HIDE DEF pendingRuns
<1>4. Cardinality(pendingRuns') = Cardinality(pendingRuns) - 1
  BY PendingFinite, FS_RemoveElement
<1>. QED  BY <1>1, <1>2, <1>3, <1>4, PendingFinite DEF TypedSlots

LEMMA SlotReset ==
    ASSUME pendingRuns' = {}, executing' = FALSE, current' = 0, faults' \in Nat
    PROVE  TypedSlots' /\ SlotsReturned'
<1>1. SlotsReturned' <=> /\ executing' /\ pendingRuns' = {} => faults' > 0
                         /\ Cardinality(pendingRuns') <= current'
                         /\ current' <= Cardinality(pendingRuns') + faults'
  BY DEF SlotsReturned, pendingRuns
<1>. HIDE DEF pendingRuns
<1>2. executing' \in BOOLEAN /\ ~executing'
  BY Zenon
<1>3. Cardinality(pendingRuns') = 0
  BY FS_EmptySet
<1>. QED  BY <1>1, <1>2, <1>3 DEF TypedSlots

-----------------------------------------------------------------------------
(***************************************************************************)
(* Type correctness, and what executeNext takes it gives back.             *)
(***************************************************************************)

LEMMA SlotsInit == Init => SlotsInv
<1>. SUFFICES ASSUME Init PROVE SlotsInv
  OBVIOUS
<1>1. NoEntries \in Entries /\ Absent \in Entry
  BY DEF NoEntries, Entries, Absent, Entry
<1>2. TypedQueue /\ TypedLog /\ TypedLetters
  <2>1. TypedQueue
    BY <1>1, QueueAssumption DEF Init, QueueInit, TypedQueue
  <2>2. NotRewriting \in Rewriting /\ torn \in BOOLEAN
    BY <1>1, Zenon DEF Init, QueueInit, Rewriting, NotRewriting
  <2>3. TypedLog
    BY <1>1, <2>2 DEF Init, QueueInit, TypedLog
  <2>4. TypedLetters
    BY DEF Init, QueueInit, TypedLetters, DLQState
  <2>. QED  BY <2>1, <2>3, <2>4
<1>3. TypedRuns
  BY <1>1 DEF Init, TypedRuns, RunTyped, Idle, Run, Pc
<1>4. TypedRest /\ TypedCalls
  BY <1>1 DEF Init, TypedRest, TypedCalls, NoCall, Call
<1>5. executing \in BOOLEAN /\ ~executing
  BY Zenon DEF Init
<1>6. TypedSlots /\ TypedBounds
  BY <1>5, ExecutorAssumption DEF Init, TypedSlots, TypedBounds
<1>7. {r \in Runs : Pending(r)} = {}
  BY DEF Init, Idle, Pending
<1>8. SlotsReturned
  BY <1>5, <1>7, FS_EmptySet DEF Init, SlotsReturned
<1>. QED  BY <1>2, <1>3, <1>4, <1>6, <1>8, TypedGroups DEF SlotsInv

(* The steps outside executeNext.                                          *)
LEMMA SlotsElsewhere ==
    ASSUME SlotsInv, UNCHANGED <<run, slotVars>>, TypedBounds', faults' >= faults,
           TypedQueue', TypedLog', TypedLetters', TypedRest', TypedCalls'
    PROVE  SlotsInv'
<1>1. TypedRuns'
  BY TypedGroups DEF SlotsInv, TypedRuns
<1>2. pendingRuns' = pendingRuns
  BY DEF pendingRuns, Pending
<1>3. TypedSlots' /\ SlotsReturned'
  BY <1>2, SlotKept DEF TypedBounds
<1>. QED  BY <1>1, <1>3, TypedGroupsNext DEF SlotsInv

LEMMA TriggerTyped == Trigger => triggered' \in BOOLEAN
BY Zenon DEF Trigger

LEMMA LookTyped == \A r \in Runs : LookForMore(r) => triggered' \in BOOLEAN
BY Zenon DEF LookForMore

LEMMA SlotsAdmission ==
    ASSUME SlotsInv, NEW e \in Envelopes, Admission(e)
    PROVE  SlotsInv'
<1>t. TypeOK
  BY DEF SlotsInv
<1>g. /\ TypedQueue /\ TypedLog /\ TypedLetters /\ TypedRuns
      /\ TypedSlots /\ TypedRest /\ TypedCalls /\ TypedBounds
  BY <1>t, TypedGroups
<1>b. faults \in Nat /\ (UNCHANGED boundVars => TypedBounds' /\ faults' >= faults)
  BY <1>t, <1>g, TypedSame DEF TypedBounds, boundVars
<1>1. CASE Submit(e)
  <2>1. TypedQueue' /\ TypedCalls'
    BY <1>1, <1>t, EnqueueTyped DEF Submit
  <2>2. TypedRest'
    BY <1>1, <1>g DEF Submit, TypedRest, budgetVars, controlVars
  <2>. QED  BY <1>1, <1>b, <1>t, <2>1, <2>2, TypedSame, SlotsElsewhere DEF Submit
<1>2. CASE SubmitDuplicate(e)
  <2>1. TypedRest'
    BY <1>2, <1>g, TriggerTyped DEF SubmitDuplicate, TypedRest, controlVars
  <2>. QED  BY <1>2, <1>b, <1>t, <2>1, TypedSame, SlotsElsewhere DEF SubmitDuplicate
<1>3. CASE Enqueued(e)
  <2>1. call[e].line \in Entry
    BY <1>g DEF TypedCalls, Call
  <2>2. TypedLog' /\ TypedCalls'
    BY <1>3, <1>t, <2>1, PersistTyped, NoCallTyped DEF Enqueued
  <2>3. TypedRest'
    BY <1>3, <1>g, TriggerTyped DEF Enqueued, TypedRest, controlVars
  <2>. QED  BY <1>3, <1>b, <1>t, <2>2, <2>3, TypedSame, SlotsElsewhere DEF Enqueued
<1>4. CASE EnqueueFails(e) \/ RequeueFails(e)
  <2>1. TypedBounds' /\ faults' >= faults
    BY <1>4, <1>t, <1>b, FaultTyped DEF EnqueueFails, RequeueFails
  <2>2. TypedCalls'
    BY <1>4, <1>t, NoCallTyped DEF EnqueueFails, RequeueFails
  <2>3. TypedRest'
    BY <1>4, <1>g DEF EnqueueFails, RequeueFails, TypedRest, budgetVars, controlVars
  <2>. QED
    BY <1>4, <1>t, <2>1, <2>2, <2>3, TypedSame, SlotsElsewhere DEF EnqueueFails, RequeueFails
<1>5. CASE RequeueDeadLetter(e)
  <2>1. TypedLetters'
    BY <1>5, <1>t, LettersTyped DEF RequeueDeadLetter, DLQState
  <2>2. TypedCalls'
    BY <1>5, <1>g DEF RequeueDeadLetter, TypedCalls, Call
  <2>3. TypedRest'
    BY <1>5, <1>g DEF RequeueDeadLetter, TypedRest, budgetVars, controlVars
  <2>. QED  BY <1>5, <1>b, <1>t, <2>1, <2>2, <2>3, TypedSame, SlotsElsewhere DEF RequeueDeadLetter
<1>6. CASE Requeued(e)
  <2>1. TypedLetters'
    BY <1>6, <1>t, LettersTyped DEF Requeued, DLQState
  <2>2. TypedQueue' /\ TypedCalls'
    BY <1>6, <1>t, EnqueueTyped, NoCallTyped, TypedSame DEF Requeued
  <2>3. counted' \subseteq Envelopes /\ triggered' \in BOOLEAN
    BY <1>6, <1>g, TriggerTyped DEF Requeued, TypedRest
  <2>4. TypedRest'
    BY <1>6, <1>g, <2>3 DEF Requeued, TypedRest, controlVars
  <2>. QED  BY <1>6, <1>b, <1>t, <2>1, <2>2, <2>4, TypedSame, SlotsElsewhere DEF Requeued
<1>7. CASE CancelDeadLetter(e)
  <2>1. TypedLetters'
    BY <1>7, <1>t, LettersTyped DEF CancelDeadLetter, DLQState
  <2>2. TypedRest'
    BY <1>7, <1>g DEF CancelDeadLetter, TypedRest, budgetVars, controlVars
  <2>. QED  BY <1>7, <1>b, <1>t, <2>1, <2>2, TypedSame, SlotsElsewhere DEF CancelDeadLetter
<1>. QED  BY <1>1, <1>2, <1>3, <1>4, <1>5, <1>6, <1>7 DEF Admission

(* The steps of executeNext, given what they do to the slot.               *)
LEMMA SlotsTogether ==
    ASSUME TypedSlots' /\ SlotsReturned', TypedRuns', TypedBounds', TypedQueue', TypedLog',
           TypedLetters', TypedRest', TypedCalls'
    PROVE  SlotsInv'
BY TypedGroupsNext DEF SlotsInv

LEMMA SlotsPick ==
    ASSUME SlotsInv, NEW r \in Runs, NEW e \in Envelopes, Pick(r, e), run[r].pc \in {"idle", "again"},
           triggered' \in BOOLEAN
    PROVE  SlotsInv'
<1>t. TypeOK
  BY DEF SlotsInv
<1>g. TypedRest /\ TypedBounds
  BY <1>t, TypedGroups
<1>1. RunTyped([Idle EXCEPT !.pc = "picked", !.envelope = e])
  BY <1>t, RunsTyped
<1>2. /\ TypedRuns' /\ run'[r] = [Idle EXCEPT !.pc = "picked", !.envelope = e]
      /\ \A s \in Runs \ {r} : run'[s] = run[s]
  BY <1>t, <1>1, RunMoves DEF Pick
<1>3. run'[r].pc = "picked"
  BY <1>2 DEF Idle
<1>4. pendingRuns' = pendingRuns
  BY <1>2, <1>3, PendingMoves DEF Pending
<1>5. TypedSlots' /\ SlotsReturned'
  BY <1>g, <1>4, SlotKept DEF Pick, TypedBounds, boundVars
<1>6. TypedRest'
  BY <1>g DEF Pick, TypedRest, budgetVars, controlVars
<1>. QED  BY <1>t, <1>2, <1>5, <1>6, TypedSame, SlotsTogether DEF Pick

LEMMA SlotsContinue ==
    ASSUME SlotsInv, NEW r \in Runs, Continue(r)
    PROVE  SlotsInv'
<1>. DEFINE e == run[r].envelope
<1>t. TypeOK
  BY DEF SlotsInv
<1>g. /\ TypedQueue /\ TypedLog /\ TypedLetters /\ TypedRuns
      /\ TypedSlots /\ TypedRest /\ TypedCalls /\ TypedBounds
  BY <1>t, TypedGroups
<1>b. /\ faults \in Nat /\ (UNCHANGED boundVars => TypedBounds' /\ UNCHANGED faults)
      /\ Fault /\ UNCHANGED crashes => TypedBounds' /\ faults' \in Nat /\ faults' = faults + 1
  BY <1>t, <1>g, TypedSame, FaultTyped DEF TypedBounds, boundVars
<1>p. run[r].pc \notin {"idle", "again"}
  BY DEF Continue, SkipExecuted, BudgetRefuses, Begin, Start, MarkFails, ExecutionFails,
         ExecutionSucceeds, Complete, CompleteFails, AfterFailure, Bury, CatchFails
<1>e. /\ e \in Envelopes /\ run[r].line \in Entry
      /\ Executing(e) \in Entry /\ Completed(e) \in Entry /\ Failed(e) \in Entry
  BY <1>t, <1>p, RunsTyped, EntryTyped
<1>i. /\ RunTyped(Idle) /\ RunTyped(Returned(r))
      /\ Idle.pc = "idle" /\ Returned(r).pc \in {"idle", "again"}
  BY <1>t, RunsTyped DEF Idle, Returned
<1>r. \A pc \in Pc \ {"idle", "again"} :
         /\ RunTyped([run[r] EXCEPT !.pc = pc])
         /\ \A x \in Entry :
               /\ RunTyped([run[r] EXCEPT !.pc = pc, !.line = x])
               /\ \A b \in BOOLEAN :
                     RunTyped([run[r] EXCEPT !.pc = pc, !.line = x, !.retryable = b])
  BY <1>t, <1>p, RunsTyped
<1>f. /\ \A pc : [run[r] EXCEPT !.pc = pc].pc = pc
      /\ \A pc, x : [run[r] EXCEPT !.pc = pc, !.line = x].pc = pc
      /\ \A pc, x, b : [run[r] EXCEPT !.pc = pc, !.line = x, !.retryable = b].pc = pc
  BY <1>g DEF TypedRuns, Run
<1>m. \A x : RunTyped(x) /\ Become(r, x) =>
         /\ TypedRuns'
         /\ x.pc \notin {"idle", "again", "picked"} /\ Pending(r) => pendingRuns' = pendingRuns
         /\ x.pc \in {"idle", "again", "picked"} /\ ~Pending(r) => pendingRuns' = pendingRuns
         /\ x.pc \in {"idle", "again", "picked"} /\ Pending(r) =>
               r \in pendingRuns /\ pendingRuns' = pendingRuns \ {r}
         /\ x.pc \notin {"idle", "again", "picked"} /\ ~Pending(r) =>
               r \notin pendingRuns /\ pendingRuns' = pendingRuns \union {r}
  <2>1. ASSUME NEW x, RunTyped(x), Become(r, x)
        PROVE  TypedRuns' /\ run'[r] = x /\ \A s \in Runs \ {r} : run'[s] = run[s]
    BY <1>t, <2>1, RunMoves
  <2>2. ASSUME NEW x, RunTyped(x), Become(r, x)
        PROVE  Pending(r)' <=> x.pc \notin {"idle", "again", "picked"}
    BY <2>1, <2>2 DEF Pending
  <2>. QED  BY <2>1, <2>2, PendingMoves
<1>. DEFINE InSlot == /\ TypedRuns'
                      /\ Pending(r) => pendingRuns' = pendingRuns
                      /\ ~Pending(r) => r \notin pendingRuns /\ pendingRuns' = pendingRuns \union {r}
<1>n. \A pc \in {"marking", "running", "completing", "failing", "burying"} :
         /\ Become(r, [run[r] EXCEPT !.pc = pc]) => InSlot
         /\ \A x \in Entry :
               /\ Become(r, [run[r] EXCEPT !.pc = pc, !.line = x]) => InSlot
               /\ \A b \in BOOLEAN :
                     Become(r, [run[r] EXCEPT !.pc = pc, !.line = x, !.retryable = b]) => InSlot
  <2>1. ASSUME NEW pc \in {"marking", "running", "completing", "failing", "burying"}
        PROVE  pc \in Pc \ {"idle", "again"} /\ pc \notin {"idle", "again", "picked"}
    BY DEF Pc
  <2>2. ASSUME NEW x, RunTyped(x), Become(r, x), x.pc \notin {"idle", "again", "picked"}
        PROVE  InSlot
    BY <1>m, <2>2
  <2>3. ASSUME NEW pc \in {"marking", "running", "completing", "failing", "burying"}
        PROVE  Become(r, [run[r] EXCEPT !.pc = pc]) => InSlot
    <3>. DEFINE x == [run[r] EXCEPT !.pc = pc]
    <3>1. RunTyped(x) /\ x.pc \notin {"idle", "again", "picked"}
      BY <1>r, <1>f, <2>1
    <3>. QED  BY <2>2, <3>1
  <2>4. ASSUME NEW pc \in {"marking", "running", "completing", "failing", "burying"}, NEW y \in Entry
        PROVE  Become(r, [run[r] EXCEPT !.pc = pc, !.line = y]) => InSlot
    <3>. DEFINE x == [run[r] EXCEPT !.pc = pc, !.line = y]
    <3>1. RunTyped(x) /\ x.pc \notin {"idle", "again", "picked"}
      BY <1>r, <1>f, <2>1
    <3>. QED  BY <2>2, <3>1
  <2>5. ASSUME NEW pc \in {"marking", "running", "completing", "failing", "burying"}, NEW y \in Entry,
               NEW b \in BOOLEAN
        PROVE  Become(r, [run[r] EXCEPT !.pc = pc, !.line = y, !.retryable = b]) => InSlot
    <3>. DEFINE x == [run[r] EXCEPT !.pc = pc, !.line = y, !.retryable = b]
    <3>1. RunTyped(x)
      BY <1>r, <2>1, Zenon
    <3>2. x.pc \notin {"idle", "again", "picked"}
      BY <1>f, <2>1
    <3>. QED  BY <2>2, <3>1, <3>2
  <2>. QED  BY <2>3, <2>4, <2>5
<1>1. CASE SkipExecuted(r)
  <2>1. TypedRuns' /\ pendingRuns' = pendingRuns
    BY <1>1, <1>i, <1>m DEF SkipExecuted, Pending
  <2>2. TypedQueue'
    BY <1>1, <1>t, <1>e, RemoveTyped DEF SkipExecuted
  <2>3. TypedRest'
    BY <1>1, <1>g, LookTyped DEF SkipExecuted, TypedRest, budgetVars, controlVars
  <2>4. TypedSlots' /\ SlotsReturned'
    BY <1>1, <1>b, <2>1, SlotKept DEF SkipExecuted
  <2>. QED  BY <1>1, <1>t, <1>b, <2>1, <2>2, <2>3, <2>4, TypedSame, SlotsTogether DEF SkipExecuted
<1>2. CASE BudgetRefuses(r)
  <2>1. TypedRuns' /\ pendingRuns' = pendingRuns
    BY <1>2, <1>i, <1>m DEF BudgetRefuses, Pending
  <2>2. TypedRest'
    BY <1>2, <1>g, LookTyped DEF BudgetRefuses, TypedRest, budgetVars, controlVars
  <2>3. TypedSlots' /\ SlotsReturned'
    BY <1>2, <1>b, <2>1, SlotKept DEF BudgetRefuses
  <2>. QED  BY <1>2, <1>t, <1>b, <2>1, <2>2, <2>3, TypedSame, SlotsTogether DEF BudgetRefuses
<1>3. CASE Begin(r)
  <2>1. TypedRuns' /\ r \notin pendingRuns /\ pendingRuns' = pendingRuns \union {r}
    BY <1>3, <1>e, <1>n DEF Begin, Pending
  <2>2. TypedQueue'
    BY <1>3, <1>t, <1>g, <1>e, SetEntryTyped DEF Begin, TypedQueue
  <2>3. TypedRest'
    BY <1>3, <1>g DEF Begin, TypedRest, budgetVars, controlVars
  <2>4. TypedSlots' /\ SlotsReturned'
    BY <1>3, <1>b, <2>1, SlotTaken DEF Begin
  <2>. QED  BY <1>3, <1>t, <1>b, <2>1, <2>2, <2>3, <2>4, TypedSame, SlotsTogether DEF Begin
<1>4. CASE Start(r)
  <2>1. TypedRuns' /\ pendingRuns' = pendingRuns
    BY <1>4, <1>n DEF Start, Pending
  <2>2. TypedLog'
    BY <1>4, <1>t, <1>e, PersistTyped DEF Start
  <2>3. TypedRest'
    BY <1>4, <1>g, <1>e DEF Start, TypedRest
  <2>4. TypedSlots' /\ SlotsReturned'
    BY <1>4, <1>b, <2>1, SlotKept DEF Start
  <2>. QED  BY <1>4, <1>t, <1>b, <2>1, <2>2, <2>3, <2>4, TypedSame, SlotsTogether DEF Start
<1>5. CASE MarkFails(r) \/ CompleteFails(r) \/ \E b \in BOOLEAN : ExecutionFails(r, b)
  <2>1. PICK b \in BOOLEAN : BeginFailure(r, b)
    BY <1>5 DEF MarkFails, CompleteFails, ExecutionFails
  <2>2. TypedRuns' /\ pendingRuns' = pendingRuns
    <3>1. Become(r, [run[r] EXCEPT !.pc = "failing", !.line = Failed(e), !.retryable = b])
      BY <2>1 DEF BeginFailure
    <3>2. Pending(r)
      BY <1>5 DEF MarkFails, CompleteFails, ExecutionFails, Pending
    <3>. HIDE DEF e
    <3>. QED  BY <1>e, <1>n, <3>1, <3>2
  <2>3. TypedQueue'
    BY <1>5, <1>t, <1>g, <1>e, <2>1, SetEntryTyped
    DEF MarkFails, CompleteFails, ExecutionFails, BeginFailure, TypedQueue
  <2>4. TypedRest'
    BY <1>5, <1>g
    DEF MarkFails, CompleteFails, ExecutionFails, TypedRest, budgetVars, controlVars
  <2>5. TypedBounds' /\ faults' \in Nat /\ faults' >= faults
    <3>1. (Fault /\ UNCHANGED crashes) \/ UNCHANGED boundVars
      BY <1>5 DEF MarkFails, CompleteFails, ExecutionFails
    <3>. QED  BY <1>b, <3>1
  <2>6. TypedSlots' /\ SlotsReturned'
    BY <1>5, <2>2, <2>5, SlotKept DEF MarkFails, CompleteFails, ExecutionFails
  <2>. QED
    BY <1>5, <1>t, <2>2, <2>3, <2>4, <2>5, <2>6, TypedSame, SlotsTogether
    DEF MarkFails, CompleteFails, ExecutionFails
<1>6. CASE ExecutionSucceeds(r)
  <2>1. TypedRuns' /\ pendingRuns' = pendingRuns
    BY <1>6, <1>e, <1>n DEF ExecutionSucceeds, Pending
  <2>2. TypedQueue'
    BY <1>6, <1>t, <1>g, <1>e, SetEntryTyped DEF ExecutionSucceeds, TypedQueue
  <2>3. TypedRest'
    BY <1>6, <1>g DEF ExecutionSucceeds, TypedRest, budgetVars, controlVars
  <2>4. TypedSlots' /\ SlotsReturned'
    BY <1>6, <1>b, <2>1, SlotKept DEF ExecutionSucceeds
  <2>. QED  BY <1>6, <1>t, <1>b, <2>1, <2>2, <2>3, <2>4, TypedSame, SlotsTogether DEF ExecutionSucceeds
<1>7. CASE Complete(r)
  <2>1. TypedRuns' /\ r \in pendingRuns /\ pendingRuns' = pendingRuns \ {r}
    BY <1>7, <1>i, <1>m DEF Complete, Pending
  <2>2. TypedQueue'
    BY <1>7, <1>t, <1>g, <1>e, LeaveFifoTyped DEF Complete, TypedQueue
  <2>3. TypedLog'
    BY <1>7, <1>t, <1>e, PersistTyped DEF Complete
  <2>4. TypedRest'
    BY <1>7, <1>g, LookTyped DEF Complete, TypedRest, controlVars
  <2>5. TypedSlots' /\ SlotsReturned'
    BY <1>7, <1>b, <2>1, SlotFreed DEF Complete
  <2>. QED  BY <1>7, <1>t, <1>b, <2>1, <2>2, <2>3, <2>4, <2>5, TypedSame, SlotsTogether DEF Complete
<1>8. CASE AfterFailure(r)
  <2>1. TypedLog'
    BY <1>8, <1>t, <1>e, PersistTyped DEF AfterFailure
  <2>2. TypedLetters'
    BY <1>8, <1>t, <1>g, <1>e, LettersTyped DEF AfterFailure, DLQState, TypedLetters
  <2>3. TypedRest'
    BY <1>8, <1>g, <1>e DEF AfterFailure, TypedRest, controlVars
  <2>4. TypedRuns' /\ TypedSlots' /\ SlotsReturned'
    <3>1. CASE FreeSlot /\ Become(r, Idle)
      <4>1. TypedRuns' /\ r \in pendingRuns /\ pendingRuns' = pendingRuns \ {r}
        BY <1>8, <1>i, <1>m, <3>1 DEF AfterFailure, Pending
      <4>. QED  BY <1>8, <1>b, <3>1, <4>1, SlotFreed DEF AfterFailure
    <3>2. CASE UNCHANGED slotVars /\ Become(r, [run[r] EXCEPT !.pc = "burying"])
      <4>1. TypedRuns' /\ pendingRuns' = pendingRuns
        BY <1>8, <1>n, <3>2 DEF AfterFailure, Pending
      <4>. QED  BY <1>8, <1>b, <3>2, <4>1, SlotKept DEF AfterFailure
    <3>. QED  BY <1>8, <3>1, <3>2 DEF AfterFailure
  <2>. QED  BY <1>8, <1>t, <1>b, <2>1, <2>2, <2>3, <2>4, TypedSame, SlotsTogether DEF AfterFailure
<1>9. CASE Bury(r)
  <2>1. TypedRuns' /\ r \in pendingRuns /\ pendingRuns' = pendingRuns \ {r}
    BY <1>9, <1>i, <1>m DEF Bury, Pending
  <2>2. TypedQueue'
    BY <1>9, <1>t, <1>e, RemoveTyped DEF Bury
  <2>3. TypedLetters'
    BY <1>9, <1>t, <1>e, LettersTyped DEF Bury, DLQState
  <2>4. TypedRest'
    BY <1>9, <1>g DEF Bury, TypedRest, budgetVars, controlVars
  <2>5. TypedSlots' /\ SlotsReturned'
    BY <1>9, <1>b, <2>1, SlotFreed DEF Bury
  <2>. QED  BY <1>9, <1>t, <1>b, <2>1, <2>2, <2>3, <2>4, <2>5, TypedSame, SlotsTogether DEF Bury
<1>10. CASE CatchFails(r)
  <2>1. TypedRuns' /\ r \in pendingRuns /\ pendingRuns' = pendingRuns \ {r}
    BY <1>10, <1>i, <1>m DEF CatchFails, Pending
  <2>2. TypedRest'
    BY <1>10, <1>g DEF CatchFails, TypedRest, budgetVars, controlVars
  <2>3. executing' \in BOOLEAN
    BY <1>10, Zenon DEF CatchFails
  <2>4. TypedSlots' /\ SlotsReturned'
    BY <1>10, <1>b, <2>1, <2>3, SlotLost DEF CatchFails
  <2>. QED  BY <1>10, <1>t, <1>b, <2>1, <2>2, <2>4, TypedSame, SlotsTogether DEF CatchFails
<1>. QED
  BY <1>1, <1>2, <1>3, <1>4, <1>5, <1>6, <1>7, <1>8, <1>9, <1>10 DEF Continue

LEMMA SlotsOperate ==
    ASSUME SlotsInv, Operate
    PROVE  SlotsInv'
<1>t. TypeOK
  BY DEF SlotsInv
<1>g. /\ TypedQueue /\ TypedLog /\ TypedLetters /\ TypedRuns
      /\ TypedSlots /\ TypedRest /\ TypedCalls /\ TypedBounds
  BY <1>t, TypedGroups
<1>b. faults \in Nat /\ (UNCHANGED boundVars => TypedBounds' /\ faults' >= faults)
  BY <1>t, <1>g, TypedSame DEF TypedBounds, boundVars
<1>1. CASE PauseExecution \/ ResumeExecution
  <2>1. paused' \in BOOLEAN
    BY <1>1, Zenon DEF PauseExecution, ResumeExecution
  <2>2. late' \in Nat
    BY <1>1, <1>g DEF PauseExecution, ResumeExecution, TypedRest
  <2>3. TypedRest'
    BY <1>1, <1>g, <2>1, <2>2, TriggerTyped
    DEF PauseExecution, ResumeExecution, TypedRest, budgetVars
  <2>. QED
    BY <1>1, <1>b, <1>t, <2>3, TypedSame, SlotsElsewhere DEF PauseExecution, ResumeExecution
<1>2. CASE Cleanup
  <2>1. \A e \in Envelopes : entry[e] \in Entry /\ Absent \in Entry
    BY <1>t, EntryTyped
  <2>2. entry' \in Entries
    BY <1>2, <2>1 DEF Cleanup, ClearCompleted, Entries
  <2>3. TypedQueue'
    BY <1>2, <1>g, <2>2 DEF Cleanup, ClearCompleted, TypedQueue
  <2>4. NoEntries \in Entries
    BY DEF NoEntries, Entries, Absent, Entry
  <2>5. rewriting' = [on |-> TRUE, lines |-> entry']
    BY <1>2 DEF Cleanup, ClearCompleted
  <2>6. TypedLog'
    BY <1>2, <1>g, <2>2, <2>4, <2>5 DEF Cleanup, ClearCompleted, TypedLog, Rewriting
  <2>7. TypedRest'
    BY <1>2, <1>g DEF Cleanup, TypedRest, budgetVars, controlVars
  <2>. QED  BY <1>2, <1>b, <1>t, <2>3, <2>6, <2>7, TypedSame, SlotsElsewhere DEF Cleanup
<1>3. CASE CleanupEnds
  <2>1. NotRewriting \in Rewriting
    BY DEF NotRewriting, Rewriting, NoEntries, Entries, Absent, Entry
  <2>2. TypedLog'
    BY <1>3, <1>g, <2>1 DEF CleanupEnds, RebuildQueueFile, TypedLog, Rewriting
  <2>3. TypedRest'
    BY <1>3, <1>g DEF CleanupEnds, TypedRest, budgetVars, controlVars
  <2>. QED  BY <1>3, <1>b, <1>t, <2>2, <2>3, TypedSame, SlotsElsewhere DEF CleanupEnds
<1>4. CASE Crash
  <2>1. NotRewriting \in Rewriting /\ Idle \in Run /\ NoCall \in Call /\ RunTyped(Idle)
    BY DEF NotRewriting, Rewriting, NoEntries, Entries, Absent, Entry, Idle, Run, RunTyped, Pc,
           NoCall, Call
  <2>2. \A e \in Envelopes : disk[e].queuedAt \in Nat
    BY <1>g DEF TypedLog, Entries, Entry
  <2>3. TypedQueue'
    BY <1>4, <1>g, <2>2 DEF Crash, LoadFromDisk, TypedQueue, TypedLog
  <2>4. torn' \in BOOLEAN
    BY <1>4, Zenon DEF Crash, LoadFromDisk
  <2>5. TypedLog'
    BY <1>4, <1>g, <2>1, <2>4 DEF Crash, LoadFromDisk, TypedLog
  <2>6. TypedLetters' /\ TypedCalls'
    BY <1>4, <1>g, <2>1 DEF Crash, TypedLetters, TypedCalls
  <2>7. TypedRuns'
    BY <1>4, <2>1 DEF Crash, TypedRuns
  <2>8. triggered' \in BOOLEAN /\ recovering' \in BOOLEAN
    BY <1>4, Zenon DEF Crash
  <2>9. TypedRest'
    BY <1>4, <1>g, <2>8 DEF Crash, TypedRest
  <2>10. TypedBounds' /\ faults' \in Nat
    BY <1>4, <1>g, ExecutorAssumption DEF Crash, TypedBounds
  <2>11. pendingRuns' = {}
    BY <1>4 DEF Crash, pendingRuns, Pending, Idle
  <2>12. TypedSlots' /\ SlotsReturned'
    BY <1>4, <2>10, <2>11, SlotReset DEF Crash
  <2>. QED  BY <2>3, <2>5, <2>6, <2>7, <2>9, <2>10, <2>12, SlotsTogether
<1>5. CASE RecoveryEnds
  <2>1. recovering' \in BOOLEAN
    BY <1>5, Zenon DEF RecoveryEnds
  <2>2. TypedRest'
    BY <1>5, <1>g, <2>1 DEF RecoveryEnds, TypedRest, budgetVars, controlVars
  <2>. QED  BY <1>5, <1>b, <1>t, <2>2, TypedSame, SlotsElsewhere DEF RecoveryEnds
<1>6. ASSUME NEW e \in Envelopes, RetryTimerFires(e) PROVE SlotsInv'
  <2>1. TypedRest'
    BY <1>6, <1>g, TriggerTyped DEF RetryTimerFires, TypedRest, budgetVars, controlVars
  <2>. QED  BY <1>6, <1>b, <1>t, <2>1, TypedSame, SlotsElsewhere DEF RetryTimerFires
<1>7. ASSUME NEW e \in Envelopes, RecoverOrphan(e) PROVE SlotsInv'
  <2>1. TypedQueue' /\ TypedLetters'
    <3>1. CASE /\ ticket < MaxTickets
               /\ SetEntry(e, [entry[e] EXCEPT !.state = "queued", !.retry = @ + 1])
               /\ place' = [place EXCEPT ![e] = -(ticket + 1)]
               /\ ticket' = ticket + 1
               /\ UNCHANGED letterVars
      <4>1. entry[e] \in Entry /\ ticket \in Nat /\ MaxTickets \in Nat
        BY <1>t, <1>g, EntryTyped, QueueAssumption DEF TypedQueue
      <4>2. [entry[e] EXCEPT !.state = "queued", !.retry = @ + 1] \in Entry
        <5>1. ASSUME NEW x \in Entry PROVE [x EXCEPT !.state = "queued"] \in Entry
          BY DEF Entry, QueueState
        <5>2. ASSUME NEW x \in Entry PROVE [x EXCEPT !.retry = x.retry + 1] \in Entry
          BY DEF Entry
        <5>3. [entry[e] EXCEPT !.state = "queued"].retry = entry[e].retry
          BY <4>1 DEF Entry
        <5>. QED  BY <4>1, <5>1, <5>2, <5>3
      <4>3. entry' \in Entries
        BY <1>t, <3>1, <4>2, SetEntryTyped
      <4>4. place' \in [Envelopes -> Int] /\ ticket' \in 0 .. MaxTickets
        BY <1>g, <3>1, <4>1 DEF TypedQueue
      <4>. QED  BY <1>7, <1>t, <1>g, <3>1, <4>3, <4>4, TypedSame DEF RecoverOrphan, TypedQueue
    <3>2. CASE SetLetter(e, "dead_lettered") /\ PersistLetter(e, "dead_lettered")
               /\ Remove(e) /\ UNCHANGED ticket
      BY <1>7, <1>t, <3>2, RemoveTyped, LettersTyped DEF RecoverOrphan, DLQState
    <3>. QED  BY <1>7, <3>1, <3>2 DEF RecoverOrphan
  <2>2. TypedRest'
    BY <1>7, <1>g DEF RecoverOrphan, TypedRest, budgetVars, controlVars
  <2>. QED  BY <1>7, <1>b, <1>t, <2>1, <2>2, TypedSame, SlotsElsewhere DEF RecoverOrphan
<1>. QED  BY <1>1, <1>2, <1>3, <1>4, <1>5, <1>6, <1>7 DEF Operate

LEMMA SlotsNext == SlotsInv /\ [Next]_vars => SlotsInv'
<1>. SUFFICES ASSUME SlotsInv, [Next]_vars PROVE SlotsInv'
  OBVIOUS
<1>t. TypeOK
  BY DEF SlotsInv
<1>g. TypedRest /\ TypedBounds
  BY <1>t, TypedGroups
<1>1. ASSUME NEW e \in Envelopes, Admission(e) PROVE SlotsInv'
  BY <1>1, SlotsAdmission
<1>2. CASE LoopPicks
  <2>1. PICK e \in Envelopes : Pick(Loop, e)
    BY <1>2 DEF LoopPicks
  <2>2. triggered' \in BOOLEAN
    BY <1>2, Zenon DEF LoopPicks
  <2>. QED  BY <1>2, <2>1, <2>2, SlotsPick DEF LoopPicks, Runs
<1>3. CASE LoopStops
  <2>1. triggered' \in BOOLEAN
    BY <1>3, Zenon DEF LoopStops
  <2>2. TypedRest'
    BY <1>3, <1>g, <2>1 DEF LoopStops, TypedRest, budgetVars, controlVars
  <2>3. TypedBounds' /\ faults' >= faults
    BY <1>3, <1>t, <1>g, TypedSame DEF LoopStops, TypedBounds, boundVars
  <2>. QED  BY <1>3, <1>t, <2>2, <2>3, TypedSame, SlotsElsewhere DEF LoopStops
<1>4. ASSUME NEW b \in Batches, BatchPicks(b) PROVE SlotsInv'
  <2>1. PICK e \in Envelopes : Pick(b, e)
    BY <1>4 DEF BatchPicks
  <2>2. triggered' \in BOOLEAN
    BY <1>4, <1>g DEF BatchPicks, TypedRest
  <2>. QED  BY <1>4, <2>1, <2>2, SlotsPick DEF BatchPicks, Runs
<1>5. ASSUME NEW b \in Batches, BatchEnds(b) PROVE SlotsInv'
  <2>1. b \in Runs /\ RunTyped(Idle) /\ Idle.pc = "idle"
    BY <1>t, RunsTyped DEF Runs, Idle
  <2>2. TypedRuns' /\ run'[b] = Idle /\ \A s \in Runs \ {b} : run'[s] = run[s]
    BY <1>5, <1>t, <2>1, RunMoves DEF BatchEnds
  <2>3. pendingRuns' = pendingRuns
    BY <1>5, <2>1, <2>2, PendingMoves DEF BatchEnds, Pending
  <2>4. TypedSlots' /\ SlotsReturned' /\ TypedBounds'
    BY <1>5, <1>t, <1>g, <2>3, SlotKept, TypedSame DEF BatchEnds, TypedBounds, boundVars
  <2>5. TypedRest'
    BY <1>5, <1>g DEF BatchEnds, TypedRest, budgetVars, controlVars
  <2>. QED  BY <1>5, <1>t, <2>2, <2>4, <2>5, TypedSame, SlotsTogether DEF BatchEnds
<1>6. ASSUME NEW r \in Runs, Continue(r) PROVE SlotsInv'
  BY <1>6, SlotsContinue
<1>7. CASE Operate
  BY <1>7, SlotsOperate
<1>8. CASE UNCHANGED vars
  <2>1. TypedRest'
    BY <1>8, <1>g DEF vars, TypedRest, budgetVars, controlVars
  <2>2. TypedBounds' /\ faults' >= faults
    BY <1>8, <1>t, <1>g, TypedSame DEF vars, TypedBounds, boundVars
  <2>. QED  BY <1>8, <1>t, <2>1, <2>2, TypedSame, SlotsElsewhere DEF vars
<1>. QED  BY <1>1, <1>2, <1>3, <1>4, <1>5, <1>6, <1>7, <1>8 DEF Next

(* The state of the executor stays typed.                                  *)
THEOREM TypeCorrect == Spec => []TypeOK
<1>1. SlotsInv => TypeOK
  BY DEF SlotsInv
<1>. QED  BY <1>1, SlotsInit, SlotsNext, PTL DEF Spec

(* The flag executing and the counter currentExecutions are given back by  *)
(* every way out of executeNext but an append that fails in its catch.     *)
THEOREM SlotsAlwaysReturned == Spec => []SlotsReturned
<1>1. SlotsInv => SlotsReturned
  BY DEF SlotsInv
<1>. QED  BY <1>1, SlotsInit, SlotsNext, PTL DEF Spec

-----------------------------------------------------------------------------
(***************************************************************************)
(* One executor.  The flag is tested by a pick and raised by Begin; the    *)
(* rest of the turn in between belongs to this call alone unless           *)
(* processQueue is called again in it.                                     *)
(***************************************************************************)
OnePick == \A r, s \in Runs : run[r].pc = "picked" /\ run[s].pc = "picked" => r = s

Others(r) == \A s \in Runs \ {r} : run'[s] = run[s]
SameEnvelope(r) == run'[r].envelope = run[r].envelope

(* What a step does to the runs, the flag, the results and the pause.      *)
PickStep(r) ==
    /\ Others(r)
    /\ MayStart /\ run'[r].pc = "picked"
    /\ UNCHANGED <<executing, results, paused, late>>

DropStep(r) ==
    /\ Others(r)
    /\ ~Pending(r) /\ run'[r].pc \in {"idle", "again"}
    /\ UNCHANGED <<executing, results, paused, late>>

BeginStep(r) ==
    /\ Others(r)
    /\ run[r].pc = "picked" /\ run'[r].pc = "marking" /\ SameEnvelope(r)
    /\ run'[r].envelope \notin results
    /\ executing' = TRUE
    /\ UNCHANGED <<results, paused, late>>

StartStep(r) ==
    /\ Others(r)
    /\ run[r].pc = "marking" /\ run'[r].pc = "running" /\ SameEnvelope(r)
    /\ late' = IF paused THEN late + 1 ELSE late
    /\ UNCHANGED <<executing, results, paused>>

WorkStep(r) ==
    /\ Others(r)
    /\ Pending(r) /\ run'[r].pc \in {"completing", "failing", "burying"} /\ SameEnvelope(r)
    /\ results' \in {results, results \union {run[r].envelope}}
    /\ UNCHANGED <<executing, paused, late>>

LeaveStep(r) ==
    /\ Others(r)
    /\ Pending(r) /\ run'[r].pc \in {"idle", "again"}
    /\ UNCHANGED <<results, paused, late>>

RestartStep ==
    /\ \A r \in Runs : run'[r].pc = "idle"
    /\ results' = {}
    /\ late' = 0

OtherStep ==
    /\ UNCHANGED <<run, executing, results>>
    /\ late' = 0 \/ (late' = late /\ (paused => paused'))

LEMMA PickSteps ==
    ASSUME TypeOK, NEW r \in Runs, NEW e \in Envelopes, Pick(r, e)
    PROVE  PickStep(r)
<1>1. RunTyped([Idle EXCEPT !.pc = "picked", !.envelope = e])
  BY RunsTyped
<1>2. /\ run'[r] = [Idle EXCEPT !.pc = "picked", !.envelope = e]
      /\ \A s \in Runs \ {r} : run'[s] = run[s]
  BY <1>1, RunMoves DEF Pick
<1>3. run'[r].pc = "picked"
  BY <1>2 DEF Idle
<1>. QED  BY <1>2, <1>3 DEF Pick, PickStep, Others, queueVars, slotVars, controlVars

LEMMA ContinueSteps ==
    ASSUME TypeOK, NEW r \in Runs, Continue(r)
    PROVE  \/ DropStep(r) \/ BeginStep(r) \/ StartStep(r) \/ WorkStep(r) \/ LeaveStep(r)
<1>m. \A x : Become(r, x) => run'[r] = x /\ Others(r)
  BY DEF TypeOK, Become, Others
<1>n. /\ \A pc : Become(r, [run[r] EXCEPT !.pc = pc]) =>
            run'[r].pc = pc /\ SameEnvelope(r) /\ Others(r)
      /\ \A pc, x : Become(r, [run[r] EXCEPT !.pc = pc, !.line = x]) =>
            run'[r].pc = pc /\ SameEnvelope(r) /\ Others(r)
      /\ \A pc, x, b : Become(r, [run[r] EXCEPT !.pc = pc, !.line = x, !.retryable = b]) =>
            run'[r].pc = pc /\ SameEnvelope(r) /\ Others(r)
  <2>1. run[r] \in Run
    BY DEF TypeOK
  <2>2. \A pc : Become(r, [run[r] EXCEPT !.pc = pc]) =>
            run'[r].pc = pc /\ SameEnvelope(r) /\ Others(r)
    BY <1>m, <2>1 DEF Run, SameEnvelope
  <2>3. \A pc, x : Become(r, [run[r] EXCEPT !.pc = pc, !.line = x]) =>
            run'[r].pc = pc /\ SameEnvelope(r) /\ Others(r)
    <3>. SUFFICES ASSUME NEW pc, NEW x, Become(r, [run[r] EXCEPT !.pc = pc, !.line = x])
                  PROVE  run'[r].pc = pc /\ SameEnvelope(r) /\ Others(r)
      OBVIOUS
    <3>1. run'[r] = [run[r] EXCEPT !.pc = pc, !.line = x] /\ Others(r)
      BY <1>m
    <3>. QED  BY <2>1, <3>1 DEF Run, SameEnvelope
  <2>4. \A pc, x, b : Become(r, [run[r] EXCEPT !.pc = pc, !.line = x, !.retryable = b]) =>
            run'[r].pc = pc /\ SameEnvelope(r) /\ Others(r)
    <3>. SUFFICES ASSUME NEW pc, NEW x, NEW b,
                         Become(r, [run[r] EXCEPT !.pc = pc, !.line = x, !.retryable = b])
                  PROVE  run'[r].pc = pc /\ SameEnvelope(r) /\ Others(r)
      OBVIOUS
    <3>1. run'[r] = [run[r] EXCEPT !.pc = pc, !.line = x, !.retryable = b] /\ Others(r)
      BY <1>m
    <3>. QED  BY <2>1, <3>1 DEF Run, SameEnvelope
  <2>. QED  BY <2>2, <2>3, <2>4
<1>i. Idle.pc = "idle" /\ Returned(r).pc \in {"idle", "again"}
  BY DEF Idle, Returned
<1>1. CASE SkipExecuted(r)
  BY <1>1, <1>m, <1>i DEF SkipExecuted, DropStep, Pending, slotVars, controlVars
<1>2. CASE BudgetRefuses(r)
  BY <1>2, <1>m, <1>i DEF BudgetRefuses, DropStep, Pending, queueVars, slotVars, controlVars
<1>3. CASE Begin(r)
  BY <1>3, <1>n DEF Begin, BeginStep, SameEnvelope, controlVars
<1>4. CASE Start(r)
  BY <1>4, <1>n DEF Start, StartStep, queueVars, slotVars
<1>5. CASE MarkFails(r) \/ CompleteFails(r) \/ \E b \in BOOLEAN : ExecutionFails(r, b)
  <2>1. PICK b \in BOOLEAN : BeginFailure(r, b)
    BY <1>5 DEF MarkFails, CompleteFails, ExecutionFails
  <2>2. run'[r].pc = "failing" /\ SameEnvelope(r) /\ Others(r)
    BY <1>n, <2>1 DEF BeginFailure
  <2>3. Pending(r) /\ UNCHANGED <<executing, results, paused, late>>
    BY <1>5 DEF MarkFails, CompleteFails, ExecutionFails, Pending, slotVars, controlVars
  <2>. QED  BY <2>2, <2>3 DEF WorkStep
<1>6. CASE ExecutionSucceeds(r)
  BY <1>6, <1>n DEF ExecutionSucceeds, WorkStep, Pending, slotVars, controlVars
<1>7. CASE Complete(r)
  BY <1>7, <1>m, <1>i DEF Complete, LeaveStep, Pending, controlVars
<1>8. CASE AfterFailure(r)
  BY <1>8, <1>m, <1>n, <1>i
  DEF AfterFailure, LeaveStep, WorkStep, Pending, slotVars, controlVars, queueVars
<1>9. CASE Bury(r)
  BY <1>9, <1>m, <1>i DEF Bury, LeaveStep, Pending, controlVars
<1>10. CASE CatchFails(r)
  BY <1>10, <1>m, <1>i DEF CatchFails, LeaveStep, Pending, queueVars, controlVars
<1>. QED
  BY <1>1, <1>2, <1>3, <1>4, <1>5, <1>6, <1>7, <1>8, <1>9, <1>10 DEF Continue

LEMMA Steps ==
    ASSUME TypeOK, [Next]_vars
    PROVE  \/ OtherStep \/ RestartStep
           \/ LoopPicks /\ PickStep(Loop)
           \/ \E b \in Batches : BatchPicks(b) /\ PickStep(b)
           \/ \E r \in Runs : \/ DropStep(r) \/ BeginStep(r) \/ StartStep(r) \/ WorkStep(r)
                              \/ LeaveStep(r)
<1>1. ASSUME NEW e \in Envelopes, Admission(e) PROVE OtherStep
  BY <1>1 DEF Admission, Submit, SubmitDuplicate, Enqueued, EnqueueFails, RequeueDeadLetter,
     Requeued, RequeueFails, CancelDeadLetter, BeginEnqueue, Enqueue, OtherStep, queueVars,
     slotVars, controlVars
<1>2. ASSUME LoopPicks PROVE PickStep(Loop) /\ Loop \in Runs
  BY <1>2, PickSteps DEF LoopPicks, Runs
<1>3. ASSUME LoopStops \/ UNCHANGED vars PROVE OtherStep
  BY <1>3 DEF LoopStops, vars, OtherStep, queueVars, slotVars, controlVars
<1>4. ASSUME NEW b \in Batches, BatchPicks(b) PROVE PickStep(b) /\ b \in Runs
  BY <1>4, PickSteps DEF BatchPicks, Runs
<1>5. ASSUME NEW b \in Batches, BatchEnds(b) PROVE DropStep(b) /\ b \in Runs
  <2>1. b \in Runs
    BY DEF Runs
  <2>2. run'[b].pc = "idle" /\ Others(b)
    BY <1>5, <2>1 DEF BatchEnds, Become, Others, TypeOK, Idle
  <2>. QED  BY <1>5, <2>1, <2>2 DEF BatchEnds, DropStep, Pending, queueVars, slotVars, controlVars
<1>6. ASSUME Operate PROVE OtherStep \/ RestartStep
  <2>1. CASE Crash
    BY <2>1 DEF Crash, LoadFromDisk, RestartStep, Idle
  <2>2. CASE PauseExecution \/ ResumeExecution \/ Cleanup \/ CleanupEnds \/ RecoveryEnds
    BY <2>2 DEF PauseExecution, ResumeExecution, Cleanup, CleanupEnds, RecoveryEnds,
       ClearCompleted, OtherStep, queueVars, slotVars, controlVars
  <2>3. ASSUME NEW e \in Envelopes, RecoverOrphan(e) \/ RetryTimerFires(e) PROVE OtherStep
    BY <2>3 DEF RecoverOrphan, RetryTimerFires, OtherStep, queueVars, slotVars, controlVars
  <2>. QED  BY <1>6, <2>1, <2>2, <2>3 DEF Operate
<1>. QED  BY <1>1, <1>2, <1>3, <1>4, <1>5, <1>6, ContinueSteps DEF Next

(* While a pause has let an execution start, nothing else is on its way    *)
(* to start; what is on its way has not been executed.                     *)
PauseInv ==
    /\ late \in Nat /\ late <= 1
    /\ ~paused => late = 0
    /\ late > 0 => \A r \in Runs : run[r].pc \notin {"picked", "marking"}

Fresh == \A r \in Runs : run[r].pc = "marking" => run[r].envelope \notin results

ExecutorInv == SlotsInv /\ SingleExecutor /\ PauseInv /\ Fresh

LEMMA ExecutorInit == Init => ExecutorInv
<1>. SUFFICES ASSUME Init PROVE ExecutorInv
  OBVIOUS
<1>1. \A r \in Runs : run[r].pc = "idle"
  BY DEF Init, Idle
<1>2. SingleExecutor /\ Fresh
  BY <1>1 DEF SingleExecutor, Fresh, Pending
<1>3. PauseInv
  BY <1>1 DEF Init, PauseInv
<1>. QED  BY <1>2, <1>3, SlotsInit DEF ExecutorInv

LEMMA ExecutorNext == ExecutorInv /\ OnePick /\ [Next]_vars => ExecutorInv'
<1>. SUFFICES ASSUME ExecutorInv, OnePick, [Next]_vars PROVE ExecutorInv'
  OBVIOUS
<1>t. SlotsInv' /\ TypeOK /\ TypeOK'
  BY SlotsNext DEF ExecutorInv, SlotsInv
<1>i. SingleExecutor /\ PauseInv /\ Fresh
  BY DEF ExecutorInv
<1>1. ASSUME NEW r \in Runs, PickStep(r) PROVE (SingleExecutor /\ PauseInv /\ Fresh)'
  <2>1. ~executing /\ ~paused
    BY <1>1 DEF PickStep, MayStart
  <2>2. \A s \in Runs : ~Pending(s) /\ ~Pending(s)'
    BY <1>1, <1>i, <2>1 DEF PickStep, Others, SingleExecutor, Pending
  <2>3. late = 0 /\ late' = 0
    BY <1>1, <1>i, <2>1 DEF PickStep, PauseInv
  <2>. QED  BY <2>2, <2>3 DEF SingleExecutor, PauseInv, Fresh, Pending
<1>2. ASSUME NEW r \in Runs, DropStep(r) PROVE (SingleExecutor /\ PauseInv /\ Fresh)'
  <2>1. SingleExecutor'
    BY <1>2, <1>i DEF DropStep, Others, SingleExecutor, Pending
  <2>2. PauseInv' /\ Fresh'
    BY <1>2, <1>i DEF DropStep, Others, PauseInv, Fresh
  <2>. QED  BY <2>1, <2>2
<1>3. ASSUME NEW r \in Runs, BeginStep(r) PROVE (SingleExecutor /\ PauseInv /\ Fresh)'
  <2>1. \A s \in Runs \ {r} : ~Pending(s)' /\ run'[s].pc # "picked"
    BY <1>3, <1>i DEF BeginStep, Others, SingleExecutor, OnePick, Pending
  <2>2. executing' /\ run'[r].pc # "picked"
    BY <1>3, Zenon DEF BeginStep
  <2>3. SingleExecutor'
    BY <2>1, <2>2 DEF SingleExecutor
  <2>4. late = 0 /\ late' = 0
    BY <1>3, <1>i DEF BeginStep, PauseInv
  <2>5. PauseInv' /\ Fresh'
    BY <1>3, <1>i, <2>4 DEF BeginStep, Others, PauseInv, Fresh
  <2>. QED  BY <2>3, <2>5
<1>4. ASSUME NEW r \in Runs, StartStep(r) PROVE (SingleExecutor /\ PauseInv /\ Fresh)'
  <2>1. \A s \in Runs \ {r} : ~Pending(s) /\ run[s].pc # "picked"
    BY <1>4, <1>i DEF StartStep, SingleExecutor, Pending
  <2>2. \A s \in Runs : run'[s].pc \notin {"picked", "marking"}
    BY <1>4, <2>1 DEF StartStep, Others, Pending
  <2>3. SingleExecutor'
    BY <1>4, <1>i DEF StartStep, Others, SingleExecutor, Pending
  <2>4. late = 0
    BY <1>4, <1>i DEF StartStep, PauseInv
  <2>5. late' \in Nat /\ late' <= 1 /\ (~paused' => late' = 0)
    BY <1>4, <1>i, <2>4 DEF StartStep
  <2>. QED  BY <2>2, <2>3, <2>5 DEF PauseInv, Fresh
<1>5. ASSUME NEW r \in Runs, WorkStep(r) PROVE (SingleExecutor /\ PauseInv /\ Fresh)'
  <2>1. \A s \in Runs \ {r} : ~Pending(s)' /\ run'[s].pc # "picked"
    BY <1>5, <1>i DEF WorkStep, Others, SingleExecutor, Pending
  <2>2. SingleExecutor'
    BY <1>5, <1>i, <2>1 DEF WorkStep, Others, SingleExecutor, Pending
  <2>3. \A s \in Runs : run'[s].pc \notin {"picked", "marking"}
    BY <1>5, <2>1 DEF WorkStep, Pending
  <2>. QED  BY <1>5, <1>i, <2>2, <2>3 DEF WorkStep, PauseInv, Fresh
<1>6. ASSUME NEW r \in Runs, LeaveStep(r) PROVE (SingleExecutor /\ PauseInv /\ Fresh)'
  <2>1. \A s \in Runs : ~Pending(s)'
    BY <1>6, <1>i DEF LeaveStep, Others, SingleExecutor, Pending
  <2>2. PauseInv' /\ Fresh'
    BY <1>6, <1>i DEF LeaveStep, Others, PauseInv, Fresh
  <2>. QED  BY <2>1, <2>2 DEF SingleExecutor
<1>7. ASSUME RestartStep PROVE (SingleExecutor /\ PauseInv /\ Fresh)'
  BY <1>7 DEF RestartStep, SingleExecutor, PauseInv, Fresh, Pending
<1>8. ASSUME OtherStep PROVE (SingleExecutor /\ PauseInv /\ Fresh)'
  <2>1. SingleExecutor' /\ Fresh'
    BY <1>8, <1>i DEF OtherStep, SingleExecutor, Fresh, Pending
  <2>2. PauseInv'
    BY <1>8, <1>i DEF OtherStep, PauseInv
  <2>. QED  BY <2>1, <2>2
<1>. QED
  BY <1>t, <1>1, <1>2, <1>3, <1>4, <1>5, <1>6, <1>7, <1>8, Steps DEF ExecutorInv, Runs

(* With a single batch no two calls pick in the same turn.                 *)
LEMMA OneBatchPicks ==
    ASSUME \A a, b \in Batches : a = b, TypeOK, OnePick, [Next]_vars
    PROVE  OnePick'
<1>1. CASE LoopPicks
  <2>1. \A r \in Runs : run[r].pc # "picked"
    BY <1>1 DEF LoopPicks, NothingPicked
  <2>2. PickStep(Loop)
    BY <1>1, PickSteps DEF LoopPicks, Runs
  <2>. QED  BY <2>1, <2>2 DEF PickStep, Others, OnePick
<1>2. ASSUME NEW b \in Batches, BatchPicks(b) PROVE OnePick'
  <2>1. \A r \in Runs : run[r].pc # "picked"
    BY <1>2 DEF BatchPicks, Runs
  <2>2. PickStep(b)
    BY <1>2, PickSteps DEF BatchPicks, Runs
  <2>. QED  BY <2>1, <2>2 DEF PickStep, Others, OnePick
<1>. QED
  <2>1. CASE \/ OtherStep \/ RestartStep
             \/ \E r \in Runs : \/ DropStep(r) \/ BeginStep(r) \/ StartStep(r) \/ WorkStep(r)
                                \/ LeaveStep(r)
    BY <2>1 DEF OtherStep, RestartStep, DropStep, BeginStep, StartStep, WorkStep, LeaveStep,
       Others, OnePick, Pending
  <2>. QED  BY <1>1, <1>2, <2>1, Steps

(* The flag executing keeps executions apart: of two calls of executeNext, *)
(* one of which has begun, the other has not even picked, provided that    *)
(* processQueue is not called twice in one turn.                           *)
THEOREM AlwaysSingleExecutor == Spec /\ []OnePick => []SingleExecutor
<1>1. ExecutorInv => SingleExecutor
  BY DEF ExecutorInv
<1>. QED  BY <1>1, ExecutorInit, ExecutorNext, PTL DEF Spec

(* With one batch beside the loop the proviso needs no stating.            *)
LEMMA OneBatchOnePick ==
    ASSUME \A a, b \in Batches : a = b
    PROVE  Spec => []OnePick
<1>1. Init => OnePick
  BY DEF Init, Idle, OnePick
<1>2. TypeOK /\ OnePick /\ [Next]_vars => OnePick'
  BY OneBatchPicks
<1>. QED  BY <1>1, <1>2, TypeCorrect, PTL DEF Spec

(* Calls of executeNext that come from the loop and one run of             *)
(* processQueue are never between their start and their end together.      *)
COROLLARY OneBatchSingleExecutor ==
    ASSUME \A a, b \in Batches : a = b
    PROVE  Spec => []SingleExecutor
<1>1. Spec => []OnePick
  BY OneBatchOnePick
<1>. QED  BY <1>1, AlwaysSingleExecutor, PTL

(* A pause lets one execution start, the one that had been picked.         *)
THEOREM PauseAlwaysAdmitsOne == Spec /\ []OnePick => []PauseAdmitsOne
<1>1. ExecutorInv => PauseAdmitsOne
  BY DEF ExecutorInv, PauseInv, PauseAdmitsOne
<1>. QED  BY <1>1, ExecutorInit, ExecutorNext, PTL DEF Spec

(* Until a crash, what has succeeded is not executed again.                *)
THEOREM SuccessAlwaysFinal == Spec /\ []OnePick => SuccessIsFinal
<1>1. ExecutorInv /\ [Next]_vars =>
        [\A r \in Runs :
            run[r].pc = "marking" /\ run'[r].pc = "running" => run[r].envelope \notin results]_vars
  BY DEF ExecutorInv, Fresh
<1>. QED  BY <1>1, ExecutorInit, ExecutorNext, PTL DEF Spec, SuccessIsFinal

-----------------------------------------------------------------------------
(***************************************************************************)
(* The executor is serial.  What it works on is the envelope of the one    *)
(* call of executeNext that is between its start and its end.              *)
(***************************************************************************)
OnlyPending(r) == Pending(r) /\ \A s \in Runs : Pending(s) => s = r

LEMMA WorkingIsPending ==
    /\ \A r \in Runs : OnlyPending(r) => Working = run[r].envelope
    /\ (\A r \in Runs : ~Pending(r)) => Working = Nobody
BY DEF OnlyPending, Working

(* The same of the state after a step.                                     *)
LEMMA WorkingWillBePending ==
    /\ \A r \in Runs : OnlyPending(r)' => Working' = run'[r].envelope
    /\ (\A r \in Runs : ~Pending(r)') => Working' = Nobody
BY DEF OnlyPending, Working

LEMMA PendingWorks ==
    ASSUME TypeOK, NEW r \in Runs, Pending(r)
    PROVE  run[r].envelope \in Envelopes
BY DEF TypeOK, Run, Pending

LEMMA SerialNext ==
    ASSUME ExecutorInv, ExecutorInv', [Next]_vars
    PROVE  [Serial!Next]_<<Working, results>>
<1>. SUFFICES Serial!Next \/ UNCHANGED <<Working, results>>
  OBVIOUS
<1>i. /\ SingleExecutor /\ SingleExecutor'
      /\ TypeOK /\ TypeOK'
  BY DEF ExecutorInv, SlotsInv
<1>o. /\ \A r \in Runs : Pending(r) => OnlyPending(r)
      /\ \A r \in Runs : Pending(r)' => OnlyPending(r)'
  BY <1>i DEF SingleExecutor, OnlyPending
<1>n. Nobody \notin Envelopes
  BY ExecutorAssumption
<1>1. ASSUME NEW r \in Runs, PickStep(r) \/ DropStep(r)
      PROVE  UNCHANGED <<Working, results>>
  <2>1. \A s \in Runs : /\ Pending(s) <=> Pending(s)'
                        /\ Pending(s) => run'[s].envelope = run[s].envelope
    BY <1>1, <1>i DEF PickStep, DropStep, MayStart, SingleExecutor, Others, Pending
  <2>2. CASE \E s \in Runs : Pending(s)
    BY <2>1, <2>2, <1>1, <1>o, WorkingIsPending, WorkingWillBePending DEF PickStep, DropStep
  <2>3. CASE \A s \in Runs : ~Pending(s)
    BY <2>1, <2>3, <1>1, WorkingIsPending, WorkingWillBePending DEF PickStep, DropStep
  <2>. QED  BY <2>2, <2>3
<1>2. ASSUME NEW r \in Runs, BeginStep(r) PROVE Serial!Next
  <2>1. \A s \in Runs : ~Pending(s)
    BY <1>2, <1>i DEF BeginStep, SingleExecutor, Pending
  <2>2. Pending(r)'
    BY <1>2 DEF BeginStep, Pending
  <2>3. Working = Nobody /\ Working' = run'[r].envelope
    BY <2>1, <2>2, <1>o, WorkingIsPending, WorkingWillBePending
  <2>4. run'[r].envelope \in Envelopes
    BY <2>2, <1>i DEF TypeOK, Run, Pending
  <2>5. Serial!Begin(run'[r].envelope)
    BY <1>2, <2>3 DEF BeginStep, Serial!Begin
  <2>. QED  BY <2>4, <2>5 DEF Serial!Next
<1>3. ASSUME NEW r \in Runs, StartStep(r) \/ WorkStep(r)
      PROVE  Serial!Next \/ UNCHANGED <<Working, results>>
  <2>1. Pending(r) /\ Pending(r)' /\ SameEnvelope(r)
    BY <1>3 DEF StartStep, WorkStep, Pending
  <2>2. Working = run[r].envelope /\ Working' = Working
    BY <2>1, <1>o, WorkingIsPending, WorkingWillBePending DEF SameEnvelope
  <2>3. Working # Nobody
    BY <2>1, <2>2, <1>i, <1>n, PendingWorks
  <2>4. CASE results' = results
    BY <2>2, <2>4
  <2>5. CASE results' = results \union {run[r].envelope}
    BY <2>2, <2>3, <2>5 DEF Serial!Next, Serial!Succeed
  <2>. QED  BY <1>3, <2>4, <2>5 DEF StartStep, WorkStep
<1>4. ASSUME NEW r \in Runs, LeaveStep(r) PROVE Serial!Next
  <2>1. \A s \in Runs : ~Pending(s)'
    BY <1>4, <1>o DEF LeaveStep, Others, OnlyPending, Pending
  <2>2. Working' = Nobody
    BY <2>1, WorkingWillBePending
  <2>. QED  BY <1>4, <2>2 DEF LeaveStep, Serial!Next, Serial!End
<1>5. ASSUME RestartStep PROVE Serial!Next
  <2>1. Working' = Nobody
    BY <1>5, WorkingWillBePending DEF RestartStep, Pending
  <2>. QED  BY <1>5, <2>1 DEF RestartStep, Serial!Next, Serial!Restart
<1>6. ASSUME OtherStep PROVE UNCHANGED <<Working, results>>
  BY <1>6 DEF OtherStep, Working, Pending
<1>. QED
  BY <1>i, <1>1, <1>2, <1>3, <1>4, <1>5, <1>6, Steps DEF Runs

(* For any envelopes, batches and limits, as long as processQueue is not   *)
(* called twice in one turn, the queued executor implements an executor    *)
(* that works on one envelope at a time, on none that has succeeded since  *)
(* the process started, and that caches the result of an envelope only     *)
(* while it works on it (executeNext, markCompleted, clearCompleted, load).*)
THEOREM ExecutorIsSerial == Spec /\ []OnePick => ExecutesSerially
<1>1. Init => Serial!Init
  <2>. SUFFICES ASSUME Init PROVE Serial!Init
    OBVIOUS
  <2>1. \A r \in Runs : ~Pending(r)
    BY DEF Init, Idle, Pending
  <2>2. results = {}
    BY DEF Init, QueueInit
  <2>. QED  BY <2>1, <2>2, WorkingIsPending DEF Serial!Init
<1>2. ExecutorInv /\ ExecutorInv' /\ [Next]_vars => [Serial!Next]_<<Working, results>>
  BY SerialNext
<1>. QED
  BY <1>1, <1>2, ExecutorInit, ExecutorNext, PTL DEF Spec, ExecutesSerially, Serial!Spec, Serial!vars

-----------------------------------------------------------------------------
(***************************************************************************)
(* The log.  A line about an entry is written after the entry changed, so  *)
(* the invariant is about lines that are still to come: what they can say  *)
(* of an entry that is active now is that it is, or something of an        *)
(* earlier submission.                                                     *)
(***************************************************************************)
ActiveState == {"queued", "executing"}

(* A stamp is the number of a submission so far.                           *)
Stamped(x) == x.state # "none" => x.queuedAt \in 1 .. ticket

Stamps ==
    \A e \in Envelopes :
        /\ Stamped(entry[e]) /\ Stamped(disk[e]) /\ Stamped(rewriting.lines[e])
        /\ call[e].pc = "enqueueing" => call[e].line.state = "queued" /\ Stamped(call[e].line)

(* What the line of a call of executeNext says of the entry it is about.   *)
LineHolds(r) ==
    LET e == run[r].envelope
        x == run[r].line
    IN  /\ run[r].pc = "picked" => entry[e].state = "queued"
        /\ run[r].pc \in {"marking", "running"} => entry[e].state = "executing"
        /\ run[r].pc = "marking" => x.state = "executing"
        /\ run[r].pc \in {"marking", "completing", "failing"} => x.state # "none" /\ Stamped(x)
        /\ run[r].pc \in {"completing", "failing"} =>
              (entry[e].state \in ActiveState => x.queuedAt < entry[e].queuedAt)

Lines == \A r \in Runs : LineHolds(r)

RecoveryFirst == recovering => \A r \in Runs : run[r].pc = "idle"

(* What the log will hold when the rewriting under way is done.            *)
Logged(e) == IF rewriting.on THEN rewriting.lines[e] ELSE disk[e]

Covered(e) ==
    \/ call[e].pc = "enqueueing"
    \/ Logged(e).state \in ActiveState
    \/ Logged(e).queuedAt \in 1 .. entry[e].queuedAt - 1

Calm == faults = 0 /\ ~torn

Covers == Calm => \A e \in Envelopes : entry[e].state \in ActiveState => Covered(e)

LogInv == Stamps /\ Lines /\ RecoveryFirst /\ Covers

LEMMA LogInit == Init => LogInv
<1>. SUFFICES ASSUME Init PROVE LogInv
  OBVIOUS
<1>1. \A e \in Envelopes : entry[e].state = "none" /\ disk[e].state = "none"
                           /\ rewriting.lines[e].state = "none" /\ call[e].pc = "idle"
  BY DEF Init, QueueInit, NoEntries, Absent, NotRewriting, NoCall
<1>2. \A r \in Runs : run[r].pc = "idle"
  BY DEF Init, Idle
<1>. QED
  BY <1>1, <1>2
  DEF LogInv, Stamps, Stamped, Lines, LineHolds, RecoveryFirst, Covers, ActiveState

(* Stamps stay stamps.                                                     *)
LEMMA StampKept ==
    ASSUME TypeOK, TypeOK', ticket' >= ticket, NEW x, Stamped(x)
    PROVE  x.state # "none" => x.queuedAt \in 1 .. ticket'
BY QueueAssumption DEF TypeOK, Stamped

(* Steps that leave the queue, the log and the lines as they are.          *)
LEMMA LogSame ==
    ASSUME LogInv, UNCHANGED <<entry, disk, rewriting, ticket>>,
           torn' = torn, faults = 0 \/ faults' # 0,
           \A e \in Envelopes : \/ call'[e] = call[e]
                                \/ call'[e].pc # "enqueueing" /\ call[e].pc # "enqueueing"
                                \/ call'[e].pc # "enqueueing" /\ faults' # 0,
           \A r \in Runs : run'[r] = run[r] \/ run'[r].pc \in {"idle", "again", "burying"},
           RecoveryFirst'
    PROVE  LogInv'
<1>1. Stamps'
  BY DEF LogInv, Stamps, Stamped
<1>2. Lines'
  BY DEF LogInv, Lines, LineHolds, Stamped
<1>3. Covers'
  <2>. SUFFICES ASSUME Calm', NEW e \in Envelopes, entry'[e].state \in ActiveState
                PROVE  Covered(e)'
    BY DEF Covers
  <2>1. Calm
    BY DEF Calm
  <2>2. Covered(e)
    BY <2>1 DEF LogInv, Covers
  <2>. QED  BY <2>2 DEF Covered, Logged, Calm
<1>. QED  BY <1>1, <1>2, <1>3 DEF LogInv

(* A submission: the entry is new and its line on the way.                 *)
LEMMA LogEnqueue ==
    ASSUME LogInv, TypeOK, TypeOK', NEW e \in Envelopes, BeginEnqueue(e), ~Duplicate(e),
           UNCHANGED <<logVars, run, faults, recovering>>
    PROVE  LogInv'
<1>1. ticket \in Nat /\ ticket' = ticket + 1
  BY QueueAssumption DEF TypeOK, BeginEnqueue, Enqueue
<1>2. entry' = [entry EXCEPT ![e] = NewEntry]
  BY DEF BeginEnqueue, Enqueue, SetEntry
<1>3. /\ entry'[e] = NewEntry /\ \A f \in Envelopes \ {e} : entry'[f] = entry[f]
      /\ NewEntry.state = "queued" /\ NewEntry.queuedAt = ticket + 1
  BY <1>2 DEF TypeOK, Entries, NewEntry
<1>4. /\ call'[e].pc = "enqueueing" /\ call'[e].line = NewEntry
      /\ \A f \in Envelopes \ {e} : call'[f] = call[f]
  BY DEF TypeOK, BeginEnqueue
<1>s. \A x : Stamped(x) => (x.state # "none" => x.queuedAt \in 1 .. ticket')
  BY <1>1 DEF Stamped
<1>5. Stamps'
  BY <1>1, <1>3, <1>4, <1>s DEF LogInv, Stamps, Stamped, logVars
<1>6. Lines'
  <2>. SUFFICES ASSUME NEW r \in Runs PROVE LineHolds(r)'
    BY DEF Lines
  <2>1. LineHolds(r) /\ run'[r] = run[r] /\ run[r] \in Run
    BY DEF LogInv, Lines, TypeOK
  <2>2. entry[e].state \notin {"queued", "executing"}
    BY DEF Duplicate
  <2>3. CASE run[r].envelope # e
    <3>1. run[r].pc \in {"idle", "again"} \/ run[r].envelope \in Envelopes
      BY DEF TypeOK, Run
    <3>2. run[r].pc \in {"idle", "again"} \/ entry'[run[r].envelope] = entry[run[r].envelope]
      BY <1>3, <2>3, <3>1
    <3>. QED  BY <2>1, <1>s, <3>2 DEF LineHolds, Stamped
  <2>4. CASE run[r].envelope = e
    <3>1. run[r].pc \notin {"picked", "marking", "running"}
      BY <2>1, <2>2, <2>4 DEF LineHolds
    <3>2. run[r].pc \in {"completing", "failing"} =>
            /\ run[r].line.state # "none" /\ Stamped(run[r].line)
            /\ run[r].line.queuedAt \in 1 .. ticket
      BY <2>1 DEF LineHolds, Stamped
    <3>3. run[r].pc \in {"completing", "failing"} => run[r].line.queuedAt < entry'[e].queuedAt
      BY <1>1, <1>3, <3>2
    <3>. QED  BY <2>1, <2>4, <1>s, <3>1, <3>2, <3>3 DEF LineHolds, Stamped
  <2>. QED  BY <2>3, <2>4
<1>7. RecoveryFirst'
  BY DEF LogInv, RecoveryFirst
<1>8. Covers'
  <2>. SUFFICES ASSUME Calm', NEW f \in Envelopes, entry'[f].state \in ActiveState
                PROVE  Covered(f)'
    BY DEF Covers
  <2>1. CASE f = e
    BY <1>4, <2>1 DEF Covered
  <2>2. CASE f # e
    <3>1. Covered(f)
      BY <1>3, <2>2 DEF LogInv, Covers, Calm, logVars
    <3>. QED  BY <1>3, <1>4, <2>2, <3>1 DEF Covered, Logged, logVars
  <2>. QED  BY <2>1, <2>2
<1>. QED  BY <1>5, <1>6, <1>7, <1>8 DEF LogInv

(* A line lands: it tells that its entry is active, or it is of an entry   *)
(* that is not, or of an earlier submission.                               *)
LEMMA LogPersist ==
    ASSUME LogInv, TypeOK, NEW e \in Envelopes, NEW x \in Entry, Persist(e, x),
           UNCHANGED <<entry, ticket, faults, recovering>>,
           x.state # "none", Stamped(x),
           \/ x.state \in ActiveState
           \/ entry[e].state \in ActiveState => x.queuedAt < entry[e].queuedAt,
           \A f \in Envelopes : call'[f] = call[f] \/ (f = e /\ call'[f].pc = "idle"),
           \A r \in Runs : \/ run'[r] = run[r]
                           \/ run'[r].pc \in {"idle", "again", "burying"}
                           \/ /\ run[r].pc = "marking" /\ run'[r].pc = "running"
                              /\ run'[r].envelope = run[r].envelope,
           RecoveryFirst'
    PROVE  LogInv'
<1>1. /\ disk'[e] = x /\ \A f \in Envelopes \ {e} : disk'[f] = disk[f]
      /\ rewriting' = rewriting
      /\ torn' = (torn \/ rewriting.on)
  BY DEF Persist, TypeOK, Entries
<1>2. Stamps'
  BY <1>1 DEF LogInv, Stamps, Stamped
<1>3. Lines'
  BY DEF LogInv, Lines, LineHolds, Stamped
<1>4. Covers'
  <2>. SUFFICES ASSUME Calm', NEW f \in Envelopes, entry'[f].state \in ActiveState
                PROVE  Covered(f)'
    BY DEF Covers
  <2>1. ~rewriting.on /\ Calm
    BY <1>1 DEF Calm
  <2>2. Logged(f)' = disk'[f] /\ Logged(f) = disk[f]
    BY <1>1, <2>1 DEF Logged
  <2>3. CASE f = e
    <3>1. CASE x.state \in ActiveState
      BY <1>1, <2>2, <2>3, <3>1 DEF Covered
    <3>2. CASE x.queuedAt < entry[e].queuedAt
      <4>1. x.queuedAt \in Nat /\ entry[e].queuedAt \in Nat /\ x.queuedAt >= 1
        BY EntryTyped, QueueAssumption DEF Stamped, Entry, TypeOK
      <4>2. x.queuedAt \in 1 .. entry'[f].queuedAt - 1
        BY <2>3, <3>2, <4>1
      <4>. QED  BY <1>1, <2>2, <2>3, <4>2 DEF Covered
    <3>. QED  BY <2>3, <3>1, <3>2
  <2>4. CASE f # e
    <3>1. Covered(f)
      BY <2>1 DEF LogInv, Covers
    <3>. QED  BY <1>1, <2>2, <2>4, <3>1 DEF Covered
  <2>. QED  BY <2>3, <2>4
<1>. QED  BY <1>2, <1>3, <1>4 DEF LogInv

(* Of the other calls none has picked while one is on its way.             *)
LEMMA Alone ==
    ASSUME ExecutorInv, OnePick, NEW r \in Runs, run[r].pc \notin {"idle", "again"}
    PROVE  \A s \in Runs \ {r} : run[s].pc \in {"idle", "again"}
BY DEF ExecutorInv, SingleExecutor, OnePick, Pending

(* The call on its way changes its entry, and not to an active one unless  *)
(* the entry was active before.                                            *)
LEMMA LogChange ==
    ASSUME LogInv, TypeOK, NEW e \in Envelopes, NEW x \in Entry, SetEntry(e, x),
           UNCHANGED <<logVars, call>>, ticket' \in {ticket, ticket + 1},
           faults = 0 \/ faults' # 0,
           Stamped(x),
           x.state \in ActiveState =>
               entry[e].state \in ActiveState /\ x.queuedAt = entry[e].queuedAt,
           RecoveryFirst', Lines'
    PROVE  LogInv'
<1>1. entry'[e] = x /\ \A f \in Envelopes \ {e} : entry'[f] = entry[f]
  BY DEF SetEntry, TypeOK, Entries
<1>s. \A y : Stamped(y) => (y.state # "none" => y.queuedAt \in 1 .. ticket')
  BY QueueAssumption DEF TypeOK, Stamped
<1>2. Stamps'
  BY <1>1, <1>s DEF LogInv, Stamps, Stamped, logVars
<1>3. Covers'
  <2>. SUFFICES ASSUME Calm', NEW f \in Envelopes, entry'[f].state \in ActiveState
                PROVE  Covered(f)'
    BY DEF Covers
  <2>1. Calm
    BY DEF Calm, logVars
  <2>2. Covered(f) /\ entry'[f].queuedAt = entry[f].queuedAt
    BY <1>1, <2>1 DEF LogInv, Covers
  <2>. QED  BY <2>2 DEF Covered, Logged, logVars
<1>. QED  BY <1>2, <1>3 DEF LogInv

LEMMA LinesOf ==
    ASSUME ExecutorInv, OnePick, NEW r \in Runs, run[r].pc \notin {"idle", "again"}, Others(r),
           LineHolds(r)'
    PROVE  Lines'
<1>1. \A s \in Runs \ {r} : run'[s].pc \in {"idle", "again"}
  BY Alone DEF Others
<1>. QED  BY <1>1 DEF Lines, LineHolds

LEMMA LogContinue ==
    ASSUME LogInv, ExecutorInv, OnePick, NEW r \in Runs, Continue(r)
    PROVE  LogInv'
<1>. DEFINE e == run[r].envelope
<1>t. TypeOK /\ run[r] \in Run
  BY DEF ExecutorInv, SlotsInv, TypeOK
<1>p. run[r].pc \notin {"idle", "again"}
  BY DEF Continue, SkipExecuted, BudgetRefuses, Begin, Start, MarkFails, ExecutionFails,
         ExecutionSucceeds, Complete, CompleteFails, AfterFailure, Bury, CatchFails
<1>e. /\ e \in Envelopes /\ run[r].line \in Entry /\ entry[e] \in Entry /\ Absent \in Entry
      /\ Executing(e) \in Entry /\ Completed(e) \in Entry /\ Failed(e) \in Entry
  BY <1>t, <1>p, RunsTyped, EntryTyped
<1>x. /\ Executing(e).state = "executing" /\ Executing(e).queuedAt = entry[e].queuedAt
      /\ Completed(e).state = "completed" /\ Completed(e).queuedAt = entry[e].queuedAt
      /\ Failed(e).state = "failed" /\ Failed(e).queuedAt = entry[e].queuedAt
      /\ Absent.state = "none"
  BY <1>e DEF Executing, Completed, Failed, Absent, Entry
<1>l. LineHolds(r) /\ Stamped(entry[e])
  BY <1>e DEF LogInv, Lines, Stamps
<1>f. Fault => faults' # 0 /\ (faults = 0 \/ faults' # 0)
  BY <1>t DEF Fault, TypeOK
<1>m. \A x : Become(r, x) => run'[r] = x /\ Others(r)
  BY <1>t DEF TypeOK, Become, Others
<1>i. Idle.pc = "idle" /\ Returned(r).pc \in {"idle", "again"}
  BY DEF Idle, Returned
<1>c. ~recovering
  BY <1>p DEF LogInv, RecoveryFirst
<1>o. \A x : Become(r, x) => \A s \in Runs \ {r} : run'[s] = run[s]
  BY <1>m DEF Others
<1>y. \A x : SetEntry(e, x) => entry'[e] = x
  BY <1>t, <1>e DEF SetEntry, TypeOK, Entries
<1>r. UNCHANGED recovering => RecoveryFirst'
  BY <1>c DEF RecoveryFirst
<1>1. CASE SkipExecuted(r)
  <2>1. SetEntry(e, Absent) /\ Become(r, Returned(r))
    BY <1>1 DEF SkipExecuted, Remove
  <2>2. run'[r].pc \in {"idle", "again"} /\ Others(r)
    BY <1>m, <1>i, <2>1
  <2>3. Lines'
    BY <1>p, <2>2, LinesOf DEF LineHolds
  <2>4. Stamped(Absent) /\ Absent.state \notin ActiveState
    BY <1>x DEF Stamped, ActiveState
  <2>. HIDE DEF e
  <2>. QED  BY <1>1, <1>t, <1>e, <1>r, <2>1, <2>3, <2>4, LogChange DEF SkipExecuted, boundVars
<1>2. CASE BudgetRefuses(r)
  <2>1. run'[r].pc = "idle" /\ Others(r)
    BY <1>2, <1>m, <1>i DEF BudgetRefuses
  <2>2. UNCHANGED <<entry, disk, rewriting, ticket, torn, faults, call, recovering>>
    BY <1>2 DEF BudgetRefuses, queueVars, logVars, boundVars
  <2>3. \A s \in Runs : run'[s] = run[s] \/ run'[s].pc \in {"idle", "again", "burying"}
    BY <2>1 DEF Others
  <2>. QED  BY <1>r, <2>2, <2>3, LogSame
<1>3. CASE Begin(r)
  <2>1. SetEntry(e, Executing(e))
        /\ Become(r, [run[r] EXCEPT !.pc = "marking", !.line = Executing(e)])
    BY <1>3 DEF Begin
  <2>2. run'[r] = [run[r] EXCEPT !.pc = "marking", !.line = Executing(e)] /\ Others(r)
    BY <1>m, <2>1
  <2>3. run'[r].pc = "marking" /\ run'[r].line = Executing(e) /\ run'[r].envelope = e
    BY <1>t, <2>2 DEF Run
  <2>4. entry[e].state = "queued"
    BY <1>3, <1>l DEF Begin, LineHolds
  <2>5. Stamped(Executing(e)) /\ entry[e].state \in ActiveState
    BY <1>l, <1>x, <2>4 DEF Stamped, ActiveState
  <2>6. entry'[e] = Executing(e) /\ UNCHANGED ticket
    BY <1>3, <1>y, <2>1 DEF Begin
  <2>7. LineHolds(r)'
    BY <1>x, <2>3, <2>5, <2>6 DEF LineHolds, Stamped
  <2>8. Lines'
    BY <1>p, <2>2, <2>7, LinesOf
  <2>. HIDE DEF e
  <2>. QED
    BY <1>3, <1>t, <1>e, <1>x, <1>r, <2>1, <2>5, <2>8, LogChange DEF Begin, boundVars
<1>4. CASE Start(r)
  <2>1. run'[r] = [run[r] EXCEPT !.pc = "running"] /\ Others(r)
    BY <1>4, <1>m DEF Start
  <2>2. run'[r].pc = "running" /\ run'[r].envelope = e
    BY <1>t, <2>1 DEF Run
  <2>3. run[r].pc = "marking" /\ Persist(e, run[r].line)
    BY <1>4 DEF Start
  <2>4. /\ run[r].line.state \in ActiveState /\ run[r].line.state # "none"
        /\ Stamped(run[r].line)
    BY <1>l, <2>3 DEF LineHolds, ActiveState
  <2>5. UNCHANGED <<entry, ticket, faults, recovering, call>>
    BY <1>4 DEF Start, queueVars, boundVars
  <2>6. \A s \in Runs : \/ run'[s] = run[s]
                        \/ /\ run[s].pc = "marking" /\ run'[s].pc = "running"
                           /\ run'[s].envelope = run[s].envelope
    BY <2>1, <2>2, <2>3 DEF Others
  <2>. HIDE DEF e
  <2>. QED  BY <1>t, <1>e, <1>r, <2>3, <2>4, <2>5, <2>6, LogPersist
<1>5. CASE MarkFails(r) \/ CompleteFails(r) \/ \E b \in BOOLEAN : ExecutionFails(r, b)
  <2>1. PICK b \in BOOLEAN : BeginFailure(r, b)
    BY <1>5 DEF MarkFails, CompleteFails, ExecutionFails
  <2>2. SetEntry(e, Failed(e))
        /\ Become(r, [run[r] EXCEPT !.pc = "failing", !.line = Failed(e), !.retryable = b])
    BY <2>1 DEF BeginFailure
  <2>3. run'[r] = [run[r] EXCEPT !.pc = "failing", !.line = Failed(e), !.retryable = b]
        /\ Others(r)
    BY <1>m, <2>2
  <2>4. run'[r].pc = "failing" /\ run'[r].line = Failed(e) /\ run'[r].envelope = e
    BY <1>t, <2>3 DEF Run
  <2>5. entry[e].state # "none"
    BY <1>5, <1>l DEF MarkFails, CompleteFails, ExecutionFails, LineHolds
  <2>6. Stamped(Failed(e)) /\ Failed(e).state \notin ActiveState
    BY <1>l, <1>x, <2>5 DEF Stamped, ActiveState
  <2>7. entry'[e] = Failed(e) /\ UNCHANGED <<logVars, call, ticket, recovering>>
    BY <1>5, <1>y, <2>2 DEF MarkFails, CompleteFails, ExecutionFails
  <2>8. LineHolds(r)'
    BY <1>x, <2>4, <2>6, <2>7 DEF LineHolds, Stamped
  <2>9. Lines'
    BY <1>p, <2>3, <2>8, LinesOf
  <2>10. faults = 0 \/ faults' # 0
    BY <1>5, <1>f DEF MarkFails, CompleteFails, ExecutionFails, boundVars
  <2>. HIDE DEF e
  <2>. QED  BY <1>t, <1>e, <1>r, <2>2, <2>6, <2>7, <2>9, <2>10, LogChange
<1>6. CASE ExecutionSucceeds(r)
  <2>1. SetEntry(e, Completed(e))
        /\ Become(r, [run[r] EXCEPT !.pc = "completing", !.line = Completed(e)])
    BY <1>6 DEF ExecutionSucceeds
  <2>2. run'[r] = [run[r] EXCEPT !.pc = "completing", !.line = Completed(e)] /\ Others(r)
    BY <1>m, <2>1
  <2>3. run'[r].pc = "completing" /\ run'[r].line = Completed(e) /\ run'[r].envelope = e
    BY <1>t, <2>2 DEF Run
  <2>4. entry[e].state = "executing"
    BY <1>6, <1>l DEF ExecutionSucceeds, LineHolds
  <2>5. Stamped(Completed(e)) /\ Completed(e).state \notin ActiveState
    BY <1>l, <1>x, <2>4 DEF Stamped, ActiveState
  <2>6. entry'[e] = Completed(e) /\ UNCHANGED ticket
    BY <1>6, <1>y, <2>1 DEF ExecutionSucceeds
  <2>7. LineHolds(r)'
    BY <1>x, <2>3, <2>5, <2>6 DEF LineHolds, Stamped
  <2>8. Lines'
    BY <1>p, <2>2, <2>7, LinesOf
  <2>. HIDE DEF e
  <2>. QED
    BY <1>6, <1>t, <1>e, <1>r, <2>1, <2>5, <2>8, LogChange DEF ExecutionSucceeds, boundVars
<1>7. CASE Complete(r)
  <2>1. run'[r].pc \in {"idle", "again"} /\ Others(r)
    BY <1>7, <1>m, <1>i DEF Complete
  <2>2. Persist(e, run[r].line) /\ UNCHANGED <<entry, ticket, faults, recovering, call>>
    BY <1>7 DEF Complete, boundVars
  <2>3. /\ run[r].line.state # "none" /\ Stamped(run[r].line)
        /\ entry[e].state \in ActiveState => run[r].line.queuedAt < entry[e].queuedAt
    BY <1>7, <1>l DEF Complete, LineHolds
  <2>4. \A s \in Runs : run'[s] = run[s] \/ run'[s].pc \in {"idle", "again", "burying"}
    BY <2>1 DEF Others
  <2>. HIDE DEF e
  <2>. QED  BY <1>t, <1>e, <1>r, <2>2, <2>3, <2>4, LogPersist
<1>8. CASE AfterFailure(r)
  <2>1. run'[r].pc \in {"idle", "burying"} /\ Others(r)
    <3>1. CASE Become(r, Idle)
      BY <1>m, <1>i, <3>1
    <3>2. CASE Become(r, [run[r] EXCEPT !.pc = "burying"])
      <4>1. run'[r] = [run[r] EXCEPT !.pc = "burying"] /\ Others(r)
        BY <1>m, <3>2
      <4>. QED  BY <1>t, <4>1 DEF Run
    <3>. QED  BY <1>8, <3>1, <3>2 DEF AfterFailure
  <2>2. Persist(e, run[r].line) /\ UNCHANGED <<entry, ticket, faults, recovering, call>>
    BY <1>8 DEF AfterFailure, queueVars, boundVars
  <2>3. /\ run[r].line.state # "none" /\ Stamped(run[r].line)
        /\ entry[e].state \in ActiveState => run[r].line.queuedAt < entry[e].queuedAt
    BY <1>8, <1>l DEF AfterFailure, LineHolds
  <2>4. \A s \in Runs : run'[s] = run[s] \/ run'[s].pc \in {"idle", "again", "burying"}
    BY <2>1 DEF Others
  <2>. HIDE DEF e
  <2>. QED  BY <1>t, <1>e, <1>r, <2>2, <2>3, <2>4, LogPersist
<1>9. CASE Bury(r)
  <2>1. SetEntry(e, Absent) /\ Become(r, Idle)
    BY <1>9 DEF Bury, Remove
  <2>2. run'[r].pc \in {"idle", "again"} /\ Others(r)
    BY <1>m, <1>i, <2>1
  <2>3. Lines'
    BY <1>p, <2>2, LinesOf DEF LineHolds
  <2>4. Stamped(Absent) /\ Absent.state \notin ActiveState
    BY <1>x DEF Stamped, ActiveState
  <2>. HIDE DEF e
  <2>. QED  BY <1>9, <1>t, <1>e, <1>r, <2>1, <2>3, <2>4, LogChange DEF Bury, boundVars
<1>10. CASE CatchFails(r)
  <2>1. run'[r].pc = "idle" /\ Others(r)
    BY <1>10, <1>m, <1>i DEF CatchFails
  <2>2. UNCHANGED <<entry, disk, rewriting, ticket, torn, call, recovering>> /\ faults' # 0
    BY <1>10, <1>f DEF CatchFails, queueVars, logVars
  <2>3. \A s \in Runs : run'[s] = run[s] \/ run'[s].pc \in {"idle", "again", "burying"}
    BY <2>1 DEF Others
  <2>. QED  BY <1>r, <2>2, <2>3, LogSame
<1>. QED
  BY <1>1, <1>2, <1>3, <1>4, <1>5, <1>6, <1>7, <1>8, <1>9, <1>10 DEF Continue

LEMMA LogPick ==
    ASSUME LogInv, TypeOK, NEW r \in Runs, NEW e \in Envelopes, Pick(r, e), ~recovering
    PROVE  LogInv'
<1>1. run' = [run EXCEPT ![r] = [Idle EXCEPT !.pc = "picked", !.envelope = e]]
  BY DEF Pick, Become
<1>2. /\ run'[r].pc = "picked" /\ run'[r].envelope = e
      /\ \A s \in Runs \ {r} : run'[s] = run[s]
  BY <1>1 DEF TypeOK, Idle
<1>3. entry[e].state = "queued"
  BY DEF Pick, NextIs
<1>u. UNCHANGED <<entry, disk, rewriting, ticket, torn, faults, call, recovering>>
  BY DEF Pick, queueVars, logVars, boundVars
<1>4. Stamps' /\ RecoveryFirst'
  BY <1>u DEF LogInv, Stamps, Stamped, RecoveryFirst
<1>5. Lines'
  BY <1>2, <1>3, <1>u DEF LogInv, Lines, LineHolds, Stamped
<1>6. Covers'
  BY <1>u DEF LogInv, Covers, Covered, Logged, Calm
<1>. QED  BY <1>4, <1>5, <1>6 DEF LogInv

LEMMA LogAdmission ==
    ASSUME LogInv, TypeOK, TypeOK', NEW e \in Envelopes, Admission(e)
    PROVE  LogInv'
<1>r. UNCHANGED <<run, recovering>> => RecoveryFirst'
  BY DEF LogInv, RecoveryFirst
<1>1. CASE Submit(e)
  BY <1>1, LogEnqueue DEF Submit, boundVars
<1>2. CASE SubmitDuplicate(e) \/ CancelDeadLetter(e)
  <2>1. UNCHANGED <<entry, disk, rewriting, ticket, torn, faults, call, run, recovering>>
    BY <1>2 DEF SubmitDuplicate, CancelDeadLetter, queueVars, logVars, boundVars
  <2>. QED  BY <1>r, <2>1, LogSame
<1>3. CASE Enqueued(e)
  <2>1. /\ call[e].line \in Entry /\ call[e].line.state = "queued" /\ Stamped(call[e].line)
        /\ call'[e].pc = "idle" /\ \A f \in Envelopes \ {e} : call'[f] = call[f]
    BY <1>3 DEF Enqueued, LogInv, Stamps, TypeOK, Call, NoCall
  <2>2. UNCHANGED <<entry, ticket, faults, run, recovering>> /\ Persist(e, call[e].line)
    BY <1>3 DEF Enqueued, queueVars, boundVars
  <2>. QED  BY <1>r, <2>1, <2>2, LogPersist DEF ActiveState
<1>4. CASE EnqueueFails(e) \/ RequeueFails(e)
  <2>1. faults' # 0
    BY <1>4 DEF EnqueueFails, RequeueFails, Fault, TypeOK
  <2>2. UNCHANGED <<entry, disk, rewriting, ticket, torn, run, recovering>>
    BY <1>4 DEF EnqueueFails, RequeueFails, queueVars, logVars
  <2>3. call'[e].pc = "idle" /\ \A f \in Envelopes \ {e} : call'[f] = call[f]
    BY <1>4 DEF EnqueueFails, RequeueFails, TypeOK, NoCall
  <2>. QED  BY <1>r, <2>1, <2>2, <2>3, LogSame
<1>5. CASE RequeueDeadLetter(e)
  <2>1. /\ call[e].pc = "idle" /\ call'[e].pc = "requeueing"
        /\ \A f \in Envelopes \ {e} : call'[f] = call[f]
    BY <1>5 DEF RequeueDeadLetter, TypeOK, Call
  <2>2. UNCHANGED <<entry, disk, rewriting, ticket, torn, faults, run, recovering>>
    BY <1>5 DEF RequeueDeadLetter, queueVars, logVars, boundVars
  <2>. QED  BY <1>r, <2>1, <2>2, LogSame
<1>6. CASE Requeued(e)
  <2>1. UNCHANGED <<logVars, run, faults, recovering>>
    BY <1>6 DEF Requeued, boundVars
  <2>2. CASE UNCHANGED queueVars /\ call' = [call EXCEPT ![e] = NoCall]
    <3>1. /\ call[e].pc = "requeueing" /\ call'[e].pc = "idle"
          /\ \A f \in Envelopes \ {e} : call'[f] = call[f]
      BY <1>6, <2>2 DEF Requeued, TypeOK, NoCall
    <3>. QED  BY <1>r, <2>1, <2>2, <3>1, LogSame DEF queueVars, logVars
  <2>3. CASE ~Duplicate(e) /\ BeginEnqueue(e)
    BY <2>1, <2>3, LogEnqueue
  <2>. QED  BY <1>6, <2>2, <2>3 DEF Requeued
<1>. QED  BY <1>1, <1>2, <1>3, <1>4, <1>5, <1>6 DEF Admission

LEMMA LogOperate ==
    ASSUME LogInv, TypeOK, Operate
    PROVE  LogInv'
<1>r. UNCHANGED <<run, recovering>> => RecoveryFirst'
  BY DEF LogInv, RecoveryFirst
<1>1. CASE PauseExecution \/ ResumeExecution \/ \E e \in Envelopes : RetryTimerFires(e)
  <2>1. UNCHANGED <<entry, disk, rewriting, ticket, torn, faults, call, run, recovering>>
    BY <1>1 DEF PauseExecution, ResumeExecution, RetryTimerFires, queueVars, logVars, boundVars
  <2>. QED  BY <1>r, <2>1, LogSame
<1>2. CASE RecoveryEnds
  <2>1. UNCHANGED <<entry, disk, rewriting, ticket, torn, faults, call, run>> /\ ~recovering'
    BY <1>2, Zenon DEF RecoveryEnds, queueVars, logVars, boundVars
  <2>. QED  BY <2>1, LogSame DEF RecoveryFirst
<1>3. CASE Cleanup
  <2>1. /\ ~rewriting.on
        /\ \A e \in Envelopes : entry'[e] = IF entry[e].state = "completed" THEN Absent ELSE entry[e]
        /\ rewriting'.on /\ rewriting'.lines = entry'
        /\ \A e \in Envelopes : disk'[e] = Absent
        /\ UNCHANGED <<ticket, torn, faults, call, run, recovering>>
    BY <1>3 DEF Cleanup, ClearCompleted, NoEntries, boundVars
  <2>2. Absent.state = "none"
    BY DEF Absent
  <2>3. Stamps'
    BY <2>1, <2>2 DEF LogInv, Stamps, Stamped
  <2>4. Lines'
    <3>. SUFFICES ASSUME NEW r \in Runs PROVE LineHolds(r)'
      BY DEF Lines
    <3>1. LineHolds(r)
      BY DEF LogInv, Lines
    <3>2. run[r].pc \in {"idle", "again"} \/ run[r].envelope \in Envelopes
      BY DEF TypeOK, Run
    <3>3. \A e \in Envelopes : entry'[e] = entry[e] \/ (entry[e].state = "completed" /\ entry'[e].state = "none")
      BY <2>1, <2>2
    <3>. QED  BY <2>1, <3>1, <3>2, <3>3 DEF LineHolds, Stamped, ActiveState
  <2>5. Covers'
    BY <2>1 DEF Covers, Covered, Logged
  <2>. QED  BY <1>r, <2>1, <2>3, <2>4, <2>5 DEF LogInv
<1>4. CASE CleanupEnds
  <2>1. /\ rewriting.on /\ ~rewriting'.on
        /\ disk' = rewriting.lines
        /\ \A e \in Envelopes : rewriting'.lines[e] = Absent
        /\ UNCHANGED <<entry, ticket, torn, faults, call, run, recovering>>
    BY <1>4 DEF CleanupEnds, RebuildQueueFile, NotRewriting, NoEntries, queueVars, boundVars
  <2>2. Absent.state = "none"
    BY DEF Absent
  <2>3. Stamps'
    BY <2>1, <2>2 DEF LogInv, Stamps, Stamped
  <2>4. Lines'
    BY <2>1 DEF LogInv, Lines, LineHolds, Stamped
  <2>5. Covers'
    BY <2>1 DEF LogInv, Covers, Covered, Logged, Calm
  <2>. QED  BY <1>r, <2>1, <2>3, <2>4, <2>5 DEF LogInv
<1>5. CASE Crash
  <2>1. /\ entry' = disk /\ disk' = disk /\ ~rewriting'.on
        /\ \A e \in Envelopes : rewriting'.lines[e].state = "none"
        /\ torn' = (torn \/ rewriting.on)
        /\ \A e \in Envelopes : call'[e].pc = "idle"
        /\ \A r \in Runs : run'[r].pc = "idle"
        /\ UNCHANGED <<ticket, faults>>
    BY <1>5 DEF Crash, LoadFromDisk, NotRewriting, NoEntries, Absent, NoCall, Idle
  <2>2. Stamps' /\ Lines' /\ RecoveryFirst'
    BY <2>1 DEF LogInv, Stamps, Stamped, Lines, LineHolds, RecoveryFirst
  <2>3. Covers'
    BY <2>1 DEF Covers, Covered, Logged, ActiveState
  <2>. QED  BY <2>2, <2>3 DEF LogInv
<1>6. ASSUME NEW e \in Envelopes, RecoverOrphan(e) PROVE LogInv'
  <2>1. \A r \in Runs : run[r].pc = "idle"
    BY <1>6 DEF RecoverOrphan, LogInv, RecoveryFirst
  <2>2. UNCHANGED <<logVars, call, run, faults, recovering>> /\ entry[e].state = "executing"
    BY <1>6 DEF RecoverOrphan, boundVars
  <2>3. Lines'
    BY <2>1, <2>2 DEF Lines, LineHolds
  <2>4. entry[e] \in Entry /\ Stamped(entry[e]) /\ Absent \in Entry /\ Stamped(Absent)
        /\ Absent.state \notin ActiveState
    BY EntryTyped DEF LogInv, Stamps, Stamped, Absent, ActiveState
  <2>5. CASE SetEntry(e, [entry[e] EXCEPT !.state = "queued", !.retry = @ + 1])
             /\ ticket' = ticket + 1
    <3>. DEFINE x == [entry[e] EXCEPT !.state = "queued", !.retry = @ + 1]
    <3>1. \A n \in Nat : /\ [entry[e] EXCEPT !.state = "queued", !.retry = n] \in Entry
                         /\ [entry[e] EXCEPT !.state = "queued", !.retry = n].state = "queued"
                         /\ [entry[e] EXCEPT !.state = "queued", !.retry = n].queuedAt
                               = entry[e].queuedAt
      BY <2>4 DEF Entry, QueueState
    <3>2. /\ [entry[e] EXCEPT !.state = "queued"].retry = entry[e].retry
          /\ entry[e].retry + 1 \in Nat
      BY <2>4 DEF Entry
    <3>3. x = [entry[e] EXCEPT !.state = "queued", !.retry = entry[e].retry + 1]
      BY <3>2
    <3>4. x \in Entry /\ x.state = "queued" /\ x.queuedAt = entry[e].queuedAt
      BY <3>1, <3>2, <3>3
    <3>. HIDE DEF x
    <3>5. Stamped(x) /\ entry[e].state \in ActiveState
      BY <2>2, <2>4, <3>4 DEF Stamped, ActiveState
    <3>6. SetEntry(e, x)
      BY <2>5 DEF x
    <3>. QED  BY <1>r, <2>2, <2>3, <2>5, <3>4, <3>5, <3>6, LogChange
  <2>6. CASE SetEntry(e, Absent) /\ UNCHANGED ticket
    BY <1>r, <2>2, <2>3, <2>4, <2>6, LogChange
  <2>. QED  BY <1>6, <2>5, <2>6 DEF RecoverOrphan, Remove
<1>. QED  BY <1>1, <1>2, <1>3, <1>4, <1>5, <1>6 DEF Operate

LEMMA LogNext == LogInv /\ ExecutorInv /\ OnePick /\ [Next]_vars => LogInv'
<1>. SUFFICES ASSUME LogInv, ExecutorInv, OnePick, [Next]_vars PROVE LogInv'
  OBVIOUS
<1>t. TypeOK /\ TypeOK'
  BY SlotsNext DEF ExecutorInv, SlotsInv
<1>1. CASE LoopStops \/ UNCHANGED vars
  <2>1. UNCHANGED <<entry, disk, rewriting, ticket, torn, faults, call, run, recovering>>
    BY <1>1 DEF LoopStops, vars, queueVars, logVars, boundVars
  <2>. QED  BY <2>1, LogSame DEF LogInv, RecoveryFirst
<1>2. CASE LoopPicks
  BY <1>2, <1>t, LogPick DEF LoopPicks, Runs
<1>3. ASSUME NEW b \in Batches, BatchPicks(b) PROVE LogInv'
  BY <1>3, <1>t, LogPick DEF BatchPicks, Runs
<1>4. ASSUME NEW b \in Batches, BatchEnds(b) PROVE LogInv'
  <2>1. UNCHANGED <<entry, disk, rewriting, ticket, torn, faults, call, recovering>>
    BY <1>4 DEF BatchEnds, queueVars, logVars, boundVars
  <2>2. \A s \in Runs : run'[s] = run[s] \/ run'[s].pc = "idle"
    BY <1>4, <1>t DEF BatchEnds, Become, TypeOK, Idle
  <2>3. RecoveryFirst'
    BY <2>1, <2>2 DEF LogInv, RecoveryFirst
  <2>. QED  BY <2>1, <2>2, <2>3, LogSame
<1>. QED
  BY <1>t, <1>1, <1>2, <1>3, <1>4, LogAdmission, LogContinue, LogOperate DEF Next

(* A queued entry is in the log, so that a crash does not lose it, but for *)
(* the exceptions that QueueSurvives names.                                *)
THEOREM QueueAlwaysSurvives == Spec /\ []OnePick => []QueueSurvives
<1>1. LogInv /\ ExecutorInv => QueueSurvives
  <2>. SUFFICES ASSUME LogInv, ExecutorInv, NEW e \in Active,
                       call[e].pc # "enqueueing", ~(faults > 0), ~torn, ~rewriting.on
                PROVE  \/ disk[e].state \in {"queued", "executing"}
                       \/ disk[e].queuedAt \in 1 .. entry[e].queuedAt - 1
    BY DEF QueueSurvives
  <2>1. e \in Envelopes /\ entry[e].state \in ActiveState
    BY DEF Active, InState, ActiveState
  <2>2. Calm
    BY DEF Calm, ExecutorInv, SlotsInv, TypeOK
  <2>. QED  BY <2>1, <2>2 DEF LogInv, Covers, Covered, Logged, ActiveState
<1>. QED  BY <1>1, LogInit, LogNext, ExecutorInit, ExecutorNext, PTL DEF Spec

(* So with one batch, and without any proviso, a pause lets one execution  *)
(* start, what succeeded is not executed again, what is queued survives a  *)
(* crash, and the executor is serial.                                      *)
COROLLARY OneBatchKeepsAll ==
    ASSUME \A a, b \in Batches : a = b
    PROVE  Spec => /\ [](SingleExecutor /\ PauseAdmitsOne /\ QueueSurvives)
                   /\ SuccessIsFinal /\ ExecutesSerially
<1>1. Spec => []OnePick
  BY OneBatchOnePick
<1>. QED
  BY <1>1, AlwaysSingleExecutor, PauseAlwaysAdmitsOne, SuccessAlwaysFinal, QueueAlwaysSurvives,
     ExecutorIsSerial, PTL
=============================================================================
