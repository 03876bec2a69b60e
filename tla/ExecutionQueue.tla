--------------------------- MODULE ExecutionQueue ---------------------------
(***************************************************************************)
(* ExecutionQueue and DeadLetterQueue: the envelopes that wait for the     *)
(* executor and those it gave up, each a map in memory over a log of JSON  *)
(* lines.  A method changes the map at once and appends its line later:    *)
(* the operators below are the two halves, which the executor's actions    *)
(* put together.                                                           *)
(***************************************************************************)
EXTENDS Integers, FiniteSets

CONSTANTS
    Envelopes,
    MaxQueueSize,   \* entries queued or executing beyond which enqueue rejects
    MaxTickets      \* bound: places given out in the fifo

ASSUME QueueAssumption ==
    /\ IsFiniteSet(Envelopes)
    /\ MaxQueueSize \in Nat \ {0}
    /\ MaxTickets \in Nat

VARIABLES
    entry,       \* the map queue, envelope_id -> entry
    place,       \* the array fifo: each envelope's place in it, 0 when it is not there
    results,     \* executionResults, the envelopes with a cached result
    disk,        \* execution-queue.jsonl: the last line of each envelope
    rewriting,   \* the lines that _rebuildQueueFile is writing
    torn,        \* whether a line was appended, or the process died, meanwhile
    ticket,      \* places given out so far
    dlq,         \* the states in DeadLetterQueue.entries
    dlqDisk      \* the states that a reload of dead-letter-queue.jsonl yields

queueVars == <<entry, place, results, ticket>>
logVars == <<disk, rewriting, torn>>
letterVars == <<dlq, dlqDisk>>

QueueState == {"queued", "executing", "completed", "failed"}

(* queuedAt stands for queued_at, which orders the fifo after a reload.    *)
Entry == [state : QueueState \union {"none"}, retry : Nat, queuedAt : Nat]
Absent == [state |-> "none", retry |-> 0, queuedAt |-> 0]

Entries == [Envelopes -> Entry]
NoEntries == [e \in Envelopes |-> Absent]

DLQState == {"none", "dead_lettered", "requeued", "cancelled"}

Rewriting == [on : BOOLEAN, lines : Entries]
NotRewriting == [on |-> FALSE, lines |-> NoEntries]

QueueInit ==
    /\ entry = NoEntries
    /\ place = [e \in Envelopes |-> 0]
    /\ results = {}
    /\ ticket = 0
    /\ disk = NoEntries
    /\ rewriting = NotRewriting
    /\ torn = FALSE
    /\ dlq = [e \in Envelopes |-> "none"]
    /\ dlqDisk = [e \in Envelopes |-> "none"]

-----------------------------------------------------------------------------
(***************************************************************************)
(* Reading the queue.                                                      *)
(***************************************************************************)
InState(s) == {e \in Envelopes : entry[e].state = s}

Active == InState("queued") \union InState("executing")

(* _checkBackpressure, for the mode 'reject'.                              *)
QueueFull == Cardinality(Active) >= MaxQueueSize

(* next: e is the first of the fifo that is queued.  A place that an       *)
(* earlier entry of the same envelope left in the fifo is served too.      *)
NextIs(e) ==
    /\ entry[e].state = "queued" /\ place[e] # 0
    /\ \A f \in InState("queued") : place[f] # 0 => place[e] <= place[f]

(* The cases in which enqueue returns the queue_id of the entry it finds.  *)
Duplicate(e) ==
    \/ entry[e].state \in {"queued", "executing"}
    \/ entry[e].state = "completed" /\ e \in results

-----------------------------------------------------------------------------
(***************************************************************************)
(* The halves that change the map.                                         *)
(***************************************************************************)
SetEntry(e, en) == entry' = [entry EXCEPT ![e] = en]

NewEntry == [state |-> "queued", retry |-> 0, queuedAt |-> ticket + 1]

(* enqueue: a push onto the fifo, where the envelope may be already.       *)
Enqueue(e) ==
    /\ ticket < MaxTickets
    /\ SetEntry(e, NewEntry)
    /\ place' = [place EXCEPT ![e] = IF @ = 0 THEN ticket + 1 ELSE @]
    /\ ticket' = ticket + 1
    /\ UNCHANGED results

Executing(e) == [entry[e] EXCEPT !.state = "executing"]
Completed(e) == [entry[e] EXCEPT !.state = "completed"]
Failed(e) == [entry[e] EXCEPT !.state = "failed", !.retry = @ + 1]

(* The fifo without e.                                                     *)
LeaveFifo(e) == place' = [place EXCEPT ![e] = 0]

Remove(e) == SetEntry(e, Absent) /\ LeaveFifo(e)

-----------------------------------------------------------------------------
(***************************************************************************)
(* The halves that reach the disk.                                         *)
(***************************************************************************)
(* _persist, when the append is done.                                      *)
Persist(e, line) ==
    /\ disk' = [disk EXCEPT ![e] = line]
    /\ torn' = (torn \/ rewriting.on)
    /\ UNCHANGED rewriting

(* Mutant: only the queued entries stay in the log.                        *)
ClearStarted ==
    LET kept == [e \in Envelopes |-> IF entry[e].state = "completed" THEN Absent ELSE entry[e]]
    IN  /\ ~rewriting.on
        /\ entry' = kept
        /\ rewriting' = [on |-> TRUE,
                         lines |-> [e \in Envelopes |->
                                       IF kept[e].state = "queued" THEN kept[e] ELSE Absent]]
        /\ disk' = NoEntries
        /\ UNCHANGED <<place, results, ticket, torn>>

(* Mutant: the results of the entries go with them.                        *)
ClearResultsToo ==
    LET kept == [e \in Envelopes |-> IF entry[e].state = "completed" THEN Absent ELSE entry[e]]
    IN  /\ ~rewriting.on
        /\ entry' = kept
        /\ results' = results \ InState("completed")
        /\ rewriting' = [on |-> TRUE, lines |-> kept]
        /\ disk' = NoEntries
        /\ UNCHANGED <<place, ticket, torn>>

(* clearCompleted: the completed entries leave the map and writeFile       *)
(* truncates the log, which holds nothing until the rest is written.       *)
ClearCompleted ==
    LET kept == [e \in Envelopes |-> IF entry[e].state = "completed" THEN Absent ELSE entry[e]]
    IN  /\ ~rewriting.on
        /\ entry' = kept
        /\ rewriting' = [on |-> TRUE, lines |-> kept]
        /\ disk' = NoEntries
        /\ UNCHANGED <<place, results, ticket, torn>>

(* The write lands over whatever was appended since the truncation.        *)
RebuildQueueFile ==
    /\ rewriting.on
    /\ disk' = rewriting.lines
    /\ rewriting' = NotRewriting
    /\ UNCHANGED torn

(* A new process reads the log.  What was being written is lost, and so    *)
(* are the results; the fifo holds the queued entries in the order they    *)
(* were queued.                                                            *)
LoadFromDisk ==
    /\ entry' = disk
    /\ place' = [e \in Envelopes |->
                    IF disk[e].state = "queued" THEN disk[e].queuedAt ELSE 0]
    /\ results' = {}
    /\ UNCHANGED <<disk, ticket>>
    /\ rewriting' = NotRewriting
    /\ torn' = (torn \/ rewriting.on)

-----------------------------------------------------------------------------
(***************************************************************************)
(* Dead letters.                                                           *)
(***************************************************************************)
SetLetter(e, s) == dlq' = [dlq EXCEPT ![e] = s]
PersistLetter(e, s) == dlqDisk' = [dlqDisk EXCEPT ![e] = s]
=============================================================================
