--------------------------- MODULE ExecutionLocks ---------------------------
(***************************************************************************)
(* ExecutionLockManager: the table execution_locks, on which plans that    *)
(* execute take a time-bounded lock on each target they are going to       *)
(* modify.  Every method is asynchronous but the database is not: between  *)
(* a method's awaits lie one SELECT or the writes that follow it, and each *)
(* operator below is one such stretch.                                     *)
(*                                                                         *)
(* A partial unique index admits one row with status 'active' per target,  *)
(* so the table is a function; rows that were released or expired are      *)
(* never read for a decision again and are left out.                       *)
(***************************************************************************)
EXTENDS Naturals

CONSTANTS
    Targets,
    Plans,       \* executions of plans, each under an execution_id of its own
    Nobody       \* owner of a target without an active row

ASSUME NobodyAssumption == Nobody \notin Plans

VARIABLE locks   \* [Targets -> Lock], the active row of each target

(* `step` is the plan step that inserted the row: with the owner and the   *)
(* target it stands for the lock_id.  `left` is the time until expires_at, *)
(* in ticks.                                                               *)
Lock == [owner : Plans \cup {Nobody}, step : Nat, left : Nat]

NoLock == [owner |-> Nobody, step |-> 0, left |-> 0]

NoLocks == locks = [t \in Targets |-> NoLock]

Held(t) == locks[t].owner # Nobody

(* `expires_at <= now`, of an active row.                                  *)
Lapsed(t) == Held(t) /\ locks[t].left = 0

LockId(t) == [target |-> t, owner |-> locks[t].owner, step |-> locks[t].step]

HasId(id) == LockId(id.target) = id

(* Mutant: the SELECT without its condition on expires_at.                 *)
ActiveLocks == {LockId(t) : t \in {u \in Targets : Held(u)}}

(* Mutant: the SELECT without its condition on status.                     *)
LapsedRows == {LockId(t) : t \in {u \in Targets : locks[u].left = 0}}

(* expireStaleLocks: the SELECT, and the UPDATEs of the rows it found.     *)
StaleLocks == {LockId(t) : t \in {u \in Targets : Lapsed(u)}}

ExpireLocks(ids) ==
    locks' = [t \in Targets |-> IF Held(t) /\ LockId(t) \in ids THEN NoLock ELSE locks[t]]

(* getActiveLock.                                                          *)
ActiveLock(t) == IF Lapsed(t) THEN NoLock ELSE locks[t]

(* Mutant: the INSERT replaces a row instead of failing on the index.      *)
InsertOver(t, p, step, ttl) ==
    locks' = [locks EXCEPT ![t] = [owner |-> p, step |-> step, left |-> ttl]]

(* The INSERT of acquireLock: it fails where the index has a row.          *)
InsertLock(t, p, step, ttl) ==
    /\ ~Held(t)
    /\ locks' = [locks EXCEPT ![t] = [owner |-> p, step |-> step, left |-> ttl]]

(* releaseLock: by lock_id; a row that is no longer active stays so.       *)
ReleaseLock(id) ==
    locks' = [locks EXCEPT ![id.target] = IF HasId(id) THEN NoLock ELSE @]

(* The clock advances.                                                     *)
LocksTick ==
    locks' = [t \in Targets |->
                 [locks[t] EXCEPT !.left = IF @ = 0 THEN 0 ELSE @ - 1]]
=============================================================================
