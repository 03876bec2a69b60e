---------------------------- MODULE GovernedItems ----------------------------
(***************************************************************************)
(* What the governed work queue promises of its items: an item enters the  *)
(* governed execution at most once, it is completed only if it entered it, *)
(* and what has ended stays as it ended.                                   *)
(***************************************************************************)
EXTENDS Naturals

CONSTANT Items

VARIABLES
    entered,   \* [Items -> 0 .. 1], the executions an item has entered
    ending     \* how each item ended, "open" while it has not

vars == <<entered, ending>>

Init ==
    /\ entered = [i \in Items |-> 0]
    /\ ending = [i \in Items |-> "open"]

Enter(i) ==
    /\ entered[i] = 0
    /\ entered' = [entered EXCEPT ![i] = 1]
    /\ UNCHANGED ending

Complete(i) ==
    /\ ending[i] = "open" /\ entered[i] = 1
    /\ ending' = [ending EXCEPT ![i] = "completed"]
    /\ UNCHANGED entered

Drop(i) ==
    /\ ending[i] = "open"
    /\ ending' = [ending EXCEPT ![i] = "dropped"]
    /\ UNCHANGED entered

Next == \E i \in Items : Enter(i) \/ Complete(i) \/ Drop(i)

Spec == Init /\ [][Next]_vars
=============================================================================
