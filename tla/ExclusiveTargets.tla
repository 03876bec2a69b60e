-------------------------- MODULE ExclusiveTargets --------------------------
(***************************************************************************)
(* What the execution locks promise: a plan takes all the targets of a     *)
(* step at once or none, no two plans work on one target at the same time, *)
(* and a crash of the process ends all work.                               *)
(***************************************************************************)
CONSTANTS Plans, Targets

VARIABLE working   \* [Plans -> SUBSET Targets], what each plan is working on

Init == working = [p \in Plans |-> {}]

Begin(p) ==
    \E T \in SUBSET Targets :
        /\ working[p] = {}
        /\ \A q \in Plans \ {p} : working[q] \cap T = {}
        /\ working' = [working EXCEPT ![p] = T]

End(p) == working' = [working EXCEPT ![p] = {}]

Crash == working' = [p \in Plans |-> {}]

Next == (\E p \in Plans : Begin(p) \/ End(p)) \/ Crash

Spec == Init /\ [][Next]_working
=============================================================================
