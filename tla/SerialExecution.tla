--------------------------- MODULE SerialExecution ---------------------------
(***************************************************************************)
(* What the queued executor promises: it works on one envelope at a time,  *)
(* on none that has succeeded since the process started, and what succeeds *)
(* is what it works on.                                                    *)
(***************************************************************************)
CONSTANTS Envelopes, Nobody

VARIABLES
    working,    \* the envelope being executed, or Nobody
    succeeded   \* the envelopes that have succeeded since the process started

vars == <<working, succeeded>>

Init == working = Nobody /\ succeeded = {}

Begin(e) ==
    /\ working = Nobody
    /\ e \notin succeeded
    /\ working' = e
    /\ UNCHANGED succeeded

Succeed ==
    /\ working # Nobody
    /\ succeeded' = succeeded \union {working}
    /\ UNCHANGED working

End == working' = Nobody /\ UNCHANGED succeeded

Restart == working' = Nobody /\ succeeded' = {}

Next == (\E e \in Envelopes : Begin(e)) \/ Succeed \/ End \/ Restart

Spec == Init /\ [][Next]_vars
=============================================================================
