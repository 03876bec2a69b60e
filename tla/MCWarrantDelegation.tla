------------------------- MODULE MCWarrantDelegation -------------------------
(***************************************************************************)
(* A root with two actions, and one with the wildcard and a denied action; *)
(* the requests narrow, keep or widen what their parent has, for a part of *)
(* the time it has left, all of it, or more.                               *)
(***************************************************************************)
EXTENDS WarrantDelegation, TLC

MCActions == {"*", "a", "b"}

MCRoots ==
    {[depth |-> 0, scope |-> {"a", "b"}, deny |-> {}, limit |-> 2, expires |-> 2],
     [depth |-> 0, scope |-> {"*"}, deny |-> {"b"}, limit |-> 0, expires |-> 2]}

MCRequests ==
    {[scope |-> {"a", "b"}, limit |-> 2, ttl |-> 2],
     [scope |-> {"a"}, limit |-> 1, ttl |-> 1],
     [scope |-> {"*"}, limit |-> 0, ttl |-> 0]}

MCSymmetry == Permutations(Calls)
=============================================================================
