----------------------------- MODULE MCWorkQueue -----------------------------
(***************************************************************************)
(* Instances of WorkQueue: one item that two cycles, of one process or of  *)
(* two, lease and claim; or two items in a fixed order and one cycle.      *)
(***************************************************************************)
EXTENDS WorkQueue, TLC

MCRank == [i \in Items |-> i]
OneProcess == [c \in Cycles |-> "w1"]
TwoProcesses == [c \in Cycles |-> IF c = "c1" THEN "w1" ELSE "w2"]
MCPlacements == {OneProcess, TwoProcesses} \intersect [Cycles -> Workers]
MCOutcomes == {"COMPLETED", "BLOCKED_DEPENDENCY"}
MCSymmetry == Permutations(Leases)
=============================================================================
