---------------------------- MODULE MCWarrantChain ----------------------------
(***************************************************************************)
(* Interchangeable warrants and calls.                                     *)
(***************************************************************************)
EXTENDS WarrantChain, TLC

MCSymmetry == Permutations(Warrants) \union Permutations(Calls)
=============================================================================
