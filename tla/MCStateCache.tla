---------------------------- MODULE MCStateCache ----------------------------
(* StateCache on a few processes, which differ in nothing but their names.  *)
EXTENDS StateCache, TLC

ProcSymmetry == Permutations(Proc)
=============================================================================
