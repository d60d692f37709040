----------------------------- MODULE MCToolFetch -----------------------------
(* ToolFetch on a few processes.  *)
EXTENDS ToolFetch, TLC

(* Processes differ in nothing but their names.  *)
ProcSymmetry == Permutations(Proc)
=============================================================================
