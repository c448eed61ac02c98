---------------------------- MODULE MCBrainFile ----------------------------
(***************************************************************************)
(* The instances of BrainFile that TLC checks: two processes, a brain of   *)
(* the legacy format that holds w0 or none at all, and one more write.     *)
(***************************************************************************)
EXTENDS BrainFile, TLC

CONSTANTS p1, p2, w0, w1

ProcSymmetry == Permutations(Procs)
=============================================================================
