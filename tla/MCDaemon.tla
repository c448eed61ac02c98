------------------------------ MODULE MCDaemon ------------------------------
(***************************************************************************)
(* The instances of Daemon that TLC checks: two front ends, which may each *)
(* fork a daemon, writes w1 to w3, the second of them rejected, and a read.*)
(***************************************************************************)
EXTENDS Daemon, TLC

CONSTANTS p1, p2, d1, d2, w1, w2, w3, r1

ProcessSymmetry == Permutations({p1, p2}) \cup Permutations({d1, d2})
=============================================================================
