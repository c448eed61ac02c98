---------------------------- MODULE MCModelCache ----------------------------
(***************************************************************************)
(* The instances of ModelCache that TLC checks: the daemon and the front   *)
(* end that forked it (no symmetry: the runs check liveness).              *)
(***************************************************************************)
EXTENDS ModelCache

CONSTANTS p1, p2
=============================================================================
