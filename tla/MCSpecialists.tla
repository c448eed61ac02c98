---------------------------- MODULE MCSpecialists ----------------------------
(***************************************************************************)
(* The instance of Specialists that TLC checks: the health check and three *)
(* calls, two of which classify and one of which embeds.                   *)
(***************************************************************************)
EXTENDS Specialists

CONSTANTS h, c1, c2, v

MCOp == [c \in Calls |-> CASE c = h -> "health" [] c = v -> "embed" [] OTHER -> "classify"]
=============================================================================
