------------------------- MODULE MCRuntimeRegistry -------------------------
(***************************************************************************)
(* The instances of RuntimeRegistry that TLC checks: a budget of 4 out of  *)
(* 16; models that take half of it, most of it, all of it or so much that  *)
(* the sum wraps; requests that prefer, require or merely allow a GPU.     *)
(***************************************************************************)
EXTENDS RuntimeRegistry, TLC

CONSTANTS a, b, c1, c2, c3

Both == {"cpu", "cuda"}
MCSpecs ==
  {[bytes |-> 2, backends |-> Both], [bytes |-> 3, backends |-> {"cpu"}],
   [bytes |-> 15, backends |-> Both]}
MCRequests ==
  {[preferred |-> None, gpu |-> FALSE, supported |-> {}],
   [preferred |-> "cpu", gpu |-> TRUE, supported |-> {}],
   [preferred |-> None, gpu |-> TRUE, supported |-> {"cpu", "cuda"}]}
MCEnabled == {{}, {"cuda"}}

ModelSymmetry == Permutations(Models) \cup Permutations(Callers)
=============================================================================
