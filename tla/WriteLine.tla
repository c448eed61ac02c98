----------------------------- MODULE WriteLine -----------------------------
(***************************************************************************)
(* What the daemons promise about the requests of their clients.           *)
(*                                                                         *)
(* A write that is accepted stands in the line of the daemon that accepted *)
(* it, behind those accepted before; the line is served from its head, one *)
(* write at a time.  A request takes effect at most once, a write that was *)
(* refused never does, and a line is lost only as a whole, with its daemon.*)
(***************************************************************************)
EXTENDS Sequences

CONSTANTS Daemons, Requests

VARIABLES
  fate,  \* [Requests -> {"none", "queued", "done", "failed", "refused", "lost"}]
  line   \* [Daemons -> Seq(Requests)]

vars == <<fate, line>>

Accept(d, r) ==
  /\ fate[r] = "none"
  /\ fate' = [fate EXCEPT ![r] = "queued"]
  /\ line' = [line EXCEPT ![d] = Append(@, r)]

Refuse(r) ==
  /\ fate[r] = "none"
  /\ fate' = [fate EXCEPT ![r] = "refused"]
  /\ UNCHANGED line

(* A request that is answered at once.                                     *)
Serve(r) ==
  /\ fate[r] = "none"
  /\ \E f \in {"done", "failed"} : fate' = [fate EXCEPT ![r] = f]
  /\ UNCHANGED line

Settle(d) ==
  /\ line[d] # <<>>
  /\ fate[Head(line[d])] = "queued"
  /\ \E f \in {"done", "failed"} : fate' = [fate EXCEPT ![Head(line[d])] = f]
  /\ line' = [line EXCEPT ![d] = Tail(@)]

InLine(d) == {line[d][k] : k \in DOMAIN line[d]}

Lose(d) ==
  /\ fate' = [r \in Requests |-> IF r \in InLine(d) THEN "lost" ELSE fate[r]]
  /\ line' = [line EXCEPT ![d] = <<>>]

Init ==
  /\ fate = [r \in Requests |-> "none"]
  /\ line = [d \in Daemons |-> <<>>]

Next ==
  \/ \E r \in Requests : Refuse(r) \/ Serve(r) \/ \E d \in Daemons : Accept(d, r)
  \/ \E d \in Daemons : Settle(d) \/ Lose(d)

Spec == Init /\ [][Next]_vars
=============================================================================
