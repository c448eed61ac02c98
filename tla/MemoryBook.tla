----------------------------- MODULE MemoryBook -----------------------------
(***************************************************************************)
(* What the engine promises about the memories of a brainfile, whatever    *)
(* its dedup, its indexes and its graph do, and whenever it crashes.       *)
(*                                                                         *)
(* The book records for each identifier whether a memory is written under  *)
(* it and, if so, whether it waits for enrichment; and for each content    *)
(* hash the memory that stands for that content.  A content, once bound,   *)
(* is bound to the same memory for good; a memory is never removed; it is  *)
(* enriched only while it waits; and a caller is answered only with a      *)
(* memory that the book binds to the content it sent.                      *)
(***************************************************************************)
CONSTANTS Ids, Hashes, None

VARIABLES
  status,    \* [Ids -> {"absent", "pending_sync", "synced"}]
  binding,   \* [Hashes -> Ids or None]
  answers    \* the pairs <<hash, id>> callers have been answered with

vars == <<status, binding, answers>>

(* A memory is written, or written again: it waits for enrichment.         *)
Write(i) ==
  /\ status' = [status EXCEPT ![i] = "pending_sync"]
  /\ UNCHANGED <<binding, answers>>

(* A content is bound, once, to a memory that exists.                      *)
Bind(h, i) ==
  /\ binding[h] = None
  /\ status[i] # "absent"
  /\ binding' = [binding EXCEPT ![h] = i]
  /\ UNCHANGED <<status, answers>>

Answer(h) ==
  /\ binding[h] # None
  /\ answers' = answers \cup {<<h, binding[h]>>}
  /\ UNCHANGED <<status, binding>>

Enrich(i) ==
  /\ status[i] = "pending_sync"
  /\ status' = [status EXCEPT ![i] = "synced"]
  /\ UNCHANGED <<binding, answers>>

Init ==
  /\ status = [i \in Ids |-> "absent"]
  /\ binding = [h \in Hashes |-> None]
  /\ answers = {}

Next ==
  \/ \E i \in Ids : Write(i) \/ Enrich(i)
  \/ \E h \in Hashes : Answer(h) \/ \E i \in Ids : Bind(h, i)

Spec == Init /\ [][Next]_vars
=============================================================================
