-------------------------- MODULE MCContextBudget --------------------------
(***************************************************************************)
(* The instance of ContextBudget that TLC checks: every list of up to      *)
(* MaxMemories memories of MemoryWords words, with every list of up to     *)
(* MaxExtras entities, facts and relations of them, each of the words that *)
(* the shortest of its kind has (name and type; subject, predicate and     *)
(* object; two ids and a type).                                            *)
(***************************************************************************)
EXTENDS ContextBudget, SequencesExt

CONSTANTS MaxMemories, MemoryWords

MaxExtras == [entities |-> 1, facts |-> 1, relations |-> 2]
ExtraWords == [entities |-> 2, facts |-> 3, relations |-> 3]

Rankings == BoundedSeq(MemoryWords, MaxMemories)

(* What an extra of section s may belong to, out of n memories.            *)
Owners(s, n) ==
  IF s = "relations"
  THEN {E \in SUBSET (1..n) : E # {} /\ \A a, b, c \in E : a = b \/ b = c \/ a = c}
  ELSE {{k} : k \in 1..n}

ExtraLists(s, n) ==
  BoundedSeq({[words |-> ExtraWords[s], of |-> E] : E \in Owners(s, n)}, MaxExtras[s])

MCInputs ==
  UNION {LET n == Len(r)
             memories == [k \in 1..n |-> [words |-> r[k], of |-> {k}]]
         IN {("memories" :> memories) @@ ("entities" :> es) @@ ("facts" :> fs) @@ ("relations" :> rs) :
               es \in ExtraLists("entities", n), fs \in ExtraLists("facts", n),
               rs \in ExtraLists("relations", n)} : r \in Rankings}
=============================================================================
