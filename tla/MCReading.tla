------------------------------ MODULE MCReading ------------------------------
(***************************************************************************)
(* The instance of Reading that TLC checks.                                *)
(*                                                                         *)
(* The contents "case" and "like" are alike, "near" is about the same      *)
(* subject and mentions the same entity.  The question "who" shares words  *)
(* with "case" and "near" but is close only to "case".                     *)
(***************************************************************************)
EXTENDS Reading, TLC

CONSTANTS m1, m2, e1, f1

MCTexts == {"case", "like", "near"}
MCHash == [t \in Texts |-> t]

Both(a, b) == {<<a, b>>, <<b, a>>}
MCSimilar == ({<<t, t>> : t \in Texts} \cup Both("case", "like")) \cap (Texts \X Texts)
MCRelated == MCSimilar \cup Both("case", "near")

MCEntities == [t \in Texts |-> IF t = "like" THEN {} ELSE {e1}]
MCFacts == [t \in Texts |-> IF t = "case" THEN {f1} ELSE {}]
MCRelationType == [p \in Texts \X Texts |-> "complement"]

MCCosine == [p \in Questions \X Texts |-> IF p[2] = "near" THEN -1 ELSE 6]
MCOverlap == [p \in Questions \X Texts |-> IF p[2] = "like" THEN 0 ELSE 5]
MCQueries ==
  {[question |-> q, scope |-> "a", context |-> TRUE, graph |-> TRUE] : q \in Questions}
  \cup {[question |-> q, scope |-> "a", context |-> FALSE, graph |-> FALSE] : q \in Questions}
=============================================================================
