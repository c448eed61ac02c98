--------------------------- MODULE MCMemoryEngine ---------------------------
(***************************************************************************)
(* The instances of MemoryEngine that TLC checks.                          *)
(*                                                                         *)
(* Four contents: "case" and "CASE" differ in letter case only, so that    *)
(* they have one hash, and their embeddings are alike but below the        *)
(* threshold; "like" is a paraphrase of "case" above it; "near" is about   *)
(* the same subject.  "case" and "near" mention the same entity.           *)
(***************************************************************************)
EXTENDS MemoryEngine, TLC

CONSTANTS m1, m2, m3, e1, f1

MCTexts == {"case", "CASE", "like", "near"}
Subject == {"case", "like", "near"}

HashOf(t) == IF t = "CASE" THEN "case" ELSE t
MCHash == [t \in Texts |-> HashOf(t)]
MCHashes == {HashOf(t) : t \in Texts}

Both(a, b) == {<<a, b>>, <<b, a>>}
Same == {<<t, t>> : t \in Texts}

MCSimilar == (Same \cup Both("case", "like")) \cap (Texts \X Texts)
MCRelated ==
  (MCSimilar \cup Both("case", "near") \cup Both("case", "CASE")) \cap (Texts \X Texts)

(* What the classifier makes of them: "near" reports trouble where "case"  *)
(* and "like" report success, and "like" praises the same version.         *)
Words == [case |-> <<"nfe", "2.5", "corrigido">>,
          like |-> <<"nfe", "2.5", "funciona">>, near |-> <<"nfe", "2.5", "erro">>]

Classifier == INSTANCE RelationClassifier WITH
  PositiveCues <- {"corrigido", "funciona"}, NegativeCues <- {"erro"}, Versions <- {"2.5"}

AsMemory(t) == [hash |-> HashOf(t), words |-> Words[HashOf(t)], scope |-> "a"]
Similarity(p) == IF p \in MCSimilar THEN 95 ELSE 60

MCTypes == {"duplicate", "conflict", "update", "reinforce", "complement"}
MCRelationType ==
  [p \in Texts \X Texts |-> Classifier!Classify(AsMemory(p[1]), AsMemory(p[2]), Similarity(p))]

MCEntities == [t \in Texts |-> IF t \in {"case", "near"} THEN {e1} ELSE {}]
MCFacts == [t \in Texts |-> IF t = "case" THEN {f1} ELSE {}]
IdSymmetry == Permutations(Ids)
=============================================================================
