------------------------- MODULE RelationClassifier -------------------------
(***************************************************************************)
(* The heuristic classifier of pairs of memories                           *)
(* (internal/engine/relation_classifier.go), as operators.                 *)
(*                                                                         *)
(* A memory is [hash, words, scope], words being the sequence of the words *)
(* of its normalised content.  Similarities and overlaps are in hundredths *)
(* and compared without division.                                          *)
(*                                                                         *)
(* Sync classifies a pair from the side of the memory it syncs, and again  *)
(* from the other side when it syncs the other; the key of the relation    *)
(* sorts the two ids but holds the verdict.  One relation per pair         *)
(* therefore needs a verdict that does not depend on the side, which is    *)
(* theorem VerdictIsSymmetric of MemoryEngineProofs.                       *)
(***************************************************************************)
EXTENDS Naturals, Sequences, FiniteSets, Functions

CONSTANTS
  PositiveCues, NegativeCues,   \* sets of words
  Versions                      \* the words with a digit and a dot

Tokens(m) == Range(m.words)
Shared(l, r) == Tokens(l) \cap Tokens(r)
Either(l, r) == Tokens(l) \cup Tokens(r)

(* The Jaccard index of the two sets of words is at least percent.         *)
OverlapAtLeast(l, r, percent) ==
  /\ Either(l, r) # {}
  /\ 100 * Cardinality(Shared(l, r)) >= percent * Cardinality(Either(l, r))

Positive(m) == Tokens(m) \cap PositiveCues # {}
Negative(m) == Tokens(m) \cap NegativeCues # {}

(* Faulty variant: only the left one is looked at for praise.              *)
OneSidedConflict(l, r) ==
  Shared(l, r) # {} /\ Positive(l) /\ Negative(r)

IsConflict(l, r) ==
  /\ Shared(l, r) # {}
  /\ \/ Positive(l) /\ Negative(r)
     \/ Negative(l) /\ Positive(r)

(* The sorted list of version words: how often each of them occurs.        *)
VersionTokens(m) ==
  [v \in Versions |-> Cardinality({k \in DOMAIN m.words : m.words[k] = v})]
HasVersion(m) == Tokens(m) \cap Versions # {}

IsUpdate(l, r) ==
  /\ OverlapAtLeast(l, r, 45) /\ Shared(l, r) # {}
  /\ l.scope = r.scope
  /\ HasVersion(l) /\ HasVersion(r)
  /\ VersionTokens(l) # VersionTokens(r)

IsDuplicate(l, r, similarity) ==
  \/ l.hash = r.hash
  \/ l.words = r.words
  \/ similarity >= 98 /\ OverlapAtLeast(l, r, 85)

Classify(l, r, similarity) ==
  IF IsDuplicate(l, r, similarity) THEN "duplicate"
  ELSE IF IsConflict(l, r) /\ (OverlapAtLeast(l, r, 30) \/ Cardinality(Shared(l, r)) >= 2)
    THEN "conflict"
  ELSE IF IsUpdate(l, r) THEN "update"
  ELSE IF similarity >= 88 \/ OverlapAtLeast(l, r, 88) THEN "reinforce"
  ELSE "complement"
=============================================================================
