---------------------------- MODULE ContextBudget ----------------------------
(***************************************************************************)
(* How Context (internal/engine/context_engine.go) fits what it has read   *)
(* into the caller's token budget: fitContextBudget takes items by their   *)
(* own words, enforceRenderedBudget then drops items from the end until    *)
(* the text that BuildText renders, headings and punctuation included, is  *)
(* within the budget.                                                      *)
(*                                                                         *)
(* An item is the number of words it has and the memories it belongs to,   *)
(* by their place in the ranking: a memory to itself, an entity or a fact  *)
(* to its source, a relation to those of its ends that are memories of the *)
(* ranking.  A kept item also carries upTo, the words its section renders  *)
(* from the first line to its own, so that the text is never added up      *)
(* again: EstimateTokens counts white-space separated words, and a kept    *)
(* section is its heading and its lines.                                   *)
(*                                                                         *)
(* The budget is positive: ContextInput.Normalize turns 0 into the default *)
(* and Validate refuses a negative one.                                    *)
(***************************************************************************)
EXTENDS Integers, Sequences

CONSTANTS
  Budgets,   \* budgets callers pass
  Inputs     \* what may have been loaded: [Sections -> Seq(Item)]

Extras == {"entities", "facts", "relations"}
Sections == {"memories"} \cup Extras
Stages == Sections \cup {"render", "done"}

(* Words of a line besides those fitContextBudget counts: the dash; the    *)
(* dash and two bars of a fact; the dash and the arrow of a relation.      *)
Punctuation == [memories |-> 1, entities |-> 1, facts |-> 3, relations |-> 2]

Item == [words : Nat \ {0}, of : SUBSET (Nat \ {0})]

ASSUME BudgetAssumption ==
  /\ Budgets \subseteq Nat \ {0}
  /\ Inputs \subseteq [Sections -> Seq(Item)]
  (* the loaders return only what belongs to a memory they were given *)
  /\ \A loaded \in Inputs :
       /\ \A k \in DOMAIN loaded["memories"] : loaded["memories"][k].of = {k}
       /\ \A s \in Extras : \A k \in DOMAIN loaded[s] :
            loaded[s][k].of \cap DOMAIN loaded["memories"] # {}

VARIABLES
  budget, loaded,   \* the input of the computation
  stage,            \* the loop that runs, named for the section it takes
  at,               \* the item that loop looks at
  used,             \* words taken so far
  kept              \* [Sections -> Seq(Line)]

vars == <<budget, loaded, stage, at, used, kept>>

Line == [words : Nat, of : SUBSET (Nat \ {0}), upTo : Nat]

TypeOK ==
  /\ budget \in Nat \ {0}
  /\ loaded \in [Sections -> Seq(Item)]
  /\ stage \in Stages
  /\ at \in Nat \ {0} /\ used \in Nat
  /\ kept \in [Sections -> Seq(Line)]

-----------------------------------------------------------------------------
(* BuildText and EstimateTokens. *)

WordsUpTo(lines) == IF lines = <<>> THEN 0 ELSE lines[Len(lines)].upTo

(* A heading and the lines; a section without lines is not rendered.       *)
Rendered(lines) == IF lines = <<>> THEN 0 ELSE 1 + WordsUpTo(lines)

Tokens ==
  Rendered(kept["memories"]) + Rendered(kept["entities"])
    + Rendered(kept["facts"]) + Rendered(kept["relations"])

LineWords(s, item) == Punctuation[s] + item.words

AsLine(s, item) ==
  [words |-> item.words, of |-> item.of,
   upTo |-> WordsUpTo(kept[s]) + LineWords(s, item)]

KeptMemories == UNION {kept["memories"][k].of : k \in DOMAIN kept["memories"]}

-----------------------------------------------------------------------------
(* fitContextBudget: a loop over each section in turn. *)

Following == [memories |-> "entities", entities |-> "facts", facts |-> "relations",
              relations |-> "render"]

InLoop == stage \in Sections /\ at <= Len(loaded[stage])
Fits == used + loaded[stage][at].words <= budget
Wanted == stage = "memories" \/ loaded[stage][at].of \cap KeptMemories # {}

(* The best memory is taken even when it alone is over the budget.         *)
Taken == Wanted /\ (Fits \/ (stage = "memories" /\ kept["memories"] = <<>>))

Take ==
  /\ InLoop /\ Taken
  /\ kept' = [kept EXCEPT ![stage] = Append(@, AsLine(stage, loaded[stage][at]))]
  /\ used' = used + loaded[stage][at].words
  /\ at' = at + 1
  /\ UNCHANGED <<budget, loaded, stage>>

(* An extra none of whose memories was taken is passed over.               *)
Skip ==
  /\ InLoop /\ ~Wanted
  /\ at' = at + 1
  /\ UNCHANGED <<budget, loaded, stage, used, kept>>

(* Faulty variant: a memory that does not fit is passed over.              *)
NextSectionAtEnd ==
  /\ stage \in Sections
  /\ InLoop => Wanted /\ ~Taken
  /\ IF InLoop /\ stage = "memories"
     THEN stage' = stage /\ at' = at + 1
     ELSE stage' = Following[stage] /\ at' = 1
  /\ UNCHANGED <<budget, loaded, used, kept>>

(* The loop ends with the list or, by break, at the first item over budget. *)
NextSection ==
  /\ stage \in Sections
  /\ InLoop => Wanted /\ ~Taken
  /\ stage' = Following[stage] /\ at' = 1
  /\ UNCHANGED <<budget, loaded, used, kept>>

-----------------------------------------------------------------------------
(* enforceRenderedBudget. *)

NoExtras == \A s \in Extras : kept[s] = <<>>

(* Faulty variant: memories go first.                                      *)
DroppableFromTheFront ==
  IF Len(kept["memories"]) > 1 THEN "memories"
  ELSE IF kept["entities"] # <<>> THEN "entities"
  ELSE IF kept["facts"] # <<>> THEN "facts"
  ELSE "relations"

(* The section the next iteration shortens.                                *)
Droppable ==
  IF kept["relations"] # <<>> THEN "relations"
  ELSE IF kept["facts"] # <<>> THEN "facts"
  ELSE IF kept["entities"] # <<>> THEN "entities"
  ELSE "memories"

WithoutLast(lines) == SubSeq(lines, 1, Len(lines) - 1)

(* Faulty variant: a text of exactly the budget is cut.                    *)
DropAtBudget ==
  /\ stage = "render" /\ Tokens >= budget
  /\ ~NoExtras \/ Len(kept["memories"]) > 1
  /\ kept' = [kept EXCEPT ![Droppable] = WithoutLast(@)]
  /\ UNCHANGED <<budget, loaded, stage, at, used>>

DropLast ==
  /\ stage = "render" /\ Tokens > budget
  /\ ~NoExtras \/ Len(kept["memories"]) > 1
  /\ kept' = [kept EXCEPT ![Droppable] = WithoutLast(@)]
  /\ UNCHANGED <<budget, loaded, stage, at, used>>

Least(a, b) == IF a <= b THEN a ELSE b
Most(a, b) == IF a >= b THEN a ELSE b

(* Faulty variant: the heading and the dash are not allowed for.           *)
TruncatedToBudget(line) ==
  LET n == Least(line.words, budget)
  IN [words |-> n, of |-> line.of, upTo |-> Punctuation["memories"] + n]

(* truncateToBudget of the only memory, two words being its heading and    *)
(* its dash.                                                               *)
Truncated(line) ==
  LET n == Least(line.words, Most(budget - 2, 0))
  IN [words |-> n, of |-> line.of, upTo |-> Punctuation["memories"] + n]

Truncate ==
  /\ stage = "render" /\ Tokens > budget
  /\ NoExtras /\ Len(kept["memories"]) <= 1
  /\ kept' = [kept EXCEPT !["memories"] =
                IF @ = <<>> THEN @ ELSE <<Truncated(@[1])>>]
  /\ stage' = "done"
  /\ UNCHANGED <<budget, loaded, at, used>>

Return ==
  /\ stage = "render" /\ Tokens <= budget
  /\ stage' = "done"
  /\ UNCHANGED <<budget, loaded, at, used, kept>>

-----------------------------------------------------------------------------
Init ==
  /\ budget \in Budgets /\ loaded \in Inputs
  /\ stage = "memories" /\ at = 1 /\ used = 0
  /\ kept = [s \in Sections |-> <<>>]

Next == Take \/ Skip \/ NextSection \/ DropLast \/ Truncate \/ Return

Spec == Init /\ [][Next]_vars

-----------------------------------------------------------------------------
(* Properties. *)

(* The text of the answer is within the budget, whatever was loaded: the   *)
(* headings and punctuation that fitContextBudget leaves out of account    *)
(* are made up for by enforceRenderedBudget, down to the last truncation.  *)
(* (One memory takes two words without any content, so a budget of 1 is    *)
(* exceeded by one.)                                                       *)
WithinBudget == stage = "done" => Tokens <= Most(budget, 2)

(* No entity, fact or relation is shown without a memory it belongs to,    *)
(* though memories are cut first by the one function and last by the other. *)
NothingOrphaned ==
  stage = "done" =>
    \A s \in Extras : \A k \in DOMAIN kept[s] : kept[s][k].of \cap KeptMemories # {}

(* The memories shown are the best ones, in the order of the ranking, and  *)
(* at least one when anything was found.                                   *)
BestMemoriesFirst ==
  /\ \A k \in DOMAIN kept["memories"] : kept["memories"][k].of = {k}
  /\ stage \in {"render", "done"} /\ loaded["memories"] # <<>> => kept["memories"] # <<>>

(* What the text would take if nothing were left out, its headings and     *)
(* every line of every section.                                            *)
WordsThrough(s, items) ==
  LET upTo[k \in 0 .. Len(items)] ==
        IF k = 0 THEN 0 ELSE upTo[k - 1] + LineWords(s, items[k])
  IN upTo

Whole(s) ==
  IF loaded[s] = <<>> THEN 0 ELSE 1 + WordsThrough(s, loaded[s])[Len(loaded[s])]

WholeText == Whole("memories") + Whole("entities") + Whole("facts") + Whole("relations")

(* Nothing is left out of an answer that would have fitted whole: neither  *)
(* of the two functions, each counting in its own way, cuts too early.     *)
WholeIfItFits ==
  stage = "done" /\ WholeText <= budget =>
    \A s \in Sections : Len(kept[s]) = Len(loaded[s])
=============================================================================
