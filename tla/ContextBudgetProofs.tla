------------------------- MODULE ContextBudgetProofs -------------------------
(***************************************************************************)
(* Proofs about ContextBudget, for every budget and every loaded input.    *)
(*                                                                         *)
(* The inductive invariant is Inv: besides the types it says that an extra *)
(* is kept only with one of its memories, at every step and not only at    *)
(* the end; that the kept memories are the first ones of the ranking; and  *)
(* that the loop over the memories takes every one up to where it stops.   *)
(*                                                                         *)
(* For an answer that fits whole it is strengthened by TakenWhole, which   *)
(* compares what has been taken with the words of the items looked at, a   *)
(* recursive function whose facts are shown first, by induction.           *)
(***************************************************************************)
EXTENDS ContextBudget, WellFoundedInduction, TLAPS

Owned ==
  /\ \A s \in Extras : \A k \in DOMAIN kept[s] : kept[s][k].of \cap KeptMemories # {}
  /\ stage = "memories" => NoExtras

Ranked ==
  /\ \A k \in DOMAIN kept["memories"] : kept["memories"][k].of = {k}
  /\ stage = "memories" => at = Len(kept["memories"]) + 1
  /\ stage # "memories" /\ loaded["memories"] # <<>> => kept["memories"] # <<>>

Inv == TypeOK /\ loaded \in Inputs /\ Owned /\ Ranked /\ WithinBudget

-----------------------------------------------------------------------------
(* Facts about sequences. *)

LEMMA AppendFacts ==
  ASSUME NEW S, NEW q \in Seq(S), NEW x \in S
  PROVE  /\ Append(q, x) \in Seq(S)
         /\ Len(Append(q, x)) = Len(q) + 1
         /\ \A k \in 1..Len(q) : Append(q, x)[k] = q[k]
         /\ Append(q, x)[Len(q) + 1] = x
OBVIOUS

LEMMA WithoutLastFacts ==
  ASSUME NEW S, NEW q \in Seq(S), q # <<>>
  PROVE  /\ WithoutLast(q) \in Seq(S)
         /\ Len(WithoutLast(q)) = Len(q) - 1
         /\ \A k \in 1..(Len(q) - 1) : WithoutLast(q)[k] = q[k]
BY DEF WithoutLast

LEMMA DomainFacts ==
  ASSUME NEW S, NEW q \in Seq(S)
  PROVE  /\ DOMAIN q = 1..Len(q)
         /\ Len(q) \in Nat
         /\ q # <<>> <=> Len(q) > 0
         /\ \A k \in DOMAIN q : q[k] \in S
OBVIOUS

LEMMA WordsUpToNat ==
  ASSUME NEW q \in Seq(Line)
  PROVE  WordsUpTo(q) \in Nat
<1>1. CASE q = <<>>
  BY <1>1 DEF WordsUpTo
<1>2. CASE q # <<>>
  <2>1. q[Len(q)] \in Line
    BY <1>2, DomainFacts
  <2> QED
    BY <1>2, <2>1 DEF WordsUpTo, Line
<1> QED
  BY <1>1, <1>2

(* The line of a taken item. *)
LEMMA AsLineFacts ==
  ASSUME TypeOK, NEW s \in Sections, NEW item \in Item
  PROVE  AsLine(s, item) \in Line /\ AsLine(s, item).of = item.of
<1>1. kept[s] \in Seq(Line)
  BY DEF TypeOK
<1>2. WordsUpTo(kept[s]) \in Nat
  BY <1>1, WordsUpToNat
<1>3. Punctuation[s] \in Nat
  BY DEF Punctuation, Sections, Extras
<1> QED
  BY <1>2, <1>3 DEF AsLine, LineWords, Line, Item

(* The item a loop looks at. *)
LEMMA LoopItem ==
  ASSUME TypeOK, InLoop
  PROVE  stage \in Sections /\ at \in DOMAIN loaded[stage] /\ loaded[stage][at] \in Item
<1>1. stage \in Sections /\ loaded[stage] \in Seq(Item) /\ at \in Nat \ {0}
  BY DEF TypeOK, InLoop
<1>2. at \in 1..Len(loaded[stage])
  BY <1>1, DomainFacts DEF InLoop
<1> QED
  BY <1>1, <1>2, DomainFacts

(***************************************************************************)
(* Types.                                                                  *)
(***************************************************************************)
LEMMA TruncatedFacts ==
  ASSUME TypeOK, NEW line \in Line
  PROVE  /\ Truncated(line) \in Line
         /\ Truncated(line).of = line.of
         /\ Truncated(line).upTo <= 1 + Most(budget - 2, 0)
BY DEF TypeOK, Truncated, Line, Punctuation, Least, Most

LEMMA DroppableFacts ==
  ASSUME TypeOK, ~NoExtras \/ Len(kept["memories"]) > 1
  PROVE  /\ Droppable \in Sections
         /\ kept[Droppable] # <<>>
         /\ Droppable = "memories" => NoExtras /\ Len(kept["memories"]) > 1
<1>1. kept["memories"] \in Seq(Line)
  BY DEF TypeOK, Sections
<1>2. Len(kept["memories"]) > 1 => kept["memories"] # <<>>
  BY <1>1
<1> QED
  BY <1>2 DEF Droppable, NoExtras, Sections, Extras

LEMMA InitInv == Init => Inv
<1> SUFFICES ASSUME Init PROVE Inv
  OBVIOUS
<1>1. TypeOK
  BY BudgetAssumption DEF Init, TypeOK, Stages, Sections
<1>2. Owned
  BY DEF Init, Owned, NoExtras, Sections, Extras
<1>3. kept["memories"] = <<>>
  BY DEF Init, Sections
<1>4. Ranked
  BY <1>3 DEF Init, Ranked
<1>5. WithinBudget
  BY DEF Init, WithinBudget
<1> QED
  BY <1>1, <1>2, <1>4, <1>5 DEF Inv, Init

LEMMA StepTypes ==
  ASSUME Inv, Next
  PROVE  TypeOK' /\ (loaded \in Inputs)'
<1> USE DEF Inv
<1>1. ASSUME Take PROVE TypeOK'
  <2>1. stage \in Sections /\ loaded[stage][at] \in Item
    BY <1>1, LoopItem DEF Take
  <2>2. AsLine(stage, loaded[stage][at]) \in Line
    BY <2>1, AsLineFacts
  <2>3. Append(kept[stage], AsLine(stage, loaded[stage][at])) \in Seq(Line)
    BY <2>1, <2>2, AppendFacts DEF TypeOK
  <2>4. kept' \in [Sections -> Seq(Line)]
    BY <1>1, <2>1, <2>3 DEF Take, TypeOK
  <2>5. used' \in Nat /\ at' \in Nat \ {0}
    BY <1>1, <2>1 DEF Take, TypeOK, Item
  <2> QED
    BY <1>1, <2>4, <2>5 DEF Take, TypeOK
<1>2. ASSUME Skip PROVE TypeOK'
  BY <1>2 DEF Skip, TypeOK
<1>3. ASSUME NextSection PROVE TypeOK'
  <2>1. Following[stage] \in Stages
    BY <1>3 DEF NextSection, Following, Stages, Sections, Extras
  <2> QED
    BY <1>3, <2>1 DEF NextSection, TypeOK
<1>4. ASSUME DropLast PROVE TypeOK'
  <2>1. Droppable \in Sections /\ kept[Droppable] # <<>>
    BY <1>4, DroppableFacts DEF DropLast
  <2>2. WithoutLast(kept[Droppable]) \in Seq(Line)
    BY <2>1, WithoutLastFacts DEF TypeOK
  <2> QED
    BY <1>4, <2>1, <2>2 DEF DropLast, TypeOK
<1>5. ASSUME Truncate PROVE TypeOK'
  <2>1. kept["memories"] \in Seq(Line)
    BY DEF TypeOK, Sections
  <2>2. CASE kept["memories"] = <<>>
    BY <1>5, <2>1, <2>2 DEF Truncate, TypeOK, Stages, Sections
  <2>3. CASE kept["memories"] # <<>>
    <3>1. kept["memories"][1] \in Line
      BY <2>1, <2>3
    <3>2. Truncated(kept["memories"][1]) \in Line
      BY <3>1, TruncatedFacts
    <3>3. <<Truncated(kept["memories"][1])>> \in Seq(Line)
      BY <3>2
    <3> QED
      BY <1>5, <2>3, <3>3 DEF Truncate, TypeOK, Stages, Sections
  <2> QED
    BY <2>2, <2>3
<1>6. ASSUME Return PROVE TypeOK'
  BY <1>6 DEF Return, TypeOK, Stages
<1>7. loaded' = loaded
  BY DEF Next, Take, Skip, NextSection, DropLast, Truncate, Return
<1> QED
  BY <1>1, <1>2, <1>3, <1>4, <1>5, <1>6, <1>7 DEF Next

(***************************************************************************)
(* An extra is kept only with one of its memories.                         *)
(***************************************************************************)

(* It suffices that the extras kept were kept before, or are wanted, and   *)
(* that no memory is given up while extras are kept.                       *)
LEMMA OwnedKept ==
  ASSUME Inv,
         \A s \in Extras : \A k \in DOMAIN kept'[s] :
           kept'[s][k].of \cap KeptMemories # {},
         KeptMemories \subseteq KeptMemories' \/ NoExtras',
         stage' = "memories" => NoExtras'
  PROVE  Owned'
BY DEF Owned, NoExtras

LEMMA StepOwned ==
  ASSUME Inv, Next
  PROVE  Owned'
<1> USE DEF Inv
<1>0. \A s \in Extras : \A k \in DOMAIN kept[s] : kept[s][k].of \cap KeptMemories # {}
  BY DEF Owned
<1>s. \A s \in Extras : s \in Sections /\ s # "memories"
  BY DEF Sections, Extras
<1>t. kept \in [Sections -> Seq(Line)] /\ "memories" \in Sections
  BY DEF TypeOK, Sections
<1>1. ASSUME Take PROVE Owned'
  <2>1. stage \in Sections /\ loaded[stage][at] \in Item
    BY <1>1, LoopItem DEF Take
  <2> DEFINE line == AsLine(stage, loaded[stage][at])
  <2>2. line \in Line /\ line.of = loaded[stage][at].of
    BY <2>1, AsLineFacts
  <2> HIDE DEF line
  <2>3. kept' = [kept EXCEPT ![stage] = Append(kept[stage], line)]
    BY <1>1 DEF Take, line
  <2>4. CASE stage = "memories"
    <3>1. \A s \in Extras : kept'[s] = kept[s]
      BY <1>t, <1>s, <2>3, <2>4
    <3>2. NoExtras /\ NoExtras'
      BY <2>4, <3>1 DEF Owned, NoExtras
    <3>3. \A s \in Extras : \A k \in DOMAIN kept'[s] :
            kept'[s][k].of \cap KeptMemories # {}
      BY <1>0, <3>1
    <3> QED
      BY <3>2, <3>3, OwnedKept
  <2>5. CASE stage # "memories"
    <3>1. kept'["memories"] = kept["memories"]
      BY <1>t, <2>1, <2>3, <2>5
    <3>2. KeptMemories' = KeptMemories
      BY <3>1 DEF KeptMemories
    <3>3. line.of \cap KeptMemories # {}
      BY <1>1, <2>2, <2>5 DEF Take, Taken, Wanted
    <3>4. ASSUME NEW s \in Extras, NEW k \in DOMAIN kept'[s]
          PROVE  kept'[s][k].of \cap KeptMemories # {}
      <4>1. CASE s = stage
        <5>1. kept[s] \in Seq(Line) /\ kept'[s] = Append(kept[s], line)
          BY <1>t, <1>s, <2>3, <4>1
        <5>2. k \in 1..(Len(kept[s]) + 1)
          BY <2>2, <3>4, <5>1, AppendFacts, DomainFacts
        <5>3. CASE k = Len(kept[s]) + 1
          BY <2>2, <3>3, <5>1, <5>3, AppendFacts
        <5>4. CASE k # Len(kept[s]) + 1
          <6>1. k \in 1..Len(kept[s])
            BY <5>1, <5>2, <5>4, DomainFacts
          <6>2. kept'[s][k] = kept[s][k] /\ k \in DOMAIN kept[s]
            BY <2>2, <5>1, <6>1, AppendFacts, DomainFacts
          <6> QED
            BY <1>0, <6>2
        <5> QED
          BY <5>3, <5>4
      <4>2. CASE s # stage
        <5>1. kept'[s] = kept[s]
          BY <1>t, <1>s, <2>1, <2>3, <4>2
        <5> QED
          BY <1>0, <3>4, <5>1
      <4> QED
        BY <4>1, <4>2
    <3>5. stage' # "memories"
      BY <1>1, <2>5 DEF Take
    <3> QED
      BY <3>2, <3>4, <3>5, OwnedKept
  <2> QED
    BY <2>4, <2>5
<1>2. ASSUME Skip PROVE Owned'
  BY <1>2 DEF Skip, Owned, NoExtras, KeptMemories
<1>3. ASSUME NextSection PROVE Owned'
  <2>1. stage' # "memories"
    BY <1>3 DEF NextSection, Following, Sections, Extras
  <2> QED
    BY <1>3, <2>1 DEF NextSection, Owned, KeptMemories
<1>4. ASSUME DropLast PROVE Owned'
  <2>1. /\ Droppable \in Sections
        /\ kept[Droppable] # <<>>
        /\ Droppable = "memories" => NoExtras
    BY <1>4, DroppableFacts DEF DropLast
  <2>2. kept' = [kept EXCEPT ![Droppable] = WithoutLast(kept[Droppable])]
    BY <1>4 DEF DropLast
  <2>3. stage' # "memories"
    BY <1>4 DEF DropLast
  <2>4. CASE Droppable = "memories"
    <3>1. \A s \in Extras : kept'[s] = kept[s]
      BY <1>t, <1>s, <2>2, <2>4
    <3>2. NoExtras'
      BY <2>1, <2>4, <3>1 DEF NoExtras
    <3> QED
      BY <1>0, <2>3, <3>1, <3>2, OwnedKept
  <2>5. CASE Droppable # "memories"
    <3>1. kept'["memories"] = kept["memories"]
      BY <1>t, <2>1, <2>2, <2>5
    <3>2. KeptMemories' = KeptMemories
      BY <3>1 DEF KeptMemories
    <3>3. ASSUME NEW s \in Extras, NEW k \in DOMAIN kept'[s]
          PROVE  kept'[s][k].of \cap KeptMemories # {}
      <4>1. CASE s = Droppable
        <5>1. kept[s] \in Seq(Line) /\ kept'[s] = WithoutLast(kept[s]) /\ kept[s] # <<>>
          BY <1>t, <1>s, <2>1, <2>2, <4>1
        <5>2. k \in 1..(Len(kept[s]) - 1)
          BY <3>3, <5>1, WithoutLastFacts, DomainFacts
        <5>3. kept'[s][k] = kept[s][k]
          BY <5>1, <5>2, WithoutLastFacts
        <5>4. k \in DOMAIN kept[s]
          BY <5>1, <5>2, DomainFacts
        <5> QED
          BY <1>0, <5>3, <5>4
      <4>2. CASE s # Droppable
        <5>1. kept'[s] = kept[s]
          BY <1>t, <1>s, <2>1, <2>2, <4>2
        <5> QED
          BY <1>0, <3>3, <5>1
      <4> QED
        BY <4>1, <4>2
    <3> QED
      BY <2>3, <3>2, <3>3, OwnedKept
  <2> QED
    BY <2>4, <2>5
<1>5. ASSUME Truncate PROVE Owned'
  <2>1. \A s \in Extras : kept'[s] = kept[s]
    BY <1>5, <1>t, <1>s DEF Truncate
  <2>2. NoExtras'
    BY <1>5, <2>1 DEF Truncate, NoExtras
  <2> QED
    BY <1>0, <2>1, <2>2, OwnedKept
<1>6. ASSUME Return PROVE Owned'
  <2>1. stage' # "memories"
    BY <1>6 DEF Return
  <2> QED
    BY <1>6, <2>1 DEF Return, Owned, KeptMemories
<1> QED
  BY <1>1, <1>2, <1>3, <1>4, <1>5, <1>6 DEF Next

(***************************************************************************)
(* The kept memories are the first of the ranking.                         *)
(***************************************************************************)
LEMMA StepRanked ==
  ASSUME Inv, Next
  PROVE  Ranked'
<1> USE DEF Inv
<1> DEFINE ms == kept["memories"]
<1>t. kept \in [Sections -> Seq(Line)] /\ "memories" \in Sections /\ ms \in Seq(Line)
  BY DEF TypeOK, Sections
<1>r. /\ \A k \in DOMAIN ms : ms[k].of = {k}
      /\ stage = "memories" => at = Len(ms) + 1
      /\ stage # "memories" /\ loaded["memories"] # <<>> => ms # <<>>
  BY DEF Ranked
<1>1. ASSUME Take PROVE Ranked'
  <2>1. /\ stage \in Sections /\ at \in DOMAIN loaded[stage]
        /\ loaded[stage][at] \in Item
    BY <1>1, LoopItem DEF Take
  <2> DEFINE line == AsLine(stage, loaded[stage][at])
  <2>2. line \in Line /\ line.of = loaded[stage][at].of
    BY <2>1, AsLineFacts
  <2> HIDE DEF line
  <2>3. kept' = [kept EXCEPT ![stage] = Append(kept[stage], line)]
    BY <1>1 DEF Take, line
  <2>4. CASE stage = "memories"
    <3>1. ms' = Append(ms, line)
      BY <1>t, <2>3, <2>4
    <3>2. at = Len(ms) + 1
      BY <1>r, <2>4
    <3>3. line.of = {at}
      BY <2>1, <2>2, <2>4, BudgetAssumption
    <3>4. ASSUME NEW k \in DOMAIN ms' PROVE ms'[k].of = {k}
      <4>1. k \in 1..(Len(ms) + 1)
        BY <1>t, <2>2, <3>1, <3>4, AppendFacts, DomainFacts
      <4>2. CASE k = Len(ms) + 1
        BY <1>t, <2>2, <3>1, <3>2, <3>3, <4>2, AppendFacts
      <4>3. CASE k # Len(ms) + 1
        <5>1. Len(ms) \in Nat
          BY <1>t, DomainFacts
        <5>2. k \in 1..Len(ms)
          BY <4>1, <4>3, <5>1
        <5>3. ms'[k] = ms[k] /\ k \in DOMAIN ms
          BY <1>t, <2>2, <3>1, <5>2, AppendFacts, DomainFacts
        <5> QED
          BY <1>r, <5>3
      <4> QED
        BY <4>2, <4>3
    <3>5. at' = Len(ms') + 1
      BY <1>1, <1>t, <2>2, <3>1, <3>2, AppendFacts DEF Take
    <3>6. stage' = "memories"
      BY <1>1, <2>4 DEF Take
    <3> HIDE DEF ms
    <3>7. \A k \in DOMAIN ms' : ms'[k].of = {k}
      BY <3>4
    <3> QED
      BY <3>5, <3>6, <3>7 DEF Ranked, ms
  <2>5. CASE stage # "memories"
    <3>1. ms' = ms
      BY <1>t, <2>1, <2>3, <2>5
    <3> QED
      BY <1>1, <1>r, <2>5, <3>1 DEF Take, Ranked
  <2> QED
    BY <2>4, <2>5
<1>2. ASSUME Skip PROVE Ranked'
  <2>1. stage # "memories"
    BY <1>2 DEF Skip, Wanted
  <2> QED
    BY <1>2, <2>1 DEF Skip, Ranked
<1>3. ASSUME NextSection PROVE Ranked'
  <2>1. stage' # "memories"
    BY <1>3 DEF NextSection, Following, Sections, Extras
  <2>2. ASSUME stage = "memories", loaded["memories"] # <<>> PROVE ms # <<>>
    <3>1. CASE InLoop
      BY <1>3, <2>2, <3>1 DEF NextSection, Taken, Wanted
    <3>2. CASE ~InLoop
      <4>1. loaded["memories"] \in Seq(Item)
        BY DEF TypeOK, Sections
      <4>2. Len(loaded["memories"]) > 0 /\ Len(loaded["memories"]) \in Nat
        BY <2>2, <4>1, DomainFacts
      <4>3. at > Len(loaded["memories"])
        BY <1>3, <2>2, <3>2, <4>2 DEF InLoop, NextSection, TypeOK
      <4>4. Len(ms) > 0
        BY <1>r, <1>t, <2>2, <4>2, <4>3, DomainFacts
      <4> QED
        BY <1>t, <4>4, DomainFacts
    <3> QED
      BY <3>1, <3>2
  <2>3. ms' = ms /\ loaded' = loaded
    BY <1>3 DEF NextSection
  <2> QED
    BY <1>r, <2>1, <2>2, <2>3 DEF Ranked
<1>4. ASSUME DropLast PROVE Ranked'
  <2>1. /\ Droppable \in Sections
        /\ Droppable = "memories" => Len(ms) > 1
    BY <1>4, DroppableFacts DEF DropLast
  <2>2. kept' = [kept EXCEPT ![Droppable] = WithoutLast(kept[Droppable])]
    BY <1>4 DEF DropLast
  <2>3. stage # "memories" /\ stage' # "memories" /\ loaded' = loaded
    BY <1>4 DEF DropLast
  <2>4. CASE Droppable = "memories"
    <3>1. ms' = WithoutLast(ms) /\ ms # <<>> /\ Len(ms) > 1
      BY <1>t, <2>1, <2>2, <2>4, DomainFacts
    <3>2. /\ ms' \in Seq(Line) /\ Len(ms') = Len(ms) - 1
          /\ \A k \in 1..(Len(ms) - 1) : ms'[k] = ms[k]
      BY <1>t, <3>1, WithoutLastFacts
    <3>3. DOMAIN ms' = 1..(Len(ms) - 1) /\ DOMAIN ms = 1..Len(ms) /\ Len(ms) \in Nat
      BY <1>t, <3>2, DomainFacts
    <3>4. ms' # <<>>
      BY <3>1, <3>2, <3>3
    <3>5. \A k \in DOMAIN ms' : ms'[k].of = {k}
      BY <1>r, <3>2, <3>3
    <3> QED
      BY <2>3, <3>4, <3>5 DEF Ranked
  <2>5. CASE Droppable # "memories"
    <3>1. ms' = ms
      BY <1>t, <2>1, <2>2, <2>5
    <3> QED
      BY <1>r, <2>3, <3>1 DEF Ranked
  <2> QED
    BY <2>4, <2>5
<1>5. ASSUME Truncate PROVE Ranked'
  <2>1. stage # "memories" /\ stage' # "memories" /\ loaded' = loaded
    BY <1>5 DEF Truncate
  <2>2. CASE ms = <<>>
    <3>1. ms' = ms
      BY <1>5, <1>t, <2>2 DEF Truncate
    <3> QED
      BY <1>r, <2>1, <3>1 DEF Ranked
  <2>3. CASE ms # <<>>
    <3>1. ms' = <<Truncated(ms[1])>>
      BY <1>5, <1>t, <2>3 DEF Truncate
    <3>2. 1 \in DOMAIN ms /\ ms[1] \in Line
      BY <1>t, <2>3
    <3>3. Truncated(ms[1]).of = {1}
      BY <1>r, <3>2, TruncatedFacts
    <3>4. DOMAIN ms' = {1} /\ ms'[1] = Truncated(ms[1]) /\ ms' # <<>>
      BY <3>1
    <3>5. \A k \in DOMAIN ms' : ms'[k].of = {k}
      BY <3>3, <3>4
    <3> QED
      BY <2>1, <3>4, <3>5 DEF Ranked
  <2> QED
    BY <2>2, <2>3
<1>6. ASSUME Return PROVE Ranked'
  BY <1>6, <1>r DEF Return, Ranked
<1> QED
  BY <1>1, <1>2, <1>3, <1>4, <1>5, <1>6 DEF Next

(***************************************************************************)
(* The answer is within the budget: Return has just compared, and Truncate *)
(* leaves a heading, a dash and at most budget - 2 words.                  *)
(***************************************************************************)
LEMMA StepBudget ==
  ASSUME Inv, Next
  PROVE  WithinBudget'
<1> USE DEF Inv
<1>t. kept \in [Sections -> Seq(Line)] /\ "memories" \in Sections /\ budget \in Nat \ {0}
  BY DEF TypeOK, Sections
<1>n. \A s \in Sections : Rendered(kept[s]) \in Nat
  BY <1>t, WordsUpToNat DEF Rendered
<1>k. Tokens \in Nat
  BY <1>n DEF Tokens, Sections, Extras
<1>1. CASE Take \/ Skip \/ NextSection \/ DropLast
  <2>1. stage' # "done"
    BY <1>1 DEF Take, Skip, NextSection, DropLast, InLoop, Following, Sections, Extras
  <2> QED
    BY <2>1 DEF WithinBudget
<1>2. CASE Return
  <2>1. Tokens' = Tokens /\ budget' = budget /\ Tokens <= budget
    BY <1>2 DEF Return, Tokens
  <2> QED
    BY <1>k, <1>t, <2>1 DEF WithinBudget, Most
<1>3. CASE Truncate
  <2>1. budget' = budget /\ \A s \in Extras : kept'[s] = <<>>
    BY <1>3, <1>t DEF Truncate, NoExtras, Sections, Extras
  <2>2. \A s \in Extras : Rendered(kept'[s]) = 0
    BY <2>1 DEF Rendered
  <2>3. Rendered(kept'["memories"]) \in Nat /\ Rendered(kept'["memories"]) <= Most(budget, 2)
    <3>1. CASE kept["memories"] = <<>>
      <4>1. kept'["memories"] = <<>>
        BY <1>3, <1>t, <3>1 DEF Truncate
      <4> QED
        BY <1>t, <4>1 DEF Rendered, Most
    <3>2. CASE kept["memories"] # <<>>
      <4>1. kept["memories"][1] \in Line
        BY <1>t, <3>2
      <4> DEFINE line == Truncated(kept["memories"][1])
      <4>2. line \in Line /\ line.upTo <= 1 + Most(budget - 2, 0)
        BY <4>1, TruncatedFacts
      <4>3. kept'["memories"] = <<line>>
        BY <1>3, <1>t, <3>2 DEF Truncate
      <4> HIDE DEF line
      <4>4. Rendered(kept'["memories"]) = 1 + line.upTo
        BY <4>3 DEF Rendered, WordsUpTo
      <4> QED
        BY <1>t, <4>2, <4>4 DEF Line, Most
    <3> QED
      BY <3>1, <3>2
  <2>4. Tokens' = Rendered(kept'["memories"])
    BY <2>2, <2>3 DEF Tokens, Extras
  <2> QED
    BY <2>1, <2>3, <2>4 DEF WithinBudget
<1> QED
  BY <1>1, <1>2, <1>3 DEF Next

-----------------------------------------------------------------------------
LEMMA StutterInv == Inv /\ UNCHANGED vars => Inv'
<1> SUFFICES ASSUME Inv, UNCHANGED vars PROVE Inv'
  OBVIOUS
<1> USE DEF Inv, vars
<1>1. TypeOK' /\ (loaded \in Inputs)'
  BY DEF TypeOK
<1>2. Owned'
  BY DEF Owned, NoExtras, KeptMemories
<1>3. Ranked'
  BY DEF Ranked
<1>4. WithinBudget'
  BY DEF WithinBudget, Tokens
<1> QED
  BY <1>1, <1>2, <1>3, <1>4

(* The inductive invariant holds in every run of the two functions, for    *)
(* every budget and every list the loaders may return.                     *)
THEOREM Invariance == Spec => []Inv
<1>1. Inv /\ [Next]_vars => Inv'
  BY StepTypes, StepOwned, StepRanked, StepBudget, StutterInv DEF Inv
<1> QED
  BY <1>1, InitInv, PTL DEF Spec

(* Every list, count and running total of the computation has its type.    *)
THEOREM TypeCorrect == Spec => []TypeOK
<1>1. Inv => TypeOK
  BY DEF Inv
<1> QED
  BY <1>1, Invariance, PTL

(* The rendered text never exceeds the caller's budget (of two or more).   *)
THEOREM BudgetRespected == Spec => []WithinBudget
<1>1. Inv => WithinBudget
  BY DEF Inv
<1> QED
  BY <1>1, Invariance, PTL

(* No entity, fact or relation is answered without one of its memories.    *)
THEOREM NeverOrphaned == Spec => []NothingOrphaned
<1>1. Inv => NothingOrphaned
  BY DEF Inv, Owned, NothingOrphaned
<1> QED
  BY <1>1, Invariance, PTL

(* The memories answered are the first of the ranking, and one at least.   *)
THEOREM BestKept == Spec => []BestMemoriesFirst
<1>1. Inv => BestMemoriesFirst
  BY DEF Inv, Ranked, BestMemoriesFirst
<1> QED
  BY <1>1, Invariance, PTL

-----------------------------------------------------------------------------
(* An answer that fits whole. *)

(* The loops in their order, and what comes after them.                    *)
Order == [memories |-> 1, entities |-> 2, facts |-> 3, relations |-> 4, render |-> 5, done |-> 6]

(* How many items of section s have been looked at.                        *)
Progress(s) ==
  IF Order[s] < Order[stage] THEN Len(loaded[s]) ELSE IF s = stage THEN at - 1 ELSE 0

(* What those render.                                                      *)
Reached(s) == WordsThrough(s, loaded[s])[Progress(s)]

ReachedText ==
  Reached("memories") + Reached("entities") + Reached("facts") + Reached("relations")

(* A loop never looks past the end of its list.                            *)
InRange == stage \in Sections => at <= Len(loaded[stage]) + 1

(* As long as everything fits, everything looked at has been taken.        *)
TakenWhole ==
  WholeText <= budget =>
    /\ used <= ReachedText
    /\ \A s \in Sections : Len(kept[s]) = Progress(s) /\ WordsUpTo(kept[s]) = Reached(s)

(* Induction, for a set of numbers: the library's theorem that takes a     *)
(* predicate cannot be instantiated, the one on minimal elements can.      *)
LEMMA NumberInduction ==
  ASSUME NEW Good, 0 \in Good, \A n \in Nat : n \in Good => n + 1 \in Good
  PROVE  Nat \subseteq Good
<1> DEFINE Bad == Nat \ Good
           Before == OpToRel(<, Nat)
<1> SUFFICES ASSUME Bad # {} PROVE FALSE
  OBVIOUS
<1>1. \A k, l \in Nat : k < l => <<k, l>> \in Before
  BY DEF OpToRel
<1>2. IsWellFoundedOn(Before, Nat)
  BY NatLessThanWellFounded
<1> HIDE DEF Before
<1>3. PICK n \in Bad : \A k \in Bad : ~(<<k, n>> \in Before)
  <2>1. Bad \subseteq Nat
    OBVIOUS
  <2> HIDE DEF Bad
  <2> QED
    BY <1>2, <2>1, WFMin
<1>4. n \in Nat /\ n # 0
  OBVIOUS
<1>5. n - 1 \in Nat /\ (n - 1) + 1 = n /\ n - 1 < n
  BY <1>4
<1>6. n - 1 \in Bad
  BY <1>3, <1>5
<1> QED
  BY <1>1, <1>3, <1>4, <1>5, <1>6

(* A line has at least the words that fitContextBudget counts.            *)
LEMMA LineWordsFacts ==
  ASSUME NEW s \in Sections, NEW item \in Item
  PROVE  /\ LineWords(s, item) \in Nat /\ item.words \in Nat
         /\ item.words <= LineWords(s, item)
BY DEF LineWords, Punctuation, Sections, Extras, Item

(* The recursive function of WordsThrough exists: one on each initial      *)
(* interval does, by induction.                                            *)
LEMMA ThroughDef ==
  ASSUME NEW s, NEW items, Len(items) \in Nat
  PROVE  WordsThrough(s, items) =
           [k \in 0 .. Len(items) |->
              IF k = 0 THEN 0 ELSE WordsThrough(s, items)[k - 1] + LineWords(s, items[k])]
<1> DEFINE Step(f, k) == IF k = 0 THEN 0 ELSE f[k - 1] + LineWords(s, items[k])
           Defines(f, n) == f = [k \in 0 .. n |-> Step(f, k)]
           Good == {n \in Nat : \E f : Defines(f, n)}
<1>1. 0 \in Good
  <2>1. Defines([k \in 0 .. 0 |-> 0], 0)
    BY DEF Step
  <2> QED
    BY <2>1
<1>2. ASSUME NEW n \in Nat, n \in Good PROVE n + 1 \in Good
  <2>1. PICK g : Defines(g, n)
    BY <1>2
  <2> DEFINE f == [k \in 0 .. n + 1 |-> Step(g, k)]
  <2>2. \A k \in 0 .. n : f[k] = g[k]
    <3>1. \A k \in 0 .. n : g[k] = Step(g, k) /\ k \in 0 .. n + 1
      <4> HIDE DEF Step
      <4> QED
        BY <2>1
    <3> QED
      BY <3>1
  <2>3. \A k \in 0 .. n + 1 : Step(g, k) = Step(f, k)
    <3> SUFFICES ASSUME NEW k \in 0 .. n + 1, k # 0 PROVE g[k - 1] = f[k - 1]
      OBVIOUS
    <3>1. k - 1 \in 0 .. n
      OBVIOUS
    <3> QED
      BY <2>2, <3>1
  <2>4. Defines(f, n + 1)
    <3> HIDE DEF Step
    <3> QED
      BY <2>3
  <2> HIDE DEF f, Defines
  <2> QED
    BY <2>4
<1>3. Len(items) \in Good
  <2> HIDE DEF Good
  <2> QED
    BY <1>1, <1>2, NumberInduction
<1>4. \E f : Defines(f, Len(items))
  BY <1>3
<1> QED
  BY <1>4 DEF WordsThrough

(* It adds up line by line, and never to more than all lines.              *)
LEMMA ThroughFacts ==
  ASSUME NEW s \in Sections, NEW items \in Seq(Item)
  PROVE  /\ WordsThrough(s, items)[0] = 0
         /\ \A k \in 1 .. Len(items) :
              WordsThrough(s, items)[k] = WordsThrough(s, items)[k - 1] + LineWords(s, items[k])
         /\ \A k \in 0 .. Len(items) : /\ WordsThrough(s, items)[k] \in Nat
                                       /\ WordsThrough(s, items)[k]
                                            <= WordsThrough(s, items)[Len(items)]
<1> DEFINE W == WordsThrough(s, items)
           N == Len(items)
<1>1. N \in Nat /\ \A k \in 1 .. N : LineWords(s, items[k]) \in Nat
  BY DomainFacts, LineWordsFacts
<1>2. W = [k \in 0 .. N |-> IF k = 0 THEN 0 ELSE W[k - 1] + LineWords(s, items[k])]
  BY <1>1, ThroughDef
<1> HIDE DEF W, N
<1>3. W[0] = 0 /\ \A k \in 1 .. N : W[k] = W[k - 1] + LineWords(s, items[k])
  BY <1>1, <1>2
<1>4. \A k \in 0 .. N : W[k] \in Nat
  <2> DEFINE Good == {n \in Nat : n <= N => W[n] \in Nat}
  <2>1. 0 \in Good
    BY <1>3
  <2>2. ASSUME NEW n \in Nat, n \in Good PROVE n + 1 \in Good
    <3> SUFFICES ASSUME n + 1 <= N PROVE W[n + 1] \in Nat
      OBVIOUS
    <3>1. n + 1 \in 1 .. N /\ W[n] \in Nat /\ (n + 1) - 1 = n
      BY <1>1, <2>2
    <3>2. W[n + 1] = W[n] + LineWords(s, items[n + 1])
      BY <1>3, <3>1
    <3> QED
      BY <1>1, <3>1, <3>2
  <2>3. Nat \subseteq Good
    <3> HIDE DEF Good
    <3> QED
      BY <2>1, <2>2, NumberInduction
  <2> QED
    BY <2>3
<1>5. \A k \in 0 .. N : W[k] <= W[N]
  <2> DEFINE Good == {d \in Nat : d <= N => W[N - d] <= W[N]}
  <2>1. 0 \in Good
    BY <1>1, <1>4
  <2>2. ASSUME NEW d \in Nat, d \in Good PROVE d + 1 \in Good
    <3> DEFINE k == N - d
    <3> SUFFICES ASSUME d + 1 <= N PROVE W[N - (d + 1)] <= W[N]
      OBVIOUS
    <3>1. k \in 1 .. N /\ k - 1 = N - (d + 1) /\ k - 1 \in 0 .. N /\ N \in 0 .. N /\ k \in 0 .. N
      BY <1>1
    <3>2. W[k] <= W[N]
      BY <1>1, <2>2
    <3> HIDE DEF k
    <3>3. W[k] = W[k - 1] + LineWords(s, items[k]) /\ LineWords(s, items[k]) \in Nat
      BY <1>1, <1>3, <3>1
    <3>4. W[k - 1] \in Nat /\ W[k] \in Nat /\ W[N] \in Nat
      BY <1>4, <3>1
    <3>5. W[k - 1] <= W[N]
      BY <3>2, <3>3, <3>4, <1>1, <3>1
    <3> QED
      BY <3>1, <3>5
  <2>3. Nat \subseteq Good
    <3> HIDE DEF Good
    <3> QED
      BY <2>1, <2>2, NumberInduction
  <2> SUFFICES ASSUME NEW k \in 0 .. N PROVE W[k] <= W[N]
    OBVIOUS
  <2>4. N - k \in Nat /\ N - k <= N /\ N - (N - k) = k
    BY <1>1
  <2>5. N - k \in Good
    BY <2>3, <2>4
  <2>6. W[N - (N - k)] <= W[N]
    BY <2>4, <2>5
  <2> QED
    BY <2>4, <2>6
<1> QED
  BY <1>3, <1>4, <1>5 DEF W, N

(* The loops run in this order.                                           *)
LEMMA OrderFacts ==
  /\ \A s \in Stages : Order[s] \in Nat
  /\ \A s \in Sections : Order[Following[s]] = Order[s] + 1
  /\ \A s, r \in Stages : Order[s] = Order[r] => s = r
BY DEF Order, Following, Stages, Sections, Extras

(* What has been rendered of a section is no more than the whole of it.    *)
LEMMA ReachedFacts ==
  ASSUME TypeOK, InRange, NEW s \in Sections
  PROVE  /\ Progress(s) \in 0 .. Len(loaded[s]) /\ Len(loaded[s]) \in Nat
         /\ Reached(s) \in Nat /\ Whole(s) \in Nat /\ Reached(s) <= Whole(s)
         /\ s = stage /\ InLoop => Reached(s) + loaded[s][at].words <= Whole(s)
         /\ s = stage /\ InLoop =>
              /\ WordsThrough(s, loaded[s])[at] = Reached(s) + LineWords(s, loaded[s][at])
              /\ loaded[s][at] \in Item
<1> DEFINE items == loaded[s]
           W == WordsThrough(s, items)
           N == Len(items)
<1>1. items \in Seq(Item) /\ N \in Nat
  BY DomainFacts DEF TypeOK
<1>2. Progress(s) \in 0 .. N
  BY <1>1 DEF Progress, InRange, TypeOK
<1>3. /\ W[0] = 0
      /\ \A k \in 1 .. N : W[k] = W[k - 1] + LineWords(s, items[k])
      /\ \A k \in 0 .. N : W[k] \in Nat /\ W[k] <= W[N]
  <2> HIDE DEF items
  <2> QED
    BY <1>1, ThroughFacts
<1>4. Whole(s) = IF items = <<>> THEN 0 ELSE 1 + W[N]
  BY DEF Whole
<1>5. Reached(s) = W[Progress(s)]
  BY DEF Reached
<1>6. N = 0 <=> items = <<>>
  BY <1>1
<1> HIDE DEF items, W, N
<1>7. /\ Reached(s) \in Nat /\ W[N] \in Nat /\ Whole(s) \in Nat
      /\ Reached(s) <= W[N] /\ W[N] <= Whole(s)
  <2>1. N \in 0 .. N
    BY <1>1
  <2>2. W[N] \in Nat /\ W[N] <= Whole(s) /\ Whole(s) \in Nat
    BY <1>3, <1>4, <1>6, <2>1
  <2> QED
    BY <1>2, <1>3, <1>5, <2>2
<1>8. ASSUME s = stage, InLoop
      PROVE  /\ W[at] = Reached(s) + LineWords(s, items[at]) /\ items[at] \in Item
             /\ Reached(s) + items[at].words <= Whole(s)
  <2>1. Progress(s) = at - 1
    BY <1>8 DEF Progress, Order, Sections, Extras
  <2>2. at \in 1 .. N /\ items[at] \in Item
    <3>1. at \in DOMAIN items /\ items[at] \in Item
      BY <1>8, LoopItem DEF items
    <3> QED
      BY <1>1, <3>1, DomainFacts DEF N
  <2>3. /\ W[at] = W[at - 1] + LineWords(s, items[at])
        /\ W[at] <= W[N] /\ W[at] \in Nat
    BY <1>1, <1>3, <2>2
  <2>4. items[at].words <= LineWords(s, items[at]) /\ LineWords(s, items[at]) \in Nat
        /\ items[at].words \in Nat
    BY <2>2, LineWordsFacts
  <2> QED
    BY <1>5, <1>7, <2>1, <2>2, <2>3, <2>4
<1> QED
  BY <1>1, <1>2, <1>7, <1>8 DEF items, W, N

(* While everything has been taken, the next item fits if everything does. *)
LEMMA NextFits ==
  ASSUME TypeOK, InRange, TakenWhole, WholeText <= budget, InLoop
  PROVE  Fits
<1> DEFINE w == loaded[stage][at].words
<1>1. stage \in Sections /\ loaded[stage][at] \in Item
  BY LoopItem
<1>2. w \in Nat /\ used \in Nat /\ budget \in Nat
  BY <1>1 DEF Item, TypeOK
<1>3. \A s \in Sections : /\ Reached(s) \in Nat /\ Whole(s) \in Nat /\ Reached(s) <= Whole(s)
                          /\ s = stage => Reached(s) + w <= Whole(s)
  BY ReachedFacts
<1>4. used <= Reached("memories") + Reached("entities") + Reached("facts") + Reached("relations")
  BY DEF TakenWhole, ReachedText
<1> HIDE DEF w
<1>5. used + w <= WholeText
  BY <1>1, <1>2, <1>3, <1>4 DEF WholeText, Sections, Extras
<1>6. WholeText \in Nat
  BY <1>3 DEF WholeText, Sections, Extras
<1> QED
  BY <1>2, <1>5, <1>6 DEF Fits, w

(* All memories having been taken, every extra is one of theirs.           *)
LEMMA AllWanted ==
  ASSUME Inv, InRange, TakenWhole, WholeText <= budget, InLoop
  PROVE  Wanted
<1> USE DEF Inv
<1> SUFFICES ASSUME stage # "memories" PROVE loaded[stage][at].of \cap KeptMemories # {}
  BY DEF Wanted
<1> DEFINE ms == kept["memories"]
<1>1. stage \in Extras /\ at \in DOMAIN loaded[stage]
  BY LoopItem DEF Sections
<1>2. PICK k \in DOMAIN loaded["memories"] : k \in loaded[stage][at].of
  BY <1>1, BudgetAssumption
<1>3. Len(ms) = Len(loaded["memories"])
  <2>1. Progress("memories") = Len(loaded["memories"])
    BY <1>1 DEF Progress, Order, Extras
  <2> QED
    BY <2>1 DEF TakenWhole, Sections
<1>4. DOMAIN ms = DOMAIN loaded["memories"]
  <2>1. ms \in Seq(Line) /\ loaded["memories"] \in Seq(Item)
    BY DEF TypeOK, Sections
  <2> HIDE DEF ms
  <2>2. DOMAIN ms = 1 .. Len(ms) /\ DOMAIN loaded["memories"] = 1 .. Len(loaded["memories"])
    BY <2>1
  <2> QED
    BY <1>3, <2>2
<1>5. k \in DOMAIN ms /\ ms[k].of = {k}
  BY <1>2, <1>4 DEF Ranked
<1>6. k \in KeptMemories
  BY <1>5 DEF KeptMemories
<1> QED
  BY <1>2, <1>6

(* Everything having been taken, the text is what it would be whole.       *)
LEMMA TextIsWhole ==
  ASSUME TypeOK, InRange, TakenWhole, WholeText <= budget, stage = "render"
  PROVE  Tokens <= budget
<1>1. ASSUME NEW s \in Sections PROVE Rendered(kept[s]) = Whole(s)
  <2>1. kept[s] \in Seq(Line) /\ loaded[s] \in Seq(Item)
    BY DEF TypeOK
  <2>2. Progress(s) = Len(loaded[s])
    BY DEF Progress, Order, Sections, Extras
  <2>3. /\ Len(kept[s]) = Len(loaded[s])
        /\ WordsUpTo(kept[s]) = WordsThrough(s, loaded[s])[Len(loaded[s])]
    BY <2>2 DEF TakenWhole, Reached
  <2>4. kept[s] = <<>> <=> loaded[s] = <<>>
    BY <2>1, <2>3
  <2> QED
    BY <2>3, <2>4 DEF Rendered, Whole
<1>2. Tokens = WholeText
  BY <1>1 DEF Tokens, WholeText, Sections, Extras
<1> QED
  BY <1>2

-----------------------------------------------------------------------------
(* No step lets a loop look past the end of its list.                      *)
LEMMA StepInRange ==
  ASSUME Inv, InRange, [Next]_vars
  PROVE  InRange'
<1>t. TypeOK
  BY DEF Inv
<1>n. \A s \in Sections : Len(loaded[s]) \in Nat
  BY <1>t, DomainFacts DEF TypeOK
<1>1. CASE Take
  BY <1>1, <1>n, <1>t DEF Take, InLoop, InRange, TypeOK
<1>2. CASE Skip
  BY <1>2, <1>n, <1>t DEF Skip, InLoop, InRange, TypeOK
<1>3. CASE NextSection
  BY <1>3, <1>n, <1>t DEF NextSection, InRange, TypeOK
<1>4. CASE DropLast \/ Truncate \/ Return
  BY <1>4 DEF DropLast, Truncate, Return, InRange, Sections, Extras
<1>5. CASE UNCHANGED vars
  BY <1>5 DEF vars, InRange
<1> QED
  BY <1>1, <1>2, <1>3, <1>4, <1>5 DEF Next

(* A step that takes nothing and after which as much has been looked at.   *)
LEMMA SameTaken ==
  ASSUME TakenWhole, UNCHANGED <<budget, loaded, used, kept>>,
         \A s \in Sections : Progress(s)' = Progress(s)
  PROVE  TakenWhole'
<1>1. WholeText' = WholeText
  BY DEF WholeText, Whole
<1>2. \A s \in Sections : Reached(s)' = Reached(s)
  BY DEF Reached
<1>3. /\ Reached("memories")' = Reached("memories")
      /\ Reached("entities")' = Reached("entities")
      /\ Reached("facts")' = Reached("facts")
      /\ Reached("relations")' = Reached("relations")
  BY <1>2 DEF Sections, Extras
<1> QED
  BY <1>1, <1>2, <1>3 DEF TakenWhole, ReachedText

(* Each step keeps to taking everything that is looked at.                 *)
LEMMA StepTakenWhole ==
  ASSUME Inv, InRange, TakenWhole, [Next]_vars
  PROVE  TakenWhole'
<1>t. TypeOK
  BY DEF Inv
<1>w. ASSUME loaded' = loaded PROVE WholeText' = WholeText
  BY <1>w DEF WholeText, Whole
<1>1. CASE Take
  <2> DEFINE item == loaded[stage][at]
             line == AsLine(stage, item)
  <2>1. /\ stage \in Sections /\ item \in Item /\ InLoop
        /\ kept' = [kept EXCEPT ![stage] = Append(kept[stage], line)]
        /\ used' = used + item.words
        /\ at' = at + 1 /\ UNCHANGED <<budget, loaded, stage>>
    BY <1>1, <1>t, LoopItem DEF Take
  <2>2. line \in Line /\ line.upTo = WordsUpTo(kept[stage]) + LineWords(stage, item)
    BY <1>t, <2>1, AsLineFacts DEF AsLine
  <2> HIDE DEF line
  <2> SUFFICES ASSUME WholeText <= budget
      PROVE /\ used' <= ReachedText'
            /\ \A s \in Sections : Len(kept'[s]) = Progress(s)' /\ WordsUpTo(kept'[s]) = Reached(s)'
    BY <1>w, <2>1 DEF TakenWhole
  <2>3. /\ used <= ReachedText
        /\ \A s \in Sections : Len(kept[s]) = Progress(s) /\ WordsUpTo(kept[s]) = Reached(s)
    BY DEF TakenWhole
  <2>4. \A s \in Sections : s # stage => Progress(s)' = Progress(s) /\ Reached(s)' = Reached(s)
    BY <2>1 DEF Progress, Reached
  <2>5. ASSUME NEW s \in Sections, s = stage
        PROVE  Progress(s) = at - 1 /\ Progress(s)' = at
    <3>1. Order[s] \in Nat /\ stage' = s /\ at \in Nat /\ at' = at + 1
      BY <1>t, <2>1, <2>5, OrderFacts DEF Stages, TypeOK
    <3> QED
      BY <2>5, <3>1 DEF Progress
  <2>6. ASSUME NEW s \in Sections, s = stage
        PROVE  Reached(s)' = Reached(s) + LineWords(s, item)
    <3>1. Reached(s)' = WordsThrough(s, loaded[s])[at]
      BY <2>1, <2>5, <2>6 DEF Reached
    <3> QED
      BY <1>t, <2>1, <2>6, <3>1, ReachedFacts
  <2>7. ASSUME NEW s \in Sections
        PROVE  Len(kept'[s]) = Progress(s)' /\ WordsUpTo(kept'[s]) = Reached(s)'
    <3>1. CASE s = stage
      <4>1. kept[s] \in Seq(Line) /\ kept'[s] = Append(kept[s], line)
        BY <1>t, <2>1, <3>1 DEF TypeOK
      <4>2. /\ kept'[s] \in Seq(Line) /\ Len(kept'[s]) = Len(kept[s]) + 1
            /\ kept'[s][Len(kept[s]) + 1] = line
        BY <2>2, <4>1, AppendFacts
      <4>3. Len(kept[s]) = at - 1 /\ at \in Nat
        BY <1>t, <2>3, <2>5, <3>1 DEF TypeOK
      <4>4. kept'[s] # <<>>
        BY <4>2, <4>3
      <4>5. WordsUpTo(kept'[s]) = line.upTo
        BY <4>2, <4>4 DEF WordsUpTo
      <4> QED
        BY <2>2, <2>3, <2>5, <2>6, <3>1, <4>2, <4>3, <4>5
    <3>2. CASE s # stage
      <4>1. kept'[s] = kept[s]
        BY <1>t, <2>1, <3>2 DEF TypeOK
      <4> QED
        BY <2>3, <2>4, <3>2, <4>1
    <3> QED
      BY <3>1, <3>2
  <2>8. used' <= ReachedText'
    <3>1. /\ LineWords(stage, item) \in Nat /\ item.words \in Nat
          /\ item.words <= LineWords(stage, item)
      BY <2>1, LineWordsFacts
    <3>2. \A s \in Sections : Reached(s) \in Nat
      BY <1>t, ReachedFacts
    <3>3. used \in Nat
      BY <1>t DEF TypeOK
    <3> DEFINE w == item.words
               l == LineWords(stage, item)
    <3>4. used' = used + w
      BY <2>1
    <3> HIDE DEF w, l
    <3>5. /\ w \in Nat /\ l \in Nat /\ w <= l
          /\ \A s \in Sections : s = stage => Reached(s)' = Reached(s) + l
      BY <2>6, <3>1 DEF w, l
    <3>6. \A s \in Sections : /\ Reached(s)' \in Nat /\ Reached(s)' >= Reached(s)
                              /\ s = stage => Reached(s)' >= Reached(s) + w
      BY <2>4, <3>2, <3>5
    <3> DEFINE a == Reached("memories")   p == Reached("memories")'
               b == Reached("entities")   q == Reached("entities")'
               c == Reached("facts")      r == Reached("facts")'
               d == Reached("relations")  t == Reached("relations")'
    <3>7. /\ a \in Nat /\ b \in Nat /\ c \in Nat /\ d \in Nat
          /\ p \in Nat /\ q \in Nat /\ r \in Nat /\ t \in Nat
          /\ p >= a /\ q >= b /\ r >= c /\ t >= d
          /\ p >= a + w \/ q >= b + w \/ r >= c + w \/ t >= d + w
      BY <2>1, <3>2, <3>6 DEF Sections, Extras
    <3>8. used' <= (a + b + c + d) + w
      BY <2>3, <3>3, <3>4, <3>5, <3>7 DEF ReachedText
    <3> HIDE DEF a, b, c, d, p, q, r, t
    <3>9. used' \in Nat
      BY <3>3, <3>4, <3>5
    <3>10. used' <= p + q + r + t
      BY <3>5, <3>7, <3>8, <3>9
    <3> QED
      BY <3>10 DEF ReachedText, p, q, r, t
  <2> QED
    BY <2>7, <2>8
<1>2. CASE Skip
  <2>1. InLoop /\ ~Wanted /\ UNCHANGED <<budget, loaded>>
    BY <1>2 DEF Skip
  <2>2. ~(WholeText <= budget)
    BY <2>1, AllWanted
  <2> QED
    BY <1>w, <2>1, <2>2 DEF TakenWhole
<1>3. CASE NextSection
  <2>1. /\ stage \in Sections
        /\ InLoop => Wanted /\ ~Taken
        /\ stage' = Following[stage] /\ at' = 1 /\ UNCHANGED <<budget, loaded, used, kept>>
    BY <1>3 DEF NextSection
  <2>2. CASE WholeText <= budget
    <3>1. ~InLoop
      BY <1>t, <2>1, <2>2, NextFits DEF Taken
    <3>2. at = Len(loaded[stage]) + 1 /\ Len(loaded[stage]) \in Nat
      BY <1>t, <2>1, <3>1, DomainFacts DEF InLoop, InRange, TypeOK
    <3>3. ASSUME NEW s \in Sections PROVE Progress(s)' = Progress(s)
      <4>1. Order[stage'] = Order[stage] + 1 /\ Order[s] \in Nat /\ Order[stage] \in Nat
        BY <2>1, OrderFacts DEF Stages
      <4>2. s = stage <=> Order[s] = Order[stage]
        BY <2>1, OrderFacts DEF Stages
      <4> QED
        BY <2>1, <3>2, <4>1, <4>2 DEF Progress
    <3> QED
      BY <2>1, <3>3, SameTaken
  <2>3. CASE ~(WholeText <= budget)
    BY <1>w, <2>1, <2>3 DEF TakenWhole
  <2> QED
    BY <2>2, <2>3
<1>4. CASE DropLast \/ Truncate
  <2>1. stage = "render" /\ Tokens > budget /\ UNCHANGED <<budget, loaded>>
    BY <1>4 DEF DropLast, Truncate
  <2>2. budget \in Nat /\ Tokens \in Nat
    <3>1. \A s \in Sections : Rendered(kept[s]) \in Nat
      BY <1>t, WordsUpToNat DEF Rendered, TypeOK
    <3> QED
      BY <1>t, <3>1 DEF Tokens, Sections, Extras, TypeOK
  <2>3. ~(WholeText <= budget)
    BY <1>t, <2>1, <2>2, TextIsWhole
  <2> QED
    BY <1>w, <2>1, <2>3 DEF TakenWhole
<1>5. CASE Return
  <2>1. stage = "render" /\ stage' = "done" /\ UNCHANGED <<budget, loaded, at, used, kept>>
    BY <1>5 DEF Return
  <2>2. \A s \in Sections : Progress(s)' = Progress(s)
    BY <2>1 DEF Progress, Order, Sections, Extras
  <2> QED
    BY <2>1, <2>2, SameTaken
<1>6. CASE UNCHANGED vars
  BY <1>6, SameTaken DEF vars, Progress
<1> QED
  BY <1>1, <1>2, <1>3, <1>4, <1>5, <1>6 DEF Next

(* In the beginning nothing has been looked at.                            *)
LEMMA InitTaken == Init => InRange /\ TakenWhole
<1> SUFFICES ASSUME Init PROVE InRange /\ TakenWhole
  OBVIOUS
<1>t. TypeOK
  BY InitInv DEF Inv
<1>1. \A s \in Sections : loaded[s] \in Seq(Item) /\ Len(loaded[s]) \in Nat
  BY <1>t, DomainFacts DEF TypeOK
<1>2. stage = "memories" /\ at = 1 /\ used = 0 /\ kept = [s \in Sections |-> <<>>]
  BY DEF Init
<1>3. InRange
  BY <1>1, <1>2 DEF InRange
<1>4. \A s \in Sections : Progress(s) = 0
  BY <1>1, <1>2 DEF Progress, Order, Sections, Extras
<1>5. \A s \in Sections : Reached(s) = 0
  BY <1>1, <1>4, ThroughFacts DEF Reached
<1>6. \A s \in Sections : Len(kept[s]) = 0 /\ WordsUpTo(kept[s]) = 0
  BY <1>2 DEF WordsUpTo
<1> QED
  BY <1>2, <1>3, <1>4, <1>5, <1>6 DEF TakenWhole, ReachedText, Sections, Extras

(* Nothing is left out of an answer that fits whole: the two functions     *)
(* count differently, and neither cuts before the other would have had to. *)
THEOREM WholeWhenItFits == Spec => []WholeIfItFits
<1>1. Init => InRange /\ TakenWhole
  BY InitTaken
<1>2. Inv /\ InRange /\ TakenWhole /\ [Next]_vars => (InRange /\ TakenWhole)'
  BY StepInRange, StepTakenWhole
<1>3. InRange /\ TakenWhole => WholeIfItFits
  BY DEF TakenWhole, WholeIfItFits, Progress, Order, Sections, Extras
<1> QED
  BY <1>1, <1>2, <1>3, Invariance, PTL DEF Spec
=============================================================================
