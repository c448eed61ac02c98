-------------------------- MODULE SpecialistsProofs --------------------------
(***************************************************************************)
(* Theorems about Specialists, for all values of its constants.            *)
(*                                                                         *)
(* The argument for AnswersInStep.  What is unread, in the pipe to the     *)
(* runner and in that from it, is one queue of lines: k-th in it is the    *)
(* k-th line that will be read.  At most noise of them can be there when   *)
(* nobody waits for an answer, because only a stray line is ever left      *)
(* behind (RoomInv); and so the k-th belongs to a request at most noise    *)
(* minus k before the last one (LagInv).                                   *)
(***************************************************************************)
EXTENDS Specialists, SequenceTheorems, TLAPS

USE DEF vars, backendVars, callVars, runnerVars, fileVars, Alive

(* Before the runner is launched nothing has been sent; only a backend     *)
(* that is ready is closed.                                                *)
StartInv ==
  /\ start \in {"none", "writing", "written"} =>
       /\ runner = "none" /\ mutex = None /\ at[Health] = "idle"
       /\ sent = <<>> /\ input = <<>> /\ output = <<>>
  /\ closing # "no" => start = "ready"

(* Each call sends once; the one that reads holds the mutex, and sent last.*)
SentInv ==
  /\ \A i, j \in DOMAIN sent : sent[i] = sent[j] => i = j
  /\ \A i \in DOMAIN sent : at[sent[i]] \in {"reads", "returned"}
  /\ \A c \in Calls : at[c] = "reads" => mutex = c
  /\ mutex # None => sent # <<>> /\ sent[Len(sent)] = mutex
  /\ \A c \in Calls : at[c] # "returned" => answer[c] = None

Waiting == IF mutex = None THEN 0 ELSE 1

RoomInv == Alive => Len(output) + Len(input) <= noise + Waiting

(* Of the calls s, c is late enough for its line to be the k-th unread one *)
(* where room lines are.                                                   *)
Late(s, room, c, k) == \E j \in DOMAIN s : s[j] = c /\ Len(s) + k <= j + room

(* A runner that is gone reads nothing: what its pipe holds is lost.       *)
LagInv ==
  /\ \A k \in DOMAIN output :
       output[k].of \in Calls => Late(sent, noise + Waiting, output[k].of, k)
  /\ Alive => \A k \in DOMAIN input :
                Late(sent, noise + Waiting, input[k], Len(output) + k)

Inv ==
  /\ TypeOK /\ StartInv /\ SentInv /\ RoomInv /\ LagInv
  /\ AnswersInStep /\ NoRunnerLeft

-----------------------------------------------------------------------------
LEMMA InitInv == Init => Inv
<1> SUFFICES ASSUME Init PROVE Inv
  OBVIOUS
<1>1. input = <<>> /\ output = <<>> /\ sent = <<>>
  BY DEF Init
<1>2. input \in Seq(Calls) /\ output \in Seq(Line) /\ sent \in Seq(Calls)
  BY <1>1
<1>n. 0 \in 0..MaxNoise /\ 0 \in 0..MaxDeaths /\ 0 \in 0..MaxOthers
  BY CallsAssumption
<1>a. /\ at \in [Calls -> {"idle", "waits", "reads", "returned"}]
      /\ answer \in [Calls -> Calls \cup {"heuristic", "panic", None}]
      /\ \A c \in Calls : at[c] = "idle" /\ answer[c] = None
  BY DEF Init
<1>3. TypeOK
  BY <1>2, <1>n, <1>a DEF Init, TypeOK
<1>4. StartInv /\ RoomInv /\ NoRunnerLeft
  BY <1>1, <1>a, CallsAssumption DEF Init, StartInv, RoomInv, NoRunnerLeft, Waiting
<1>5. SentInv /\ LagInv /\ AnswersInStep
  BY <1>1, <1>a DEF Init, SentInv, LagInv, AnswersInStep
<1> QED
  BY <1>3, <1>4, <1>5 DEF Inv

(* Steps that leave the pipes, the mutex and the requests alone: those of  *)
(* Start before the launch, of Close before the kill, of a call that asks  *)
(* or gives up, of the other processes, and the end of the boot.           *)
LEMMA QuietInv ==
  ASSUME Inv, TypeOK', StartInv', NoRunnerLeft',
         UNCHANGED <<sent, input, output, mutex, noise>>,
         Alive' => Alive,
         \A c \in Calls : at[c] = "reads" <=> at'[c] = "reads",
         \A c \in Calls : at[c] = "returned" => at'[c] = "returned",
         \A c \in Calls : answer'[c] \in Calls => answer'[c] = answer[c],
         \A c \in Calls : at'[c] # "returned" => answer'[c] = None
  PROVE  Inv'
<1>t. /\ sent \in Seq(Calls) /\ input \in Seq(Calls) /\ output \in Seq(Line)
      /\ at \in [Calls -> {"idle", "waits", "reads", "returned"}]
  BY DEF Inv, TypeOK
<1>1. SentInv'
  BY <1>t DEF Inv, SentInv
<1>2. RoomInv'
  BY DEF Inv, RoomInv, Waiting
<1>3. LagInv'
  BY DEF Inv, LagInv, Waiting
<1>4. AnswersInStep'
  BY <1>t DEF Inv, AnswersInStep
<1> QED
  BY <1>1, <1>2, <1>3, <1>4 DEF Inv

-----------------------------------------------------------------------------
(* Start and Close. *)

LEMMA StartStepInv ==
  ASSUME Inv, Truncate \/ Fill \/ Ready \/ StartRefused \/ AskClose \/ OtherTruncates \/ OtherFills
  PROVE  Inv'
<1>t. TypeOK
  BY DEF Inv
<1>1. TypeOK'
  <2>1. CASE Truncate \/ Fill \/ Ready \/ StartRefused \/ AskClose
    BY <1>t, <2>1 DEF TypeOK, Truncate, Fill, Ready, StartRefused, AskClose
  <2>2. CASE OtherTruncates \/ OtherFills
    <3>1. others' \in 0..MaxOthers
      BY <1>t, <2>2, CallsAssumption DEF TypeOK, OtherTruncates, OtherFills
    <3> QED
      BY <1>t, <2>2, <3>1 DEF TypeOK, OtherTruncates, OtherFills
  <2> QED
    BY <2>1, <2>2
<1>2. StartInv'
  BY DEF Inv, StartInv, Truncate, Fill, Ready, Healthy, StartRefused, AskClose, OtherTruncates, OtherFills
<1>3. NoRunnerLeft'
  BY DEF Inv, StartInv, NoRunnerLeft, Truncate, Fill, Ready, Healthy, StartRefused, AskClose,
     OtherTruncates, OtherFills
<1>4. UNCHANGED <<sent, input, output, mutex, noise, runner, at, answer>>
  BY DEF Truncate, Fill, Ready, StartRefused, AskClose, OtherTruncates, OtherFills
<1>5. \A c \in Calls : at'[c] # "returned" => answer'[c] = None
  BY <1>4 DEF Inv, SentInv
<1> QED
  BY <1>1, <1>2, <1>3, <1>4, <1>5, QuietInv

LEMMA LaunchInv ==
  ASSUME Inv, Launch
  PROVE  Inv'
<1>t. /\ TypeOK /\ Health \in Calls /\ at[Health] = "idle" /\ None \notin Calls
      /\ sent = <<>> /\ input = <<>> /\ output = <<>> /\ mutex = None
      /\ noise \in Nat /\ closing = "no"
  BY CallsAssumption DEF Inv, TypeOK, StartInv, Launch
<1>1. TypeOK'
  BY <1>t DEF TypeOK, Launch, Goes
<1>2. StartInv' /\ NoRunnerLeft'
  BY <1>t DEF Inv, StartInv, NoRunnerLeft, Launch
<1>3. UNCHANGED <<sent, input, output, mutex, noise, answer>>
  BY <1>t DEF Launch
<1>4. \A c \in Calls : at'[c] # "reads"
  BY <1>t DEF Inv, SentInv, Launch, Goes, TypeOK
<1>n. \A c \in Calls : at'[c] # "returned" => answer'[c] = None
  BY <1>t DEF Inv, SentInv, Launch, Goes, TypeOK
<1>5. SentInv'
  BY <1>t, <1>3, <1>4, <1>n DEF SentInv
<1>6. RoomInv'
  BY <1>t, <1>3 DEF RoomInv, Waiting, Launch
<1>7. LagInv' /\ AnswersInStep'
  BY <1>t, <1>3 DEF LagInv, AnswersInStep
<1> QED
  BY <1>1, <1>2, <1>5, <1>6, <1>7 DEF Inv

LEMMA KillInv ==
  ASSUME Inv, Kill, TypeOK', StartInv'
  PROVE  Inv'
<1>t. /\ sent \in Seq(Calls) /\ output \in Seq(Line)
      /\ UNCHANGED <<sent, at, answer, output, mutex, noise>>
      /\ input' = <<>> /\ ~Alive'
  BY DEF Inv, TypeOK, Kill
<1>1. SentInv' /\ RoomInv' /\ AnswersInStep' /\ NoRunnerLeft'
  BY <1>t DEF Inv, SentInv, RoomInv, AnswersInStep, NoRunnerLeft
<1>2. LagInv'
  BY <1>t DEF Inv, LagInv, Waiting
<1> QED
  BY <1>1, <1>2 DEF Inv

LEMMA EndInv ==
  ASSUME Inv, StartFails \/ Close
  PROVE  Inv'
<1>t. TypeOK /\ Kill
  BY DEF Inv, StartFails, Close
<1>1. input' \in Seq(Calls)
  BY <1>t DEF Kill
<1>2. TypeOK'
  BY <1>t, <1>1 DEF TypeOK, StartFails, Close, Kill
<1>3. StartInv'
  BY DEF Inv, StartInv, StartFails, Close, Kill
<1> QED
  BY <1>t, <1>2, <1>3, KillInv

-----------------------------------------------------------------------------
(* Calls. *)

LEMMA AskInv ==
  ASSUME Inv, NEW c \in Calls, Ask(c) \/ Refused(c)
  PROVE  Inv'
<1>t. TypeOK /\ UNCHANGED <<backendVars, sent, runnerVars, fileVars>>
  BY DEF Inv, Ask, Refused
<1>1. /\ at' \in [Calls -> {"idle", "waits", "reads", "returned"}]
      /\ answer' \in [Calls -> Calls \cup {"heuristic", "panic", None}]
      /\ mutex # None => at'[mutex] = at[mutex]
  BY <1>t DEF TypeOK, Ask, Refused, FallsBack, Goes
<1>2. TypeOK'
  BY <1>t, <1>1 DEF TypeOK
<1>h. at[Health] = "idle" => at'[Health] = "idle"
  BY <1>t, CallsAssumption DEF TypeOK, Ask, Refused, FallsBack, Goes
<1>3. StartInv' /\ NoRunnerLeft'
  BY <1>t, <1>h DEF Inv, StartInv, NoRunnerLeft
<1>4. \A d \in Calls : at[d] = "reads" <=> at'[d] = "reads"
  BY <1>t DEF TypeOK, Ask, Refused, FallsBack, Goes
<1>5. \A d \in Calls : at[d] = "returned" => at'[d] = "returned"
  BY <1>t DEF TypeOK, Ask, Refused, FallsBack, Goes
<1>6. \A d \in Calls : answer'[d] \in Calls => answer'[d] = answer[d]
  BY <1>t, CallsAssumption DEF TypeOK, Ask, Refused, FallsBack
<1>7. \A d \in Calls : at'[d] # "returned" => answer'[d] = None
  BY <1>t DEF Inv, SentInv, TypeOK, Ask, Refused, FallsBack, Goes
<1> QED
  BY <1>t, <1>2, <1>3, <1>4, <1>5, <1>6, <1>7, QuietInv

LEMMA SendInv ==
  ASSUME Inv, NEW c \in Calls, Send(c)
  PROVE  Inv'
<1>t. /\ sent \in Seq(Calls) /\ input \in Seq(Calls) /\ output \in Seq(Line)
      /\ at \in [Calls -> {"idle", "waits", "reads", "returned"}] /\ noise \in Nat
      /\ mutex = None /\ None \notin Calls /\ TypeOK /\ Alive
  BY CallsAssumption DEF Inv, TypeOK, Send
<1>s. /\ sent' = Append(sent, c) /\ sent' \in Seq(Calls) /\ Len(sent') = Len(sent) + 1
      /\ \A i \in DOMAIN sent : sent'[i] = sent[i]
      /\ sent'[Len(sent) + 1] = c
      /\ DOMAIN sent' = DOMAIN sent \cup {Len(sent) + 1}
      /\ DOMAIN sent = 1..Len(sent) /\ Len(sent) \in Nat
  BY <1>t, AppendProperties DEF Send
<1>i. /\ input' \in Seq(Calls) /\ Len(input') = Len(input) + 1
      /\ \A i \in DOMAIN input : input'[i] = input[i]
      /\ input'[Len(input) + 1] = c
      /\ DOMAIN input' = DOMAIN input \cup {Len(input) + 1}
      /\ DOMAIN input = 1..Len(input) /\ Len(input) \in Nat
  BY <1>t, AppendProperties DEF Send
<1>o. UNCHANGED <<start, closing, answer, runner, output, noise>> /\ mutex' = c
  BY DEF Send
<1>1. TypeOK'
  BY <1>t, <1>s, <1>i DEF TypeOK, Send, Goes
<1>2. StartInv' /\ NoRunnerLeft'
  BY <1>t, <1>o DEF Inv, StartInv, NoRunnerLeft
<1>3. \A i \in DOMAIN sent : sent[i] # c
  BY <1>t DEF Inv, SentInv, Send
<1>4. SentInv'
  <2>1. \A i, j \in DOMAIN sent' : sent'[i] = sent'[j] => i = j
    BY <1>s, <1>3 DEF Inv, SentInv
  <2>2. \A i \in DOMAIN sent' : at'[sent'[i]] \in {"reads", "returned"}
    BY <1>t, <1>s, <1>3 DEF Inv, SentInv, Send, Goes
  <2>3. \A d \in Calls : at'[d] = "reads" => mutex' = d
    BY <1>t, <1>o DEF Inv, SentInv, Send, Goes
  <2>4. \A d \in Calls : at'[d] # "returned" => answer'[d] = None
    BY <1>t, <1>o DEF Inv, SentInv, Send, Goes
  <2> QED
    BY <2>1, <2>2, <2>3, <2>4, <1>s, <1>o DEF SentInv
<1>5. RoomInv'
  BY <1>t, <1>i, <1>o DEF Inv, RoomInv, Waiting
<1>6. ASSUME NEW d \in Calls, NEW k \in Nat, Late(sent, noise + Waiting, d, k)
      PROVE  Late(sent', noise' + Waiting', d, k)
  <2>1. PICK j \in DOMAIN sent : sent[j] = d /\ Len(sent) + k <= j + noise
    BY <1>t, <1>6 DEF Late, Waiting
  <2>2. j \in DOMAIN sent' /\ sent'[j] = d /\ Len(sent') + k <= j + noise' + 1
    BY <1>t, <1>s, <1>o, <2>1
  <2> QED
    BY <1>t, <1>o, <2>2 DEF Late, Waiting
<1>7. Late(sent', noise' + Waiting', c, Len(output) + (Len(input) + 1))
  <2>1. Len(output) + Len(input) <= noise
    BY <1>t DEF Inv, RoomInv, Waiting
  <2>2. Len(sent') + (Len(output) + (Len(input) + 1)) <= (Len(sent) + 1) + (noise' + 1)
    BY <1>t, <1>s, <1>i, <1>o, <2>1
  <2> QED
    BY <1>t, <1>s, <1>o, <1>i, <2>2 DEF Late, Waiting
<1>8. LagInv'
  <2>1. Len(output) \in Nat /\ DOMAIN output = 1..Len(output)
    BY <1>t
  <2>2. \A k \in DOMAIN output' :
          output'[k].of \in Calls => Late(sent', noise' + Waiting', output'[k].of, k)
    BY <1>6, <1>o, <2>1 DEF Inv, LagInv
  <2>3. \A k \in DOMAIN input : Late(sent', noise' + Waiting', input[k], Len(output) + k)
    <3> SUFFICES ASSUME NEW k \in DOMAIN input
                 PROVE  Late(sent', noise' + Waiting', input[k], Len(output) + k)
      OBVIOUS
    <3>1. input[k] \in Calls /\ Len(output) + k \in Nat
      BY <1>i, <1>t, <2>1
    <3>2. Late(sent, noise + Waiting, input[k], Len(output) + k)
      BY <1>t DEF Inv, LagInv
    <3> QED
      BY <1>6, <3>1, <3>2
  <2>4. \A k \in DOMAIN input' :
          Late(sent', noise' + Waiting', input'[k], Len(output') + k)
    BY <1>7, <1>i, <1>o, <2>3
  <2> QED
    BY <2>2, <2>4 DEF LagInv
<1>9. AnswersInStep'
  <2>1. answer[c] \notin Calls
    BY <1>t DEF Inv, SentInv, Send
  <2> QED
    BY <1>s, <1>o, <2>1 DEF Inv, AnswersInStep
<1> QED
  BY <1>1, <1>2, <1>4, <1>5, <1>8, <1>9 DEF Inv
LEMMA ReadInv ==
  ASSUME Inv, NEW c \in Calls, Read(c)
  PROVE  Inv'
<1>t. /\ sent \in Seq(Calls) /\ input \in Seq(Calls) /\ output \in Seq(Line)
      /\ at \in [Calls -> {"idle", "waits", "reads", "returned"}]
      /\ answer \in [Calls -> Calls \cup {"heuristic", "panic", None}]
      /\ noise \in Nat /\ None \notin Calls /\ TypeOK /\ output # <<>>
  BY CallsAssumption DEF Inv, TypeOK, Read
<1>c. mutex = c /\ sent # <<>> /\ sent[Len(sent)] = c
  BY <1>t DEF Inv, SentInv, Read
<1>o. /\ UNCHANGED <<start, closing, sent, runner, input, noise>>
      /\ mutex' = None /\ output' = Tail(output) /\ output' \in Seq(Line)
      /\ Len(output') = Len(output) - 1 /\ Len(output) \in Nat \ {0}
      /\ DOMAIN output' = 1..(Len(output) - 1) /\ DOMAIN output = 1..Len(output)
      /\ \A k \in DOMAIN output' : output'[k] = output[k + 1] /\ k + 1 \in DOMAIN output
  BY <1>t, HeadTailProperties DEF Read
<1>s. /\ Len(sent) \in Nat \ {0} /\ DOMAIN sent = 1..Len(sent)
      /\ Len(sent) \in DOMAIN sent
      /\ \A i \in DOMAIN sent : sent[i] \in Calls
  BY <1>t, <1>c
<1>a. /\ at' \in [Calls -> {"idle", "waits", "reads", "returned"}]
      /\ \A d \in Calls : at'[d] = IF d = c THEN "returned" ELSE at[d]
  BY <1>t DEF Read, Goes
<1>h. Head(output) = output[1] /\ output[1] \in Line /\ 1 \in DOMAIN output
  BY <1>t, <1>o
<1>b. /\ answer'[c] \in Calls \cup {"heuristic", "panic", None}
      /\ answer'[c] \in Calls => answer'[c] = output[1].of
      /\ \A d \in Calls : d # c => answer'[d] = answer[d]
  <2>1. \A d \in Calls : answer'[d] = IF d = c THEN Taken(c, Head(output)) ELSE answer[d]
    BY <1>t DEF Read
  <2>2. Taken(c, Head(output)) \in {"heuristic", "panic", output[1].of}
    BY <1>h DEF Taken
  <2>3. output[1].of \in Calls \cup {None}
    BY <1>h DEF Line
  <2> QED
    BY <2>1, <2>2, <2>3, CallsAssumption
<1>1. TypeOK'
  <2>1. answer' \in [Calls -> Calls \cup {"heuristic", "panic", None}]
    BY <1>t, <1>b DEF Read
  <2> QED
    BY <1>t, <1>o, <1>a, <2>1 DEF TypeOK, Read
<1>2. StartInv' /\ NoRunnerLeft'
  BY <1>t, <1>o, <1>c, CallsAssumption DEF Inv, StartInv, NoRunnerLeft
<1>3. SentInv'
  BY <1>t, <1>o, <1>a, <1>b, <1>s, <1>c DEF Inv, SentInv
<1>4. RoomInv'
  BY <1>t, <1>o, <1>c DEF Inv, RoomInv, Waiting
<1>5. ASSUME NEW d \in Calls, NEW k \in Nat, Late(sent, noise + Waiting, d, k + 1)
      PROVE  Late(sent', noise' + Waiting', d, k)
  <2>1. PICK j \in DOMAIN sent : sent[j] = d /\ Len(sent) + (k + 1) <= j + (noise + 1)
    BY <1>t, <1>c, <1>5 DEF Late, Waiting
  <2>2. j \in DOMAIN sent' /\ sent'[j] = d /\ Len(sent') + k <= j + noise'
    BY <1>t, <1>s, <1>o, <2>1
  <2> QED
    BY <1>t, <1>o, <2>2 DEF Late, Waiting
<1>6. LagInv'
  <2>1. ASSUME NEW k \in DOMAIN output', output'[k].of \in Calls
        PROVE  Late(sent', noise' + Waiting', output'[k].of, k)
    <3>1. k \in Nat /\ Late(sent, noise + Waiting, output'[k].of, k + 1)
      BY <1>o, <2>1 DEF Inv, LagInv
    <3> QED
      BY <2>1, <3>1, <1>5
  <2>2. ASSUME Alive', NEW k \in DOMAIN input'
        PROVE  Late(sent', noise' + Waiting', input'[k], Len(output') + k)
    <3>1. /\ input[k] \in Calls /\ k \in Nat
          /\ Len(output') + k \in Nat /\ Len(output) + k = (Len(output') + k) + 1
      BY <1>t, <1>o, <2>2
    <3>2. Late(sent, noise + Waiting, input[k], Len(output) + k)
      BY <1>o, <2>2 DEF Inv, LagInv
    <3> QED
      BY <1>o, <3>1, <3>2, <1>5
  <2> QED
    BY <2>1, <2>2 DEF LagInv
<1>7. AnswersInStep'
  <2>1. ASSUME NEW i \in DOMAIN sent, answer'[sent[i]] \in Calls
        PROVE  \E j \in DOMAIN sent :
                 j <= i /\ i <= j + noise /\ sent[j] = answer'[sent[i]]
    <3>1. CASE sent[i] # c
      BY <1>b, <1>s, <2>1, <3>1 DEF Inv, AnswersInStep
    <3>2. CASE sent[i] = c
      <4>1. i = Len(sent)
        BY <1>s, <1>c, <3>2 DEF Inv, SentInv
      <4>2. Late(sent, noise + 1, output[1].of, 1) /\ answer'[c] = output[1].of
        BY <1>h, <1>b, <1>t, <1>c, <2>1, <3>2 DEF Inv, LagInv, Waiting
      <4>3. PICK j \in DOMAIN sent : sent[j] = answer'[c] /\ Len(sent) + 1 <= j + (noise + 1)
        BY <4>2 DEF Late
      <4>4. j <= i /\ i <= j + noise
        BY <1>s, <1>t, <4>1, <4>3
      <4> QED
        BY <3>2, <4>3, <4>4
    <3> QED
      BY <3>1, <3>2
  <2> QED
    BY <1>o, <2>1 DEF AnswersInStep
<1> QED
  BY <1>1, <1>2, <1>3, <1>4, <1>6, <1>7 DEF Inv

LEMMA ReadFailsInv ==
  ASSUME Inv, NEW c \in Calls, ReadFails(c)
  PROVE  Inv'
<1>t. /\ sent \in Seq(Calls) /\ TypeOK /\ output = <<>> /\ ~Alive
      /\ at \in [Calls -> {"idle", "waits", "reads", "returned"}]
      /\ answer \in [Calls -> Calls \cup {"heuristic", "panic", None}]
      /\ UNCHANGED <<start, closing, sent, runner, input, output, noise, deaths>>
      /\ mutex' = None /\ mutex = c
  BY DEF Inv, TypeOK, SentInv, ReadFails
<1>a. /\ at' \in [Calls -> {"idle", "waits", "reads", "returned"}]
      /\ \A d \in Calls : at'[d] = IF d = c THEN "returned" ELSE at[d]
      /\ answer' \in [Calls -> Calls \cup {"heuristic", "panic", None}]
      /\ \A d \in Calls : answer'[d] = IF d = c THEN "heuristic" ELSE answer[d]
  BY <1>t DEF ReadFails, FallsBack, Goes
<1>1. TypeOK'
  BY <1>t, <1>a DEF TypeOK, ReadFails
<1>2. StartInv' /\ NoRunnerLeft' /\ RoomInv' /\ LagInv'
  BY <1>t, CallsAssumption DEF Inv, StartInv, NoRunnerLeft, RoomInv, LagInv
<1>3. SentInv'
  BY <1>t, <1>a DEF Inv, SentInv
<1>4. AnswersInStep'
  <2>1. "heuristic" \notin Calls
    BY CallsAssumption
  <2> QED
    BY <1>t, <1>a, <2>1 DEF Inv, AnswersInStep
<1> QED
  BY <1>1, <1>2, <1>3, <1>4 DEF Inv

-----------------------------------------------------------------------------
(* The runner. *)

LEMMA BootInv ==
  ASSUME Inv, Boot \/ Die
  PROVE  Inv'
<1>t. /\ TypeOK /\ Alive /\ sent \in Seq(Calls) /\ output \in Seq(Line)
      /\ UNCHANGED <<start, closing, mutex, at, answer, sent, output, noise>>
      /\ Alive' => UNCHANGED input
  BY DEF Inv, TypeOK, Boot, Die
<1>1. TypeOK'
  <2>1. input' \in Seq(Calls) /\ deaths' \in 0..MaxDeaths
    <3>1. CASE Boot
      BY <1>t, <3>1 DEF TypeOK, Boot
    <3>2. CASE Die
      <4>1. input' = <<>> /\ deaths' = deaths + 1 /\ deaths < MaxDeaths
        BY <3>2 DEF Die
      <4>2. input' \in Seq(Calls)
        BY <4>1
      <4>3. deaths \in 0..MaxDeaths /\ MaxDeaths \in Nat
        BY <1>t, CallsAssumption DEF TypeOK
      <4> QED
        BY <4>1, <4>2, <4>3
    <3> QED
      BY <3>1, <3>2
  <2> QED
    BY <1>t, <2>1 DEF TypeOK, Boot, Die
<1>2. StartInv' /\ SentInv' /\ NoRunnerLeft' /\ AnswersInStep'
  BY <1>t DEF Inv, StartInv, SentInv, NoRunnerLeft, AnswersInStep
<1>3. RoomInv' /\ LagInv'
  BY <1>t DEF Inv, RoomInv, LagInv, Waiting
<1> QED
  BY <1>1, <1>2, <1>3 DEF Inv

LEMMA ReplyInv ==
  ASSUME Inv, Reply
  PROVE  Inv'
<1>t. /\ sent \in Seq(Calls) /\ input \in Seq(Calls) /\ output \in Seq(Line)
      /\ noise \in Nat /\ TypeOK /\ Alive /\ input # <<>>
      /\ UNCHANGED <<start, closing, mutex, at, answer, sent, runner, noise>>
  BY CallsAssumption DEF Inv, TypeOK, Reply
<1>p. PICK s \in {"full", "empty", "error", "garbled"} :
        output' = Append(output, [of |-> Head(input), says |-> s])
  BY DEF Reply
<1>i. /\ input' = Tail(input) /\ input' \in Seq(Calls)
      /\ Len(input') = Len(input) - 1 /\ Len(input) \in Nat \ {0}
      /\ DOMAIN input' = 1..(Len(input) - 1) /\ DOMAIN input = 1..Len(input)
      /\ \A k \in DOMAIN input' : input'[k] = input[k + 1] /\ k + 1 \in DOMAIN input
      /\ Head(input) = input[1] /\ input[1] \in Calls /\ 1 \in DOMAIN input
  BY <1>t, HeadTailProperties DEF Reply
<1>r. [of |-> Head(input), says |-> s] \in Line
  BY <1>i DEF Line
<1>o. /\ output' \in Seq(Line) /\ Len(output') = Len(output) + 1
      /\ \A k \in DOMAIN output : output'[k] = output[k]
      /\ output'[Len(output) + 1].of = input[1]
      /\ DOMAIN output' = DOMAIN output \cup {Len(output) + 1}
      /\ DOMAIN output = 1..Len(output) /\ Len(output) \in Nat
  BY <1>t, <1>p, <1>r, <1>i, AppendProperties
<1>1. TypeOK'
  BY <1>t, <1>i, <1>o DEF TypeOK, Reply
<1>2. StartInv' /\ SentInv' /\ NoRunnerLeft' /\ AnswersInStep'
  BY <1>t DEF Inv, StartInv, SentInv, NoRunnerLeft, AnswersInStep
<1>3. RoomInv'
  BY <1>t, <1>i, <1>o DEF Inv, RoomInv, Waiting
<1>4. LagInv'
  <2>1. UNCHANGED <<sent, noise, Waiting>>
    BY <1>t DEF Waiting
  <2>2. \A k \in DOMAIN input : Late(sent, noise + Waiting, input[k], Len(output) + k)
    BY <1>t DEF Inv, LagInv
  <2>3. ASSUME NEW k \in DOMAIN output', output'[k].of \in Calls
        PROVE  Late(sent', noise' + Waiting', output'[k].of, k)
    <3>1. CASE k \in DOMAIN output
      BY <1>o, <2>1, <2>3, <3>1 DEF Inv, LagInv
    <3>2. CASE k = Len(output) + 1
      BY <1>o, <1>i, <2>1, <2>2, <3>2
    <3> QED
      BY <1>o, <3>1, <3>2
  <2>4. ASSUME NEW k \in DOMAIN input'
        PROVE  Late(sent', noise' + Waiting', input'[k], Len(output') + k)
    <3>1. Len(output') + k = Len(output) + (k + 1)
      BY <1>o, <1>i
    <3> QED
      BY <1>i, <2>1, <2>2, <3>1
  <2> QED
    BY <2>3, <2>4 DEF LagInv
<1> QED
  BY <1>1, <1>2, <1>3, <1>4 DEF Inv

LEMMA PrintLineInv ==
  ASSUME Inv, PrintLine
  PROVE  Inv'
<1> DEFINE stray == [of |-> None, says |-> "garbled"]
<1>t. /\ sent \in Seq(Calls) /\ input \in Seq(Calls) /\ output \in Seq(Line)
      /\ noise \in Nat /\ None \notin Calls /\ TypeOK /\ Alive
      /\ UNCHANGED <<start, closing, mutex, at, answer, sent, runner, input>>
      /\ noise' = noise + 1 /\ noise' \in 0..MaxNoise
      /\ output' = Append(output, stray)
  BY CallsAssumption DEF Inv, TypeOK, PrintLine
<1>r. stray \in Line /\ stray.of = None
  BY DEF Line
<1>o. /\ output' \in Seq(Line) /\ Len(output') = Len(output) + 1
      /\ \A k \in DOMAIN output : output'[k] = output[k]
      /\ output'[Len(output) + 1] = stray
      /\ DOMAIN output' = DOMAIN output \cup {Len(output) + 1}
      /\ DOMAIN output = 1..Len(output) /\ Len(output) \in Nat
      /\ DOMAIN input = 1..Len(input) /\ Len(input) \in Nat
      /\ \A k \in DOMAIN input : input[k] \in Calls
  BY <1>t, <1>r, AppendProperties
<1> HIDE DEF stray
<1>w. Waiting' = Waiting /\ Waiting \in Nat
  BY <1>t DEF Waiting
<1>1. TypeOK'
  BY <1>t, <1>o DEF TypeOK, PrintLine
<1>2. StartInv' /\ SentInv' /\ NoRunnerLeft'
  BY <1>t, <1>o DEF Inv, StartInv, SentInv, NoRunnerLeft
<1>3. AnswersInStep'
  <2>1. \A i \in DOMAIN sent, j \in DOMAIN sent : i <= j + noise => i <= j + noise'
    BY <1>t
  <2> QED
    BY <1>t, <2>1 DEF Inv, AnswersInStep
<1>4. RoomInv'
  BY <1>t, <1>o, <1>w DEF Inv, RoomInv
<1>5. ASSUME NEW d \in Calls, NEW k \in Nat, Late(sent, noise + Waiting, d, k)
      PROVE  Late(sent', noise' + Waiting', d, k) /\ Late(sent', noise' + Waiting', d, k + 1)
  <2>1. PICK j \in DOMAIN sent : sent[j] = d /\ Len(sent) + k <= j + (noise + Waiting)
    BY <1>5 DEF Late
  <2>2. /\ Len(sent) + k <= j + ((noise + 1) + Waiting)
        /\ Len(sent) + (k + 1) <= j + ((noise + 1) + Waiting)
    BY <1>t, <1>w, <2>1
  <2> QED
    BY <1>t, <1>w, <2>1, <2>2 DEF Late
<1>6. LagInv'
  <2>1. ASSUME NEW k \in DOMAIN output', output'[k].of \in Calls
        PROVE  Late(sent', noise' + Waiting', output'[k].of, k)
    <3>1. k \in DOMAIN output /\ k \in Nat
      BY <1>o, <1>r, <1>t, <2>1
    <3> QED
      BY <1>o, <1>5, <2>1, <3>1 DEF Inv, LagInv
  <2>2. ASSUME NEW k \in DOMAIN input'
        PROVE  Late(sent', noise' + Waiting', input'[k], Len(output') + k)
    <3>1. /\ Len(output) + k \in Nat /\ Len(output') + k = (Len(output) + k) + 1
          /\ input[k] \in Calls /\ input' = input
      <4>1. input' = input /\ k \in 1..Len(input) /\ input[k] \in Calls
        BY <1>o, <1>t, <2>2
      <4>2. k \in Nat /\ Len(output') = Len(output) + 1 /\ Len(output) \in Nat
        BY <4>1, <1>o
      <4> QED
        BY <4>1, <4>2
    <3>2. Late(sent, noise + Waiting, input[k], Len(output) + k)
      BY <1>t, <2>2 DEF Inv, LagInv
    <3> QED
      BY <3>1, <3>2, <1>5
  <2> QED
    BY <2>1, <2>2 DEF LagInv
<1> QED
  BY <1>1, <1>2, <1>3, <1>4, <1>6 DEF Inv

-----------------------------------------------------------------------------
LEMMA StepInv == Inv /\ [Next]_vars => Inv'
<1> SUFFICES ASSUME Inv, [Next]_vars PROVE Inv'
  OBVIOUS
<1>1. CASE Starting
  BY <1>1, StartStepInv, LaunchInv, EndInv DEF Starting
<1>2. CASE AskClose \/ OtherTruncates \/ OtherFills
  BY <1>2, StartStepInv
<1>3. CASE Close
  BY <1>3, EndInv
<1>4. CASE \E c \in Calls : Ask(c) \/ Calling(c)
  BY <1>4, AskInv, SendInv, ReadInv, ReadFailsInv DEF Calling
<1>5. CASE Runner \/ PrintLine \/ Die
  BY <1>5, BootInv, ReplyInv, PrintLineInv DEF Runner
<1>6. CASE UNCHANGED vars
  BY <1>6 DEF Inv, TypeOK, StartInv, SentInv, RoomInv, LagInv, Waiting,
     AnswersInStep, NoRunnerLeft
<1> QED
  BY <1>1, <1>2, <1>3, <1>4, <1>5, <1>6 DEF Next

(* The inductive invariant holds in every reachable state of the backend   *)
(* and its runner, whatever the calls, stray lines and deaths.             *)
THEOREM Invariance == Spec => []Inv
  BY InitInv, StepInv, PTL DEF Spec

(* The state of backend, calls, runner and pipes has its types: the mutex  *)
(* of the backend is held only by a call that waits for an answer.         *)
THEOREM TypeCorrect == Spec => []TypeOK
<1>1. Inv => TypeOK
  BY DEF Inv
<1> QED
  BY <1>1, Invariance, PTL

(* However many calls there are and however they overlap, each takes the   *)
(* answer to a request at most as many calls back as the runner has        *)
(* printed stray lines; without any, its own (call, backend.go).           *)
THEOREM AnswersKeepStep == Spec => []AnswersInStep
<1>1. Inv => AnswersInStep
  BY DEF Inv
<1> QED
  BY <1>1, Invariance, PTL

(* Neither a failed Start nor a Close leaves a child process running.      *)
THEOREM NobodyLeft == Spec => []NoRunnerLeft
<1>1. Inv => NoRunnerLeft
  BY DEF Inv
<1> QED
  BY <1>1, Invariance, PTL
=============================================================================
