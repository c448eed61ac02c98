----------------------------- MODULE Specialists -----------------------------
(***************************************************************************)
(* The specialists of the pipeline (internal/firequery/models/required.go) *)
(* on top of the Python backend (internal/firequery/python/backend.go): a  *)
(* child process, the runner, that reads requests line by line from its    *)
(* standard input and answers on its standard output.  A specialist takes  *)
(* what the backend answers, or the answer of a heuristic in its place.    *)
(*                                                                         *)
(* Requests and answers carry no number: what belongs together is a matter *)
(* of the order on the two pipes, and of the mutex a call holds from its   *)
(* write to its read.  The libraries the runner loads share its standard   *)
(* output; a line that one of them prints is taken for an answer.          *)
(*                                                                         *)
(* A call is one call of the backend; the first is the health check with   *)
(* which Start ends.  The runner's program is a file in the temporary      *)
(* directory that every process which starts a backend writes anew.        *)
(* (call ignores its context: that the runner answers or dies in the end   *)
(* is an assumption, the fairness of Runner below.)                        *)
(***************************************************************************)
EXTENDS Naturals, Sequences

CONSTANTS
  Calls,
  Op,          \* [Calls -> Ops]
  Health,      \* the call that Start makes
  MaxNoise,    \* bound: stray lines
  MaxDeaths,   \* bound: runners that crash or are killed
  MaxOthers,   \* bound: other processes that write the program
  None

Ops == {"health", "model_info", "classify", "extract_entities", "embed"}

ASSUME CallsAssumption ==
  /\ Op \in [Calls -> Ops]
  /\ Health \in Calls /\ \A c \in Calls : Op[c] = "health" <=> c = Health
  /\ None \notin Calls
  /\ Calls \cap {"heuristic", "panic"} = {}
  /\ MaxNoise \in Nat /\ MaxDeaths \in Nat /\ MaxOthers \in Nat

VARIABLES
  script,    \* the runner's program as it is in the file
  writer,    \* is another process writing it
  start,     \* how far Start has come
  closing,   \* what has become of Close
  mutex,     \* the call that holds Backend.mu
  at,        \* [Calls -> where each call stands]
  answer,    \* [Calls -> the call whose answer was taken, "heuristic", "panic" or None]
  runner,    \* the child process
  input,     \* requests it has not read
  output,    \* lines nobody has read
  (* history and bounds *)
  sent,      \* calls in the order of their requests
  noise, deaths, others

backendVars == <<start, closing, mutex>>
callVars == <<at, answer, sent>>
runnerVars == <<runner, input, output, noise, deaths>>
fileVars == <<script, writer, others>>
vars == <<backendVars, callVars, runnerVars, fileVars>>

(* What a line says: an answer with content, one without, an error of the  *)
(* runner, or something that is no answer at all.                          *)
Line == [of : Calls \cup {None}, says : {"full", "empty", "error", "garbled"}]

TypeOK ==
  /\ script \in {"absent", "partial", "whole"} /\ writer \in BOOLEAN
  /\ start \in {"none", "writing", "written", "health", "ready", "failed"}
  /\ closing \in {"no", "asked", "done"}
  /\ mutex \in Calls \cup {None}
  /\ at \in [Calls -> {"idle", "waits", "reads", "returned"}]
  /\ answer \in [Calls -> Calls \cup {"heuristic", "panic", None}]
  /\ runner \in {"none", "booting", "up", "gone"}
  /\ input \in Seq(Calls) /\ output \in Seq(Line) /\ sent \in Seq(Calls)
  /\ noise \in 0..MaxNoise /\ deaths \in 0..MaxDeaths /\ others \in 0..MaxOthers
  /\ mutex # None => at[mutex] = "reads"

Alive == runner \in {"booting", "up"}
Goes(c, step) == at' = [at EXCEPT ![c] = step]

-----------------------------------------------------------------------------
(* Start: materializeRunner, then the child process, then a health check.  *)

(* os.WriteFile truncates the file and then writes it.                     *)
Truncate ==
  /\ start = "none"
  /\ start' = "writing" /\ script' = "partial"
  /\ UNCHANGED <<closing, mutex, callVars, runnerVars, writer, others>>

Fill ==
  /\ start = "writing"
  /\ start' = "written" /\ script' = "whole"
  /\ UNCHANGED <<closing, mutex, callVars, runnerVars, writer, others>>

Launch ==
  /\ start = "written"
  /\ start' = "health" /\ runner' = "booting"
  /\ Goes(Health, "waits")
  /\ UNCHANGED <<closing, mutex, answer, sent, input, output, noise, deaths, fileVars>>

(* The directory, the file, a pipe or the process cannot be made: Start    *)
(* returns no backend, and there is no child yet.                          *)
StartRefused ==
  /\ start \in {"none", "writing", "written"}
  /\ start' = "failed"
  /\ UNCHANGED <<closing, mutex, callVars, runnerVars, fileVars>>

(* Another process starts a backend of its own.                            *)
OtherTruncates ==
  /\ ~writer /\ others < MaxOthers
  /\ writer' = TRUE /\ others' = others + 1 /\ script' = "partial"
  /\ UNCHANGED <<backendVars, callVars, runnerVars>>

OtherFills ==
  /\ writer
  /\ writer' = FALSE /\ script' = "whole"
  /\ UNCHANGED <<backendVars, callVars, runnerVars, others>>

Healthy == start = "health" /\ at[Health] = "returned" /\ answer[Health] # "heuristic"

Ready ==
  /\ Healthy
  /\ start' = "ready"
  /\ UNCHANGED <<closing, mutex, callVars, runnerVars, fileVars>>

(* Close: under the mutex, the child is killed and waited for.             *)
Kill ==
  /\ mutex = None
  /\ runner' = "gone" /\ input' = <<>>
  /\ UNCHANGED <<mutex, callVars, output, noise, deaths, fileVars>>

(* Faulty variant: a backend that is not healthy is just not returned.     *)
StartGivesUp ==
  /\ start = "health" /\ at[Health] = "returned" /\ ~Healthy
  /\ start' = "failed"
  /\ UNCHANGED <<closing, mutex, callVars, runnerVars, fileVars>>

StartFails ==
  /\ start = "health" /\ at[Health] = "returned" /\ ~Healthy
  /\ start' = "failed"
  /\ Kill
  /\ UNCHANGED closing

AskClose ==
  /\ start = "ready" /\ closing = "no"
  /\ closing' = "asked"
  /\ UNCHANGED <<start, mutex, callVars, runnerVars, fileVars>>

Close ==
  /\ closing = "asked"
  /\ closing' = "done"
  /\ Kill
  /\ UNCHANGED start

-----------------------------------------------------------------------------
(* A call of a specialist. *)

(* Without a client the heuristic answers at once.                         *)
Ask(c) ==
  /\ c # Health /\ at[c] = "idle" /\ start \in {"ready", "failed"}
  /\ IF start = "ready"
     THEN Goes(c, "waits") /\ UNCHANGED answer
     ELSE Goes(c, "returned") /\ answer' = [answer EXCEPT ![c] = "heuristic"]
  /\ UNCHANGED <<backendVars, sent, runnerVars, fileVars>>

(* An error, and an answer without content, is made up for by the          *)
(* heuristic; Start takes it for the verdict.                              *)
FallsBack(c) ==
  /\ Goes(c, "returned")
  /\ answer' = [answer EXCEPT ![c] = "heuristic"]

(* The backend is closed, or the pipe to the runner broken.                *)
Refused(c) ==
  /\ at[c] = "waits" /\ mutex = None
  /\ closing = "done" \/ ~Alive
  /\ FallsBack(c)
  /\ UNCHANGED <<backendVars, sent, runnerVars, fileVars>>

(* Faulty variant: the mutex guards the write only.                        *)
SendUnlocked(c) ==
  /\ at[c] = "waits" /\ mutex = None
  /\ closing # "done" /\ Alive
  /\ Goes(c, "reads")
  /\ input' = Append(input, c) /\ sent' = Append(sent, c)
  /\ UNCHANGED <<backendVars, answer, runner, output, noise, deaths, fileVars>>

Send(c) ==
  /\ at[c] = "waits" /\ mutex = None
  /\ closing # "done" /\ Alive
  /\ mutex' = c
  /\ Goes(c, "reads")
  /\ input' = Append(input, c) /\ sent' = Append(sent, c)
  /\ UNCHANGED <<start, closing, answer, runner, output, noise, deaths, fileVars>>

(* The fields of another operation's answer are not there: it is taken for *)
(* an answer without content.  (So is the dimension, which the embedder is *)
(* made with: it is not made without, and the heuristic stands in.)        *)
HasContent(c, line) == line.says = "full" /\ Op[line.of] = Op[c]

(* What the caller makes of a line: the embedder takes the first vector of *)
(* an answer without looking whether there is one.  (call has returned and *)
(* given the mutex up by then; the panic is that of the caller.)           *)
Taken(c, line) ==
  IF line.says \in {"garbled", "error"} THEN "heuristic"
  ELSE IF HasContent(c, line) \/ Op[c] = "health" THEN line.of
  ELSE IF Op[c] = "embed" THEN "panic"
  ELSE "heuristic"

Read(c) ==
  /\ at[c] = "reads" /\ output # <<>>
  /\ answer' = [answer EXCEPT ![c] = Taken(c, Head(output))]
  /\ output' = Tail(output)
  /\ Goes(c, "returned") /\ mutex' = None
  /\ UNCHANGED <<start, closing, sent, runner, input, noise, deaths, fileVars>>

(* Faulty variant: the mutex is not released when the read fails.          *)
ReadFailsLocked(c) ==
  /\ at[c] = "reads" /\ output = <<>> /\ runner = "gone"
  /\ FallsBack(c)
  /\ UNCHANGED <<backendVars, sent, runnerVars, fileVars>>

(* The end of the runner's output.                                         *)
ReadFails(c) ==
  /\ at[c] = "reads" /\ output = <<>> /\ runner = "gone"
  /\ FallsBack(c) /\ mutex' = None
  /\ UNCHANGED <<start, closing, sent, runnerVars, fileVars>>

-----------------------------------------------------------------------------
(* The runner. *)

(* It reads its program once; half of it defines functions, or is none.    *)
Boot ==
  /\ runner = "booting"
  /\ runner' = IF script = "whole" THEN "up" ELSE "gone"
  /\ UNCHANGED <<backendVars, callVars, input, output, noise, deaths, fileVars>>

(* It answers whatever happens, with an error if need be; a number that    *)
(* JSON does not know makes the answer unreadable.                         *)
Reply ==
  /\ runner = "up" /\ input # <<>>
  /\ \E s \in {"full", "empty", "error", "garbled"} :
       /\ Op[Head(input)] \in {"health", "embed"} => s # "empty"
       /\ output' = Append(output, [of |-> Head(input), says |-> s])
  /\ input' = Tail(input)
  /\ UNCHANGED <<backendVars, callVars, runner, noise, deaths, fileVars>>

(* A library prints a line while a request is worked on.                   *)
PrintLine ==
  /\ runner = "up" /\ input # <<>> /\ noise < MaxNoise
  /\ noise' = noise + 1
  /\ output' = Append(output, [of |-> None, says |-> "garbled"])
  /\ UNCHANGED <<backendVars, callVars, runner, input, deaths, fileVars>>

(* It crashes, or is killed with the context that Start was given.         *)
Die ==
  /\ Alive /\ deaths < MaxDeaths
  /\ deaths' = deaths + 1
  /\ runner' = "gone" /\ input' = <<>>
  /\ UNCHANGED <<backendVars, callVars, output, noise, fileVars>>

-----------------------------------------------------------------------------
Init ==
  /\ script \in {"absent", "whole"} /\ writer = FALSE
  /\ start = "none" /\ closing = "no" /\ mutex = None
  /\ at = [c \in Calls |-> "idle"] /\ answer = [c \in Calls |-> None]
  /\ runner = "none" /\ input = <<>> /\ output = <<>> /\ sent = <<>>
  /\ noise = 0 /\ deaths = 0 /\ others = 0

Starting == Truncate \/ Fill \/ Launch \/ Ready \/ StartRefused \/ StartFails
Calling(c) == Refused(c) \/ Send(c) \/ Read(c) \/ ReadFails(c)
Runner == Boot \/ Reply

Next ==
  \/ Starting \/ AskClose \/ Close
  \/ \E c \in Calls : Ask(c) \/ Calling(c)
  \/ Runner \/ PrintLine \/ Die
  \/ OtherTruncates \/ OtherFills

Spec == Init /\ [][Next]_vars

(* Goroutines go on; the mutex is handed to each that waits for it, Close  *)
(* included (Go's mutexes are fair to those who wait long); the runner     *)
(* gets on with its requests.                                              *)
Fairness ==
  /\ WF_vars(Starting) /\ SF_vars(Close)
  /\ \A c \in Calls : SF_vars(Calling(c))
  /\ WF_vars(Runner)

FairSpec == Spec /\ Fairness

-----------------------------------------------------------------------------
(* Properties. *)

(* Every call takes the answer to its own request; each stray line on the  *)
(* runner's output sets all later answers back by one call at most, and so *)
(* without such lines none is ever mixed up, however calls overlap, fail   *)
(* or find the runner dead (call, backend.go).                             *)
AnswersInStep ==
  \A i \in DOMAIN sent :
    answer[sent[i]] \in Calls =>
      \E j \in DOMAIN sent : j <= i /\ i <= j + noise /\ sent[j] = answer[sent[i]]

(* A backend that was closed, or that Start did not return, leaves no      *)
(* child process behind.                                                   *)
NoRunnerLeft == start = "failed" \/ closing = "done" => ~Alive

(* Every call of a specialist returns, be it with the heuristic's answer,  *)
(* and so does Close, though one mutex is held while the runner works.     *)
CallsReturn ==
  /\ \A c \in Calls : at[c] = "waits" ~> at[c] = "returned"
  /\ closing = "asked" ~> closing = "done"
=============================================================================
