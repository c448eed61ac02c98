------------------------------ MODULE Contract ------------------------------
(***************************************************************************)
(* What becomes of a tool call of an agent: the wrappers of the MCP server *)
(* (internal/firequery/mcp), the queue of the daemon, and the pipeline     *)
(* that checks the external request, asks the specialists, builds the      *)
(* internal request, checks that too, and only then calls FireMemory       *)
(* (internal/firequery/pipeline, builder, validator, adapters).            *)
(*                                                                         *)
(* The same pipeline runs in two places: in the front end itself (mode     *)
(* "direct", on the brain that the request names) and in the daemon (mode  *)
(* "proxy", on the brain that the daemon has opened), where a write is     *)
(* answered before it is looked at and goes through the pipeline later.    *)
(*                                                                         *)
(* Abstractions.  A text is absent (or empty, or no string), blank or      *)
(* given; a flag is "yes" or "no" for the spellings boolValue knows,       *)
(* "unclear" for others; a number is in the range that the validators      *)
(* demand or out of it.  The specialists of the program fall back on       *)
(* heuristics when a model is missing or gives up, as it does when the     *)
(* context of the request is cancelled; the heuristics fail on an empty    *)
(* text only.  What they find out about a text is one of Triggers.  An     *)
(* intent is named by its operation.                                       *)
(* What the engine then does is MemoryEngine's.                            *)
(***************************************************************************)
EXTENDS Naturals, Sequences

CONSTANTS
  Ids,       \* tool calls (bound: each is made once)
  Asks,      \* [Ids -> a set of Ask]: what each may be
  Brains,    \* paths that end with .fbrain, each of an existing brain
  Served,    \* the brain of the daemon
  Capacity,  \* of the write queue
  Triggers,  \* what the specialists may find a text to be
  None       \* "no value"

Tools == {"ask", "plan", "remember", "recall", "get_context", "explain"}

Known == {"remember", "recall", "relate", "forget", "consolidate",
          "get_context", "explain", "sync"}

(* IsWriteOperation of the validator, isWriteOperation of the daemon, and  *)
(* the operations that the adapters pass on.                               *)
WriteOperations == {"remember", "relate", "forget", "consolidate", "sync"}
Queued == {"remember", "sync"}
Supported == {"remember", "recall", "get_context", "explain", "sync"}
Ranking == {"recall", "get_context"}

Texts == {"absent", "blank", "given"}
Flags == {"absent", "yes", "no", "unclear"}
Numbers == {"absent", "valid", "invalid"}
Flaws == {"none", "version", "request_id", "language", "actor"}
Thresholds == {"top_k", "similarity_threshold", "budget_tokens"}

Input ==
  [content : Texts, query : Texts, task : Texts, text : Texts,
   target_operation : Texts, operation : Texts,
   allow_write : Flags, requires_confirmation : Flags,
   top_k : Numbers, similarity_threshold : Numbers, budget_tokens : Numbers,
   limit : Numbers]

(* "" and "other": no operation, and one that FireQuery does not know;     *)
(* None: no brain, or a path that does not end with .fbrain.               *)
External ==
  [operation : Known \cup {"", "other"}, flaw : Flaws,
   brain : Brains \cup {None}, input : Input]

Ask == [tool : Tools, request : External]

Internal ==
  [operation : Known \cup {"", "other"}, intent : Known, flaw : Flaws,
   brain : Brains \cup {None}, input : Input, trigger : Triggers,
   allow_write : BOOLEAN, requires_confirmation : BOOLEAN,
   thresholds : [Thresholds -> Numbers]]

ASSUME ContractAssumption ==
  /\ Asks \in [Ids -> SUBSET Ask]
  /\ Served \in Brains
  /\ None \notin Brains \cup Ids \cup Ask \cup [operation : Supported, brain : Brains]
  /\ Capacity \in Nat \ {0}

VARIABLES
  mode,      \* "proxy" or "direct"
  stage,     \* how far each call is
  asked,     \* [Ids -> Ask], what the agent asked for
  request,   \* [Ids -> External], the request behind the wrapper
  trigger,   \* [Ids -> Triggers], what the specialists say
  internal,  \* [Ids -> Internal]
  queue,     \* writeCh
  worker,    \* the call that the write worker runs
  cancelled, \* calls whose request the server is done with: its context
  answer,    \* what the agent is told
  outcome,   \* what the pipeline returned
  effect     \* the operation that reached the engine, and its brain

vars == <<mode, stage, asked, request, trigger, internal, queue, worker,
          cancelled, answer, outcome, effect>>

Stages == {"none", "handed", "queued", "running", "checked", "classified",
           "built", "valid", "ended"}

TypeOK ==
  /\ mode \in {"proxy", "direct"}
  /\ stage \in [Ids -> Stages]
  /\ asked \in [Ids -> Ask \cup {None}]
  /\ request \in [Ids -> External \cup {None}]
  /\ trigger \in [Ids -> Triggers \cup {None}]
  /\ internal \in [Ids -> Internal \cup {None}]
  /\ queue \in Seq(Ids) /\ Len(queue) <= Capacity
  /\ worker \in Ids \cup {None}
  /\ cancelled \subseteq Ids
  /\ answer \in [Ids -> {"none", "ok", "queued", "full", "rejected", "failed"}]
  /\ outcome \in [Ids -> {"none", "done", "rejected", "failed"}]
  /\ effect \in [Ids -> [operation : Supported, brain : Brains] \cup {None}]

Init ==
  /\ mode \in {"proxy", "direct"}
  /\ stage = [i \in Ids |-> "none"]
  /\ asked = [i \in Ids |-> None]
  /\ request = [i \in Ids |-> None]
  /\ trigger = [i \in Ids |-> None]
  /\ internal = [i \in Ids |-> None]
  /\ queue = <<>>
  /\ worker = None
  /\ cancelled = {}
  /\ answer = [i \in Ids |-> "none"]
  /\ outcome = [i \in Ids |-> "none"]
  /\ effect = [i \in Ids |-> None]

-----------------------------------------------------------------------------
(* The wrappers of the tools (mcp/server.go). *)

(* inferOperation looks for a key that is not empty, in this order.        *)
Inferred(input) ==
  IF input.content # "absent" THEN "remember"
  ELSE IF input.target_operation # "absent" THEN "explain"
  ELSE IF input.task # "absent" THEN "get_context"
  ELSE "recall"

WrapAsk(x) ==
  IF x.operation = "" THEN [x EXCEPT !.operation = Inferred(x.input)] ELSE x

WrapPlan(x) ==
  [x EXCEPT !.operation = "get_context", !.input.allow_write = "no"]

Wrapped(a) ==
  CASE a.tool = "ask"  -> WrapAsk(a.request)
    [] a.tool = "plan" -> WrapPlan(a.request)
    [] OTHER           -> [a.request EXCEPT !.operation = a.tool]

-----------------------------------------------------------------------------
(* The two validators (validator.go) and the builder between them. *)

(* Faulty variant: what the builder replaces is not checked.               *)
ValidExternalLenient(x) ==
  x.operation \in Known /\ x.brain \in Brains

ValidExternal(x) ==
  /\ x.flaw = "none"
  /\ x.operation \in Known
  /\ x.brain \in Brains

HasText(input) ==
  \E key \in {"content", "query", "task", "text"} : input[key] = "given"

BoolValue(flag, fallback) == flag = "yes" \/ (flag # "no" /\ fallback)

(* The request is copied; its language becomes English, its actor the      *)
(* pipeline.                                                               *)
FlawKept(flaw) == IF flaw \in {"language", "actor"} THEN "none" ELSE flaw

MappedIntent(operation) == IF operation \in Known THEN operation ELSE "recall"

NormalizedInput(operation, input) ==
  IF operation = "get_context" /\ input.task = "given"
  THEN [input EXCEPT !.query = "given"]
  ELSE IF operation = "explain" /\ input.target_operation = "given"
  THEN [input EXCEPT !.operation = "given"]
  ELSE input

(* Recall and context get their thresholds, a missing one its default; the *)
(* other operations have none.                                             *)
BuildThresholds(x) ==
  [t \in Thresholds |->
    IF x.operation \notin Ranking THEN "absent"
    ELSE IF x.input[t] = "absent" THEN "valid" ELSE x.input[t]]

(* Faulty variant: a spelling that is not understood counts as consent.    *)
BuiltTrusting(x, found) ==
  [operation |-> x.operation, intent |-> MappedIntent(x.operation),
   flaw |-> FlawKept(x.flaw), brain |-> x.brain,
   input |-> NormalizedInput(x.operation, x.input), trigger |-> found,
   allow_write |-> BoolValue(x.input.allow_write, found = "suggest_write"),
   requires_confirmation |->
     BoolValue(x.input.requires_confirmation, x.operation = "forget"),
   thresholds |-> BuildThresholds(x)]

Built(x, found) ==
  [operation |-> x.operation, intent |-> MappedIntent(x.operation),
   flaw |-> FlawKept(x.flaw), brain |-> x.brain,
   input |-> NormalizedInput(x.operation, x.input), trigger |-> found,
   allow_write |-> BoolValue(x.input.allow_write, FALSE),
   requires_confirmation |->
     BoolValue(x.input.requires_confirmation, x.operation = "forget"),
   thresholds |-> BuildThresholds(x)]

ValidThresholds(r) ==
  \A t \in Thresholds : r.thresholds[t] # "invalid"

ValidPermissions(r) ==
  /\ r.operation \in WriteOperations => r.allow_write
  /\ r.operation = "forget" => r.requires_confirmation

ValidInternal(r) ==
  /\ r.flaw = "none"
  /\ r.operation \in Known
  /\ r.intent = r.operation
  /\ r.brain \in Brains
  /\ ValidThresholds(r)
  /\ ValidPermissions(r)

-----------------------------------------------------------------------------
(* The way of a call. *)

At(i, s) == stage' = [stage EXCEPT ![i] = s]

(* A tool is called: the wrapper makes a request of its own.               *)
CallTool(i, a) ==
  /\ stage[i] = "none"
  /\ asked' = [asked EXCEPT ![i] = a]
  /\ request' = [request EXCEPT ![i] = Wrapped(a)]
  /\ At(i, "handed")
  /\ UNCHANGED <<mode, cancelled, trigger, internal, queue, worker, answer,
                 outcome, effect>>

ToBeQueued(i) == mode = "proxy" /\ request[i].operation \in Queued

(* Faulty variant: a refused write is kept.                               *)
QueueFullKept(i) ==
  /\ stage[i] = "handed" /\ ToBeQueued(i) /\ Len(queue) = Capacity
  /\ answer' = [answer EXCEPT ![i] = "full"]
  /\ worker' = IF worker = None THEN i ELSE worker
  /\ At(i, IF worker = None THEN "running" ELSE "ended")
  /\ UNCHANGED <<mode, cancelled, asked, request, trigger, internal, queue,
                 outcome, effect>>

(* The daemon queues a write unseen and answers at once, or is full.       *)
Enqueue(i) ==
  /\ stage[i] = "handed" /\ ToBeQueued(i) /\ Len(queue) < Capacity
  /\ queue' = Append(queue, i)
  /\ answer' = [answer EXCEPT ![i] = "queued"]
  /\ At(i, "queued")
  /\ UNCHANGED <<mode, cancelled, asked, request, trigger, internal, worker,
                 outcome, effect>>

QueueFull(i) ==
  /\ stage[i] = "handed" /\ ToBeQueued(i) /\ Len(queue) = Capacity
  /\ answer' = [answer EXCEPT ![i] = "full"]
  /\ At(i, "ended")
  /\ UNCHANGED <<mode, cancelled, asked, request, trigger, internal, queue,
                 worker, outcome, effect>>

(* The handler of a queued write has returned, and net/http cancels the    *)
(* context that the job carries, before the worker comes to the job, while *)
(* it is at it, or never as far as the job is concerned.                   *)
RequestOver(i) ==
  /\ answer[i] = "queued" /\ stage[i] # "ended" /\ i \notin cancelled
  /\ cancelled' = cancelled \cup {i}
  /\ UNCHANGED <<mode, stage, asked, request, trigger, internal, queue, worker, answer,
                 outcome, effect>>

Dequeue ==
  /\ worker = None /\ queue # <<>>
  /\ worker' = Head(queue)
  /\ queue' = Tail(queue)
  /\ At(Head(queue), "running")
  /\ UNCHANGED <<mode, cancelled, asked, request, trigger, internal, answer,
                 outcome, effect>>

RunAtOnce(i) ==
  /\ stage[i] = "handed" /\ ~ToBeQueued(i)
  /\ At(i, "running")
  /\ UNCHANGED <<mode, cancelled, asked, request, trigger, internal, queue, worker, answer,
                 outcome, effect>>

(* The pipeline returns.  What it returns to the worker reaches nobody.    *)
Return(i, out, said) ==
  /\ outcome' = [outcome EXCEPT ![i] = out]
  /\ answer' = IF worker = i THEN answer ELSE [answer EXCEPT ![i] = said]
  /\ worker' = IF worker = i THEN None ELSE worker
  /\ At(i, "ended")
  /\ UNCHANGED <<mode, cancelled, asked, request, trigger, internal, queue>>

Reject(i) == Return(i, "rejected", "rejected") /\ UNCHANGED effect
Fail(i) == Return(i, "failed", "failed") /\ UNCHANGED effect

RejectExternal(i) ==
  /\ stage[i] = "running" /\ ~ValidExternal(request[i])
  /\ Reject(i)

AcceptExternal(i) ==
  /\ stage[i] = "running" /\ ValidExternal(request[i])
  /\ At(i, "checked")
  /\ UNCHANGED <<mode, cancelled, asked, request, trigger, internal, queue, worker, answer,
                 outcome, effect>>

(* The pipeline takes its steps whether the context is cancelled or not:   *)
(* only a model looks at it, and the heuristics stand in for the model.    *)
(*                                                                         *)
(* Without a text the classifiers are passed over, but not the reranker,   *)
(* which insists on one.                                                   *)
NothingToRank(i) ==
  /\ stage[i] = "checked" /\ ~HasText(request[i].input)
  /\ Fail(i)

Classify(i, found) ==
  /\ stage[i] = "checked" /\ HasText(request[i].input)
  /\ trigger' = [trigger EXCEPT ![i] = found]
  /\ At(i, "classified")
  /\ UNCHANGED <<mode, cancelled, asked, request, internal, queue, worker,
                 answer, outcome, effect>>

Build(i) ==
  /\ stage[i] = "classified"
  /\ internal' = [internal EXCEPT ![i] = Built(request[i], trigger[i])]
  /\ At(i, "built")
  /\ UNCHANGED <<mode, cancelled, asked, request, trigger, queue, worker,
                 answer, outcome, effect>>

(* The guarded client repeats this check on the same request.              *)
RejectInternal(i) ==
  /\ stage[i] = "built" /\ ~ValidInternal(internal[i])
  /\ Reject(i)

AcceptInternal(i) ==
  /\ stage[i] = "built" /\ ValidInternal(internal[i])
  /\ At(i, "valid")
  /\ UNCHANGED <<mode, cancelled, asked, request, trigger, internal, queue, worker, answer,
                 outcome, effect>>

(* What the engine requires of each operation before it does anything.  In *)
(* direct mode the engine of the named brain is opened for the call.       *)
TextOfItsOwn(r) ==
  /\ r.operation = "remember" => r.input.content = "given"
  /\ r.operation \in Ranking => r.input.query = "given"

EngineAccepts(r) ==
  /\ mode = "proxy" => r.brain = Served
  /\ TextOfItsOwn(r)
  /\ r.operation = "explain" => r.input.operation = "given"
  /\ r.operation = "sync" => r.input.limit # "invalid"

(* Faulty variant: the adapter looks at the context of the request.        *)
CallEngineInContext(i) ==
  /\ stage[i] = "valid"
  /\ internal[i].operation \in Supported /\ EngineAccepts(internal[i])
  /\ IF i \in cancelled THEN Fail(i)
     ELSE /\ effect' = [effect EXCEPT ![i] =
               [operation |-> internal[i].operation, brain |-> internal[i].brain]]
          /\ Return(i, "done", "ok")

(* The adapters and the engine take no notice of the context.              *)
CallEngine(i) ==
  /\ stage[i] = "valid"
  /\ internal[i].operation \in Supported /\ EngineAccepts(internal[i])
  /\ effect' = [effect EXCEPT ![i] =
       [operation |-> internal[i].operation, brain |-> internal[i].brain]]
  /\ Return(i, "done", "ok")

CallFails(i) ==
  /\ stage[i] = "valid"
  /\ ~(internal[i].operation \in Supported /\ EngineAccepts(internal[i]))
  /\ Fail(i)

Pipeline(i) ==
  \/ RejectExternal(i) \/ AcceptExternal(i)
  \/ NothingToRank(i) \/ (\E found \in Triggers : Classify(i, found))
  \/ Build(i) \/ RejectInternal(i) \/ AcceptInternal(i)
  \/ CallEngine(i) \/ CallFails(i)

Next ==
  \/ \E i \in Ids :
       \/ \E a \in Asks[i] : CallTool(i, a)
       \/ Enqueue(i) \/ QueueFull(i) \/ RunAtOnce(i) \/ RequestOver(i)
       \/ Pipeline(i)
  \/ Dequeue

Spec == Init /\ [][Next]_vars

-----------------------------------------------------------------------------
(* Properties *)

(* firequery-contract.md: FireQuery must never call FireMemory if the      *)
(* request is invalid.  The request is the one the agent made: nothing     *)
(* that the wrapper, the builder or a specialist puts into its copies may  *)
(* make an invalid request pass the second check.  It may be in the user's *)
(* language (firequery-contract.md:16 and the example at :37); the         *)
(* internal request is in English because the builder says so.             *)
Meets(a, operation) ==
  /\ a.request.flaw \in {"none", "language"} /\ a.request.brain \in Brains
  /\ operation \in Known
  /\ operation \in WriteOperations =>
       a.tool # "plan" /\ a.request.input.allow_write = "yes"
  /\ operation = "forget" => a.request.input.requires_confirmation # "no"
  /\ operation \in Ranking => \A t \in Thresholds : a.request.input[t] # "invalid"

Reached == {i \in Ids : effect[i] # None}

SafetyRule ==
  \A i \in Reached :
    /\ Meets(asked[i], effect[i].operation)
    /\ effect[i].brain = asked[i].request.brain

(* The brain is changed only by a call that says so itself: the remember   *)
(* tool, a named operation of ask, or an ask with a content to store, and  *)
(* always with a clear allow_write.  What the specialists make of the text *)
(* neither starts nor permits a write.                                     *)
AsksFor(a, operation) ==
  \/ a.tool = operation
  \/ a.tool = "ask" /\ a.request.operation = operation
  \/ /\ a.tool = "ask" /\ a.request.operation = ""
     /\ operation = "remember" /\ a.request.input.content # "absent"

WritesAreAskedFor ==
  \A i \in Reached :
    effect[i].operation \in WriteOperations =>
      /\ AsksFor(asked[i], effect[i].operation)
      /\ asked[i].request.input.allow_write = "yes"

(* What the documents and the schemas of the tools ask of a call besides:  *)
(* the input of its operation.                                             *)
Complete(input, operation) ==
  CASE operation = "remember"    -> input.content = "given"
    [] operation = "recall"      -> input.query = "given"
    [] operation = "get_context" -> "given" \in {input.task, input.query}
    [] operation = "explain"     -> "given" \in {input.target_operation, input.operation}
    [] operation = "sync"        -> input.limit # "invalid"
    [] OTHER                     -> TRUE

Promised(a) ==
  LET operation == Wrapped(a).operation IN
  Meets(a, operation) /\ Complete(a.request.input, operation)

(* Three kinds of call that the documents allow are turned down by the     *)
(* code: those in another language than English (validator.go:69), those   *)
(* without a text to rank (pipeline.go:159), though the schemas of explain *)
(* and ask require none (transport.go:188-196), and the operations that    *)
(* the engine has according to domain.md:65-67 and the validator knows,    *)
(* but no adapter passes on (persistent_client.go:35).                     *)
TurnedDown(a) ==
  \/ a.request.flaw = "language"
  \/ ~HasText(a.request.input)
  \/ Wrapped(a).operation \notin Supported

EffectDue(a) ==
  IF Promised(a) /\ ~TurnedDown(a)
  THEN [operation |-> Wrapped(a).operation, brain |-> a.request.brain] ELSE None

(* On the brain that the daemon serves, the effect of a call is a function *)
(* of what the agent asked for and of nothing else: not of the way it      *)
(* takes, at once, through the queue or in the front end, nor of when its  *)
(* context is cancelled, of what the specialists find or of other calls.   *)
(* Only a full queue makes a difference.  The function is what the         *)
(* documents promise, less what the code turns down in spite of them.      *)
SameEffectEitherWay ==
  \A i \in Ids :
    stage[i] = "ended" /\ answer[i] # "full" /\ asked[i].request.brain = Served
      => effect[i] = EffectDue(asked[i])

(* "ok" is said of calls that reached the engine, a refusal of calls that  *)
(* never will; every call is answered, and "queued" is all that the agent  *)
(* hears of a queued write, whatever becomes of it.                        *)
AnswersHold ==
  /\ \A i \in Reached : answer[i] \in {"ok", "queued"}
  /\ \A i \in Ids :
       /\ answer[i] = "ok" => i \in Reached
       /\ stage[i] = "ended" => answer[i] # "none"
       /\ stage[i] = "ended" /\ answer[i] = "queued" => outcome[i] # "none"
=============================================================================
