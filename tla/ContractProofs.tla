--------------------------- MODULE ContractProofs ---------------------------
(***************************************************************************)
(* Theorems about Contract, for any number of calls, any requests, brains, *)
(* findings of the specialists and capacity of the queue.                  *)
(*                                                                         *)
(* The argument.  Until a call ends, what is stored about it is tied to    *)
(* what the agent asked for: the request is the wrapped one, it has passed *)
(* the first check, the internal request is what the builder makes of it,  *)
(* and has passed the second (Tied).  So when the engine is called, both   *)
(* checks hold of one and the same tool call, and from that alone follows  *)
(* that the call itself met the contract (lemma ChecksSuffice).            *)
(*                                                                         *)
(* A second invariant (OutcomeInv) follows what a call leads to: the       *)
(* checks of the pipeline and the demands of the engine, taken together,   *)
(* are what the documents ask of the tool call and what TurnedDown excepts *)
(* (lemmas ContractPasses and EngineTakesComplete), so a call that is      *)
(* refused on its way was due no effect, and one that reaches the engine   *)
(* was due that very one.  No step depends on the context of the request.  *)
(***************************************************************************)
EXTENDS Contract, SequenceTheorems, TLAPS

(* What is stored about a call is tied to what the agent asked for.        *)
TiedCall(i) ==
  /\ stage[i] # "none" =>
       asked[i] \in Ask /\ request[i] = Wrapped(asked[i])
  /\ stage[i] \in {"checked", "classified", "built", "valid"} =>
       ValidExternal(request[i])
  /\ stage[i] \in {"classified", "built", "valid"} => trigger[i] \in Triggers
  /\ stage[i] \in {"built", "valid"} => internal[i] = Built(request[i], trigger[i])
  /\ stage[i] = "valid" => ValidInternal(internal[i])

(* A call that has reached the engine has ended, was entitled to, and      *)
(* asked for it if it was a write.                                         *)
EffectMeant(i) ==
  effect[i] # None =>
    /\ stage[i] = "ended"
    /\ Meets(asked[i], effect[i].operation)
    /\ effect[i].brain = asked[i].request.brain
    /\ effect[i].operation \in WriteOperations =>
         /\ AsksFor(asked[i], effect[i].operation)
         /\ asked[i].request.input.allow_write = "yes"

(* The calls in the queue are waiting there, each in one place.            *)
QueueInv ==
  \A k \in 1 .. Len(queue) :
    /\ stage[queue[k]] = "queued"
    /\ \A l \in 1 .. Len(queue) : queue[k] = queue[l] => k = l

IInv == TypeOK /\ QueueInv /\ \A i \in Ids : TiedCall(i) /\ EffectMeant(i)

-----------------------------------------------------------------------------

(* What the wrappers make of an external request is one.                   *)
LEMMA WrappedType ==
  ASSUME NEW a \in Ask
  PROVE  Wrapped(a) \in External
<1> DEFINE x == a.request
<1>1. x \in External /\ a.tool \in Tools
  BY DEF Ask
<1>2. x.input \in Input
  BY <1>1 DEF External
<1>3. Inferred(x.input) \in Known
  BY DEF Inferred, Known
<1>4. WrapAsk(x) \in External
  BY <1>1, <1>3 DEF WrapAsk, External
<1>5. [x.input EXCEPT !.allow_write = "no"] \in Input
  BY <1>2 DEF Input, Flags
<1>6. WrapPlan(x) = [x EXCEPT !.operation = "get_context",
                              !.input = [x.input EXCEPT !.allow_write = "no"]]
  BY <1>1 DEF WrapPlan, External
<1>7. WrapPlan(x) \in External
  BY <1>1, <1>5, <1>6 DEF External, Known
<1>8. ASSUME a.tool \notin {"ask", "plan"}
      PROVE  [x EXCEPT !.operation = a.tool] \in External
  BY <1>1, <1>8 DEF External, Known, Tools
<1> QED
  BY <1>1, <1>4, <1>7, <1>8 DEF Wrapped

(* What the builder makes of a valid external request is an internal one.  *)
LEMMA BuiltType ==
  ASSUME NEW x \in External, NEW found \in Triggers
  PROVE  Built(x, found) \in Internal
<1>1. x.input \in Input /\ x.flaw \in Flaws /\ x.brain \in Brains \cup {None}
      /\ x.operation \in Known \cup {"", "other"}
  BY DEF External
<1>2. NormalizedInput(x.operation, x.input) \in Input
  BY <1>1 DEF NormalizedInput, Input, Texts
<1>3. FlawKept(x.flaw) \in Flaws
  BY <1>1 DEF FlawKept, Flaws
<1>4. MappedIntent(x.operation) \in Known
  BY DEF MappedIntent, Known
<1>5. BuildThresholds(x) \in [Thresholds -> Numbers]
  <2>1. \A t \in Thresholds : x.input[t] \in Numbers
    BY <1>1 DEF Input, Thresholds
  <2> QED
    BY <2>1 DEF BuildThresholds, Numbers
<1>6. \A flag, fallback : BoolValue(flag, fallback) \in BOOLEAN
  BY DEF BoolValue
<1> QED
  BY <1>1, <1>2, <1>3, <1>4, <1>5, <1>6 DEF Built, Internal

(* Both checks together make the tool call meet the contract: whatever the *)
(* builder replaces (actor, language, intent, a flag that is not clear)    *)
(* was either checked before or does not help a write.                     *)
LEMMA ChecksSuffice ==
  ASSUME NEW a \in Ask, NEW found \in Triggers,
         ValidExternal(Wrapped(a)),
         ValidInternal(Built(Wrapped(a), found))
  PROVE  /\ Meets(a, Built(Wrapped(a), found).operation)
         /\ Built(Wrapped(a), found).brain = a.request.brain
         /\ Built(Wrapped(a), found).operation \in WriteOperations =>
              a.request.input.allow_write = "yes"
         /\ Built(Wrapped(a), found).operation \in WriteOperations \cap Supported =>
              AsksFor(a, Built(Wrapped(a), found).operation)
<1> DEFINE x == Wrapped(a)
<1> DEFINE r == Built(x, found)
<1> DEFINE y == a.request
<1>1. y \in External /\ a.tool \in Tools /\ x \in External
  BY WrappedType DEF Ask
<1>2. y.input \in Input
  BY <1>1 DEF External
<1>3. x.flaw = y.flaw /\ x.brain = y.brain
      /\ (a.tool = "plan" => x.operation = "get_context")
      /\ (a.tool # "plan" => x.input = y.input)
      /\ (a.tool \notin {"plan", "ask"} => x.operation = a.tool)
      /\ (a.tool = "ask" =>
           x.operation = IF y.operation = "" THEN Inferred(y.input) ELSE y.operation)
      /\ \A t \in Thresholds : x.input[t] = y.input[t]
  <2>1. CASE a.tool = "plan"
    <3>1. x = [y EXCEPT !.operation = "get_context",
                        !.input = [y.input EXCEPT !.allow_write = "no"]]
      BY <2>1, <1>1 DEF Wrapped, WrapPlan, External
    <3>2. x.flaw = y.flaw /\ x.brain = y.brain /\ x.operation = "get_context"
          /\ x.input = [y.input EXCEPT !.allow_write = "no"]
      BY <3>1, <1>1 DEF External
    <3>3. \A t \in Thresholds : x.input[t] = y.input[t]
      BY <3>2, <1>2 DEF Thresholds, Input
    <3> QED
      BY <3>2, <3>3, <2>1
  <2>2. CASE a.tool = "ask"
    BY <2>2, <1>1 DEF Wrapped, WrapAsk, External
  <2>3. CASE a.tool \notin {"plan", "ask"}
    BY <2>3, <1>1 DEF Wrapped, External
  <2> QED
    BY <2>1, <2>2, <2>3
<1>4. r.operation = x.operation /\ r.brain = x.brain
      /\ r.allow_write = BoolValue(x.input.allow_write, FALSE)
      /\ r.requires_confirmation =
           BoolValue(x.input.requires_confirmation, x.operation = "forget")
      /\ r.thresholds = BuildThresholds(x)
  BY DEF Built
<1>v. ValidExternal(x) /\ ValidInternal(r)
  OBVIOUS
<1> HIDE DEF x, r
<1>5. y.flaw = "none" /\ y.brain \in Brains /\ r.operation \in Known
  BY <1>v, <1>3, <1>4 DEF ValidExternal
<1>6. r.operation \in WriteOperations =>
        a.tool # "plan" /\ y.input.allow_write = "yes"
  <2>1. SUFFICES ASSUME r.operation \in WriteOperations
                 PROVE  a.tool # "plan" /\ y.input.allow_write = "yes"
    OBVIOUS
  <2>2. a.tool # "plan"
    BY <2>1, <1>3, <1>4 DEF WriteOperations
  <2>3. BoolValue(x.input.allow_write, FALSE)
    BY <2>1, <1>v, <1>4 DEF ValidInternal, ValidPermissions
  <2> QED
    BY <2>2, <2>3, <1>3 DEF BoolValue
<1>7. r.operation = "forget" => y.input.requires_confirmation # "no"
  <2>1. SUFFICES ASSUME r.operation = "forget" PROVE y.input.requires_confirmation # "no"
    OBVIOUS
  <2>2. BoolValue(x.input.requires_confirmation, x.operation = "forget")
    BY <2>1, <1>v, <1>4 DEF ValidInternal, ValidPermissions
  <2>3. a.tool # "plan"
    BY <2>1, <1>3, <1>4
  <2> QED
    BY <2>2, <2>3, <1>3 DEF BoolValue
<1>8. r.operation \in Ranking => \A t \in Thresholds : y.input[t] # "invalid"
  <2>1. SUFFICES ASSUME r.operation \in Ranking, NEW t \in Thresholds,
                        y.input[t] = "invalid"
                 PROVE  FALSE
    OBVIOUS
  <2>2. r.thresholds[t] = "invalid"
    <3>1. x.input[t] = "invalid" /\ x.operation \in Ranking
      BY <2>1, <1>3, <1>4
    <3> QED
      BY <3>1, <1>4 DEF BuildThresholds
  <2> QED
    BY <2>2, <1>v DEF ValidInternal, ValidThresholds
<1>9. r.operation \in WriteOperations \cap Supported => AsksFor(a, r.operation)
  <2>1. SUFFICES ASSUME r.operation \in WriteOperations \cap Supported
                 PROVE  AsksFor(a, r.operation)
    OBVIOUS
  <2>2. a.tool # "plan"
    BY <2>1, <1>6
  <2>3. CASE a.tool = "ask"
    BY <2>1, <2>3, <1>3, <1>4 DEF AsksFor, Inferred, WriteOperations
  <2>4. CASE a.tool \notin {"plan", "ask"}
    BY <2>4, <1>3, <1>4 DEF AsksFor
  <2> QED
    BY <2>2, <2>3, <2>4
<1> QED
  BY <1>3, <1>4, <1>5, <1>6, <1>7, <1>8, <1>9 DEF Meets, x, r

-----------------------------------------------------------------------------
(* The inductive invariant. *)

(* No call is made and the queue is empty at the start.                    *)
LEMMA InitInv == Init => IInv
<1> SUFFICES ASSUME Init PROVE IInv
  OBVIOUS
<1>1. TypeOK
  BY ContractAssumption, EmptySeq DEF Init, TypeOK, Stages
<1>2. \A i \in Ids : TiedCall(i) /\ EffectMeant(i)
  BY DEF Init, TiedCall, EffectMeant
<1>3. QueueInv
  BY DEF Init, QueueInv
<1> QED
  BY <1>1, <1>2, <1>3 DEF IInv

(* A queue of calls that was not full takes one more, and one that is not  *)
(* empty gives its first.                                                  *)
LEMMA QueueTypes ==
  ASSUME NEW q \in Seq(Ids), NEW i \in Ids
  PROVE  /\ Append(q, i) \in Seq(Ids) /\ Len(Append(q, i)) = Len(q) + 1
         /\ Len(q) \in Nat
         /\ q # <<>> => Head(q) \in Ids /\ Tail(q) \in Seq(Ids) /\ Len(Tail(q)) = Len(q) - 1
  OBVIOUS

(* Every step keeps the types: in particular the wrapped and the built     *)
(* request are requests, and the queue keeps to its capacity.              *)
LEMMA StepTypes == IInv /\ [Next]_vars => TypeOK'
<1> SUFFICES ASSUME IInv, [Next]_vars PROVE TypeOK'
  OBVIOUS
<1> USE DEF At
<1>0. TypeOK
  BY DEF IInv
<1>a. ASSUME NEW i \in Ids, NEW s \in Stages, At(i, s)
      PROVE  stage' \in [Ids -> Stages]
  BY <1>0, <1>a DEF TypeOK
<1>r. ASSUME NEW i \in Ids, NEW out \in {"done", "rejected", "failed"},
             NEW said \in {"ok", "rejected", "failed"}, Return(i, out, said),
             effect' \in [Ids -> [operation : Supported, brain : Brains] \cup {None}]
      PROVE  TypeOK'
  BY <1>0, <1>r DEF TypeOK, Return, Stages
<1>1. ASSUME NEW i \in Ids, NEW a \in Asks[i], CallTool(i, a)
      PROVE  TypeOK'
  <2>1. a \in Ask
    BY ContractAssumption
  <2>2. Wrapped(a) \in External
    BY <2>1, WrappedType
  <2> QED
    BY <1>0, <1>1, <2>1, <2>2 DEF TypeOK, CallTool, Stages
<1>2. ASSUME NEW i \in Ids, Enqueue(i)
      PROVE  TypeOK'
  <2>1. queue' \in Seq(Ids) /\ Len(queue') <= Capacity
    BY <1>0, <1>2, QueueTypes, ContractAssumption DEF TypeOK, Enqueue
  <2> QED
    BY <1>0, <1>2, <2>1 DEF TypeOK, Enqueue, Stages
<1>3. ASSUME NEW i \in Ids, QueueFull(i)
      PROVE  TypeOK'
  BY <1>0, <1>3 DEF TypeOK, QueueFull, Stages
<1>4. ASSUME NEW i \in Ids, RunAtOnce(i) \/ AcceptExternal(i) \/ AcceptInternal(i)
      PROVE  TypeOK'
  BY <1>0, <1>4 DEF TypeOK, RunAtOnce, AcceptExternal, AcceptInternal, Stages
<1>5. ASSUME NEW i \in Ids, RejectExternal(i) \/ RejectInternal(i) \/ NothingToRank(i)
                             \/ CallFails(i)
      PROVE  TypeOK'
  <2>1. effect' \in [Ids -> [operation : Supported, brain : Brains] \cup {None}]
    BY <1>0, <1>5 DEF TypeOK, RejectExternal, RejectInternal, NothingToRank, CallFails,
                      Reject, Fail
  <2> QED
    BY <1>5, <1>r, <2>1 DEF RejectExternal, RejectInternal, NothingToRank, CallFails,
                           Reject, Fail
<1>6. ASSUME NEW i \in Ids, NEW found \in Triggers, Classify(i, found)
      PROVE  TypeOK'
  BY <1>0, <1>6 DEF TypeOK, Classify, Stages
<1>7. ASSUME NEW i \in Ids, Build(i)
      PROVE  TypeOK'
  <2>1. asked[i] \in Ask /\ request[i] = Wrapped(asked[i]) /\ trigger[i] \in Triggers
    BY <1>7 DEF IInv, TiedCall, Build
  <2>2. Built(request[i], trigger[i]) \in Internal
    BY <2>1, WrappedType, BuiltType
  <2> QED
    BY <1>0, <1>7, <2>2 DEF TypeOK, Build, Stages
<1>8. ASSUME NEW i \in Ids, CallEngine(i)
      PROVE  TypeOK'
  <2>1. internal[i].operation \in Supported /\ internal[i].brain \in Brains
    BY <1>8 DEF IInv, TiedCall, CallEngine, ValidInternal
  <2>2. effect' \in [Ids -> [operation : Supported, brain : Brains] \cup {None}]
    BY <1>0, <1>8, <2>1 DEF TypeOK, CallEngine
  <2> QED
    BY <1>8, <1>r, <2>2 DEF CallEngine
<1>9. ASSUME Dequeue
      PROVE  TypeOK'
  <2>1. Head(queue) \in Ids /\ Tail(queue) \in Seq(Ids) /\ Len(Tail(queue)) <= Capacity
    BY <1>0, <1>9, QueueTypes, ContractAssumption DEF TypeOK, Dequeue
  <2> QED
    BY <1>0, <1>9, <2>1 DEF TypeOK, Dequeue, Stages
<1>10. ASSUME NEW i \in Ids, RequestOver(i)
      PROVE  TypeOK'
  BY <1>0, <1>10 DEF TypeOK, RequestOver
<1>11. CASE UNCHANGED vars
  BY <1>0, <1>11 DEF TypeOK, vars
<1> QED
  BY <1>1, <1>2, <1>3, <1>4, <1>5, <1>6, <1>7, <1>8, <1>9, <1>10, <1>11 DEF Next, Pipeline

(* A step that moves one call, which is not in the queue, leaves the queue *)
(* as it is.                                                               *)
LEMMA QueueUntouched ==
  ASSUME IInv, NEW i \in Ids, stage[i] # "queued", NEW s \in Stages,
         At(i, s), queue' = queue
  PROVE  QueueInv'
<1>1. QueueInv /\ TypeOK
  BY DEF IInv
<1>2. \A k \in 1 .. Len(queue) : queue[k] \in Ids
  BY <1>1 DEF TypeOK
<1>3. \A k \in 1 .. Len(queue) : stage'[queue[k]] = "queued"
  BY <1>1, <1>2 DEF QueueInv, At, TypeOK
<1> QED
  BY <1>1, <1>3 DEF QueueInv

(* Every step keeps the queue in order.                                    *)
LEMMA StepQueue == IInv /\ [Next]_vars => QueueInv'
<1> SUFFICES ASSUME IInv, [Next]_vars PROVE QueueInv'
  OBVIOUS
<1>0. TypeOK /\ QueueInv
  BY DEF IInv
<1>1. ASSUME NEW i \in Ids, NEW a \in Asks[i], CallTool(i, a)
      PROVE  QueueInv'
  BY <1>1, QueueUntouched DEF CallTool, Stages
<1>2. ASSUME NEW i \in Ids, Enqueue(i)
      PROVE  QueueInv'
  <2>1. \A k \in 1 .. Len(queue) : queue[k] \in Ids /\ queue[k] # i
    BY <1>0, <1>2 DEF TypeOK, QueueInv, Enqueue
  <2>2. /\ Len(queue') = Len(queue) + 1 /\ Len(queue) \in Nat
        /\ \A k \in 1 .. Len(queue) : queue'[k] = queue[k]
        /\ queue'[Len(queue) + 1] = i
    BY <1>0, <1>2 DEF TypeOK, Enqueue
  <2>3. \A k \in 1 .. Len(queue') : k \in 1 .. Len(queue) \/ k = Len(queue) + 1
    BY <2>2
  <2>4. stage' = [stage EXCEPT ![i] = "queued"] /\ stage \in [Ids -> Stages]
    BY <1>0, <1>2 DEF TypeOK, Enqueue, At
  <2>5. \A k \in 1 .. Len(queue') : stage'[queue'[k]] = "queued"
    BY <1>0, <2>1, <2>2, <2>3, <2>4 DEF QueueInv
  <2>6. \A k, l \in 1 .. Len(queue') : queue'[k] = queue'[l] => k = l
    BY <1>0, <2>1, <2>2, <2>3 DEF QueueInv
  <2> QED
    BY <2>5, <2>6 DEF QueueInv
<1>3. ASSUME NEW i \in Ids, QueueFull(i) \/ RunAtOnce(i)
      PROVE  QueueInv'
  BY <1>3, QueueUntouched DEF QueueFull, RunAtOnce, Stages
<1>4. ASSUME NEW i \in Ids, Pipeline(i)
      PROVE  QueueInv'
  <2>1. stage[i] # "queued" /\ queue' = queue /\ \E s \in Stages : At(i, s)
    BY <1>4 DEF Pipeline, RejectExternal, AcceptExternal, NothingToRank, Classify, Build,
                RejectInternal, AcceptInternal, CallEngine, CallFails, Reject, Fail,
                Return, Stages
  <2> QED
    BY <2>1, QueueUntouched
<1>5. ASSUME Dequeue
      PROVE  QueueInv'
  <2>1. /\ Len(queue') = Len(queue) - 1 /\ Len(queue) \in Nat
        /\ \A k \in 1 .. Len(queue') : queue'[k] = queue[k + 1] /\ k + 1 \in 1 .. Len(queue)
        /\ Head(queue) = queue[1] /\ 1 \in 1 .. Len(queue)
    BY <1>0, <1>5 DEF TypeOK, Dequeue
  <2>2. \A k \in 1 .. Len(queue') : queue'[k] # Head(queue) /\ queue'[k] \in Ids
    <3>1. \A m, l \in 1 .. Len(queue) : queue[m] = queue[l] => m = l
      BY <1>0 DEF QueueInv
    <3>2. \A m \in 1 .. Len(queue) : queue[m] \in Ids
      BY <1>0 DEF TypeOK
    <3>3. ASSUME NEW k \in 1 .. Len(queue')
          PROVE  queue'[k] # Head(queue) /\ queue'[k] \in Ids
      <4>1. queue'[k] = queue[k + 1] /\ k + 1 \in 1 .. Len(queue) /\ k + 1 # 1
        BY <2>1
      <4> QED
        BY <2>1, <3>1, <3>2, <4>1
    <3> QED
      BY <3>3
  <2>3. stage' = [stage EXCEPT ![Head(queue)] = "running"] /\ stage \in [Ids -> Stages]
    BY <1>0, <1>5 DEF TypeOK, Dequeue, At
  <2>4. \A k \in 1 .. Len(queue') : stage'[queue'[k]] = "queued"
    BY <1>0, <2>1, <2>2, <2>3 DEF QueueInv
  <2>5. \A k, l \in 1 .. Len(queue') : queue'[k] = queue'[l] => k = l
    BY <1>0, <2>1 DEF QueueInv
  <2> QED
    BY <2>4, <2>5 DEF QueueInv
<1>6. ASSUME NEW i \in Ids, RequestOver(i)
      PROVE  QueueInv'
  BY <1>0, <1>6 DEF QueueInv, RequestOver
<1>7. CASE UNCHANGED vars
  BY <1>0, <1>7 DEF QueueInv, vars
<1> QED
  BY <1>1, <1>2, <1>3, <1>4, <1>5, <1>6, <1>7 DEF Next

(* A call that a step does not move keeps what is stored about it.         *)
LEMMA OthersKept ==
  ASSUME IInv, NEW i \in Ids, NEW j \in Ids, i # j,
         stage'[j] = stage[j], asked'[j] = asked[j], request'[j] = request[j],
         trigger'[j] = trigger[j], internal'[j] = internal[j], effect'[j] = effect[j]
  PROVE  TiedCall(j)' /\ EffectMeant(j)'
<1> TiedCall(j) /\ EffectMeant(j)
  BY DEF IInv
<1> QED
  BY DEF TiedCall, EffectMeant

(* Every step keeps what is stored about a call tied to what the agent     *)
(* asked for; the step that calls the engine does so after both checks.    *)
LEMMA StepTied ==
  IInv /\ [Next]_vars => \A j \in Ids : TiedCall(j)' /\ EffectMeant(j)'
<1> SUFFICES ASSUME IInv, [Next]_vars, NEW j \in Ids
             PROVE  TiedCall(j)' /\ EffectMeant(j)'
  OBVIOUS
<1>0. TypeOK /\ QueueInv /\ TiedCall(j) /\ EffectMeant(j)
  BY DEF IInv
<1>t. /\ DOMAIN stage = Ids /\ DOMAIN asked = Ids /\ DOMAIN request = Ids
      /\ DOMAIN trigger = Ids /\ DOMAIN internal = Ids /\ DOMAIN effect = Ids
      /\ stage = [k \in Ids |-> stage[k]] /\ asked = [k \in Ids |-> asked[k]]
      /\ request = [k \in Ids |-> request[k]] /\ trigger = [k \in Ids |-> trigger[k]]
      /\ internal = [k \in Ids |-> internal[k]] /\ effect = [k \in Ids |-> effect[k]]
  BY <1>0 DEF TypeOK
<1>1. ASSUME NEW i \in Ids, NEW a \in Asks[i], CallTool(i, a)
      PROVE  TiedCall(j)' /\ EffectMeant(j)'
  <2>1. a \in Ask
    BY ContractAssumption
  <2> QED
    BY <1>0, <1>t, <1>1, <2>1 DEF CallTool, At, TiedCall, EffectMeant
<1>2. ASSUME NEW i \in Ids, Enqueue(i) \/ QueueFull(i) \/ RunAtOnce(i)
      PROVE  TiedCall(j)' /\ EffectMeant(j)'
  BY <1>0, <1>t, <1>2 DEF Enqueue, QueueFull, RunAtOnce, At, TiedCall, EffectMeant
<1>3. ASSUME NEW i \in Ids, RejectExternal(i) \/ NothingToRank(i) \/ RejectInternal(i)
                             \/ CallFails(i)
      PROVE  TiedCall(j)' /\ EffectMeant(j)'
  <2>1. /\ stage[i] \in {"running", "checked", "built", "valid"}
        /\ stage' = [stage EXCEPT ![i] = "ended"]
        /\ UNCHANGED <<asked, request, trigger, internal, effect>>
    BY <1>3 DEF RejectExternal, NothingToRank, RejectInternal, CallFails, Reject, Fail,
                Return, At
  <2> QED
    BY <1>0, <1>t, <2>1 DEF TiedCall, EffectMeant
<1>4. ASSUME NEW i \in Ids, AcceptExternal(i)
      PROVE  TiedCall(j)' /\ EffectMeant(j)'
  BY <1>0, <1>t, <1>4 DEF AcceptExternal, At, TiedCall, EffectMeant
<1>5. ASSUME NEW i \in Ids, NEW found \in Triggers, Classify(i, found)
      PROVE  TiedCall(j)' /\ EffectMeant(j)'
  BY <1>0, <1>t, <1>5 DEF Classify, At, TiedCall, EffectMeant
<1>6. ASSUME NEW i \in Ids, Build(i)
      PROVE  TiedCall(j)' /\ EffectMeant(j)'
  BY <1>0, <1>t, <1>6 DEF Build, At, TiedCall, EffectMeant
<1>7. ASSUME NEW i \in Ids, AcceptInternal(i)
      PROVE  TiedCall(j)' /\ EffectMeant(j)'
  BY <1>0, <1>t, <1>7 DEF AcceptInternal, At, TiedCall, EffectMeant
<1>8. ASSUME NEW i \in Ids, CallEngine(i)
      PROVE  TiedCall(j)' /\ EffectMeant(j)'
  <2>1. /\ stage[i] = "valid" /\ stage' = [stage EXCEPT ![i] = "ended"]
        /\ effect' = [effect EXCEPT ![i] = [operation |-> internal[i].operation,
                                            brain |-> internal[i].brain]]
        /\ internal[i].operation \in Supported
        /\ UNCHANGED <<asked, request, trigger, internal>>
    BY <1>8 DEF CallEngine, Return, At
  <2>2. CASE j # i
    BY <1>t, <2>1, <2>2, OthersKept
  <2>3. CASE j = i
    <3>1. /\ asked[i] \in Ask /\ request[i] = Wrapped(asked[i])
          /\ ValidExternal(request[i]) /\ trigger[i] \in Triggers
          /\ internal[i] = Built(request[i], trigger[i]) /\ ValidInternal(internal[i])
      BY <1>0, <2>1, <2>3 DEF TiedCall
    <3>2. /\ Meets(asked[i], internal[i].operation)
          /\ internal[i].brain = asked[i].request.brain
          /\ internal[i].operation \in WriteOperations =>
               /\ AsksFor(asked[i], internal[i].operation)
               /\ asked[i].request.input.allow_write = "yes"
      BY <2>1, <3>1, ChecksSuffice
    <3>3. stage'[i] = "ended" /\ asked' = asked
          /\ effect'[i] = [operation |-> internal[i].operation, brain |-> internal[i].brain]
      BY <1>t, <2>1
    <3>4. effect'[i].operation = internal[i].operation /\ effect'[i].brain = internal[i].brain
      BY <3>3
    <3>5. EffectMeant(i)'
      BY <3>2, <3>3, <3>4 DEF EffectMeant
    <3>6. TiedCall(i)'
      BY <3>1, <3>3, <2>1 DEF TiedCall
    <3> QED
      BY <3>5, <3>6, <2>3
  <2> QED
    BY <2>2, <2>3
<1>9. ASSUME Dequeue
      PROVE  TiedCall(j)' /\ EffectMeant(j)'
  <2>1. stage[Head(queue)] = "queued" /\ Head(queue) \in Ids
    <3>1. 1 \in 1 .. Len(queue) /\ Head(queue) = queue[1] /\ Head(queue) \in Ids
      BY <1>0, <1>9 DEF TypeOK, Dequeue
    <3> QED
      BY <1>0, <3>1 DEF QueueInv
  <2>2. stage' = [stage EXCEPT ![Head(queue)] = "running"]
        /\ UNCHANGED <<asked, request, trigger, internal, effect>>
    BY <1>9 DEF Dequeue, At
  <2> QED
    BY <1>0, <1>t, <2>1, <2>2 DEF TiedCall, EffectMeant
<1>10. ASSUME NEW i \in Ids, RequestOver(i)
      PROVE  TiedCall(j)' /\ EffectMeant(j)'
  BY <1>0, <1>10 DEF RequestOver, TiedCall, EffectMeant
<1>11. CASE UNCHANGED vars
  BY <1>0, <1>11 DEF TiedCall, EffectMeant, vars
<1> QED
  BY <1>1, <1>2, <1>3, <1>4, <1>5, <1>6, <1>7, <1>8, <1>9, <1>10, <1>11 DEF Next, Pipeline

-----------------------------------------------------------------------------

(* The inductive invariant holds in every state.                           *)
THEOREM ContractInv == Spec => []IInv
<1>1. IInv /\ [Next]_vars => IInv'
  BY StepTypes, StepQueue, StepTied DEF IInv
<1> QED
  BY InitInv, <1>1, PTL DEF Spec

(* What is stored about the calls keeps its types, and the queue of the    *)
(* daemon its capacity.                                                    *)
THEOREM TypesHold == Spec => []TypeOK
<1>1. IInv => TypeOK
  BY DEF IInv
<1> QED
  BY ContractInv, <1>1, PTL

(* FireMemory is never called for a tool call that does not meet the       *)
(* contract, nor with another operation's permissions, nor on another      *)
(* brain: what the pipeline does between the checks of validator.go cannot *)
(* make up for what the agent left out.                                    *)
THEOREM SafetyRuleHolds == Spec => []SafetyRule
<1>1. IInv => SafetyRule
  BY DEF IInv, EffectMeant, SafetyRule, Reached
<1> QED
  BY ContractInv, <1>1, PTL

(* No brain is written to but by a call that asks for that very write and  *)
(* clearly allows it, whatever the specialists find in its text.           *)
THEOREM WritesAreAskedForHolds == Spec => []WritesAreAskedFor
<1>1. IInv => WritesAreAskedFor
  BY DEF IInv, EffectMeant, WritesAreAskedFor, Reached
<1> QED
  BY ContractInv, <1>1, PTL

-----------------------------------------------------------------------------
(* What becomes of a call. *)

Pipelined == {"running", "checked", "classified", "built", "valid"}

(* What the agent has been told of a call, by how far it is.               *)
AnswerInv(i) ==
  /\ stage[i] \in {"none", "handed"} => answer[i] = "none"
  /\ stage[i] = "queued" => answer[i] = "queued"
  /\ stage[i] \in Pipelined => answer[i] = IF worker = i THEN "queued" ELSE "none"
  /\ worker = i => stage[i] \in Pipelined
  /\ stage[i] = "ended" =>
       /\ answer[i] # "none"
       /\ answer[i] = "queued" => outcome[i] # "none"
       /\ answer[i] = "ok" => effect[i] # None
       /\ effect[i] # None => answer[i] \in {"ok", "queued"}

(* A call that has ended had the effect it was due.                        *)
EffectInv(i) ==
  stage[i] = "ended" /\ answer[i] # "full" /\ asked[i].request.brain = Served
    => effect[i] = EffectDue(asked[i])

(* A call is classified only if it has a text.                            *)
TextInv(i) ==
  stage[i] \in {"classified", "built", "valid"} => HasText(request[i].input)

OutcomeInv == \A i \in Ids : AnswerInv(i) /\ EffectInv(i) /\ TextInv(i)

(* The wrapper passes on all that was said but the operation, and plan its *)
(* permission.                                                             *)
LEMMA WrapperKeeps ==
  ASSUME NEW a \in Ask
  PROVE  /\ Wrapped(a).flaw = a.request.flaw /\ Wrapped(a).brain = a.request.brain
         /\ a.tool = "plan" => Wrapped(a).operation = "get_context"
         /\ a.tool # "plan" =>
              Wrapped(a).input.allow_write = a.request.input.allow_write
         /\ \A k \in {"content", "query", "task", "text", "target_operation", "operation",
                      "requires_confirmation", "limit"} \cup Thresholds :
              Wrapped(a).input[k] = a.request.input[k]
<1> DEFINE x == Wrapped(a)
<1> DEFINE y == a.request
<1>1. y \in External /\ a.tool \in Tools
  BY DEF Ask
<1>2. y.input \in Input
  BY <1>1 DEF External
<1>3. CASE a.tool = "plan"
  <2>1. x = [y EXCEPT !.operation = "get_context",
                      !.input = [y.input EXCEPT !.allow_write = "no"]]
    BY <1>1, <1>3 DEF Wrapped, WrapPlan, External
  <2>2. x.flaw = y.flaw /\ x.brain = y.brain /\ x.operation = "get_context"
        /\ x.input = [y.input EXCEPT !.allow_write = "no"]
    BY <1>1, <2>1 DEF External
  <2> HIDE DEF x
  <2>3. \A k \in {"content", "query", "task", "text", "target_operation", "operation",
                  "requires_confirmation", "limit"} \cup Thresholds : x.input[k] = y.input[k]
    BY <1>2, <2>2 DEF Thresholds, Input
  <2> QED
    BY <1>3, <2>2, <2>3 DEF x
<1>4. CASE a.tool # "plan"
  <2>1. x.flaw = y.flaw /\ x.brain = y.brain /\ x.input = y.input
    <3>1. CASE a.tool = "ask"
      BY <1>1, <3>1 DEF Wrapped, WrapAsk, External
    <3>2. CASE a.tool # "ask"
      BY <1>1, <1>4, <3>2 DEF Wrapped, External
    <3> QED
      BY <3>1, <3>2
  <2> HIDE DEF x
  <2> QED
    BY <1>4, <2>1 DEF x
<1> QED
  BY <1>3, <1>4

(* What meets the contract, in English, passes both checks, whatever the   *)
(* specialists find.                                                       *)
LEMMA ContractPasses ==
  ASSUME NEW a \in Ask, NEW found \in Triggers, Meets(a, Wrapped(a).operation),
         a.request.flaw # "language"
  PROVE  ValidExternal(Wrapped(a)) /\ ValidInternal(Built(Wrapped(a), found))
<1> DEFINE x == Wrapped(a)
<1> DEFINE r == Built(x, found)
<1> DEFINE y == a.request
<1>1. /\ x.flaw = y.flaw /\ x.brain = y.brain
      /\ a.tool # "plan" => x.input.allow_write = y.input.allow_write
      /\ x.input["requires_confirmation"] = y.input["requires_confirmation"]
      /\ \A t \in Thresholds : x.input[t] = y.input[t]
  BY WrapperKeeps
<1>2. /\ y.flaw = "none" /\ y.brain \in Brains /\ x.operation \in Known
      /\ x.operation \in WriteOperations => a.tool # "plan" /\ y.input.allow_write = "yes"
      /\ x.operation = "forget" => y.input.requires_confirmation # "no"
      /\ x.operation \in Ranking => \A t \in Thresholds : y.input[t] # "invalid"
  BY DEF Meets
<1>3. /\ r.operation = x.operation /\ r.brain = x.brain /\ r.flaw = FlawKept(x.flaw)
      /\ r.intent = MappedIntent(x.operation)
      /\ r.allow_write = BoolValue(x.input.allow_write, FALSE)
      /\ r.requires_confirmation =
           BoolValue(x.input.requires_confirmation, x.operation = "forget")
      /\ r.thresholds = BuildThresholds(x)
  BY DEF Built
<1> HIDE DEF x, r
<1>4. r.flaw = "none" /\ r.intent = r.operation /\ r.operation \in Known /\ r.brain \in Brains
  BY <1>1, <1>2, <1>3 DEF FlawKept, MappedIntent
<1>5. ValidThresholds(r)
  <2>1. \A t \in Thresholds : BuildThresholds(x)[t] # "invalid"
    BY <1>1, <1>2 DEF BuildThresholds
  <2> QED
    BY <1>3, <2>1 DEF ValidThresholds
<1>6. ValidPermissions(r)
  <2>1. r.operation \in WriteOperations => r.allow_write
    BY <1>1, <1>2, <1>3 DEF BoolValue
  <2>2. ASSUME r.operation = "forget" PROVE r.requires_confirmation
    <3>1. x.input.requires_confirmation # "no" /\ x.operation = "forget"
      BY <1>1, <1>2, <1>3, <2>2
    <3>2. BoolValue(x.input.requires_confirmation, x.operation = "forget")
      BY <3>1 DEF BoolValue
    <3> QED
      BY <1>3, <3>2
  <2> QED
    BY <2>1, <2>2 DEF ValidPermissions
<1>7. ValidExternal(x)
  BY <1>1, <1>2 DEF ValidExternal
<1> QED
  BY <1>4, <1>5, <1>6, <1>7 DEF ValidInternal, x, r

(* The engine accepts what the builder made of a request exactly if the    *)
(* request had the input of its operation.                                 *)
LEMMA EngineTakesComplete ==
  ASSUME NEW a \in Ask, NEW found \in Triggers
  PROVE  LET r == Built(Wrapped(a), found)
             operation == Wrapped(a).operation
         IN /\ r.operation \in Supported /\ EngineAccepts(r)
                 => Complete(a.request.input, operation)
            /\ Complete(a.request.input, operation) /\ operation \in Supported
                 /\ a.request.brain = Served
                 => r.operation \in Supported /\ EngineAccepts(r)
<1> DEFINE x == Wrapped(a)
<1> DEFINE r == Built(x, found)
<1> DEFINE y == a.request
<1>1. /\ x.brain = y.brain
      /\ x.input.content = y.input.content /\ x.input.query = y.input.query
      /\ x.input.task = y.input.task /\ x.input.target_operation = y.input.target_operation
      /\ x.input.operation = y.input.operation /\ x.input.limit = y.input.limit
  BY WrapperKeeps
<1>2. r.operation = x.operation /\ r.brain = x.brain
      /\ r.input = NormalizedInput(x.operation, x.input)
  BY DEF Built
<1>3. x.input \in Input
  BY WrappedType DEF External
<1> HIDE DEF x, r
<1>4. /\ r.input.content = x.input.content /\ r.input.limit = x.input.limit
      /\ r.input.query =
           IF x.operation = "get_context" /\ x.input.task = "given" THEN "given"
           ELSE x.input.query
      /\ r.input.operation =
           IF x.operation = "explain" /\ x.input.target_operation = "given" THEN "given"
           ELSE x.input.operation
  BY <1>2, <1>3 DEF NormalizedInput, Input
<1>5. ASSUME r.operation \in Supported, EngineAccepts(r) PROVE Complete(y.input, x.operation)
  BY <1>1, <1>2, <1>4, <1>5 DEF EngineAccepts, TextOfItsOwn, Complete, Supported, Ranking
<1>6. ASSUME Complete(y.input, x.operation), x.operation \in Supported, y.brain = Served
      PROVE  r.operation \in Supported /\ EngineAccepts(r)
  BY <1>1, <1>2, <1>4, <1>6 DEF EngineAccepts, TextOfItsOwn, Complete, Supported, Ranking
<1> QED
  BY <1>5, <1>6 DEF x, r

(* The texts of a request are the agent's.                                 *)
LEMMA WrapperKeepsText ==
  ASSUME NEW a \in Ask
  PROVE  HasText(Wrapped(a).input) <=> HasText(a.request.input)
<1>1. \A k \in {"content", "query", "task", "text"} :
        Wrapped(a).input[k] = a.request.input[k]
  BY WrapperKeeps
<1> QED
  BY <1>1 DEF HasText

(* A call that is about to reach the engine was due what it does there.    *)
LEMMA CalledWasDue ==
  ASSUME IInv, OutcomeInv, NEW i \in Ids, CallEngine(i)
  PROVE  EffectDue(asked[i]) = [operation |-> internal[i].operation,
                                brain |-> internal[i].brain]
<1>1. /\ asked[i] \in Ask /\ request[i] = Wrapped(asked[i])
      /\ ValidExternal(request[i]) /\ trigger[i] \in Triggers
      /\ internal[i] = Built(request[i], trigger[i]) /\ ValidInternal(internal[i])
      /\ HasText(request[i].input)
  BY DEF CallEngine, IInv, TiedCall, OutcomeInv, TextInv
<1>2. internal[i].operation = Wrapped(asked[i]).operation
  BY <1>1 DEF Built
<1>3. Meets(asked[i], Wrapped(asked[i]).operation)
  BY <1>1, <1>2, ChecksSuffice
<1>4. Complete(asked[i].request.input, Wrapped(asked[i]).operation)
  BY <1>1, EngineTakesComplete DEF CallEngine
<1>5. ~TurnedDown(asked[i])
  <2>1. asked[i].request.flaw = "none"
    BY <1>1, WrapperKeeps DEF ValidExternal
  <2>2. HasText(asked[i].request.input)
    BY <1>1, WrapperKeepsText
  <2>3. Wrapped(asked[i]).operation \in Supported
    BY <1>2 DEF CallEngine
  <2> QED
    BY <2>1, <2>2, <2>3 DEF TurnedDown
<1>6. internal[i].brain = asked[i].request.brain
  BY <1>1, ChecksSuffice
<1> QED
  BY <1>2, <1>3, <1>4, <1>5, <1>6 DEF EffectDue, Promised

(* A call to the brain of the daemon that is refused on its way was due    *)
(* nothing.                                                                *)
LEMMA RefusedWasNotDue ==
  ASSUME IInv, OutcomeInv, NEW i \in Ids, asked[i].request.brain = Served,
         RejectExternal(i) \/ NothingToRank(i) \/ RejectInternal(i) \/ CallFails(i)
  PROVE  EffectDue(asked[i]) = None
<1> SUFFICES ASSUME Promised(asked[i]), ~TurnedDown(asked[i]) PROVE FALSE
  BY DEF EffectDue
<1>1. asked[i] \in Ask /\ request[i] = Wrapped(asked[i])
  BY DEF IInv, TiedCall, RejectExternal, NothingToRank, RejectInternal, CallFails
<1>2. /\ Meets(asked[i], Wrapped(asked[i]).operation)
      /\ Complete(asked[i].request.input, Wrapped(asked[i]).operation)
      /\ asked[i].request.flaw # "language" /\ HasText(asked[i].request.input)
      /\ Wrapped(asked[i]).operation \in Supported
  BY DEF Promised, TurnedDown
<1>3. ValidExternal(request[i])
  <2>1. Wrapped(asked[i]).flaw = asked[i].request.flaw
        /\ Wrapped(asked[i]).brain = asked[i].request.brain
    BY <1>1, WrapperKeeps
  <2> QED
    BY <1>1, <1>2, <2>1 DEF Meets, ValidExternal
<1>4. HasText(request[i].input)
  BY <1>1, <1>2, WrapperKeepsText
<1>5. ASSUME RejectInternal(i) \/ CallFails(i) PROVE FALSE
  <2>1. trigger[i] \in Triggers /\ internal[i] = Built(request[i], trigger[i])
    BY <1>5 DEF IInv, TiedCall, RejectInternal, CallFails
  <2>2. ValidInternal(internal[i])
    BY <1>1, <1>2, <2>1, ContractPasses
  <2>3. internal[i].operation \in Supported /\ EngineAccepts(internal[i])
    BY <1>1, <1>2, <2>1, EngineTakesComplete
  <2> QED
    BY <1>5, <2>2, <2>3 DEF RejectInternal, CallFails
<1> QED
  BY <1>3, <1>4, <1>5 DEF RejectExternal, NothingToRank

(* At the start no call has ended.                                         *)
LEMMA OutcomeInit == Init => OutcomeInv
<1> SUFFICES ASSUME Init, NEW i \in Ids PROVE AnswerInv(i) /\ EffectInv(i) /\ TextInv(i)
  BY DEF OutcomeInv
<1> QED
  BY ContractAssumption DEF Init, AnswerInv, EffectInv, TextInv, Pipelined

(* A call that a step neither moves nor answers stays as it was.           *)
LEMMA OutcomeOfOthers ==
  ASSUME OutcomeInv, NEW j \in Ids,
         stage'[j] = stage[j], asked'[j] = asked[j], request'[j] = request[j],
         answer'[j] = answer[j], outcome'[j] = outcome[j], effect'[j] = effect[j],
         worker' = j <=> worker = j
  PROVE  AnswerInv(j)' /\ EffectInv(j)' /\ TextInv(j)'
<1>1. AnswerInv(j) /\ EffectInv(j) /\ TextInv(j)
  BY DEF OutcomeInv
<1> QED
  BY <1>1 DEF AnswerInv, EffectInv, TextInv

(* When the pipeline returns, the agent knows of it, or the answer to the  *)
(* queued write stands; the call has had the effect it was due.            *)
LEMMA ReturnOutcome ==
  ASSUME IInv, OutcomeInv, NEW i \in Ids, stage[i] \in Pipelined,
         NEW out \in {"done", "rejected", "failed"},
         NEW said \in {"ok", "rejected", "failed"}, Return(i, out, said),
         effect' = effect \/ (\E e : e # None /\ effect' = [effect EXCEPT ![i] = e]),
         said = "ok" <=> effect'[i] # None,
         asked[i].request.brain = Served => effect'[i] = EffectDue(asked[i])
  PROVE  OutcomeInv'
<1> SUFFICES ASSUME NEW j \in Ids PROVE AnswerInv(j)' /\ EffectInv(j)' /\ TextInv(j)'
  BY DEF OutcomeInv
<1>1. TypeOK /\ AnswerInv(i)
  BY DEF IInv, OutcomeInv
<1>2. /\ stage' = [stage EXCEPT ![i] = "ended"] /\ outcome' = [outcome EXCEPT ![i] = out]
      /\ answer' = IF worker = i THEN answer ELSE [answer EXCEPT ![i] = said]
      /\ worker' = IF worker = i THEN None ELSE worker
      /\ asked' = asked /\ request' = request
  BY DEF Return, At
<1>3. CASE j # i
  <2>1. effect'[j] = effect[j] /\ stage'[j] = stage[j] /\ answer'[j] = answer[j]
        /\ outcome'[j] = outcome[j]
    BY <1>1, <1>2, <1>3 DEF TypeOK
  <2>2. worker' = j <=> worker = j
    BY <1>2, <1>3, ContractAssumption
  <2> QED
    BY <1>2, <2>1, <2>2, OutcomeOfOthers
<1>4. CASE j = i
  <2>1. stage'[i] = "ended" /\ outcome'[i] = out /\ asked'[i] = asked[i]
        /\ answer'[i] = IF worker = i THEN answer[i] ELSE said
    BY <1>1, <1>2 DEF TypeOK
  <2>2. worker' # i
    BY <1>2, ContractAssumption
  <2>3. worker = i => answer[i] = "queued"
    BY <1>1 DEF AnswerInv
  <2>4. AnswerInv(i)'
    BY <2>1, <2>2, <2>3 DEF AnswerInv, Pipelined
  <2>5. EffectInv(i)' /\ TextInv(i)'
    BY <2>1 DEF EffectInv, TextInv
  <2> QED
    BY <1>4, <2>4, <2>5
<1> QED
  BY <1>3, <1>4

(* Every step keeps the answers and the effects of the calls in order.     *)
LEMMA OutcomeStep == IInv /\ OutcomeInv /\ [Next]_vars => OutcomeInv'
<1> SUFFICES ASSUME IInv, OutcomeInv, [Next]_vars PROVE OutcomeInv'
  OBVIOUS
<1>0. TypeOK /\ QueueInv /\ \A j \in Ids : EffectMeant(j)
  BY DEF IInv
<1>m. ASSUME NEW i \in Ids, NEW s \in Stages, At(i, s),
             asked' = [asked EXCEPT ![i] = asked'[i]],
             request' = [request EXCEPT ![i] = request'[i]],
             answer' = [answer EXCEPT ![i] = answer'[i]],
             outcome' = outcome, effect' = effect,
             \A j \in Ids : j # i => (worker' = j <=> worker = j),
             AnswerInv(i)' /\ EffectInv(i)' /\ TextInv(i)'
      PROVE  OutcomeInv'
  <2> SUFFICES ASSUME NEW j \in Ids PROVE AnswerInv(j)' /\ EffectInv(j)' /\ TextInv(j)'
    BY DEF OutcomeInv
  <2>1. CASE j # i
    <3>1. stage'[j] = stage[j] /\ asked'[j] = asked[j] /\ request'[j] = request[j]
          /\ answer'[j] = answer[j] /\ outcome'[j] = outcome[j] /\ effect'[j] = effect[j]
      BY <1>0, <1>m, <2>1 DEF TypeOK, At
    <3> QED
      BY <1>m, <2>1, <3>1, OutcomeOfOthers
  <2> QED
    BY <1>m, <2>1
<1>1. ASSUME NEW i \in Ids, NEW a \in Asks[i], CallTool(i, a)
      PROVE  OutcomeInv'
  <2>1. /\ stage[i] = "none" /\ stage' = [stage EXCEPT ![i] = "handed"] /\ At(i, "handed")
        /\ asked' = [asked EXCEPT ![i] = a] /\ request' = [request EXCEPT ![i] = Wrapped(a)]
        /\ UNCHANGED <<worker, answer, outcome, effect>>
    BY <1>1 DEF CallTool, At
  <2>2. stage'[i] = "handed" /\ asked' = [asked EXCEPT ![i] = asked'[i]]
        /\ request' = [request EXCEPT ![i] = request'[i]]
        /\ answer' = [answer EXCEPT ![i] = answer'[i]]
    BY <1>0, <2>1 DEF TypeOK
  <2>3. AnswerInv(i)' /\ EffectInv(i)' /\ TextInv(i)'
    BY <2>1, <2>2 DEF OutcomeInv, AnswerInv, EffectInv, TextInv, Pipelined
  <2> QED
    BY <1>m, <2>1, <2>2, <2>3 DEF Stages
<1>2. ASSUME NEW i \in Ids, Enqueue(i) \/ QueueFull(i) \/ RunAtOnce(i)
      PROVE  OutcomeInv'
  <2>1. /\ stage[i] = "handed"
        /\ asked' = asked /\ request' = request /\ worker' = worker
        /\ outcome' = outcome /\ effect' = effect
        /\ \/ At(i, "queued") /\ answer' = [answer EXCEPT ![i] = "queued"]
           \/ At(i, "ended") /\ answer' = [answer EXCEPT ![i] = "full"]
           \/ At(i, "running") /\ answer' = answer
    BY <1>2 DEF Enqueue, QueueFull, RunAtOnce
  <2>2. asked' = [asked EXCEPT ![i] = asked'[i]]
        /\ request' = [request EXCEPT ![i] = request'[i]]
        /\ answer' = [answer EXCEPT ![i] = answer'[i]]
    BY <1>0, <2>1 DEF TypeOK
  <2>3. \/ stage'[i] = "queued" /\ answer'[i] = "queued"
        \/ stage'[i] = "ended" /\ answer'[i] = "full"
        \/ stage'[i] = "running" /\ answer'[i] = answer[i]
    BY <1>0, <2>1 DEF TypeOK, At
  <2>4. answer[i] = "none" /\ worker # i /\ effect[i] = None
    BY <1>0, <2>1 DEF OutcomeInv, AnswerInv, EffectMeant, Pipelined
  <2>5. AnswerInv(i)' /\ EffectInv(i)' /\ TextInv(i)'
    BY <2>1, <2>3, <2>4 DEF AnswerInv, EffectInv, TextInv, Pipelined
  <2>6. \E s \in Stages : At(i, s)
    BY <2>1 DEF Stages
  <2> QED
    BY <1>m, <2>1, <2>2, <2>5, <2>6
<1>3. ASSUME NEW i \in Ids,
             \/ AcceptExternal(i) \/ (\E found \in Triggers : Classify(i, found))
             \/ Build(i) \/ AcceptInternal(i)
      PROVE  OutcomeInv'
  <2>1. /\ stage[i] \in Pipelined
        /\ asked' = asked /\ request' = request /\ worker' = worker
        /\ outcome' = outcome /\ effect' = effect /\ answer' = answer
        /\ \/ At(i, "checked")
           \/ At(i, "classified") /\ HasText(request[i].input)
           \/ At(i, "built") /\ stage[i] = "classified"
           \/ At(i, "valid") /\ stage[i] = "built"
    BY <1>3 DEF AcceptExternal, Classify, Build, AcceptInternal, Pipelined
  <2>2. asked' = [asked EXCEPT ![i] = asked'[i]]
        /\ request' = [request EXCEPT ![i] = request'[i]]
        /\ answer' = [answer EXCEPT ![i] = answer'[i]]
    BY <1>0, <2>1 DEF TypeOK
  <2>3. \/ stage'[i] = "checked"
        \/ stage'[i] \in {"classified", "built", "valid"} /\ HasText(request[i].input)
    BY <1>0, <2>1 DEF TypeOK, At, OutcomeInv, TextInv
  <2>4. answer[i] = IF worker = i THEN "queued" ELSE "none"
    BY <2>1 DEF OutcomeInv, AnswerInv
  <2>5. AnswerInv(i)' /\ EffectInv(i)' /\ TextInv(i)'
    BY <2>1, <2>3, <2>4 DEF AnswerInv, EffectInv, TextInv, Pipelined
  <2>6. \E s \in Stages : At(i, s)
    BY <2>1 DEF Stages
  <2> QED
    BY <1>m, <2>1, <2>2, <2>5, <2>6
<1>4. ASSUME NEW i \in Ids,
             RejectExternal(i) \/ NothingToRank(i) \/ RejectInternal(i) \/ CallFails(i)
      PROVE  OutcomeInv'
  <2>1. /\ stage[i] \in Pipelined /\ effect' = effect
        /\ Return(i, "rejected", "rejected") \/ Return(i, "failed", "failed")
    BY <1>4 DEF RejectExternal, NothingToRank, RejectInternal, CallFails, Reject, Fail,
                Pipelined
  <2>2. effect[i] = None
    BY <1>0, <2>1 DEF EffectMeant, Pipelined
  <2>3. asked[i].request.brain = Served => EffectDue(asked[i]) = None
    BY <1>4, RefusedWasNotDue
  <2> QED
    BY <2>1, <2>2, <2>3, ReturnOutcome
<1>5. ASSUME NEW i \in Ids, CallEngine(i)
      PROVE  OutcomeInv'
  <2> DEFINE e == [operation |-> internal[i].operation, brain |-> internal[i].brain]
  <2>1. stage[i] \in Pipelined /\ Return(i, "done", "ok")
        /\ effect' = [effect EXCEPT ![i] = e]
    BY <1>5 DEF CallEngine, Pipelined
  <2>2. e # None
    <3>1. internal[i].operation \in Supported /\ internal[i].brain \in Brains
      BY <1>5 DEF IInv, TiedCall, CallEngine, ValidInternal
    <3> QED
      BY <3>1, ContractAssumption
  <2>3. effect'[i] = e
    BY <1>0, <2>1 DEF TypeOK
  <2>4. EffectDue(asked[i]) = e
    BY <1>5, CalledWasDue
  <2> HIDE DEF e
  <2> QED
    BY <2>1, <2>2, <2>3, <2>4, ReturnOutcome
<1>6. ASSUME Dequeue
      PROVE  OutcomeInv'
  <2>1. PICK i \in Ids : i = Head(queue) /\ stage[i] = "queued"
    <3>1. 1 \in 1 .. Len(queue) /\ Head(queue) = queue[1] /\ Head(queue) \in Ids
      BY <1>0, <1>6 DEF TypeOK, Dequeue
    <3> QED
      BY <1>0, <3>1 DEF QueueInv
  <2>2. /\ worker = None /\ worker' = i /\ At(i, "running")
        /\ UNCHANGED <<asked, request, answer, outcome, effect>>
    BY <1>6, <2>1 DEF Dequeue
  <2>3. asked' = [asked EXCEPT ![i] = asked'[i]]
        /\ request' = [request EXCEPT ![i] = request'[i]]
        /\ answer' = [answer EXCEPT ![i] = answer'[i]]
    BY <1>0, <2>2 DEF TypeOK
  <2>4. stage'[i] = "running" /\ answer[i] = "queued"
    BY <1>0, <2>1, <2>2 DEF TypeOK, At, OutcomeInv, AnswerInv
  <2>5. AnswerInv(i)' /\ EffectInv(i)' /\ TextInv(i)'
    BY <2>2, <2>4 DEF AnswerInv, EffectInv, TextInv, Pipelined
  <2>6. \A j \in Ids : j # i => (worker' = j <=> worker = j)
    BY <2>2, ContractAssumption
  <2> QED
    BY <1>m, <2>1, <2>2, <2>3, <2>5, <2>6 DEF Stages
<1>7. CASE UNCHANGED vars \/ \E i \in Ids : RequestOver(i)
  BY <1>7 DEF OutcomeInv, AnswerInv, EffectInv, TextInv, vars, RequestOver
<1> QED
  BY <1>1, <1>2, <1>3, <1>4, <1>5, <1>6, <1>7 DEF Next, Pipeline

(* Both invariants together hold in every state.                           *)
LEMMA OutcomesHold == Spec => [](IInv /\ OutcomeInv)
<1>1. Init => IInv /\ OutcomeInv
  BY InitInv, OutcomeInit
<1>2. IInv /\ OutcomeInv /\ [Next]_vars => (IInv /\ OutcomeInv)'
  BY StepTypes, StepQueue, StepTied, OutcomeStep DEF IInv
<1> QED
  BY <1>1, <1>2, PTL DEF Spec

(* The effect of a call on the brain that the daemon serves is a function  *)
(* of what the agent asked for: what the documents promise, less what      *)
(* TurnedDown excepts.  Whether the daemon runs it at once, its write      *)
(* worker later and with a cancelled context, or the front end itself, and *)
(* whatever the specialists find, makes no difference; a full queue does.  *)
THEOREM SameEffectHolds == Spec => []SameEffectEitherWay
<1>1. OutcomeInv => SameEffectEitherWay
  BY DEF OutcomeInv, EffectInv, SameEffectEitherWay, Reached
<1> QED
  BY OutcomesHold, <1>1, PTL

(* Nothing is called done that did not reach the engine, no refusal is     *)
(* given for what did, no call that has ended is left without an answer,   *)
(* and the outcome of a queued write is there in the end, though the agent *)
(* never hears of it.                                                      *)
THEOREM AnswersHoldAlways == Spec => []AnswersHold
<1>1. IInv /\ OutcomeInv => AnswersHold
  <2> SUFFICES ASSUME IInv, OutcomeInv, NEW i \in Ids
               PROVE  /\ i \in Reached => answer[i] \in {"ok", "queued"}
                      /\ answer[i] = "ok" => i \in Reached
                      /\ stage[i] = "ended" => answer[i] # "none"
                      /\ stage[i] = "ended" /\ answer[i] = "queued" => outcome[i] # "none"
    BY DEF AnswersHold, Reached
  <2>1. AnswerInv(i) /\ EffectMeant(i) /\ stage[i] \in Stages
    BY DEF IInv, OutcomeInv, TypeOK
  <2> QED
    BY <2>1 DEF AnswerInv, EffectMeant, Reached, Stages, Pipelined
<1> QED
  BY OutcomesHold, <1>1, PTL
=============================================================================
