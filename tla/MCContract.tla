---------------------------- MODULE MCContract ----------------------------
(***************************************************************************)
(* The instance of Contract that TLC checks.  The first call is any tool   *)
(* with a complete request that is changed in up to two places, and ask    *)
(* with any operation and any permissions; the second is one of a few,     *)
(* enough to keep the worker busy and the queue full.                      *)
(***************************************************************************)
EXTENDS Contract

CONSTANTS b1, b2

Nothing ==
  [content |-> "absent", query |-> "absent", task |-> "absent", text |-> "absent",
   target_operation |-> "absent", operation |-> "absent",
   allow_write |-> "absent", requires_confirmation |-> "absent",
   top_k |-> "absent", similarity_threshold |-> "absent",
   budget_tokens |-> "absent", limit |-> "absent"]

CompleteInput(tool) ==
  CASE tool = "remember" -> [Nothing EXCEPT !.content = "given", !.allow_write = "yes"]
    [] tool = "recall"   -> [Nothing EXCEPT !.query = "given"]
    [] tool = "explain"  -> [Nothing EXCEPT !.target_operation = "given"]
    [] OTHER             -> [Nothing EXCEPT !.task = "given"]

Plain(tool) ==
  [tool |-> tool,
   request |-> [operation |-> "", flaw |-> "none", brain |-> b1,
                input |-> CompleteInput(tool)]]

TextKeys == {"content", "query", "task", "text", "target_operation", "operation"}

TextChanged(asks) ==
  {[a EXCEPT !.request.input[k] = t] : a \in asks, k \in TextKeys, t \in Texts}

NumberChanged(asks) ==
  {[a EXCEPT !.request.input[k] = n] :
     a \in asks, k \in Thresholds \cup {"limit"}, n \in Numbers}

EnvelopeChanged(asks) ==
  {[a EXCEPT !.request.flaw = f] : a \in asks, f \in Flaws}
  \cup {[a EXCEPT !.request.brain = b] : a \in asks, b \in Brains \cup {None}}

PermissionsChanged(asks) ==
  {[a EXCEPT !.request.input.allow_write = w,
             !.request.input.requires_confirmation = c] :
     a \in asks, w \in Flags, c \in Flags}

OperationChanged(asks) ==
  {[a EXCEPT !.request.operation = o] : a \in asks, o \in Known \cup {"", "other"}}

PlainAsks == {Plain(tool) : tool \in Tools}

FewAsks ==
  {Plain("remember"), Plain("recall"),
   [Plain("remember") EXCEPT !.request.input.allow_write = "absent"]}

SomeAsks ==
  TextChanged(TextChanged(PlainAsks)) \cup NumberChanged(PlainAsks)
  \cup EnvelopeChanged(PlainAsks) \cup PermissionsChanged(PlainAsks)
  \cup PermissionsChanged(OperationChanged({Plain("ask")}))
  \cup NumberChanged(OperationChanged({Plain("ask")}))

CallAsks == [i \in Ids |-> IF i = 1 THEN SomeAsks ELSE FewAsks]
=============================================================================
