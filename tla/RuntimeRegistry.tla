--------------------------- MODULE RuntimeRegistry ---------------------------
(***************************************************************************)
(* The model registry of internal/firequery/runtime and the LocalManager   *)
(* in front of it: several callers register models and have them loaded    *)
(* lazily, within a memory budget.                                         *)
(*                                                                         *)
(* EnsureLoaded checks under the registry's lock, gives the lock up while  *)
(* the loader runs, and takes it again to record the outcome: one action   *)
(* for each of the two locked sections.  What the loader does is its own   *)
(* affair: it may succeed or fail.  Devices are detected afresh by every   *)
(* call.  Amounts of memory are uint64 in the code: sums wrap at Word.     *)
(* (The programs of this repository run with StaticManager, which keeps no *)
(* state; the registry is the part of the library that does.)              *)
(***************************************************************************)
EXTENDS Integers, FiniteSetsExt

CONSTANTS
  Models, Callers,
  Specs,          \* what may be registered: [bytes, backends]
  Requests,       \* what callers ask for: [preferred, gpu, supported]
  Enabled,        \* sets of GPU backends that the environment may switch on
  MaxMemory,      \* the budget; 0 means no limit
  Word,           \* amounts of memory are in 0..Word-1
  MaxRegisters,   \* bound: calls of Register
  MaxLoads,       \* bound: calls of a loader
  None

GPUs == {"cuda", "directml", "coreml", "openvino"}
Backends == {"cpu"} \cup GPUs
ModelSpec == [bytes : 0..(Word - 1), backends : SUBSET Backends \ {{}}]
Request == [preferred : Backends \cup {None}, gpu : BOOLEAN, supported : SUBSET Backends]

ASSUME RegistryAssumption ==
  /\ Word \in Nat \ {0}
  /\ Specs \subseteq ModelSpec /\ Requests \subseteq Request
  /\ Enabled \subseteq SUBSET GPUs
  /\ MaxMemory \in 0..(Word - 1)
  /\ MaxRegisters \in Nat /\ MaxLoads \in Nat
  /\ None \notin Backends

VARIABLES
  specs,       \* [Models -> ModelSpec or None]
  states,      \* [Models -> State or None]
  used,        \* usedMemory
  loading,     \* [Callers -> Load or None], the calls whose loader runs
  (* history and bounds *)
  charged,     \* [Models -> amount charged for the load that stands]
  overlapped,  \* has a loader been started while another was running
  wrapped,     \* has a sum of the accounting wrapped
  registers, started

vars == <<specs, states, used, loading, charged, overlapped, wrapped, registers, started>>

State == [loaded : BOOLEAN, healthy : BOOLEAN, backend : Backends \cup {None}]
Load == [model : Models, bytes : 0..(Word - 1), backend : Backends]

ASSUME NoneIsNone == None \notin ModelSpec \cup State \cup Load

TypeOK ==
  /\ specs \in [Models -> ModelSpec \cup {None}]
  /\ states \in [Models -> State \cup {None}]
  /\ \A m \in Models : specs[m] # None <=> states[m] # None
  /\ used \in 0..(Word - 1)
  /\ loading \in [Callers -> Load \cup {None}]
  /\ \A c \in Callers : loading[c] # None => states[loading[c].model] # None
  /\ charged \in [Models -> 0..(Word - 1)]
  /\ overlapped \in BOOLEAN /\ wrapped \in BOOLEAN
  /\ registers \in Nat /\ started \in Nat

-----------------------------------------------------------------------------
(* There is always a CPU; the GPUs are what the environment says.          *)
Detect(gpus) == {"cpu"} \cup gpus

(* LocalBackendSelector.Select: the preferred backend if it is available   *)
(* and supported; else the first accelerator, in a fixed order, that is;   *)
(* else, unless a GPU is required, the CPU.                                *)
Supported(q) == IF q.supported = {} THEN Backends ELSE q.supported

Candidates(devices, q) ==
  (devices \cap Supported(q)) \ (IF q.gpu THEN {"cpu"} ELSE {})

Rank == [cuda |-> 1, directml |-> 2, coreml |-> 3, openvino |-> 4, cpu |-> 5]

(* None stands for ErrGPUNotAvailable and ErrNoAvailableBackend.           *)
Select(devices, q) ==
  IF q.preferred \in devices \cap Supported(q) THEN q.preferred
  ELSE IF Candidates(devices, q) = {} THEN None
  ELSE CHOOSE b \in Candidates(devices, q) :
         \A d \in Candidates(devices, q) : Rank[b] <= Rank[d]

-----------------------------------------------------------------------------
(* Register replaces the specification of a model and leaves its state.    *)
Register(m, s) ==
  /\ registers < MaxRegisters /\ registers' = registers + 1
  /\ specs' = [specs EXCEPT ![m] = s]
  /\ states' = [states EXCEPT ![m] =
                  IF @ = None THEN [loaded |-> FALSE, healthy |-> TRUE, backend |-> None] ELSE @]
  /\ UNCHANGED <<used, loading, charged, overlapped, wrapped, started>>

Sum(m, n) == (m + n) % Word

(* Faulty variant: amounts are compared one at a time.                     *)
SpecAloneExceeds(s) == MaxMemory > 0 /\ s.bytes > MaxMemory

Exceeds(s) == MaxMemory > 0 /\ Sum(used, s.bytes) > MaxMemory

(* The checks of EnsureLoaded that end the call without any change.        *)
Answered(m, b) ==
  \/ b = None
  \/ specs[m] = None
  \/ states[m].loaded
  \/ b \notin specs[m].backends

(* Over the budget: the model is marked unhealthy.                         *)
Refuse(m, b) ==
  /\ ~Answered(m, b) /\ Exceeds(specs[m])
  /\ states' = [states EXCEPT ![m].healthy = FALSE]
  /\ UNCHANGED <<specs, used, loading, charged, overlapped, wrapped, registers, started>>

(* The lock is released and the loader called.                             *)
StartLoad(c, m, b) ==
  /\ ~Answered(m, b) /\ ~Exceeds(specs[m])
  /\ started < MaxLoads /\ started' = started + 1
  /\ loading' = [loading EXCEPT ![c] =
                   [model |-> m, bytes |-> specs[m].bytes, backend |-> b]]
  /\ overlapped' = (overlapped \/ \E d \in Callers : loading[d] # None)
  /\ wrapped' = (wrapped \/ used + specs[m].bytes >= Word)
  /\ UNCHANGED <<specs, states, used, charged, registers>>

(* LocalManager.EnsureLoaded up to the first Unlock.                       *)
EnsureLoaded(c, m, q, gpus) ==
  /\ loading[c] = None
  /\ \/ Refuse(m, Select(Detect(gpus), q))
     \/ StartLoad(c, m, Select(Detect(gpus), q))

(* The second locked section: it takes the state anew, which another call  *)
(* may have changed, and marks it unhealthy.                               *)
LoadFails(c) ==
  /\ loading[c] # None
  /\ LET l == loading[c]
     IN states' = [states EXCEPT ![l.model] = [@ EXCEPT !.healthy = FALSE, !.backend = l.backend]]
  /\ loading' = [loading EXCEPT ![c] = None]
  /\ UNCHANGED <<specs, used, charged, overlapped, wrapped, registers, started>>

(* Faulty variant: a model that became healthy again is not charged.       *)
ChargeOnlyHealthy(c) ==
  /\ loading[c] # None
  /\ LET l == loading[c]
     IN /\ states' = [states EXCEPT ![l.model] =
                        [loaded |-> TRUE, healthy |-> TRUE, backend |-> l.backend]]
        /\ used' = IF states[l.model].healthy THEN Sum(used, l.bytes) ELSE used
        /\ wrapped' = (wrapped \/ used + l.bytes >= Word)
        /\ charged' = [charged EXCEPT ![l.model] = l.bytes]
  /\ loading' = [loading EXCEPT ![c] = None]
  /\ UNCHANGED <<specs, overlapped, registers, started>>

(* The other second section: the model is loaded, whatever its state has   *)
(* become, and charged what its specification said when the call began.    *)
LoadSucceeds(c) ==
  /\ loading[c] # None
  /\ LET l == loading[c]
     IN /\ states' = [states EXCEPT ![l.model] =
                        [loaded |-> TRUE, healthy |-> TRUE, backend |-> l.backend]]
        /\ used' = Sum(used, l.bytes)
        /\ wrapped' = (wrapped \/ used + l.bytes >= Word)
        /\ charged' = [charged EXCEPT ![l.model] = l.bytes]
  /\ loading' = [loading EXCEPT ![c] = None]
  /\ UNCHANGED <<specs, overlapped, registers, started>>

-----------------------------------------------------------------------------
Init ==
  /\ specs = [m \in Models |-> None]
  /\ states = [m \in Models |-> None]
  /\ used = 0
  /\ loading = [c \in Callers |-> None]
  /\ charged = [m \in Models |-> 0]
  /\ overlapped = FALSE /\ wrapped = FALSE
  /\ registers = 0 /\ started = 0

Next ==
  \/ \E m \in Models, s \in Specs : Register(m, s)
  \/ \E c \in Callers, m \in Models, q \in Requests, gpus \in Enabled :
       EnsureLoaded(c, m, q, gpus)
  \/ \E c \in Callers : LoadFails(c) \/ LoadSucceeds(c)

Spec == Init /\ [][Next]_vars

-----------------------------------------------------------------------------
(* Properties. *)

Loaded(m) == states[m] # None /\ states[m].loaded

Resident == {m \in Models : Loaded(m)}
Running == {c \in Callers : loading[c] # None}
Amounts == [c \in Running |-> loading[c].bytes]

Total(amount, S) == MapThenSumSet(LAMBDA x : amount[x], S)

(* As long as no loader is started while another runs, the amount counted  *)
(* as used stays within the budget.  (Two overlapping calls each pass the  *)
(* check before either is charged.)                                        *)
BudgetHeld == ~overlapped /\ MaxMemory > 0 => used <= MaxMemory

(* Under the same condition what is really resident fits too: nothing that *)
(* is loaded escapes being counted, through failures, retries and changed  *)
(* specifications, unless an amount is so large that the sum wraps.        *)
ResidentFits ==
  ~overlapped /\ ~wrapped /\ MaxMemory > 0 =>
    Total(charged, Resident) <= MaxMemory

(* Even with overlapping calls the amount used, with what is being loaded, *)
(* exceeds the budget at most by a budget for each other caller.           *)
OvershootBounded ==
  ~wrapped /\ MaxMemory > 0 =>
    used + Total(Amounts, Running) <= Cardinality(Callers) * MaxMemory

(* Without overlapping calls a loaded model is healthy: neither an earlier *)
(* failure nor a budget that is now used up leaves it marked, and with it  *)
(* the Health of the whole runtime.                                        *)
LoadedIsHealthy == ~overlapped => \A m \in Models : Loaded(m) => states[m].healthy

(* A loaded model stays loaded, whatever is registered anew and whichever  *)
(* overlapping load of it fails.                                           *)
LoadedForGood == [][\A m \in Models : Loaded(m) => Loaded(m)']_vars
=============================================================================
