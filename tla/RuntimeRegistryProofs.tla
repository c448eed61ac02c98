------------------------ MODULE RuntimeRegistryProofs ------------------------
(***************************************************************************)
(* Proofs about RuntimeRegistry, for any number of models and callers and  *)
(* any amounts of memory.                                                  *)
(*                                                                         *)
(* The inductive invariant says, besides the types, what holds of the      *)
(* loads under way as long as no two have overlapped: there is one at      *)
(* most, there is room for it, and its model is not loaded yet.            *)
(*                                                                         *)
(* Two properties add up what a set of models or callers takes.  The       *)
(* section on sums shows what such a total obeys; Counted then says that   *)
(* the amount counted is what the resident models were charged, and        *)
(* Admitted that each load under way is within the budget by itself.       *)
(***************************************************************************)
EXTENDS RuntimeRegistry, FiniteSetTheorems, TLAPS

Serial == ~overlapped => \A c, d \in Running : c = d
Room == ~overlapped /\ MaxMemory > 0 =>
          \A c \in Running : Sum(used, loading[c].bytes) <= MaxMemory
Fresh == ~overlapped => \A c \in Running : ~Loaded(loading[c].model)

Inv == TypeOK /\ Serial /\ Room /\ Fresh /\ BudgetHeld /\ LoadedIsHealthy

LEMMA SumType ==
  ASSUME NEW m \in 0..(Word - 1), NEW n \in 0..(Word - 1)
  PROVE  Sum(m, n) \in 0..(Word - 1)
BY RegistryAssumption DEF Sum

LEMMA SelectType ==
  ASSUME NEW q \in Requests, NEW devices \in SUBSET Backends, Select(devices, q) # None
  PROVE  Select(devices, q) \in Backends
<1>1. devices \subseteq Backends /\ q.preferred \in Backends \cup {None}
  BY RegistryAssumption DEF Request
<1>2. CASE q.preferred \in devices \cap Supported(q)
  BY <1>1, <1>2 DEF Select
<1>3. CASE q.preferred \notin devices \cap Supported(q)
  <2> DEFINE C == Candidates(devices, q)
  <2>1. C # {} /\ C \subseteq Backends
    BY <1>1, <1>3 DEF Select, Candidates
  <2>2. \E b \in C : \A d \in C : Rank[b] <= Rank[d]
    <3>1. CASE "cuda" \in C
      BY <2>1, <3>1 DEF Rank, Backends, GPUs
    <3>2. CASE "cuda" \notin C /\ "directml" \in C
      BY <2>1, <3>2 DEF Rank, Backends, GPUs
    <3>3. CASE "cuda" \notin C /\ "directml" \notin C /\ "coreml" \in C
      BY <2>1, <3>3 DEF Rank, Backends, GPUs
    <3>4. CASE "cuda" \notin C /\ "directml" \notin C /\ "coreml" \notin C /\ "openvino" \in C
      BY <2>1, <3>4 DEF Rank, Backends, GPUs
    <3>5. CASE C = {"cpu"}
      BY <3>5 DEF Rank
    <3> QED
      BY <2>1, <3>1, <3>2, <3>3, <3>4, <3>5 DEF Backends, GPUs
  <2>3. Select(devices, q) = CHOOSE b \in C : \A d \in C : Rank[b] <= Rank[d]
    BY <1>3, <2>1 DEF Select
  <2>4. Select(devices, q) \in C
    BY <2>2, <2>3
  <2> QED
    BY <2>1, <2>4
<1> QED
  BY <1>2, <1>3

LEMMA InitInv == Init => Inv
<1> SUFFICES ASSUME Init PROVE Inv
  OBVIOUS
<1>1. Running = {}
  BY DEF Init, Running
<1>2. TypeOK
  <2>1. used \in 0..(Word - 1) /\ charged \in [Models -> 0..(Word - 1)]
    BY RegistryAssumption DEF Init
  <2>2. \A m \in Models : specs[m] = None /\ states[m] = None
    BY DEF Init
  <2>3. \A c \in Callers : loading[c] = None
    BY DEF Init
  <2>4. /\ specs \in [Models -> ModelSpec \cup {None}]
        /\ states \in [Models -> State \cup {None}]
        /\ loading \in [Callers -> Load \cup {None}]
    BY DEF Init
  <2>5. /\ registers \in Nat /\ started \in Nat
        /\ overlapped \in BOOLEAN /\ wrapped \in BOOLEAN
    BY DEF Init
  <2> QED
    BY <2>1, <2>2, <2>3, <2>4, <2>5 DEF TypeOK
<1>3. \A m \in Models : ~Loaded(m)
  BY DEF Init, Loaded
<1> QED
  BY <1>1, <1>2, <1>3, RegistryAssumption
     DEF Inv, Serial, Room, Fresh, BudgetHeld, LoadedIsHealthy, Init

-----------------------------------------------------------------------------
(* One lemma per action. *)

LEMMA RegisterInv ==
  ASSUME Inv, NEW m \in Models, NEW s \in Specs, Register(m, s)
  PROVE  Inv'
<1>t. TypeOK /\ s \in ModelSpec
  BY RegistryAssumption DEF Inv
<1>1. /\ specs' = [specs EXCEPT ![m] = s]
      /\ UNCHANGED <<used, loading, charged, overlapped, wrapped, started>>
  BY DEF Register
<1>2. states'[m] \in State /\ states'[m] # None /\ \A n \in Models : n # m => states'[n] = states[n]
  <2>1. CASE states[m] = None
    <3>1. states'[m] = [loaded |-> FALSE, healthy |-> TRUE, backend |-> None]
      BY <1>t, <2>1 DEF Register, TypeOK
    <3>2. states'[m] \in State
      BY <3>1 DEF State
    <3>3. \A n \in Models : n # m => states'[n] = states[n]
      BY <1>t DEF Register, TypeOK
    <3> QED
      BY <3>2, <3>3, NoneIsNone
  <2>2. CASE states[m] # None
    BY <1>t, <2>2 DEF Register, TypeOK
  <2> QED
    BY <2>1, <2>2
<1>3. \A n \in Models : Loaded(n)' <=> Loaded(n)
  <2>1. CASE states[m] = None
    <3>1. ~Loaded(m) /\ ~Loaded(m)'
      BY <1>t, <2>1 DEF Register, TypeOK, Loaded
    <3> QED
      BY <3>1, <1>2 DEF Loaded
  <2>2. CASE states[m] # None
    BY <1>t, <2>2 DEF Register, TypeOK, Loaded
  <2> QED
    BY <2>1, <2>2
<1>4. \A n \in Models : Loaded(n) => states'[n].healthy = states[n].healthy
  <2>1. Loaded(m) => states'[m] = states[m]
    BY <1>t DEF Register, TypeOK, Loaded
  <2> QED
    BY <2>1, <1>2
<1>5. TypeOK'
  <2>1. specs' \in [Models -> ModelSpec \cup {None}] /\ specs'[m] = s /\ s # None
    BY <1>t, <1>1, NoneIsNone DEF TypeOK
  <2>2. states' \in [Models -> State \cup {None}]
    <3>1. states' = [n \in Models |-> states'[n]]
      BY <1>t DEF Register, TypeOK
    <3>2. \A n \in Models : states'[n] \in State \cup {None}
      BY <1>t, <1>2 DEF TypeOK
    <3> QED
      BY <3>1, <3>2
  <2>3. \A n \in Models : specs'[n] # None <=> states'[n] # None
    BY <1>t, <1>1, <1>2, <2>1 DEF TypeOK
  <2>4. \A c \in Callers : loading'[c] # None => states'[loading'[c].model] # None
    BY <1>t, <1>1, <1>2 DEF TypeOK, Load
  <2>5. registers' \in Nat
    BY <1>t DEF TypeOK, Register
  <2> QED
    BY <1>t, <1>1, <2>1, <2>2, <2>3, <2>4, <2>5 DEF TypeOK
<1>6. Running' = Running
  BY <1>1 DEF Running
<1>7. Serial' /\ Room' /\ BudgetHeld'
  BY <1>1, <1>6 DEF Inv, Serial, Room, BudgetHeld
<1>8. Fresh'
  BY <1>t, <1>1, <1>3, <1>6 DEF Inv, Fresh, Running, TypeOK, Load
<1>9. LoadedIsHealthy'
  BY <1>1, <1>3, <1>4 DEF Inv, LoadedIsHealthy
<1> QED
  BY <1>5, <1>7, <1>8, <1>9 DEF Inv

LEMMA RefuseInv ==
  ASSUME Inv, NEW m \in Models, NEW b, Refuse(m, b)
  PROVE  Inv'
<1>t. TypeOK
  BY DEF Inv
<1>1. specs[m] # None /\ states[m] # None /\ ~states[m].loaded
  BY <1>t DEF Refuse, Answered, TypeOK
<1>2. /\ states' = [states EXCEPT ![m].healthy = FALSE]
      /\ UNCHANGED <<specs, used, loading, charged, overlapped, wrapped, registers, started>>
  BY DEF Refuse
<1>3. states[m] \in State
  BY <1>t, <1>1 DEF TypeOK
<1>4. /\ states'[m] \in State /\ states'[m] # None /\ ~states'[m].loaded
      /\ states' \in [Models -> State \cup {None}]
      /\ \A n \in Models : n # m => states'[n] = states[n]
  <2>1. states'[m] = [states[m] EXCEPT !.healthy = FALSE]
    BY <1>t, <1>2 DEF TypeOK
  <2>2. states'[m] \in State /\ ~states'[m].loaded
    BY <2>1, <1>1, <1>3 DEF State
  <2> QED
    BY <1>t, <1>2, <2>1, <2>2, NoneIsNone DEF TypeOK
<1>5. TypeOK'
  <2>1. \A n \in Models : specs'[n] # None <=> states'[n] # None
    BY <1>t, <1>1, <1>2, <1>4 DEF TypeOK
  <2>2. \A c \in Callers : loading'[c] # None => states'[loading'[c].model] # None
    BY <1>t, <1>2, <1>4 DEF TypeOK, Load
  <2> QED
    BY <1>t, <1>2, <1>4, <2>1, <2>2 DEF TypeOK
<1>6. \A n \in Models : Loaded(n)' <=> Loaded(n)
  BY <1>1, <1>4 DEF Loaded
<1>7. Serial' /\ Room' /\ BudgetHeld'
  BY <1>2 DEF Inv, Serial, Room, BudgetHeld, Running
<1>8. Fresh'
  BY <1>t, <1>2, <1>6 DEF Inv, Fresh, Running, TypeOK, Load
<1>9. LoadedIsHealthy'
  BY <1>1, <1>2, <1>4, <1>6 DEF Inv, LoadedIsHealthy, Loaded
<1> QED
  BY <1>5, <1>7, <1>8, <1>9 DEF Inv

LEMMA StartLoadInv ==
  ASSUME Inv, NEW c \in Callers, NEW m \in Models, NEW b \in Backends,
         loading[c] = None, StartLoad(c, m, b)
  PROVE  Inv'
<1>t. TypeOK
  BY DEF Inv
<1> DEFINE l == [model |-> m, bytes |-> specs[m].bytes, backend |-> b]
<1>1. specs[m] \in ModelSpec /\ states[m] # None /\ ~states[m].loaded /\ ~Exceeds(specs[m])
  BY <1>t DEF StartLoad, Answered, TypeOK
<1>2. /\ loading' = [loading EXCEPT ![c] = l]
      /\ UNCHANGED <<specs, states, used, charged, registers>>
  BY DEF StartLoad
<1>3. l \in Load /\ l # None /\ l.model = m /\ l.bytes = specs[m].bytes
  <2>1. l \in Load
    BY <1>1 DEF Load, ModelSpec
  <2> QED
    BY <2>1, NoneIsNone
<1>4. loading'[c] = l /\ \A d \in Callers : d # c => loading'[d] = loading[d]
  BY <1>t, <1>2 DEF TypeOK
<1> HIDE DEF l
<1>5. TypeOK'
  <2>1. loading' \in [Callers -> Load \cup {None}]
    BY <1>t, <1>2, <1>3 DEF TypeOK
  <2>2. \A d \in Callers : loading'[d] # None => states'[loading'[d].model] # None
    BY <1>t, <1>1, <1>2, <1>3, <1>4 DEF TypeOK
  <2>3. overlapped' \in BOOLEAN /\ wrapped' \in BOOLEAN /\ started' \in Nat
    BY <1>t DEF TypeOK, StartLoad
  <2> QED
    BY <1>t, <1>2, <2>1, <2>2, <2>3 DEF TypeOK
<1>6. ~overlapped' => ~overlapped /\ Running' = {c}
  <2>1. ~overlapped' => ~overlapped /\ \A d \in Callers : loading[d] = None
    BY DEF StartLoad
  <2> QED
    BY <2>1, <1>3, <1>4 DEF Running
<1>7. Serial'
  BY <1>6 DEF Serial
<1>8. Room'
  <2>1. MaxMemory > 0 => ~(Sum(used, specs[m].bytes) > MaxMemory)
    BY <1>1 DEF Exceeds
  <2>2. used' = used /\ loading'[c].bytes = specs[m].bytes
    BY <1>2, <1>3, <1>4
  <2>3. Sum(used, specs[m].bytes) \in 0..(Word - 1)
    BY <1>t, <1>1, SumType DEF TypeOK, ModelSpec
  <2>4. MaxMemory > 0 => Sum(used', loading'[c].bytes) <= MaxMemory
    BY <2>1, <2>2, <2>3, RegistryAssumption
  <2> QED
    BY <1>6, <2>4 DEF Room, Sum
<1>9. Fresh'
  BY <1>1, <1>2, <1>3, <1>4, <1>6 DEF Fresh, Loaded
<1>10. BudgetHeld' /\ LoadedIsHealthy'
  BY <1>2, <1>6 DEF Inv, BudgetHeld, LoadedIsHealthy, Loaded
<1> QED
  BY <1>5, <1>7, <1>8, <1>9, <1>10 DEF Inv

(* What the end of a load leaves of the loads under way.                   *)
LEMMA LoadEnds ==
  ASSUME Inv, NEW c \in Callers, loading[c] # None, loading' = [loading EXCEPT ![c] = None],
         overlapped' = overlapped
  PROVE  /\ loading' \in [Callers -> Load \cup {None}]
         /\ \A d \in Callers : loading'[d] # None => loading'[d] = loading[d]
         /\ ~overlapped => Running' = {}
         /\ loading[c] \in Load
<1>t. TypeOK
  BY DEF Inv
<1>1. loading'[c] = None /\ \A d \in Callers : d # c => loading'[d] = loading[d]
  BY <1>t DEF TypeOK
<1>2. ~overlapped => \A d \in Callers : loading[d] # None => d = c
  BY DEF Inv, Serial, Running
<1> QED
  BY <1>t, <1>1, <1>2 DEF TypeOK, Running

LEMMA LoadFailsInv ==
  ASSUME Inv, NEW c \in Callers, LoadFails(c)
  PROVE  Inv'
<1>t. TypeOK
  BY DEF Inv
<1> DEFINE m == loading[c].model
           b == loading[c].backend
<1>1. /\ loading[c] # None
      /\ states' = [states EXCEPT ![m] = [@ EXCEPT !.healthy = FALSE, !.backend = b]]
      /\ loading' = [loading EXCEPT ![c] = None]
      /\ UNCHANGED <<specs, used, charged, overlapped, wrapped, registers, started>>
  BY DEF LoadFails
<1>2. /\ loading' \in [Callers -> Load \cup {None}]
      /\ \A d \in Callers : loading'[d] # None => loading'[d] = loading[d]
      /\ ~overlapped => Running' = {}
      /\ loading[c] \in Load
  BY <1>1, LoadEnds
<1>3. m \in Models /\ b \in Backends
  BY <1>2 DEF Load
<1>4. states[m] \in State /\ states[m] # None
  BY <1>t, <1>1, <1>3 DEF TypeOK
<1>5. ~overlapped => ~states[m].loaded
  BY <1>1, <1>4 DEF Inv, Fresh, Running, Loaded
<1> HIDE DEF m, b
<1>6. /\ states' \in [Models -> State \cup {None}]
      /\ states'[m] # None /\ states'[m].loaded = states[m].loaded
      /\ \A n \in Models : n # m => states'[n] = states[n]
  <2>1. states'[m] = [states[m] EXCEPT !.healthy = FALSE, !.backend = b]
    BY <1>t, <1>1, <1>3 DEF TypeOK
  <2>2. states'[m] \in State /\ states'[m].loaded = states[m].loaded
    BY <2>1, <1>3, <1>4 DEF State
  <2> QED
    BY <1>t, <1>1, <1>3, <2>1, <2>2, NoneIsNone DEF TypeOK
<1>7. TypeOK'
  <2>1. \A n \in Models : specs'[n] # None <=> states'[n] # None
    BY <1>t, <1>1, <1>3, <1>4, <1>6 DEF TypeOK
  <2>2. \A d \in Callers : loading'[d] # None => states'[loading'[d].model] # None
    <3> SUFFICES ASSUME NEW d \in Callers, loading'[d] # None
                 PROVE  states'[loading'[d].model] # None
      OBVIOUS
    <3>1. loading'[d] = loading[d] /\ loading[d] \in Load
      BY <1>t, <1>2 DEF TypeOK
    <3>2. loading[d].model \in Models /\ states[loading[d].model] # None
      BY <1>t, <3>1 DEF TypeOK, Load
    <3> QED
      BY <1>6, <3>1, <3>2
  <2> QED
    BY <1>t, <1>1, <1>2, <1>6, <2>1, <2>2 DEF TypeOK
<1>8. Serial' /\ Room' /\ Fresh'
  BY <1>1, <1>2 DEF Serial, Room, Fresh
<1>9. BudgetHeld'
  BY <1>1 DEF Inv, BudgetHeld
<1>10. LoadedIsHealthy'
  BY <1>1, <1>3, <1>5, <1>6 DEF Inv, LoadedIsHealthy, Loaded
<1> QED
  BY <1>7, <1>8, <1>9, <1>10 DEF Inv

LEMMA LoadSucceedsInv ==
  ASSUME Inv, NEW c \in Callers, LoadSucceeds(c)
  PROVE  Inv'
<1>t. TypeOK
  BY DEF Inv
<1> DEFINE m == loading[c].model
           b == loading[c].backend
           n == loading[c].bytes
           new == [loaded |-> TRUE, healthy |-> TRUE, backend |-> b]
<1>1. /\ loading[c] # None
      /\ states' = [states EXCEPT ![m] = new]
      /\ used' = Sum(used, n)
      /\ wrapped' = (wrapped \/ used + n >= Word)
      /\ charged' = [charged EXCEPT ![m] = n]
      /\ loading' = [loading EXCEPT ![c] = None]
      /\ UNCHANGED <<specs, overlapped, registers, started>>
  BY DEF LoadSucceeds
<1>2. /\ loading' \in [Callers -> Load \cup {None}]
      /\ \A d \in Callers : loading'[d] # None => loading'[d] = loading[d]
      /\ ~overlapped => Running' = {}
      /\ loading[c] \in Load
  BY <1>1, LoadEnds
<1>3. m \in Models /\ b \in Backends /\ n \in 0..(Word - 1)
  BY <1>2 DEF Load
<1>4. states[m] # None
  BY <1>t, <1>1, <1>3 DEF TypeOK
<1>5. new \in State /\ new # None /\ new.healthy
  <2>1. new \in State
    BY <1>3 DEF State
  <2> QED
    BY <2>1, NoneIsNone
<1>6. ~overlapped /\ MaxMemory > 0 => Sum(used, n) <= MaxMemory
  BY <1>1 DEF Inv, Room, Running
<1> HIDE DEF m, b, n, new
<1>7. /\ states' \in [Models -> State \cup {None}] /\ states'[m] = new
      /\ \A k \in Models : k # m => states'[k] = states[k]
  BY <1>t, <1>1, <1>3, <1>5 DEF TypeOK
<1>8. TypeOK'
  <2>1. \A k \in Models : specs'[k] # None <=> states'[k] # None
    BY <1>t, <1>1, <1>3, <1>4, <1>5, <1>7 DEF TypeOK
  <2>2. \A d \in Callers : loading'[d] # None => states'[loading'[d].model] # None
    <3> SUFFICES ASSUME NEW d \in Callers, loading'[d] # None
                 PROVE  states'[loading'[d].model] # None
      OBVIOUS
    <3>1. loading'[d] = loading[d] /\ loading[d] \in Load
      BY <1>t, <1>2 DEF TypeOK
    <3>2. loading[d].model \in Models /\ states[loading[d].model] # None
      BY <1>t, <3>1 DEF TypeOK, Load
    <3> QED
      BY <1>5, <1>7, <3>1, <3>2
  <2>3. used' \in 0..(Word - 1)
    BY <1>t, <1>1, <1>3, SumType DEF TypeOK
  <2>4. charged' \in [Models -> 0..(Word - 1)]
    BY <1>t, <1>1, <1>3 DEF TypeOK
  <2>5. wrapped' \in BOOLEAN
    BY <1>t, <1>1 DEF TypeOK
  <2> QED
    BY <1>t, <1>1, <1>2, <1>7, <2>1, <2>2, <2>3, <2>4, <2>5 DEF TypeOK
<1>9. Serial' /\ Room' /\ Fresh'
  BY <1>1, <1>2 DEF Serial, Room, Fresh
<1>10. BudgetHeld'
  BY <1>1, <1>6 DEF BudgetHeld
<1>11. LoadedIsHealthy'
  BY <1>1, <1>3, <1>5, <1>7 DEF Inv, LoadedIsHealthy, Loaded
<1> QED
  BY <1>8, <1>9, <1>10, <1>11 DEF Inv

LEMMA StutterInv ==
  ASSUME Inv, UNCHANGED vars
  PROVE  Inv'
<1>1. TypeOK'
  BY DEF Inv, vars, TypeOK
<1>2. Serial' /\ Room' /\ Fresh'
  BY DEF Inv, vars, Serial, Room, Fresh, Running, Loaded
<1>3. BudgetHeld' /\ LoadedIsHealthy'
  BY DEF Inv, vars, BudgetHeld, LoadedIsHealthy, Loaded
<1> QED
  BY <1>1, <1>2, <1>3 DEF Inv

LEMMA EnsureLoadedInv ==
  ASSUME Inv, NEW c \in Callers, NEW m \in Models, NEW q \in Requests,
         NEW gpus \in Enabled, EnsureLoaded(c, m, q, gpus)
  PROVE  Inv'
<1>1. CASE Refuse(m, Select(Detect(gpus), q))
  BY <1>1, RefuseInv
<1>2. CASE StartLoad(c, m, Select(Detect(gpus), q))
  <2>1. Select(Detect(gpus), q) # None
    BY <1>2 DEF StartLoad, Answered
  <2>2. Detect(gpus) \subseteq Backends
    BY RegistryAssumption DEF Detect, Backends
  <2>3. Select(Detect(gpus), q) \in Backends
    BY <2>1, <2>2, SelectType
  <2> QED
    BY <1>2, <2>3, StartLoadInv DEF EnsureLoaded
<1> QED
  BY <1>1, <1>2 DEF EnsureLoaded

(* Every state of every behaviour satisfies the inductive invariant.       *)
THEOREM Invariance == Spec => []Inv
<1>1. Inv /\ [Next]_vars => Inv'
  <2> SUFFICES ASSUME Inv, [Next]_vars PROVE Inv'
    OBVIOUS
  <2>1. ASSUME NEW m \in Models, NEW s \in Specs, Register(m, s) PROVE Inv'
    BY <2>1, RegisterInv
  <2>2. ASSUME NEW c \in Callers, NEW m \in Models, NEW q \in Requests,
               NEW gpus \in Enabled, EnsureLoaded(c, m, q, gpus)
        PROVE  Inv'
    BY <2>2, EnsureLoadedInv
  <2>3. ASSUME NEW c \in Callers, LoadFails(c) PROVE Inv'
    BY <2>3, LoadFailsInv
  <2>4. ASSUME NEW c \in Callers, LoadSucceeds(c) PROVE Inv'
    BY <2>4, LoadSucceedsInv
  <2>5. CASE UNCHANGED vars
    BY <2>5, StutterInv
  <2> QED
    BY <2>1, <2>2, <2>3, <2>4, <2>5 DEF Next
<1> QED
  BY InitInv, <1>1, PTL DEF Spec

(* The types of the registry's state, in every reachable state.            *)
THEOREM TypeCorrect == Spec => []TypeOK
<1>1. Inv => TypeOK
  BY DEF Inv
<1> QED
  BY Invariance, <1>1, PTL

(* Loads that do not overlap keep the memory counted within the budget.    *)
THEOREM BudgetRespected == Spec => []BudgetHeld
<1>1. Inv => BudgetHeld
  BY DEF Inv
<1> QED
  BY Invariance, <1>1, PTL

(* And leave every loaded model healthy.                                   *)
THEOREM LoadedHealthy == Spec => []LoadedIsHealthy
<1>1. Inv => LoadedIsHealthy
  BY DEF Inv
<1> QED
  BY Invariance, <1>1, PTL

(* A loaded model stays loaded, overlapping calls or not.                  *)
THEOREM StaysLoaded == Spec => LoadedForGood
<1> DEFINE Stays == \A m \in Models : Loaded(m) => Loaded(m)'
<1>1. Inv /\ [Next]_vars => [Stays]_vars
  <2> SUFFICES ASSUME Inv, Next, NEW k \in Models, Loaded(k) PROVE Loaded(k)'
    OBVIOUS
  <2>t. TypeOK
    BY DEF Inv
  <2>1. ASSUME NEW m \in Models, NEW s \in Specs, Register(m, s) PROVE Loaded(k)'
    <3>1. states'[k] = states[k]
      BY <2>t, <2>1 DEF Register, TypeOK, Loaded
    <3> QED
      BY <3>1 DEF Loaded
  <2>2. ASSUME NEW m \in Models, NEW b, Refuse(m, b) PROVE Loaded(k)'
    <3>1. m # k
      BY <2>2 DEF Refuse, Answered, Loaded
    <3> QED
      BY <2>t, <2>2, <3>1 DEF Refuse, TypeOK, Loaded
  <2>3. ASSUME NEW c \in Callers, NEW m \in Models, NEW b, StartLoad(c, m, b) PROVE Loaded(k)'
    BY <2>3 DEF StartLoad, Loaded
  <2>4. ASSUME NEW c \in Callers, LoadFails(c) PROVE Loaded(k)'
    <3>1. loading[c] \in Load
      BY <2>t, <2>4 DEF LoadFails, TypeOK
    <3>2. loading[c].model \in Models
      BY <3>1 DEF Load
    <3>3. CASE loading[c].model # k
      BY <2>t, <2>4, <3>2, <3>3 DEF LoadFails, TypeOK, Loaded
    <3>4. CASE loading[c].model = k
      <4>1. states[k] \in State
        BY <2>t DEF TypeOK, Loaded
      <4>2. states'[k] = [states[k] EXCEPT !.healthy = FALSE, !.backend = loading[c].backend]
        BY <2>t, <2>4, <3>4 DEF LoadFails, TypeOK
      <4>3. states'[k] \in State /\ states'[k].loaded = states[k].loaded
        BY <3>1, <4>1, <4>2 DEF State, Load
      <4> QED
        BY <4>3, NoneIsNone DEF Loaded
    <3> QED
      BY <3>3, <3>4
  <2>5. ASSUME NEW c \in Callers, LoadSucceeds(c) PROVE Loaded(k)'
    <3>1. loading[c] \in Load
      BY <2>t, <2>5 DEF LoadSucceeds, TypeOK
    <3>2. loading[c].model \in Models /\ loading[c].backend \in Backends
      BY <3>1 DEF Load
    <3>3. CASE loading[c].model # k
      BY <2>t, <2>5, <3>2, <3>3 DEF LoadSucceeds, TypeOK, Loaded
    <3>4. CASE loading[c].model = k
      <4>1. states'[k] = [loaded |-> TRUE, healthy |-> TRUE, backend |-> loading[c].backend]
        BY <2>t, <2>5, <3>4 DEF LoadSucceeds, TypeOK
      <4>2. states'[k] \in State /\ states'[k].loaded
        BY <3>2, <4>1 DEF State
      <4> QED
        BY <4>2, NoneIsNone DEF Loaded
    <3> QED
      BY <3>3, <3>4
  <2> QED
    BY <2>1, <2>2, <2>3, <2>4, <2>5 DEF Next, EnsureLoaded
<1> QED
  BY Invariance, <1>1, PTL DEF Spec, LoadedForGood

-----------------------------------------------------------------------------
(* Sums.  The fold in Total is a recursive function on the subsets of a    *)
(* set.  The library's induction theorems take a predicate as parameter;   *)
(* its theorem on minimal elements takes a set, and that is what induction *)
(* is reduced to here: Good is the set of what has been shown.             *)

(* What holds of a set when it holds of all that lack one of its elements  *)
(* holds of every finite set.                                              *)
LEMMA SetInduction ==
  ASSUME NEW S, IsFiniteSet(S), NEW Good,
         \A T \in SUBSET S : (\A x \in T : T \ {x} \in Good) => T \in Good
  PROVE  S \in Good
<1> SUFFICES ASSUME S \notin Good PROVE FALSE
  OBVIOUS
<1> DEFINE Bad == (SUBSET S) \ Good
<1>1. IsWellFoundedOn(StrictSubsetOrdering(S), SUBSET S)
  <2>1. IsWellFoundedOn(StrictSubsetOrdering(S), FiniteSubsetsOf(S))
    BY FS_StrictSubsetOrderingWellFounded
  <2>2. FiniteSubsetsOf(S) = SUBSET S
    BY FS_FiniteSubsetsOfFinite
  <2> QED
    BY <2>1, <2>2
<1>2. Bad \subseteq SUBSET S /\ Bad # {}
  OBVIOUS
<1>3. PICK T \in Bad : \A U \in Bad : ~(<<U, T>> \in StrictSubsetOrdering(S))
  <2> HIDE DEF Bad
  <2> QED
    BY <1>1, <1>2, WFMin
<1>4. PICK x \in T : T \ {x} \notin Good
  BY <1>3
<1>5. T \ {x} \in Bad /\ T \in SUBSET S /\ T \ {x} # T
  BY <1>3, <1>4
<1>6. <<T \ {x}, T>> \in StrictSubsetOrdering(S)
  BY <1>5 DEF StrictSubsetOrdering
<1> QED
  BY <1>3, <1>5, <1>6

(* The same for natural numbers.                                           *)
LEMMA NumberInduction ==
  ASSUME NEW Good, 0 \in Good, \A n \in Nat : n \in Good => n + 1 \in Good
  PROVE  Nat \subseteq Good
<1> DEFINE Bad == Nat \ Good
           Before == OpToRel(<, Nat)
<1> SUFFICES ASSUME Bad # {} PROVE FALSE
  OBVIOUS
<1>1. \A k, l \in Nat : k < l => <<k, l>> \in Before
  BY DEF OpToRel
<1>2. IsWellFoundedOn(Before, Nat)
  BY NatLessThanWellFounded
<1> HIDE DEF Before
<1>3. PICK n \in Bad : \A k \in Bad : ~(<<k, n>> \in Before)
  <2>1. Bad \subseteq Nat
    OBVIOUS
  <2> HIDE DEF Bad
  <2> QED
    BY <1>2, <2>1, WFMin
<1>4. n \in Nat /\ n # 0
  OBVIOUS
<1>5. n - 1 \in Nat /\ (n - 1) + 1 = n /\ n - 1 < n
  BY <1>4
<1>6. n - 1 \in Bad
  BY <1>3, <1>5
<1> QED
  BY <1>1, <1>3, <1>4, <1>5, <1>6

Pick(s) == CHOOSE x \in s : TRUE
Value(amount, f, s) == IF s = {} THEN 0 ELSE amount[Pick(s)] + f[s \ {Pick(s)}]
Defines(amount, f, D) == f = [s \in D |-> Value(amount, f, s)]
Iter(amount, S) == CHOOSE f : Defines(amount, f, SUBSET S)

(* A total is where the function that the fold defines ends.               *)
LEMMA TotalIsIter ==
  ASSUME NEW S, NEW amount
  PROVE  Total(amount, S) = Iter(amount, S)[S]
BY DEF Total, MapThenSumSet, MapThenFoldSet, Iter, Defines, Value, Pick

(* The element that the fold adds first is one of the set.                 *)
LEMMA PickIn == ASSUME NEW s, s # {} PROVE Pick(s) \in s
BY DEF Pick

(* There is such a function on the subsets of a finite set: one on those   *)
(* of each size, by induction.                                             *)
LEMMA IterExists ==
  ASSUME NEW S, IsFiniteSet(S), NEW amount
  PROVE  Defines(amount, Iter(amount, S), SUBSET S)
<1> DEFINE Level(n) == {s \in SUBSET S : Cardinality(s) <= n}
           Good == {n \in Nat : \E f : Defines(amount, f, Level(n))}
<1>1. ASSUME NEW T \in SUBSET S PROVE Cardinality(T) \in Nat
  BY FS_Subset, FS_CardinalityType
<1>2. ASSUME NEW T \in SUBSET S, T # {}
       PROVE  Pick(T) \in T /\ Cardinality(T \ {Pick(T)}) = Cardinality(T) - 1
  BY <1>2, PickIn, FS_Subset, FS_RemoveElement
<1>3. 0 \in Good
  <2> DEFINE f == [s \in Level(0) |-> 0]
  <2>1. \A T \in Level(0) : T = {}
    <3> SUFFICES ASSUME NEW T \in Level(0) PROVE T = {}
      OBVIOUS
    <3>1. IsFiniteSet(T) /\ Cardinality(T) = 0
      BY <1>1, FS_Subset
    <3> QED
      BY <3>1, FS_EmptySet
  <2>2. Defines(amount, f, Level(0))
    <3> HIDE DEF Level
    <3> QED
      BY <2>1 DEF Defines, Value
  <2> QED
    BY <2>2
<1>4. ASSUME NEW n \in Nat, n \in Good PROVE n + 1 \in Good
  <2>1. PICK g : Defines(amount, g, Level(n))
    BY <1>4
  <2> DEFINE f == [s \in Level(n + 1) |-> Value(amount, g, s)]
  <2>2. \A s \in Level(n + 1) : s # {} => s \ {Pick(s)} \in Level(n) /\ s \ {Pick(s)} \in Level(n + 1)
    BY <1>1, <1>2
  <2>3. \A s \in Level(n) : s \in Level(n + 1) /\ f[s] = g[s]
    <3>1. \A s \in Level(n) : s \in Level(n + 1)
      BY <1>1
    <3>2. \A s \in Level(n) : g[s] = Value(amount, g, s)
      <4> HIDE DEF Level
      <4> QED
        BY <2>1 DEF Defines
    <3> QED
      BY <3>1, <3>2
  <2>4. \A s \in Level(n + 1) : Value(amount, g, s) = Value(amount, f, s)
    <3> HIDE DEF Level, f
    <3> QED
      BY <2>2, <2>3 DEF Value
  <2>5. Defines(amount, f, Level(n + 1))
    <3> HIDE DEF Level
    <3> QED
      BY <2>4 DEF Defines
  <2> HIDE DEF f, Level
  <2> QED
    BY <2>5
<1>5. Cardinality(S) \in Good
  <2>1. Cardinality(S) \in Nat
    BY <1>1
  <2> HIDE DEF Good
  <2>2. Nat \subseteq Good
    BY <1>3, <1>4, NumberInduction
  <2> QED
    BY <2>1, <2>2
<1>6. Level(Cardinality(S)) = SUBSET S
  BY FS_Subset
<1>7. PICK f : Defines(amount, f, SUBSET S)
  BY <1>5, <1>6
<1> QED
  BY <1>7 DEF Iter

(* Two definitions agree where both define.                                *)
LEMMA IterAgrees ==
  ASSUME NEW S, IsFiniteSet(S), NEW amount, NEW U \in SUBSET S
  PROVE  Iter(amount, S)[U] = Total(amount, U)
<1> DEFINE f == Iter(amount, S)
           g == Iter(amount, U)
           Good == {T \in SUBSET U : f[T] = g[T]}
<1>1. IsFiniteSet(U)
  BY FS_Subset
<1>2. Defines(amount, f, SUBSET S) /\ Defines(amount, g, SUBSET U)
  BY <1>1, IterExists
<1>3. \A T \in SUBSET U : (\A x \in T : T \ {x} \in Good) => T \in Good
  <2> SUFFICES ASSUME NEW T \in SUBSET U, \A x \in T : T \ {x} \in Good
      PROVE f[T] = g[T]
    OBVIOUS
  <2>1. f[T] = Value(amount, f, T) /\ g[T] = Value(amount, g, T)
    <3> HIDE DEF f, g
    <3> QED
      BY <1>2 DEF Defines
  <2>2. T # {} => f[T \ {Pick(T)}] = g[T \ {Pick(T)}]
    BY PickIn
  <2> HIDE DEF f, g
  <2> QED
    BY <2>1, <2>2 DEF Value
<1>4. U \in Good
  <2> HIDE DEF Good
  <2> QED
    BY <1>1, <1>3, SetInduction
<1> QED
  BY <1>4, TotalIsIter

(* A total by its definition, without the function.                        *)
LEMMA TotalValue ==
  ASSUME NEW S, IsFiniteSet(S), NEW amount
  PROVE  /\ S = {} => Total(amount, S) = 0
         /\ S # {} => Total(amount, S) = amount[Pick(S)] + Total(amount, S \ {Pick(S)})
<1>1. Iter(amount, S)[S] = Value(amount, Iter(amount, S), S)
  <2> DEFINE f == Iter(amount, S)
  <2>1. Defines(amount, f, SUBSET S)
    BY IterExists
  <2> HIDE DEF f
  <2>2. f[S] = Value(amount, f, S)
    BY <2>1 DEF Defines
  <2> QED
    BY <2>2 DEF f
<1>2. Iter(amount, S)[S \ {Pick(S)}] = Total(amount, S \ {Pick(S)})
  BY IterAgrees
<1> QED
  BY <1>1, <1>2, TotalIsIter DEF Value

(* A total of natural numbers is one.                                      *)
LEMMA TotalType ==
  ASSUME NEW S, IsFiniteSet(S), NEW amount, \A x \in S : amount[x] \in Nat
  PROVE  Total(amount, S) \in Nat
<1> DEFINE Good == {T \in SUBSET S : Total(amount, T) \in Nat}
<1>1. \A T \in SUBSET S : (\A x \in T : T \ {x} \in Good) => T \in Good
  <2> SUFFICES ASSUME NEW T \in SUBSET S, \A x \in T : T \ {x} \in Good
      PROVE Total(amount, T) \in Nat
    OBVIOUS
  <2>1. IsFiniteSet(T)
    BY FS_Subset
  <2>2. CASE T = {}
    BY <2>1, <2>2, TotalValue
  <2>3. CASE T # {}
    <3>1. Pick(T) \in T /\ Total(amount, T \ {Pick(T)}) \in Nat /\ amount[Pick(T)] \in Nat
      BY <2>3, PickIn
    <3>2. Total(amount, T) = amount[Pick(T)] + Total(amount, T \ {Pick(T)})
      BY <2>1, <2>3, TotalValue
    <3> QED
      BY <3>1, <3>2
  <2> QED
    BY <2>2, <2>3
<1> HIDE DEF Good
<1>2. S \in Good
  BY <1>1, SetInduction
<1> QED
  BY <1>2 DEF Good

(* The order does not matter. *)
LEMMA TotalWithout ==
  ASSUME NEW S, IsFiniteSet(S), NEW amount, \A x \in S : amount[x] \in Nat, NEW x \in S
  PROVE  Total(amount, S) = amount[x] + Total(amount, S \ {x})
<1> DEFINE Splits(T) == \A y \in T : Total(amount, T) = amount[y] + Total(amount, T \ {y})
           Good == {T \in SUBSET S : Splits(T)}
<1>1. \A T \in SUBSET S : (\A y \in T : T \ {y} \in Good) => T \in Good
  <2> SUFFICES ASSUME NEW T \in SUBSET S, \A y \in T : T \ {y} \in Good, NEW z \in T
      PROVE Total(amount, T) = amount[z] + Total(amount, T \ {z})
    OBVIOUS
  <2> DEFINE p == Pick(T)
  <2>1. IsFiniteSet(T) /\ p \in T
    BY FS_Subset, PickIn
  <2> HIDE DEF p
  <2>2. Total(amount, T) = amount[p] + Total(amount, T \ {p})
    BY <2>1, TotalValue DEF p
  <2>3. CASE z = p
    BY <2>2, <2>3
  <2>4. CASE z # p
    <3>1. z \in T \ {p} /\ p \in T \ {z}
      BY <2>1, <2>4
    <3>2. Total(amount, T \ {p}) = amount[z] + Total(amount, (T \ {p}) \ {z})
      BY <2>1, <3>1
    <3>3. Total(amount, T \ {z}) = amount[p] + Total(amount, (T \ {z}) \ {p})
      BY <2>1, <3>1
    <3>4. (T \ {p}) \ {z} = (T \ {z}) \ {p}
      OBVIOUS
    <3>5. amount[z] \in Nat /\ amount[p] \in Nat
      BY <2>1
    <3>6. Total(amount, (T \ {z}) \ {p}) \in Nat
      <4>1. IsFiniteSet((T \ {z}) \ {p})
        BY <2>1, FS_RemoveElement
      <4> QED
        BY <4>1, TotalType
    <3> QED
      BY <2>2, <3>2, <3>3, <3>4, <3>5, <3>6
  <2> QED
    BY <2>3, <2>4
<1>2. S \in Good
  <2> HIDE DEF Good
  <2> QED
    BY <1>1, SetInduction
<1> QED
  BY <1>2

(* A total depends on the amounts of the set alone.                        *)
LEMMA TotalAgrees ==
  ASSUME NEW S, IsFiniteSet(S), NEW f, NEW g, \A x \in S : f[x] = g[x]
  PROVE  Total(f, S) = Total(g, S)
<1> DEFINE Good == {T \in SUBSET S : Total(f, T) = Total(g, T)}
<1>1. \A T \in SUBSET S : (\A y \in T : T \ {y} \in Good) => T \in Good
  <2> SUFFICES ASSUME NEW T \in SUBSET S, \A y \in T : T \ {y} \in Good
      PROVE Total(f, T) = Total(g, T)
    OBVIOUS
  <2>1. IsFiniteSet(T)
    BY FS_Subset
  <2>2. CASE T = {}
    BY <2>1, <2>2, TotalValue
  <2>3. CASE T # {}
    <3>1. Pick(T) \in T /\ Total(f, T \ {Pick(T)}) = Total(g, T \ {Pick(T)})
      BY <2>3, PickIn
    <3>2. /\ Total(f, T) = f[Pick(T)] + Total(f, T \ {Pick(T)})
          /\ Total(g, T) = g[Pick(T)] + Total(g, T \ {Pick(T)})
      BY <2>1, <2>3, TotalValue
    <3> QED
      BY <3>1, <3>2
  <2> QED
    BY <2>2, <2>3
<1> HIDE DEF Good
<1>2. S \in Good
  BY <1>1, SetInduction
<1> QED
  BY <1>2 DEF Good

(* A total of amounts within a bound.                                      *)
LEMMA TotalBound ==
  ASSUME NEW S, IsFiniteSet(S), NEW B \in Nat, NEW amount,
         \A x \in S : amount[x] \in 0 .. B
  PROVE  Total(amount, S) <= Cardinality(S) * B
<1> DEFINE Good == {T \in SUBSET S : Total(amount, T) <= Cardinality(T) * B}
<1>1. \A T \in SUBSET S : (\A y \in T : T \ {y} \in Good) => T \in Good
  <2> SUFFICES ASSUME NEW T \in SUBSET S, \A y \in T : T \ {y} \in Good
      PROVE Total(amount, T) <= Cardinality(T) * B
    OBVIOUS
  <2>1. IsFiniteSet(T)
    BY FS_Subset
  <2>2. CASE T = {}
    BY <2>1, <2>2, TotalValue, FS_EmptySet
  <2>3. CASE T # {}
    <3> DEFINE p == Pick(T)
               n == Cardinality(T \ {p})
    <3>1. p \in T
      BY <2>3, PickIn
    <3>0. IsFiniteSet(T \ {p}) /\ Cardinality(T) \in Nat /\ n = Cardinality(T) - 1 /\ n \in Nat
      <4> HIDE DEF p
      <4>1. IsFiniteSet(T \ {p}) /\ n = Cardinality(T) - 1
        BY <2>1, <3>1, FS_RemoveElement
      <4>2. Cardinality(T) \in Nat /\ n \in Nat
        BY <2>1, <4>1, FS_CardinalityType
      <4> QED
        BY <4>1, <4>2
    <3>2. n \in Nat /\ Cardinality(T) = n + 1
      <4> HIDE DEF n
      <4> QED
        BY <3>0
    <3>3. Total(amount, T \ {p}) <= n * B
      BY <3>1
    <3>4. amount[p] \in Nat /\ amount[p] <= B /\ Total(amount, T \ {p}) \in Nat
      <4> HIDE DEF p, n
      <4>1. \A x \in T \ {p} : amount[x] \in Nat
        OBVIOUS
      <4> QED
        BY <3>0, <3>1, <4>1, TotalType
    <3>5. Total(amount, T) = amount[p] + Total(amount, T \ {p})
      BY <2>1, <2>3, TotalValue
    <3> HIDE DEF n, p
    <3>6. (n + 1) * B = n * B + B /\ n * B \in Nat
      BY <3>2
    <3> QED
      BY <3>2, <3>3, <3>4, <3>5, <3>6
  <2> QED
    BY <2>2, <2>3
<1> HIDE DEF Good
<1>2. S \in Good
  BY <1>1, SetInduction
<1> QED
  BY <1>2 DEF Good

-----------------------------------------------------------------------------
(* What is resident, and what will be. *)

(* Without overlapping calls the amount counted is that of the models that *)
(* are loaded.                                                             *)
Counted == IsFiniteSet(Resident) /\ (~overlapped /\ ~wrapped => used = Total(charged, Resident))

(* Each load under way was admitted by itself.                             *)
Admitted == ~wrapped /\ MaxMemory > 0 => \A c \in Running : loading[c].bytes <= MaxMemory

(* One more bound in a product.                                            *)
LEMMA Times ==
  ASSUME NEW k \in Nat, NEW n \in Nat, NEW M \in Nat, k + 1 <= n
  PROVE  k * M + M <= n * M /\ k * M \in Nat
<1> DEFINE d == n - (k + 1)
<1>1. d \in Nat /\ n = k + 1 + d
  OBVIOUS
<1> HIDE DEF d
<1>2. (k + 1 + d) * M = k * M + M + d * M /\ d * M \in Nat /\ k * M \in Nat
  BY <1>1
<1> QED
  BY <1>1, <1>2

(* What a load under way takes is an amount.                               *)
LEMMA AmountsType ==
  ASSUME TypeOK, NEW c \in Running
  PROVE  Amounts[c] = loading[c].bytes /\ Amounts[c] \in 0 .. (Word - 1) /\ Amounts[c] \in Nat
<1>1. loading[c] \in Load
  BY DEF TypeOK, Running
<1> QED
  BY <1>1, RegistryAssumption DEF Amounts, Load

(* Nothing of this changes where neither models nor loads do.              *)
LEMMA SumsKept ==
  ASSUME Counted, Admitted, UNCHANGED <<loading, charged, used, overlapped, wrapped>>,
         Resident' = Resident
  PROVE  Counted' /\ Admitted' /\ (OvershootBounded => OvershootBounded')
<1>1. Running' = Running
  BY DEF Running
<1>2. Amounts' = Amounts
  BY <1>1 DEF Amounts
<1>3. Total(charged, Resident)' = Total(charged, Resident)
  OBVIOUS
<1>4. Total(Amounts, Running)' = Total(Amounts, Running)
  BY <1>1, <1>2
<1> QED
  BY <1>1, <1>2, <1>3, <1>4 DEF Counted, Admitted, OvershootBounded

(* The end of a load takes it from those under way.                        *)
LEMMA FewerRunning ==
  ASSUME TypeOK, IsFiniteSet(Callers), NEW c \in Running,
         loading' = [loading EXCEPT ![c] = None]
  PROVE  /\ Running' = Running \ {c}
         /\ Total(Amounts, Running) = loading[c].bytes + Total(Amounts', Running')
         /\ Total(Amounts', Running') \in Nat
<1>1. Running' = Running \ {c} /\ \A d \in Running' : loading'[d] = loading[d]
  BY DEF TypeOK, Running
<1>2. \A d \in Running' : Amounts'[d] = Amounts[d]
  BY <1>1 DEF Amounts
<1>3. IsFiniteSet(Running) /\ IsFiniteSet(Running')
  BY <1>1, FS_Subset DEF Running
<1>4. Total(Amounts', Running') = Total(Amounts, Running')
  BY <1>2, <1>3, TotalAgrees
<1>5. \A d \in Running : Amounts[d] \in Nat
  BY AmountsType
<1>6. Total(Amounts, Running) = Amounts[c] + Total(Amounts, Running \ {c})
  BY <1>3, <1>5, TotalWithout
<1>7. Total(Amounts, Running') \in Nat
  BY <1>1, <1>3, <1>5, TotalType
<1> QED
  BY <1>1, <1>4, <1>6, <1>7, AmountsType

(* A load is admitted only if what it adds to the amount counted is within *)
(* the budget: each of the others adds a budget at most.                   *)
LEMMA StartSums ==
  ASSUME Inv, Counted, Admitted, NEW c \in Callers, NEW m \in Models, NEW b \in Backends,
         loading[c] = None, StartLoad(c, m, b)
  PROVE  /\ Counted' /\ Admitted'
         /\ IsFiniteSet(Callers) /\ OvershootBounded => OvershootBounded'
<1> DEFINE l == [model |-> m, bytes |-> specs[m].bytes, backend |-> b]
<1>t. TypeOK /\ specs[m] \in ModelSpec
  BY DEF Inv, StartLoad, Answered, TypeOK
<1>1. /\ loading' = [loading EXCEPT ![c] = l]
      /\ UNCHANGED <<states, used, charged>>
      /\ ~overlapped' => ~overlapped
      /\ ~wrapped' => ~wrapped /\ ~(used + specs[m].bytes >= Word)
  BY DEF StartLoad
<1>2. used \in Nat /\ specs[m].bytes \in Nat /\ MaxMemory \in Nat /\ Word \in Nat
  BY <1>t, RegistryAssumption DEF TypeOK, ModelSpec
<1>3. ~wrapped' /\ MaxMemory > 0 => used + specs[m].bytes <= MaxMemory
  <2>1. ~wrapped' => Sum(used, specs[m].bytes) = used + specs[m].bytes
    BY <1>1, <1>2 DEF Sum
  <2> QED
    BY <1>2, <2>1 DEF StartLoad, Exceeds
<1>4. /\ l \in Load /\ l # None /\ l.bytes = specs[m].bytes
  <2>1. l \in Load
    BY <1>t DEF Load, ModelSpec
  <2> QED
    BY <2>1, NoneIsNone
<1> HIDE DEF l
<1>5. /\ Running' = Running \cup {c} /\ c \notin Running /\ loading'[c] = l
      /\ \A d \in Running : loading'[d] = loading[d]
  BY <1>t, <1>1, <1>4 DEF TypeOK, Running
<1>6. Admitted'
  BY <1>1, <1>2, <1>3, <1>4, <1>5 DEF Admitted
<1>7. Counted'
  <2>1. Resident' = Resident
    BY <1>1 DEF Resident, Loaded
  <2> QED
    BY <1>1, <2>1 DEF Counted
<1>8. ASSUME IsFiniteSet(Callers), ~wrapped', MaxMemory > 0
      PROVE  used' + Total(Amounts', Running') <= Cardinality(Callers) * MaxMemory
  <2>1. TypeOK'
    BY StartLoadInv DEF Inv
  <2>2. \A d \in Running' : /\ Amounts'[d] = loading'[d].bytes
                             /\ Amounts'[d] \in Nat /\ Amounts'[d] <= MaxMemory
    <3> SUFFICES ASSUME NEW d \in Running'
                 PROVE  /\ Amounts'[d] = loading'[d].bytes
                        /\ Amounts'[d] \in Nat /\ Amounts'[d] <= MaxMemory
      OBVIOUS
    <3>1. loading'[d] \in Load
      BY <2>1 DEF TypeOK, Running
    <3>2. loading'[d].bytes \in Nat
      BY <3>1, RegistryAssumption DEF Load
    <3>3. loading'[d].bytes <= MaxMemory
      BY <1>6, <1>8 DEF Admitted
    <3> QED
      BY <3>2, <3>3 DEF Amounts
  <2>3. IsFiniteSet(Running') /\ IsFiniteSet(Running)
    BY <1>8, FS_Subset DEF Running
  <2>4. Total(Amounts', Running') = Amounts'[c] + Total(Amounts', Running)
    <3>1. Running' \ {c} = Running /\ c \in Running'
      BY <1>5
    <3> QED
      BY <2>2, <2>3, <3>1, TotalWithout
  <2>5. Total(Amounts', Running) <= Cardinality(Running) * MaxMemory
    <3>1. \A d \in Running : Amounts'[d] \in 0 .. MaxMemory
      BY <1>2, <1>5, <2>2
    <3> QED
      BY <1>2, <2>3, <3>1, TotalBound
  <2>6. Total(Amounts', Running) \in Nat
    <3>1. \A d \in Running : Amounts'[d] \in Nat
      BY <1>5, <2>2
    <3> QED
      BY <2>3, <3>1, TotalType
  <2>7. /\ Cardinality(Running) \in Nat /\ Cardinality(Callers) \in Nat
        /\ Cardinality(Running) + 1 <= Cardinality(Callers)
    <3>1. IsFiniteSet(Callers \ {c}) /\ Cardinality(Callers \ {c}) = Cardinality(Callers) - 1
      BY <1>8, FS_RemoveElement
    <3>2. Running \in SUBSET (Callers \ {c})
      BY <1>5 DEF Running
    <3>3. Cardinality(Running) <= Cardinality(Callers \ {c})
      BY <3>1, <3>2, FS_Subset
    <3>4. Cardinality(Running) \in Nat /\ Cardinality(Callers) \in Nat
      BY <1>8, <2>3, FS_CardinalityType
    <3> QED
      BY <3>1, <3>3, <3>4
  <2>8. Cardinality(Running) * MaxMemory + MaxMemory <= Cardinality(Callers) * MaxMemory
        /\ Cardinality(Running) * MaxMemory \in Nat
    BY <1>2, <2>7, Times
  <2>9. Cardinality(Callers) * MaxMemory \in Nat
    BY <1>2, <2>7
  <2>10. Amounts'[c] = specs[m].bytes
    BY <1>4, <1>5, <2>2
  <2>11. used + specs[m].bytes <= MaxMemory
    BY <1>3, <1>8
  <2> HIDE DEF Amounts
  <2> QED
    BY <1>1, <1>2, <2>4, <2>5, <2>6, <2>8, <2>9, <2>10, <2>11
<1> QED
  BY <1>6, <1>7, <1>8 DEF OvershootBounded

(* A load that fails is charged to nothing, and its model stays as it was. *)
LEMMA FailSums ==
  ASSUME Inv, Counted, Admitted, NEW c \in Callers, LoadFails(c)
  PROVE  /\ Counted' /\ Admitted'
         /\ IsFiniteSet(Callers) /\ OvershootBounded => OvershootBounded'
<1> DEFINE m == loading[c].model
           b == loading[c].backend
<1>1. /\ loading[c] # None /\ c \in Running
      /\ states' = [states EXCEPT ![m] = [@ EXCEPT !.healthy = FALSE, !.backend = b]]
      /\ loading' = [loading EXCEPT ![c] = None]
      /\ UNCHANGED <<used, charged, overlapped, wrapped>>
  BY DEF LoadFails, Running
<1>t. TypeOK /\ loading[c] \in Load
  BY <1>1 DEF Inv, TypeOK
<1>2. m \in Models /\ b \in Backends
  BY <1>t DEF Load
<1>3. states[m] \in State /\ states[m] # None
  BY <1>t, <1>1, <1>2 DEF TypeOK
<1> HIDE DEF m, b
<1>4. Resident' = Resident
  <2>1. \A n \in Models : n # m => states'[n] = states[n]
    BY <1>t, <1>1, <1>2 DEF TypeOK
  <2>2. states'[m] = [states[m] EXCEPT !.healthy = FALSE, !.backend = b]
    BY <1>t, <1>1, <1>2 DEF TypeOK
  <2>3. states'[m] \in State /\ states'[m].loaded = states[m].loaded
    BY <2>2, <1>2, <1>3 DEF State
  <2>4. states'[m] # None
    BY <2>3, NoneIsNone
  <2> QED
    BY <1>3, <2>1, <2>3, <2>4 DEF Resident, Loaded
<1>5. Counted'
  BY <1>1, <1>4 DEF Counted
<1>6. Admitted'
  BY <1>t, <1>1 DEF Admitted, Running, TypeOK
<1>7. ASSUME IsFiniteSet(Callers), OvershootBounded PROVE OvershootBounded'
  <2>1. /\ Total(Amounts, Running) = loading[c].bytes + Total(Amounts', Running')
        /\ Total(Amounts', Running') \in Nat
    BY <1>t, <1>1, <1>7, FewerRunning
  <2>2. loading[c].bytes \in Nat /\ used \in Nat /\ MaxMemory \in Nat
    BY <1>t, RegistryAssumption DEF Load, TypeOK
  <2>3. Cardinality(Callers) * MaxMemory \in Nat
    BY <1>7, <2>2, FS_CardinalityType
  <2> HIDE DEF Amounts
  <2> QED
    BY <1>1, <1>7, <2>1, <2>2, <2>3 DEF OvershootBounded
<1> QED
  BY <1>5, <1>6, <1>7

(* A load that succeeds moves its bytes from those under way to those      *)
(* counted, and charges them to a model that was not resident.             *)
LEMMA SucceedSums ==
  ASSUME Inv, Counted, Admitted, NEW c \in Callers, LoadSucceeds(c)
  PROVE  /\ Counted' /\ Admitted'
         /\ IsFiniteSet(Callers) /\ OvershootBounded => OvershootBounded'
<1> DEFINE m == loading[c].model
           n == loading[c].bytes
           new == [loaded |-> TRUE, healthy |-> TRUE, backend |-> loading[c].backend]
<1>1. /\ loading[c] # None /\ c \in Running
      /\ states' = [states EXCEPT ![m] = new]
      /\ used' = Sum(used, n)
      /\ wrapped' = (wrapped \/ used + n >= Word)
      /\ charged' = [charged EXCEPT ![m] = n]
      /\ loading' = [loading EXCEPT ![c] = None]
      /\ UNCHANGED overlapped
  BY DEF LoadSucceeds, Running
<1>t. TypeOK /\ loading[c] \in Load
  BY <1>1 DEF Inv, TypeOK
<1>2. m \in Models /\ n \in Nat /\ n \in 0 .. (Word - 1)
  BY <1>t, RegistryAssumption DEF Load
<1>3. new \in State /\ new # None /\ new.loaded
  <2>1. new \in State
    BY <1>t DEF State, Load
  <2> QED
    BY <2>1, NoneIsNone
<1>4. ~overlapped => m \notin Resident
  BY <1>1 DEF Inv, Fresh, Resident
<1>5. used \in Nat /\ Word \in Nat /\ MaxMemory \in Nat
  BY <1>t, RegistryAssumption DEF TypeOK
<1> HIDE DEF m, n, new
<1>6. ~wrapped' => ~wrapped /\ used' = used + n
  <2>1. ~wrapped' => ~wrapped /\ ~(used + n >= Word)
    BY <1>1
  <2>2. ~(used + n >= Word) => Sum(used, n) = used + n
    BY <1>2, <1>5 DEF Sum
  <2> QED
    BY <1>1, <2>1, <2>2
<1>7. Resident' = Resident \cup {m}
  BY <1>t, <1>1, <1>2, <1>3 DEF Resident, Loaded, TypeOK
<1>8. Counted'
  <2>1. IsFiniteSet(Resident')
    BY <1>7, FS_AddElement DEF Counted
  <2>2. ASSUME ~overlapped, ~wrapped' PROVE used' = Total(charged', Resident')
    <3>1. Resident' \ {m} = Resident /\ m \in Resident'
      BY <1>4, <1>7, <2>2
    <3>2. \A k \in Resident' : charged'[k] \in Nat
      BY <1>t, <1>1, <1>2, <1>7 DEF TypeOK, Resident
    <3>3. Total(charged', Resident') = charged'[m] + Total(charged', Resident)
      BY <2>1, <3>1, <3>2, TotalWithout
    <3>4. Total(charged', Resident) = Total(charged, Resident)
      <4>1. \A k \in Resident : charged'[k] = charged[k]
        BY <1>t, <1>1, <1>2, <1>4, <2>2 DEF TypeOK, Resident
      <4> QED
        BY <4>1, TotalAgrees DEF Counted
    <3>5. charged'[m] = n
      BY <1>t, <1>1, <1>2 DEF TypeOK
    <3>6. used = Total(charged, Resident)
      BY <1>6, <2>2 DEF Counted
    <3> QED
      BY <1>2, <1>5, <1>6, <2>2, <3>3, <3>4, <3>5, <3>6
  <2> QED
    BY <1>1, <2>1, <2>2 DEF Counted
<1>9. Admitted'
  BY <1>t, <1>1, <1>6 DEF Admitted, Running, TypeOK
<1>10. ASSUME IsFiniteSet(Callers), OvershootBounded PROVE OvershootBounded'
  <2>1. /\ Total(Amounts, Running) = n + Total(Amounts', Running')
        /\ Total(Amounts', Running') \in Nat
    BY <1>t, <1>1, <1>10, FewerRunning DEF n
  <2>2. Cardinality(Callers) * MaxMemory \in Nat
    BY <1>10, <1>5, FS_CardinalityType
  <2> HIDE DEF Amounts
  <2> QED
    BY <1>2, <1>5, <1>6, <1>10, <2>1, <2>2 DEF OvershootBounded
<1> QED
  BY <1>8, <1>9, <1>10

(* Registering a model, or refusing to load one, loads and unloads none.   *)
LEMMA OtherSums ==
  ASSUME TypeOK, Counted, Admitted, NEW m \in Models,
         \/ \E s \in Specs : Register(m, s)
         \/ \E b \in Backends \cup {None} : Refuse(m, b)
  PROVE  Counted' /\ Admitted' /\ (OvershootBounded => OvershootBounded')
<1>1. UNCHANGED <<loading, charged, used, overlapped, wrapped>>
  BY DEF Register, Refuse
<1>2. \A n \in Models : n # m => states'[n] = states[n]
  BY DEF Register, Refuse, TypeOK
<1>3. Loaded(m)' <=> Loaded(m)
  <2>1. CASE states[m] = None
    <3>1. ~(\E b \in Backends \cup {None} : Refuse(m, b))
      BY <2>1 DEF Refuse, Answered, TypeOK
    <3>2. states'[m] = [loaded |-> FALSE, healthy |-> TRUE, backend |-> None]
      BY <2>1, <3>1 DEF Register, TypeOK
    <3> QED
      BY <2>1, <3>2 DEF Loaded
  <2>2. CASE states[m] # None
    <3>1. states[m] \in State
      BY <2>2 DEF TypeOK
    <3>2. states'[m] = states[m] \/ states'[m] = [states[m] EXCEPT !.healthy = FALSE]
      BY <2>2 DEF Register, Refuse, TypeOK
    <3>3. states'[m] \in State /\ states'[m].loaded = states[m].loaded
      BY <3>1, <3>2 DEF State
    <3> QED
      BY <2>2, <3>3, NoneIsNone DEF Loaded
  <2> QED
    BY <2>1, <2>2
<1>4. Resident' = Resident
  BY <1>2, <1>3 DEF Resident, Loaded
<1> QED
  BY <1>1, <1>4, SumsKept

(* Each step keeps both.                                                   *)
LEMMA StepSums ==
  ASSUME Inv, Counted, Admitted, [Next]_vars
  PROVE  /\ Counted' /\ Admitted'
         /\ IsFiniteSet(Callers) /\ OvershootBounded => OvershootBounded'
<1>1. ASSUME NEW m \in Models, NEW s \in Specs, Register(m, s)
      PROVE  Counted' /\ Admitted' /\ (OvershootBounded => OvershootBounded')
  BY <1>1, OtherSums DEF Inv
<1>2. ASSUME NEW c \in Callers, NEW m \in Models, NEW q \in Requests,
             NEW gpus \in Enabled, EnsureLoaded(c, m, q, gpus)
      PROVE  /\ Counted' /\ Admitted'
             /\ IsFiniteSet(Callers) /\ OvershootBounded => OvershootBounded'
  <2> DEFINE b == Select(Detect(gpus), q)
  <2>1. Detect(gpus) \subseteq Backends
    BY RegistryAssumption DEF Detect, Backends
  <2>2. b \in Backends \cup {None}
    BY <2>1, SelectType
  <2>3. loading[c] = None /\ (Refuse(m, b) \/ StartLoad(c, m, b))
    BY <1>2 DEF EnsureLoaded
  <2> HIDE DEF b
  <2>4. CASE Refuse(m, b)
    BY <2>2, <2>4, OtherSums DEF Inv
  <2>5. CASE StartLoad(c, m, b)
    <3>1. b # None
      BY <2>5 DEF StartLoad, Answered
    <3> QED
      BY <2>2, <2>3, <2>5, <3>1, StartSums
  <2> QED
    BY <2>3, <2>4, <2>5
<1>3. CASE UNCHANGED vars
  <2>1. Resident' = Resident
    BY <1>3 DEF vars, Resident, Loaded
  <2> QED
    BY <1>3, <2>1, SumsKept DEF vars
<1> QED
  BY <1>1, <1>2, <1>3, FailSums, SucceedSums DEF Next

(* In the beginning nothing is resident and nothing under way.             *)
LEMMA InitSums ==
  ASSUME Init
  PROVE  /\ Counted /\ Admitted
         /\ IsFiniteSet(Callers) => OvershootBounded
<1>1. Running = {} /\ Resident = {} /\ used = 0
  BY DEF Init, Running, Resident, Loaded
<1>2. \A f : IsFiniteSet({}) /\ Total(f, {}) = 0
  BY FS_EmptySet, TotalValue
<1>3. Counted /\ Admitted
  BY <1>1, <1>2 DEF Counted, Admitted
<1>4. ASSUME IsFiniteSet(Callers) PROVE OvershootBounded
  <2>1. MaxMemory \in Nat /\ Cardinality(Callers) \in Nat
    BY <1>4, RegistryAssumption, FS_CardinalityType
  <2>2. Cardinality(Callers) * MaxMemory \in Nat
    BY <2>1
  <2>3. Total(Amounts, Running) = 0
    BY <1>1, <1>2
  <2> HIDE DEF Amounts
  <2> QED
    BY <1>1, <2>2, <2>3 DEF OvershootBounded
<1> QED
  BY <1>3, <1>4

(* What is counted, and what each load was admitted with, in every         *)
(* reachable state.                                                        *)
LEMMA SumsInvariant == Spec => [](Counted /\ Admitted)
<1>1. Init => Counted /\ Admitted
  BY InitSums
<1>2. Counted /\ Admitted /\ Inv /\ [Next]_vars => (Counted /\ Admitted)'
  BY StepSums
<1> QED
  BY <1>1, <1>2, Invariance, PTL DEF Spec

(* The models that are resident fit the budget as long as loads do not     *)
(* overlap (EnsureLoaded): what is counted is what they were charged, for  *)
(* every model that is loaded once, through failures, retries and changed  *)
(* specifications.                                                         *)
THEOREM ResidentFit == Spec => []ResidentFits
<1>1. Counted /\ Inv => ResidentFits
  BY DEF Counted, Inv, BudgetHeld, ResidentFits
<1> QED
  BY <1>1, SumsInvariant, Invariance, PTL

(* Calls that overlap (the loader runs outside the lock) exceed the budget *)
(* at most by a budget for each caller but the first.                      *)
THEOREM OvershootHasBound ==
  ASSUME IsFiniteSet(Callers)
  PROVE  Spec => []OvershootBounded
<1>1. Init => OvershootBounded
  BY InitSums
<1>2. OvershootBounded /\ Counted /\ Admitted /\ Inv /\ [Next]_vars => OvershootBounded'
  BY StepSums
<1> QED
  BY <1>1, <1>2, SumsInvariant, Invariance, PTL DEF Spec
=============================================================================
