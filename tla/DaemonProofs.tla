---------------------------- MODULE DaemonProofs ----------------------------
(***************************************************************************)
(* Theorems about Daemon, for all values of its constants.                 *)
(***************************************************************************)
EXTENDS Daemon, SequenceTheorems, TLAPS

USE DEF vars, frontVars, serverVars, osVars, histVars

(* A front end that is not connected has pings left.                       *)
ConnectInv == \A p \in FrontEnds : mode[p] \in {"new", "waiting"} => pings[p] > 0

(* Who holds the lock and the port, and who still has requests.            *)
Holding == {"opened", "listening", "expired", "stopping"}
Serving == {"listening", "expired", "stopping"}

ProcessInv ==
  /\ \A d \in Daemons :
       /\ lock = d <=> engine[d] = "open" /\ proc[d] \in Holding
       /\ proc[d] \in {"opened", "listening", "expired"} => engine[d] = "open"
       /\ port = d <=> proc[d] \in {"listening", "expired"}
       /\ handling[d] # {} => engine[d] = "open" /\ proc[d] \in Serving
       /\ job[d] # None \/ queue[d] # <<>> => proc[d] \in Serving
  /\ \A p \in FrontEnds : lock = p <=> stage[p] \in {"open", "ran"}

(* Where a request is on its way: in one call of one front end, and with   *)
(* one handler or in that front end's own hands, until it has a fate.      *)
RequestInv ==
  /\ \A r \in Requests : fate[r] # "none" => r \in sent
  /\ \A p \in FrontEnds :
       /\ call[p] # None => call[p] \in sent
       /\ \A q \in FrontEnds : call[p] # None /\ call[q] = call[p] => q = p
       /\ stage[p] \in {"opening", "open"} => fate[call[p]] = "none"
       /\ stage[p] # "sent" => \A d \in Daemons : call[p] \notin handling[d]
  /\ \A d \in Daemons : \A r \in handling[d] :
       /\ fate[r] = "none" /\ r \in sent
       /\ \A e \in Daemons : r \in handling[e] => e = d

(* A write stands in one line, once, as long as it is queued.              *)
LineOf == [d \in Daemons |-> Waiting(d)]

LineInv ==
  \A d \in Daemons : \A i \in DOMAIN LineOf[d] :
    /\ fate[LineOf[d][i]] = "queued"
    /\ \A e \in Daemons : \A j \in DOMAIN LineOf[e] :
         LineOf[e][j] = LineOf[d][i] => e = d /\ j = i

IInv == TypeOK /\ ConnectInv /\ ProcessInv /\ RequestInv /\ LineInv

-----------------------------------------------------------------------------
(* Types. *)

(* Before anything runs, the variables have the types of TypeOK.           *)
LEMMA TypesInit == Init => TypeOK
<1> SUFFICES ASSUME Init PROVE TypeOK
  OBVIOUS
<1>1. queue \in [Daemons -> Seq(Requests)]
  BY EmptySeq DEF Init
<1>2. \A d \in Daemons : Len(queue[d]) <= Capacity
  BY DaemonAssumption DEF Init
<1> QED
  BY <1>1, <1>2, DaemonAssumption DEF Init, TypeOK, Procs, Alive

(* The end of a process takes its requests and its holdings with it        *)
(* (process exit, main.go) and leaves the types of the rest.               *)
LEMMA EndTypes ==
  ASSUME TypeOK, NEW d \in Daemons, NEW s \in Procs, ProcessEnds(d, s),
         crashes' \in 0 .. MaxCrashes
  PROVE  TypeOK'
<1>1. queue' \in [Daemons -> Seq(Requests)] /\ \A e \in Daemons : Len(queue'[e]) <= Capacity
  BY EmptySeq, DaemonAssumption DEF TypeOK, ProcessEnds
<1>2. proc' \in [Daemons -> Procs]
  BY DEF TypeOK, ProcessEnds, ProcIs
<1>3. fate' \in [Requests -> {"none", "queued", "done", "failed", "refused", "lost"}]
  BY DEF TypeOK, ProcessEnds
<1>4. \A p \in FrontEnds : call'[p] = None <=> stage'[p] = "none"
  BY DEF TypeOK, ProcessEnds
<1>5. /\ call' \in [FrontEnds -> Requests \cup {None}]
      /\ stage' \in [FrontEnds -> {"none", "sent", "opening", "open", "ran"}]
  BY DEF TypeOK, ProcessEnds
<1> QED
  BY <1>1, <1>2, <1>3, <1>4, <1>5 DEF TypeOK, ProcessEnds

(* Every step of a front end (main.go, firememory_client.go) keeps them.   *)
LEMMA FrontEndTypes ==
  ASSUME TypeOK, ConnectInv, NEW p \in FrontEnds,
         ConnectStep(p) \/ CallStep(p) \/ DirectStep(p)
  PROVE  TypeOK'
<1>1. CASE PingAnswered(p)
  BY <1>1 DEF TypeOK, PingAnswered, Become
<1>2. CASE Fork(p)
  BY <1>2 DEF TypeOK, Fork, Become, Procs, Alive
<1>3. CASE ForkFails(p)
  BY <1>3 DEF TypeOK, ForkFails, Become
<1>4. CASE PingUnanswered(p)
  <2>1. pings[p] \in 1 .. Pings
    BY <1>4, DaemonAssumption DEF TypeOK, ConnectInv, PingUnanswered
  <2> QED
    BY <1>4, <2>1, DaemonAssumption DEF TypeOK, PingUnanswered, Become
<1>5. ASSUME NEW r \in Requests, Send(p, r) PROVE TypeOK'
  <2>1. port \in Daemons
    BY <1>5 DEF TypeOK, Send
  <2>2. handling' \in [Daemons -> SUBSET Requests] /\ idle' \in [Daemons -> 0 .. IdleTimeout]
    BY <1>5, <2>1, DaemonAssumption DEF TypeOK, Send
  <2>3. /\ call' \in [FrontEnds -> Requests \cup {None}]
        /\ stage' \in [FrontEnds -> {"none", "sent", "opening", "open", "ran"}]
        /\ \A q \in FrontEnds : call'[q] = None <=> stage'[q] = "none"
    BY <1>5, DaemonAssumption DEF TypeOK, Send, Begin
  <2> QED
    BY <1>5, <2>2, <2>3 DEF TypeOK, Send, Begin
<1>6. ASSUME NEW r \in Requests, SendFails(p, r) PROVE TypeOK'
  BY <1>6 DEF TypeOK, SendFails
<1>7. ASSUME NEW r \in Requests, DirectCall(p, r) PROVE TypeOK'
  BY <1>7, DaemonAssumption DEF TypeOK, DirectCall, Begin
<1>8. CASE ClientTimesOut(p)
  BY <1>8 DEF TypeOK, ClientTimesOut, Return
<1>9. CASE DirectOpen(p)
  BY <1>9 DEF TypeOK, DirectOpen
<1>10. CASE DirectFails(p)
  BY <1>10 DEF TypeOK, DirectFails, Return, FateIs
<1>11. CASE DirectRun(p)
  BY <1>11 DEF TypeOK, DirectRun, FateIs, Outcome
<1>12. CASE DirectReturn(p)
  BY <1>12 DEF TypeOK, DirectReturn, Return
<1> QED
  BY <1>1, <1>2, <1>3, <1>4, <1>5, <1>6, <1>7, <1>8, <1>9, <1>10, <1>11, <1>12
  DEF ConnectStep, CallStep, DirectStep

(* So does every step of a daemon (daemon.go, server.go, activity.go,      *)
(* writeworker.go).                                                        *)
LEMMA DaemonTypes ==
  ASSUME TypeOK, NEW d \in Daemons,
         StartStep(d) \/ WorkerStep(d) \/ MonitorStep(d) \/ Minute(d) \/ Crash(d)
  PROVE  TypeOK'
<1>1. CASE OpenBrain(d)
  BY <1>1 DEF TypeOK, OpenBrain, ProcIs, EngineIs, Procs, Alive
<1>2. CASE Listen(d)
  BY <1>2, DaemonAssumption DEF TypeOK, Listen, ProcIs, Procs, Alive
<1>3. CASE StartFails(d)
  BY <1>3, EndTypes DEF TypeOK, StartFails, Procs
<1>4. CASE Minute(d)
  BY <1>4, DaemonAssumption DEF TypeOK, Minute
<1>5. CASE NoticeIdle(d)
  BY <1>5 DEF TypeOK, NoticeIdle, ProcIs, Procs, Alive
<1>6. CASE CloseListener(d)
  BY <1>6 DEF TypeOK, CloseListener, ProcIs, Procs, Alive
<1>7. CASE CloseEngine(d)
  BY <1>7 DEF TypeOK, CloseEngine, EngineIs
<1>8. CASE Exit(d)
  BY <1>8, EndTypes DEF TypeOK, Exit, Procs
<1>9. CASE Crash(d)
  <2>1. crashes' \in 0 .. MaxCrashes
    BY <1>9, DaemonAssumption DEF TypeOK, Crash
  <2> QED
    BY <1>9, <2>1, EndTypes DEF Crash, Procs
<1>10. CASE TakeJob(d)
  <2>1. Head(queue[d]) \in Requests /\ Tail(queue[d]) \in Seq(Requests)
        /\ Len(Tail(queue[d])) = Len(queue[d]) - 1 /\ Len(queue[d]) \in Nat
    BY <1>10, HeadTailProperties, LenProperties DEF TypeOK, TakeJob
  <2>2. \A e \in Daemons : Len(queue'[e]) <= Capacity
    BY <1>10, <2>1, DaemonAssumption DEF TypeOK, TakeJob
  <2> QED
    BY <1>10, <2>1, <2>2 DEF TypeOK, TakeJob
<1>11. CASE RunJob(d)
  BY <1>11, DaemonAssumption DEF TypeOK, RunJob, FateIs, Outcome
<1> QED
  BY <1>1, <1>2, <1>3, <1>4, <1>5, <1>6, <1>7, <1>8, <1>9, <1>10, <1>11
  DEF StartStep, WorkerStep, MonitorStep

(* And so does every handler (handleRequest, server.go); the channel never *)
(* holds more than its capacity.                                           *)
LEMMA HandlerTypes ==
  ASSUME TypeOK, NEW d \in Daemons, NEW r \in Requests, HandlerStep(d, r)
  PROVE  TypeOK'
<1>1. CASE Enqueue(d, r)
  <2>1. Append(queue[d], r) \in Seq(Requests) /\ Len(Append(queue[d], r)) = Len(queue[d]) + 1
        /\ Len(queue[d]) \in Nat
    BY AppendProperties, LenProperties DEF TypeOK
  <2>2. \A e \in Daemons : Len(queue'[e]) <= Capacity
    BY <1>1, <2>1, DaemonAssumption DEF TypeOK, Enqueue
  <2> QED
    BY <1>1, <2>1, <2>2 DEF TypeOK, Enqueue, Answer, FateIs
<1>2. CASE QueueFull(d, r)
  BY <1>2 DEF TypeOK, QueueFull, Answer, FateIs
<1>3. CASE ServeRead(d, r)
  BY <1>3 DEF TypeOK, ServeRead, Answer, FateIs, Outcome
<1> QED
  BY <1>1, <1>2, <1>3 DEF HandlerStep

(* No step breaks the types.                                               *)
LEMMA TypesStep == TypeOK /\ ConnectInv /\ [Next]_vars => TypeOK'
<1> SUFFICES ASSUME TypeOK, ConnectInv, [Next]_vars PROVE TypeOK'
  OBVIOUS
<1>1. CASE UNCHANGED vars
  BY <1>1 DEF TypeOK
<1>2. CASE Next
  BY <1>2, FrontEndTypes, DaemonTypes, HandlerTypes DEF Next
<1> QED
  BY <1>1, <1>2

(* The last ping sends a front end into direct mode (tryConnectDaemon,     *)
(* main.go).                                                               *)
LEMMA ConnectStepInv == TypeOK /\ ConnectInv /\ [Next]_vars => ConnectInv'
<1> SUFFICES ASSUME TypeOK, ConnectInv, [Next]_vars PROVE ConnectInv'
  OBVIOUS
<1>1. CASE UNCHANGED <<mode, pings>>
  BY <1>1 DEF ConnectInv
<1>2. ASSUME NEW p \in FrontEnds, PingUnanswered(p) PROVE ConnectInv'
  BY <1>2, DaemonAssumption DEF TypeOK, ConnectInv, PingUnanswered, Become
<1>3. ASSUME NEW p \in FrontEnds, PingAnswered(p) \/ Fork(p) \/ ForkFails(p) PROVE ConnectInv'
  BY <1>3 DEF TypeOK, ConnectInv, PingAnswered, Fork, ForkFails, Become
<1>4. ASSUME NEW p \in FrontEnds, CallStep(p) \/ DirectStep(p) PROVE UNCHANGED <<mode, pings>>
  BY <1>4 DEF CallStep, DirectStep, Send, SendFails, DirectCall, ClientTimesOut,
              DirectOpen, DirectFails, DirectRun, DirectReturn
<1>5. ASSUME NEW d \in Daemons,
             StartStep(d) \/ WorkerStep(d) \/ MonitorStep(d) \/ Minute(d) \/ Crash(d)
      PROVE  UNCHANGED <<mode, pings>>
  BY <1>5 DEF StartStep, WorkerStep, MonitorStep, OpenBrain, Listen, StartFails, Minute,
              NoticeIdle, CloseListener, CloseEngine, Exit, Crash, TakeJob, RunJob, ProcessEnds
<1>6. ASSUME NEW d \in Daemons, NEW r \in Requests, HandlerStep(d, r)
      PROVE  UNCHANGED <<mode, pings>>
  BY <1>6 DEF HandlerStep, Enqueue, QueueFull, ServeRead, Answer
<1> QED
  BY <1>1, <1>2, <1>3, <1>4, <1>5, <1>6 DEF Next, ConnectStep

-----------------------------------------------------------------------------
(* Processes. *)

(* The operating system takes back the lock and the port of the process    *)
(* that ends, and of no other.                                             *)
LEMMA EndHolds ==
  ASSUME TypeOK, ProcessInv, RequestInv, NEW d \in Daemons, NEW s \in {"exited", "failed"},
         ProcessEnds(d, s)
  PROVE  ProcessInv'
<1> USE DEF Holding, Serving
<1>1. proc'[d] = s /\ \A e \in Daemons \ {d} : proc'[e] = proc[e]
  BY DEF TypeOK, ProcessEnds, ProcIs
<1>2. /\ handling'[d] = {} /\ queue'[d] = <<>> /\ job'[d] = None
      /\ \A e \in Daemons \ {d} :
           handling'[e] = handling[e] /\ queue'[e] = queue[e] /\ job'[e] = job[e]
  BY DEF TypeOK, ProcessEnds
<1>3. lock' # d /\ port' # d
  BY DaemonAssumption DEF ProcessEnds
<1>4. \A e \in Daemons \ {d} : (lock' = e <=> lock = e) /\ (port' = e <=> port = e)
  BY DaemonAssumption DEF ProcessEnds
<1>5. \A p \in FrontEnds : lock' = p <=> stage'[p] \in {"open", "ran"}
  <2> SUFFICES ASSUME NEW p \in FrontEnds PROVE lock' = p <=> stage'[p] \in {"open", "ran"}
    OBVIOUS
  <2>1. lock' = p <=> lock = p
    BY DaemonAssumption DEF ProcessEnds
  <2> QED
    BY <2>1 DEF ProcessEnds, ProcessInv, RequestInv, TypeOK
<1> QED
  BY <1>1, <1>2, <1>3, <1>4, <1>5 DEF ProcessInv, ProcessEnds

(* A front end takes the lock for a call, and gives it back when the call  *)
(* returns (EngineClient.Call, firememory_client.go); what it sends goes   *)
(* to the daemon that listens.                                             *)
LEMMA FrontEndHolds ==
  ASSUME TypeOK, ProcessInv, NEW p \in FrontEnds,
         ConnectStep(p) \/ CallStep(p) \/ DirectStep(p)
  PROVE  ProcessInv'
<1> USE DEF Holding, Serving
<1>1. CASE PingAnswered(p) \/ ForkFails(p) \/ PingUnanswered(p)
  BY <1>1 DEF ProcessInv, PingAnswered, ForkFails, PingUnanswered, Become
<1>2. CASE Fork(p)
  BY <1>2 DEF TypeOK, ProcessInv, Fork, Become
<1>3. ASSUME NEW r \in Requests, Send(p, r) PROVE ProcessInv'
  <2>1. port \in Daemons /\ proc[port] \in {"listening", "expired"} /\ engine[port] = "open"
    BY <1>3 DEF TypeOK, ProcessInv, Send
  <2>2. \A e \in Daemons : handling'[e] # {} =>
          handling[e] # {} \/ (engine[e] = "open" /\ proc[e] \in Serving)
    BY <1>3, <2>1 DEF TypeOK, Send
  <2>3. \A q \in FrontEnds : stage'[q] \in {"open", "ran"} <=> stage[q] \in {"open", "ran"}
    BY <1>3 DEF TypeOK, Send, Begin
  <2> QED
    BY <1>3, <2>2, <2>3 DEF ProcessInv, Send
<1>4. ASSUME NEW r \in Requests, SendFails(p, r) PROVE ProcessInv'
  BY <1>4 DEF ProcessInv, SendFails
<1>5. ASSUME NEW r \in Requests, DirectCall(p, r) PROVE ProcessInv'
  BY <1>5 DEF TypeOK, ProcessInv, DirectCall, Begin
<1>6. CASE ClientTimesOut(p)
  BY <1>6 DEF TypeOK, ProcessInv, ClientTimesOut, Return
<1>7. CASE DirectOpen(p)
  BY <1>7, DaemonAssumption DEF TypeOK, ProcessInv, DirectOpen
<1>8. CASE DirectFails(p)
  BY <1>8 DEF TypeOK, ProcessInv, DirectFails, Return
<1>9. CASE DirectRun(p)
  BY <1>9 DEF TypeOK, ProcessInv, DirectRun
<1>10. CASE DirectReturn(p)
  BY <1>10, DaemonAssumption DEF TypeOK, ProcessInv, DirectReturn, Return
<1> QED
  BY <1>1, <1>2, <1>3, <1>4, <1>5, <1>6, <1>7, <1>8, <1>9, <1>10
  DEF ConnectStep, CallStep, DirectStep

(* A daemon listens only while it holds the brain, and closes it only when *)
(* no handler runs any more (runDaemon, Server.Start).                     *)
LEMMA DaemonHolds ==
  ASSUME TypeOK, ProcessInv, RequestInv, NEW d \in Daemons,
         StartStep(d) \/ WorkerStep(d) \/ MonitorStep(d) \/ Minute(d) \/ Crash(d)
  PROVE  ProcessInv'
<1> USE DEF Holding, Serving
<1>1. CASE OpenBrain(d)
  BY <1>1, DaemonAssumption DEF TypeOK, ProcessInv, OpenBrain, ProcIs, EngineIs
<1>2. CASE Listen(d)
  BY <1>2, DaemonAssumption DEF TypeOK, ProcessInv, Listen, ProcIs
<1>3. CASE StartFails(d) \/ Exit(d) \/ Crash(d)
  BY <1>3, EndHolds DEF StartFails, Exit, Crash
<1>4. CASE Minute(d)
  BY <1>4 DEF ProcessInv, Minute
<1>5. CASE NoticeIdle(d)
  BY <1>5 DEF TypeOK, ProcessInv, NoticeIdle, ProcIs
<1>6. CASE CloseListener(d)
  BY <1>6, DaemonAssumption DEF TypeOK, ProcessInv, CloseListener, ProcIs
<1>7. CASE CloseEngine(d)
  BY <1>7, DaemonAssumption DEF TypeOK, ProcessInv, CloseEngine, EngineIs
<1>8. CASE TakeJob(d)
  BY <1>8 DEF TypeOK, ProcessInv, TakeJob
<1>9. CASE RunJob(d)
  BY <1>9 DEF TypeOK, ProcessInv, RunJob
<1> QED
  BY <1>1, <1>2, <1>3, <1>4, <1>5, <1>6, <1>7, <1>8, <1>9
  DEF StartStep, WorkerStep, MonitorStep

(* Only a daemon that serves has handlers (handleRequest, server.go), and  *)
(* so only such a daemon gets writes to queue.                             *)
LEMMA HandlerHolds ==
  ASSUME TypeOK, ProcessInv, RequestInv, NEW d \in Daemons, NEW r \in Requests,
         HandlerStep(d, r)
  PROVE  ProcessInv'
<1> USE DEF Holding, Serving
<1>1. r \in handling[d] /\ Answer(d, r) /\ UNCHANGED <<proc, engine, job, lock, port>>
  BY DEF HandlerStep, Enqueue, QueueFull, ServeRead
<1>2. \A p \in FrontEnds : stage'[p] \in {"open", "ran"} <=> stage[p] \in {"open", "ran"}
  <2>1. \A p \in FrontEnds : call[p] = r => stage[p] = "sent"
    BY <1>1 DEF RequestInv
  <2> QED
    BY <1>1, <2>1 DEF TypeOK, Answer
<1>3. \A e \in Daemons : e = d \/ queue'[e] = queue[e]
  BY DEF TypeOK, HandlerStep, Enqueue, QueueFull, ServeRead
<1>4. \A e \in Daemons : handling'[e] # {} => handling[e] # {}
  BY <1>1 DEF TypeOK, Answer
<1> QED
  BY <1>1, <1>2, <1>3, <1>4 DEF ProcessInv

(* No step lets two processes hold the brain.                              *)
LEMMA ProcessStepInv == TypeOK /\ ProcessInv /\ RequestInv /\ [Next]_vars => ProcessInv'
<1> SUFFICES ASSUME TypeOK, ProcessInv, RequestInv, [Next]_vars PROVE ProcessInv'
  OBVIOUS
<1>1. CASE UNCHANGED vars
  BY <1>1 DEF ProcessInv
<1>2. CASE Next
  BY <1>2, FrontEndHolds, DaemonHolds, HandlerHolds DEF Next
<1> QED
  BY <1>1, <1>2

-----------------------------------------------------------------------------
(* The line: every step is one of WriteLine. *)

(* The worker's job and the channel behind it form a sequence of requests. *)
LEMMA WaitingType ==
  ASSUME TypeOK, NEW d \in Daemons
  PROVE  /\ Waiting(d) \in Seq(Requests)
         /\ job[d] = None => Waiting(d) = queue[d]
         /\ job[d] # None => /\ Waiting(d) # <<>>
                             /\ Head(Waiting(d)) = job[d]
                             /\ Tail(Waiting(d)) = queue[d]
<1>1. queue[d] \in Seq(Requests) /\ job[d] \in Requests \cup {None}
  BY DEF TypeOK
<1>2. CASE job[d] = None
  BY <1>1, <1>2, ConcatEmptySeq DEF Waiting
<1>3. CASE job[d] # None
  <2>1. <<job[d]>> \in Seq(Requests) /\ Len(<<job[d]>>) = 1 /\ <<job[d]>>[1] = job[d]
    BY <1>1, <1>3
  <2>2. Waiting(d) = <<job[d]>> \o queue[d]
    BY <1>3 DEF Waiting
  <2>3. /\ Waiting(d) \in Seq(Requests)
        /\ Len(Waiting(d)) = 1 + Len(queue[d])
        /\ \A i \in 1 .. 1 + Len(queue[d]) :
             Waiting(d)[i] = IF i <= 1 THEN <<job[d]>>[i] ELSE queue[d][i - 1]
    BY <1>1, <2>1, <2>2, ConcatProperties
  <2>4. Len(queue[d]) \in Nat
    BY <1>1, LenProperties
  <2>5. Waiting(d) # <<>> /\ Head(Waiting(d)) = job[d]
    BY <2>1, <2>3, <2>4, EmptySeq
  <2>6. /\ Tail(Waiting(d)) \in Seq(Requests)
        /\ Len(Tail(Waiting(d))) = Len(queue[d])
        /\ \A i \in 1 .. Len(queue[d]) : Tail(Waiting(d))[i] = queue[d][i]
    BY <2>3, <2>4, <2>5, HeadTailProperties
  <2>7. Tail(Waiting(d)) = queue[d]
    BY <1>1, <2>6, SeqEqual
  <2> QED
    BY <1>3, <2>3, <2>5, <2>7
<1> QED
  BY <1>2, <1>3

(* The worker moves a write from the channel to itself without moving it   *)
(* in the line (startWriteWorker).                                         *)
LEMMA TakeJobKeepsLine ==
  ASSUME TypeOK, TypeOK', NEW d \in Daemons, TakeJob(d)
  PROVE  LineOf' = LineOf
<1>1. \A e \in Daemons \ {d} : Waiting(e)' = Waiting(e)
  BY DEF TypeOK, TakeJob, Waiting
<1>2. Waiting(d) = queue[d]
  BY WaitingType DEF TakeJob
<1>3. job'[d] = Head(queue[d]) /\ queue'[d] = Tail(queue[d])
  BY DEF TypeOK, TakeJob
<1>4. job'[d] # None
  BY <1>3, HeadTailProperties, DaemonAssumption DEF TypeOK, TakeJob
<1>5. Waiting(d)' = <<Head(queue[d])>> \o Tail(queue[d])
  BY <1>3, <1>4 DEF Waiting
<1>6. <<Head(queue[d])>> \o Tail(queue[d]) = queue[d]
  <2> DEFINE q == queue[d]
  <2>1. q \in Seq(Requests) /\ q # <<>>
    BY DEF TypeOK, TakeJob
  <2> QED
    BY <2>1
<1> QED
  BY <1>1, <1>2, <1>5, <1>6 DEF LineOf

(* Appending to the second of two sequences appends to both.               *)
LEMMA AppendToConcat ==
  ASSUME NEW S, NEW s \in Seq(S), NEW t \in Seq(S), NEW e \in S
  PROVE  s \o Append(t, e) = Append(s \o t, e)
<1>1. s \o t \in Seq(S) /\ Len(s \o t) = Len(s) + Len(t)
  BY ConcatProperties
<1>2. Append(t, e) \in Seq(S) /\ Len(Append(t, e)) = Len(t) + 1
  BY AppendProperties
<1>3. Len(s) \in Nat /\ Len(t) \in Nat
  BY LenProperties
<1> DEFINE left == s \o Append(t, e)
           right == Append(s \o t, e)
<1>4. left \in Seq(S) /\ Len(left) = Len(s) + Len(t) + 1
  BY <1>2, <1>3, ConcatProperties
<1>5. right \in Seq(S) /\ Len(right) = Len(s) + Len(t) + 1
  BY <1>1, AppendProperties
<1>6. \A i \in 1 .. Len(s) + Len(t) + 1 : left[i] = right[i]
  BY <1>1, <1>2, <1>3, ConcatProperties, AppendProperties
<1> HIDE DEF left, right
<1>7. left = right
  BY <1>4, <1>5, <1>6, SeqEqual
<1> QED
  BY <1>7 DEF left, right

(* A handler appends its write to the line (handleRequest).                *)
LEMMA EnqueueAppends ==
  ASSUME TypeOK, NEW d \in Daemons, NEW r \in Requests, Enqueue(d, r)
  PROVE  LineOf' = [LineOf EXCEPT ![d] = Append(@, r)]
<1>1. \A e \in Daemons \ {d} : Waiting(e)' = Waiting(e)
  BY DEF TypeOK, Enqueue, Waiting
<1>2. queue'[d] = Append(queue[d], r) /\ job' = job
  BY DEF TypeOK, Enqueue
<1>3. Waiting(d)' = Append(Waiting(d), r)
  <2>1. queue[d] \in Seq(Requests) /\ job[d] \in Requests \cup {None}
    BY DEF TypeOK
  <2>2. CASE job[d] = None
    BY <1>2, <2>1, <2>2, ConcatEmptySeq, AppendProperties DEF Waiting
  <2>3. CASE job[d] # None
    <3>1. <<job[d]>> \in Seq(Requests)
      BY <2>1, <2>3
    <3> QED
      BY <1>2, <2>1, <2>3, <3>1, AppendToConcat DEF Waiting
  <2> QED
    BY <2>2, <2>3
<1> QED
  BY <1>1, <1>3 DEF LineOf

(* The worker is done with the head of the line.                           *)
LEMMA RunJobTakesHead ==
  ASSUME TypeOK, TypeOK', NEW d \in Daemons, RunJob(d)
  PROVE  /\ LineOf[d] # <<>> /\ Head(LineOf[d]) = job[d]
         /\ LineOf' = [LineOf EXCEPT ![d] = Tail(@)]
<1>1. \A e \in Daemons \ {d} : Waiting(e)' = Waiting(e)
  BY DEF TypeOK, RunJob, Waiting
<1>2. Waiting(d) # <<>> /\ Head(Waiting(d)) = job[d] /\ Tail(Waiting(d)) = queue[d]
  BY WaitingType DEF RunJob
<1>3. job'[d] = None /\ queue'[d] = queue[d]
  BY DEF TypeOK, RunJob
<1>4. Waiting(d)' = queue[d]
  BY <1>3, ConcatEmptySeq DEF Waiting, TypeOK
<1> QED
  BY <1>1, <1>2, <1>4 DEF LineOf

(* The line ends with its process.                                         *)
LEMMA EndLoses ==
  ASSUME TypeOK, NEW d \in Daemons, NEW s \in Procs, ProcessEnds(d, s)
  PROVE  Line!Lose(d)
<1>1. \A e \in Daemons \ {d} : Waiting(e)' = Waiting(e)
  BY DEF TypeOK, ProcessEnds, Waiting
<1>2. Waiting(d)' = <<>>
  BY DEF TypeOK, ProcessEnds, Waiting
<1> QED
  BY <1>1, <1>2 DEF ProcessEnds, Line!Lose, Line!InLine, Unserved

(* Every step of the processes is a step of WriteLine, or leaves line and  *)
(* fates alone.                                                            *)
LEMMA LineStep ==
  ASSUME IInv, TypeOK', [Next]_vars
  PROVE  [Line!Next]_Line!vars
<1> USE DEF IInv
<1>1. CASE UNCHANGED vars
  BY <1>1 DEF Line!vars, Waiting
<1>2. ASSUME NEW p \in FrontEnds, ConnectStep(p) \/ CallStep(p) PROVE UNCHANGED Line!vars
  BY <1>2 DEF ConnectStep, CallStep, PingAnswered, Fork, ForkFails, PingUnanswered, Become,
     Send, SendFails, DirectCall, ClientTimesOut, Line!vars, Waiting
<1>3. ASSUME NEW p \in FrontEnds, DirectStep(p) PROVE [Line!Next]_Line!vars
  <2>1. CASE DirectOpen(p) \/ DirectReturn(p)
    BY <2>1 DEF DirectOpen, DirectReturn, Line!vars, Waiting
  <2>2. CASE DirectFails(p) \/ DirectRun(p)
    <3>1. call[p] \in Requests /\ fate[call[p]] = "none"
      BY <2>2, DaemonAssumption DEF TypeOK, RequestInv, DirectFails, DirectRun
    <3>2. \E f \in {"done", "failed"} : fate' = [fate EXCEPT ![call[p]] = f]
      BY <2>2 DEF DirectFails, DirectRun, FateIs, Outcome
    <3>3. UNCHANGED <<job, queue>>
      BY <2>2 DEF DirectFails, DirectRun
    <3>4. Line!Serve(call[p])
      BY <3>1, <3>2, <3>3 DEF Line!Serve, Waiting
    <3> QED
      BY <3>1, <3>4 DEF Line!Next
  <2> QED
    BY <1>3, <2>1, <2>2 DEF DirectStep
<1>4. ASSUME NEW d \in Daemons, StartFails(d) \/ Exit(d) \/ Crash(d) PROVE Line!Next
  BY <1>4, EndLoses DEF StartFails, Exit, Crash, Procs, Line!Next
<1>5. ASSUME NEW d \in Daemons, TakeJob(d) PROVE UNCHANGED Line!vars
  BY <1>5, TakeJobKeepsLine DEF TakeJob, Line!vars, LineOf
<1>6. ASSUME NEW d \in Daemons, RunJob(d) PROVE Line!Next
  <2>1. /\ LineOf[d] # <<>> /\ Head(LineOf[d]) = job[d]
        /\ LineOf' = [LineOf EXCEPT ![d] = Tail(@)]
    BY <1>6, RunJobTakesHead
  <2>2. fate[job[d]] = "queued"
    <3>1. LineOf[d] \in Seq(Requests)
      BY WaitingType DEF LineOf
    <3>2. 1 \in DOMAIN LineOf[d] /\ LineOf[d][1] = job[d]
      BY <2>1, <3>1
    <3> QED
      BY <3>2 DEF LineInv
  <2>3. \E f \in {"done", "failed"} : fate' = [fate EXCEPT ![job[d]] = f]
    BY <1>6 DEF RunJob, FateIs, Outcome
  <2>4. Line!Settle(d)
    BY <2>1, <2>2, <2>3 DEF Line!Settle, LineOf
  <2> QED
    BY <2>4 DEF Line!Next
<1>7. ASSUME NEW d \in Daemons, OpenBrain(d) \/ Listen(d) \/ Minute(d) \/ NoticeIdle(d)
                                \/ CloseListener(d) \/ CloseEngine(d)
      PROVE  UNCHANGED Line!vars
  BY <1>7 DEF OpenBrain, Listen, Minute, NoticeIdle, CloseListener, CloseEngine, Line!vars, Waiting
<1>8. ASSUME NEW d \in Daemons, NEW r \in Requests, HandlerStep(d, r) PROVE Line!Next
  <2>1. fate[r] = "none"
    BY <1>8 DEF RequestInv, HandlerStep, Enqueue, QueueFull, ServeRead
  <2>2. CASE Enqueue(d, r)
    <3>1. Line!Accept(d, r)
      BY <2>1, <2>2, EnqueueAppends DEF Line!Accept, LineOf, Enqueue, FateIs
    <3> QED
      BY <3>1 DEF Line!Next
  <2>3. CASE QueueFull(d, r)
    BY <2>1, <2>3 DEF QueueFull, FateIs, Line!Refuse, Line!Next, Waiting
  <2>4. CASE ServeRead(d, r)
    BY <2>1, <2>4 DEF ServeRead, FateIs, Outcome, Line!Serve, Line!Next, Waiting
  <2> QED
    BY <1>8, <2>2, <2>3, <2>4 DEF HandlerStep
<1> QED
  BY <1>1, <1>2, <1>3, <1>4, <1>5, <1>6, <1>7, <1>8
  DEF Next, StartStep, WorkerStep, MonitorStep

(* In WriteLine, a write that stands in a line is queued and stands there  *)
(* once.                                                                   *)
LEMMA LineStepInv ==
  ASSUME TypeOK, LineInv, [Line!Next]_Line!vars
  PROVE  LineInv'
<1> DEFINE line == LineOf
<1>1. /\ line \in [Daemons -> Seq(Requests)]
      /\ fate \in [Requests -> {"none", "queued", "done", "failed", "refused", "lost"}]
  BY WaitingType DEF LineOf, TypeOK
<1>2. \A d \in Daemons : DOMAIN line[d] = 1 .. Len(line[d]) /\ Len(line[d]) \in Nat
  BY <1>1
<1>3. CASE UNCHANGED Line!vars
  BY <1>3 DEF Line!vars, LineInv, LineOf
<1>4. ASSUME NEW d \in Daemons, NEW r \in Requests, Line!Accept(d, r) PROVE LineInv'
  <2>1. line' = [line EXCEPT ![d] = Append(@, r)] /\ fate[r] = "none"
        /\ fate' = [fate EXCEPT ![r] = "queued"]
    BY <1>4 DEF Line!Accept, LineOf
  <2>2. \A e \in Daemons : \A i \in DOMAIN line[e] : line[e][i] # r /\ line[e][i] \in Requests
    BY <1>1, <2>1 DEF LineInv
  <2>3. /\ line'[d] = Append(line[d], r)
        /\ \A e \in Daemons \ {d} : line'[e] = line[e]
    BY <1>1, <2>1
  <2>4. /\ DOMAIN line'[d] = 1 .. Len(line[d]) + 1
        /\ \A i \in 1 .. Len(line[d]) : line'[d][i] = line[d][i]
        /\ line'[d][Len(line[d]) + 1] = r
    <3>1. line[d] \in Seq(Requests)
      BY <1>1
    <3> QED
      BY <2>3, <3>1, AppendProperties, LenProperties
  <2>5. \A e \in Daemons : \A i \in DOMAIN line'[e] :
          \/ i \in DOMAIN line[e] /\ line'[e][i] = line[e][i]
          \/ e = d /\ i = Len(line[d]) + 1 /\ line'[e][i] = r
    BY <1>2, <2>3, <2>4
  <2>6. fate'[r] = "queued" /\ \A q \in Requests \ {r} : fate'[q] = fate[q]
    BY <1>1, <2>1
  <2> HIDE DEF line
  <2> QED
    BY <2>2, <2>5, <2>6 DEF LineInv, line
<1>5. ASSUME NEW r \in Requests, Line!Refuse(r) \/ Line!Serve(r) PROVE LineInv'
  BY <1>1, <1>5 DEF Line!Refuse, Line!Serve, LineInv, LineOf
<1>6. ASSUME NEW d \in Daemons, Line!Settle(d) PROVE LineInv'
  <2>1. /\ line[d] \in Seq(Requests) /\ line[d] # <<>>
        /\ line'[d] = Tail(line[d])
        /\ \A e \in Daemons \ {d} : line'[e] = line[e]
    BY <1>1, <1>6 DEF Line!Settle, LineOf
  <2>2. /\ Head(line[d]) = line[d][1] /\ 1 \in DOMAIN line[d]
        /\ DOMAIN line'[d] = 1 .. Len(line[d]) - 1
        /\ \A i \in 1 .. Len(line[d]) - 1 : line'[d][i] = line[d][i + 1]
    BY <2>1, HeadTailProperties, LenProperties
  <2>3. \A q \in Requests \ {line[d][1]} : fate'[q] = fate[q]
    BY <1>1, <1>6, <2>2 DEF Line!Settle, LineOf
  <2> DEFINE at(e, i) == IF e = d THEN i + 1 ELSE i
  <2>4. \A e \in Daemons : \A i \in DOMAIN line'[e] :
          /\ i \in Nat /\ at(e, i) \in DOMAIN line[e]
          /\ line'[e][i] = line[e][at(e, i)]
          /\ e = d => at(e, i) # 1
    <3> SUFFICES ASSUME NEW e \in Daemons, NEW i \in DOMAIN line'[e]
                 PROVE  /\ i \in Nat /\ at(e, i) \in DOMAIN line[e]
                        /\ line'[e][i] = line[e][at(e, i)]
                        /\ e = d => at(e, i) # 1
      OBVIOUS
    <3>1. CASE e = d
      <4>1. i \in 1 .. Len(line[d]) - 1 /\ Len(line[d]) \in Nat /\ DOMAIN line[d] = 1 .. Len(line[d])
        BY <1>2, <2>2, <3>1
      <4>2. line'[d][i] = line[d][i + 1]
        BY <2>2, <4>1
      <4>3. i \in Nat /\ i + 1 \in 1 .. Len(line[d]) /\ i + 1 # 1
        BY <4>1
      <4> QED
        BY <3>1, <4>1, <4>2, <4>3
    <3>2. CASE e # d
      BY <1>2, <2>1, <3>2
    <3> QED
      BY <3>1, <3>2
  <2> HIDE DEF line
  <2>5. \A e \in Daemons : \A i \in DOMAIN line'[e] :
          line'[e][i] \in Requests \ {line[d][1]}
    <3> SUFFICES ASSUME NEW e \in Daemons, NEW i \in DOMAIN line'[e]
                 PROVE  line'[e][i] \in Requests \ {line[d][1]}
      OBVIOUS
    <3>1. line[e][at(e, i)] \in Requests
      BY <1>1, <2>4
    <3>2. line[e][at(e, i)] # line[d][1]
      BY <2>2, <2>4 DEF LineInv, line
    <3> QED
      BY <2>4, <3>1, <3>2
  <2>6. \A e, f \in Daemons : \A i \in DOMAIN line'[e], j \in DOMAIN line'[f] :
          line'[e][i] = line'[f][j] => e = f /\ i = j
    <3> SUFFICES ASSUME NEW e \in Daemons, NEW f \in Daemons,
                        NEW i \in DOMAIN line'[e], NEW j \in DOMAIN line'[f],
                        line'[e][i] = line'[f][j]
                 PROVE  e = f /\ i = j
      OBVIOUS
    <3>1. e = f /\ at(e, i) = at(f, j)
      BY <2>4 DEF LineInv, line
    <3> QED
      BY <2>4, <3>1
  <2>7. \A e \in Daemons : \A i \in DOMAIN line'[e] : fate'[line'[e][i]] = "queued"
    BY <2>3, <2>4, <2>5 DEF LineInv, line
  <2> QED
    BY <2>6, <2>7 DEF LineInv, line
<1>7. ASSUME NEW d \in Daemons, Line!Lose(d) PROVE LineInv'
  <2>1. /\ line'[d] = <<>>
        /\ \A e \in Daemons \ {d} : line'[e] = line[e]
    BY <1>1, <1>7 DEF Line!Lose, LineOf
  <2>2. \A e \in Daemons \ {d} : \A i \in DOMAIN line[e] :
          line[e][i] \in Requests /\ \A j \in DOMAIN line[d] : line[d][j] # line[e][i]
    BY <1>1 DEF LineInv
  <2>3. \A e \in Daemons \ {d} : \A i \in DOMAIN line[e] : fate'[line[e][i]] = fate[line[e][i]]
    BY <1>7, <2>2 DEF Line!Lose, Line!InLine, LineOf
  <2> QED
    BY <2>1, <2>3 DEF LineInv
<1> QED
  BY <1>3, <1>4, <1>5, <1>6, <1>7 DEF Line!Next

-----------------------------------------------------------------------------
(* Requests on their way. *)

(* What is in a line has been queued.                                      *)
LEMMA UnservedQueued ==
  ASSUME TypeOK, LineInv, NEW d \in Daemons
  PROVE  /\ \A r \in Unserved(d) : r \in Requests /\ fate[r] = "queued"
         /\ job[d] # None => job[d] \in Unserved(d)
<1>1. LineOf[d] = Waiting(d) /\ Waiting(d) \in Seq(Requests)
  BY WaitingType DEF LineOf
<1>2. \A r \in Unserved(d) : r \in Requests /\ fate[r] = "queued"
  BY <1>1, LenProperties DEF Unserved, LineInv
<1>3. ASSUME job[d] # None PROVE job[d] \in Unserved(d)
  <2>1. Waiting(d) # <<>> /\ Head(Waiting(d)) = job[d]
    BY <1>3, WaitingType
  <2>2. 1 \in DOMAIN Waiting(d) /\ Waiting(d)[1] = job[d]
    BY <1>1, <2>1, EmptySeq, LenProperties
  <2> QED
    BY <2>2 DEF Unserved
<1> QED
  BY <1>2, <1>3

(* A call of a front end makes a request no one has made (transport.go,    *)
(* handleToolsCall); it ends with the call.                                *)
LEMMA FrontEndRequests ==
  ASSUME TypeOK, ProcessInv, RequestInv, NEW p \in FrontEnds,
         ConnectStep(p) \/ CallStep(p) \/ DirectStep(p)
  PROVE  RequestInv'
<1>1. CASE ConnectStep(p)
  BY <1>1 DEF ConnectStep, RequestInv, PingAnswered, Fork, ForkFails, PingUnanswered, Become
<1>2. ASSUME NEW r \in Requests, Send(p, r) PROVE RequestInv'
  <2>1. /\ port \in Daemons /\ r \notin sent /\ call[p] = None /\ stage[p] = "none"
        /\ fate[r] = "none" /\ \A e \in Daemons : r \notin handling[e]
    BY <1>2 DEF TypeOK, RequestInv, Send, Begin
  <2>2. /\ call'[p] = r /\ stage'[p] = "sent" /\ sent' = sent \cup {r}
        /\ \A q \in FrontEnds \ {p} : call'[q] = call[q] /\ stage'[q] = stage[q]
    BY <1>2 DEF TypeOK, Send, Begin
  <2>3. /\ handling'[port] = handling[port] \cup {r}
        /\ \A e \in Daemons \ {port} : handling'[e] = handling[e]
    BY <1>2, <2>1 DEF TypeOK, Send
  <2>4. \A q \in FrontEnds : call[q] # r
    BY <2>1, DaemonAssumption DEF RequestInv
  <2>5. fate' = fate
    BY <1>2 DEF Send
  <2> QED
    BY <2>1, <2>2, <2>3, <2>4, <2>5 DEF RequestInv
<1>3. ASSUME NEW r \in Requests, SendFails(p, r) PROVE RequestInv'
  BY <1>3 DEF RequestInv, SendFails
<1>4. ASSUME NEW r \in Requests, DirectCall(p, r) PROVE RequestInv'
  <2>1. /\ r \notin sent /\ fate[r] = "none" /\ \A e \in Daemons : r \notin handling[e]
        /\ \A q \in FrontEnds : call[q] # r
    BY <1>4, DaemonAssumption DEF TypeOK, RequestInv, DirectCall, Begin
  <2>2. /\ call'[p] = r /\ stage'[p] = "opening" /\ sent' = sent \cup {r}
        /\ \A q \in FrontEnds \ {p} : call'[q] = call[q] /\ stage'[q] = stage[q]
        /\ fate' = fate /\ handling' = handling
    BY <1>4 DEF TypeOK, DirectCall, Begin
  <2> QED
    BY <2>1, <2>2 DEF RequestInv
<1>5. ASSUME Return(p), UNCHANGED <<fate, handling, sent>> PROVE RequestInv'
  <2>1. /\ call'[p] = None /\ stage'[p] = "none"
        /\ \A q \in FrontEnds \ {p} : call'[q] = call[q] /\ stage'[q] = stage[q]
    BY <1>5 DEF TypeOK, Return
  <2>2. \A e \in Daemons : None \notin handling[e]
    BY DaemonAssumption DEF TypeOK
  <2> QED
    BY <1>5, <2>1, <2>2 DEF RequestInv
<1>6. CASE ClientTimesOut(p) \/ DirectReturn(p)
  BY <1>5, <1>6 DEF ClientTimesOut, DirectReturn
<1>7. CASE DirectOpen(p)
  BY <1>7 DEF TypeOK, RequestInv, DirectOpen
<1>8. CASE DirectFails(p) \/ DirectRun(p)
  <2>1. /\ stage[p] \in {"opening", "open"} /\ call[p] \in Requests /\ call[p] \in sent
        /\ \A e \in Daemons : call[p] \notin handling[e]
        /\ \A q \in FrontEnds \ {p} : call[q] # call[p]
    BY <1>8, DaemonAssumption DEF TypeOK, RequestInv, DirectFails, DirectRun
  <2>2. /\ \A q \in FrontEnds \ {p} : call'[q] = call[q] /\ stage'[q] = stage[q]
        /\ \/ call'[p] = None /\ stage'[p] = "none"
           \/ call'[p] = call[p] /\ stage'[p] = "ran"
        /\ \A r \in Requests \ {call[p]} : fate'[r] = fate[r]
        /\ handling' = handling /\ sent' = sent
    BY <1>8 DEF TypeOK, DirectFails, DirectRun, Return, FateIs
  <2>3. \A e \in Daemons : handling[e] \subseteq Requests \ {None, call[p]}
    BY <2>1, DaemonAssumption DEF TypeOK
  <2>4. \A q \in FrontEnds : stage[q] \in {"opening", "open"} => call[q] \in Requests
    BY DEF TypeOK
  <2>5. \A r \in Requests : fate'[r] # "none" => r \in sent'
    BY <2>1, <2>2 DEF RequestInv
  <2>6. \A q \in FrontEnds :
          /\ call'[q] # None => call'[q] \in sent'
          /\ \A o \in FrontEnds : call'[q] # None /\ call'[o] = call'[q] => o = q
          /\ stage'[q] \in {"opening", "open"} => fate'[call'[q]] = "none"
          /\ stage'[q] # "sent" => \A d \in Daemons : call'[q] \notin handling'[d]
    BY <2>1, <2>2, <2>3, <2>4 DEF RequestInv
  <2> QED
    BY <2>2, <2>3, <2>5, <2>6 DEF RequestInv
<1> QED
  BY <1>1, <1>2, <1>3, <1>4, <1>6, <1>7, <1>8 DEF CallStep, DirectStep

(* The calls whose handlers die with their daemon end.                     *)
LEMMA EndRequests ==
  ASSUME TypeOK, RequestInv, LineInv, NEW d \in Daemons, NEW s \in Procs, ProcessEnds(d, s)
  PROVE  RequestInv'
<1>1. \A r \in Requests : (fate'[r] = "none" <=> fate[r] = "none") /\ sent' = sent
  BY UnservedQueued DEF ProcessEnds
<1>2. \A p \in FrontEnds :
        \/ call'[p] = None /\ stage'[p] = "none"
        \/ call'[p] = call[p] /\ stage'[p] = stage[p]
  <2> SUFFICES ASSUME NEW p \in FrontEnds
               PROVE  \/ call'[p] = None /\ stage'[p] = "none"
                      \/ call'[p] = call[p] /\ stage'[p] = stage[p]
    OBVIOUS
  <2>1. CASE call[p] \in handling[d]
    BY <2>1 DEF ProcessEnds
  <2>2. CASE call[p] \notin handling[d]
    BY <2>2 DEF ProcessEnds
  <2> QED
    BY <2>1, <2>2
<1>3. \A e \in Daemons : handling'[e] \subseteq handling[e] /\ None \notin handling[e]
                        /\ handling[e] \subseteq Requests
  BY DaemonAssumption DEF TypeOK, ProcessEnds
<1>4. \A p \in FrontEnds : stage[p] \in {"opening", "open"} => call[p] \in Requests
  BY DEF TypeOK
<1>5. \A p \in FrontEnds :
        /\ call'[p] # None => call'[p] \in sent'
        /\ \A q \in FrontEnds : call'[p] # None /\ call'[q] = call'[p] => q = p
        /\ stage'[p] \in {"opening", "open"} => fate'[call'[p]] = "none"
        /\ stage'[p] # "sent" => \A e \in Daemons : call'[p] \notin handling'[e]
  <2> SUFFICES ASSUME NEW p \in FrontEnds
               PROVE  /\ call'[p] # None => call'[p] \in sent'
                      /\ \A q \in FrontEnds : call'[p] # None /\ call'[q] = call'[p] => q = p
                      /\ stage'[p] \in {"opening", "open"} => fate'[call'[p]] = "none"
                      /\ stage'[p] # "sent" => \A e \in Daemons : call'[p] \notin handling'[e]
    OBVIOUS
  <2>1. CASE call'[p] = None /\ stage'[p] = "none"
    BY <1>3, <2>1
  <2>2. CASE call'[p] = call[p] /\ stage'[p] = stage[p]
    <3>1. call[p] # None => call[p] \in Requests /\ call[p] \in sent
      BY DEF TypeOK, RequestInv
    <3>2. \A q \in FrontEnds : call'[p] # None /\ call'[q] = call'[p] => q = p
      BY <1>2, <2>2 DEF RequestInv
    <3>3. stage'[p] \in {"opening", "open"} => fate'[call'[p]] = "none"
      BY <1>1, <1>4, <2>2 DEF RequestInv
    <3>4. stage'[p] # "sent" => \A e \in Daemons : call'[p] \notin handling'[e]
      BY <1>3, <2>2 DEF RequestInv
    <3>5. sent' = sent
      BY DEF ProcessEnds
    <3> QED
      BY <2>2, <3>1, <3>2, <3>3, <3>4, <3>5
  <2> QED
    BY <1>2, <2>1, <2>2
<1>6. \A e \in Daemons : \A r \in handling'[e] :
        /\ fate'[r] = "none" /\ r \in sent'
        /\ \A f \in Daemons : r \in handling'[f] => f = e
  BY <1>1, <1>3 DEF RequestInv
<1> QED
  BY <1>1, <1>5, <1>6 DEF RequestInv

(* A daemon by itself touches only requests that are queued.               *)
LEMMA DaemonRequests ==
  ASSUME TypeOK, RequestInv, LineInv, NEW d \in Daemons,
         StartStep(d) \/ WorkerStep(d) \/ MonitorStep(d) \/ Minute(d) \/ Crash(d)
  PROVE  RequestInv'
<1>1. CASE StartFails(d) \/ Exit(d) \/ Crash(d)
  BY <1>1, EndRequests DEF StartFails, Exit, Crash, Procs
<1>2. CASE RunJob(d)
  <2>1. job[d] \in Requests /\ fate[job[d]] = "queued"
    BY <1>2, UnservedQueued DEF RunJob
  <2>2. /\ \A r \in Requests : fate'[r] = "none" <=> fate[r] = "none"
        /\ UNCHANGED <<call, stage, handling, sent>>
    BY <1>2, <2>1 DEF TypeOK, RunJob, FateIs, Outcome
  <2>3. /\ \A e \in Daemons : handling[e] \subseteq Requests
        /\ \A p \in FrontEnds : stage[p] \in {"opening", "open"} => call[p] \in Requests
    BY DEF TypeOK
  <2> QED
    BY <2>2, <2>3 DEF RequestInv
<1>3. CASE OpenBrain(d) \/ Listen(d) \/ TakeJob(d) \/ NoticeIdle(d) \/ CloseListener(d)
           \/ CloseEngine(d) \/ Minute(d)
  BY <1>3 DEF RequestInv, OpenBrain, Listen, TakeJob, NoticeIdle, CloseListener, CloseEngine, Minute
<1> QED
  BY <1>1, <1>2, <1>3 DEF StartStep, WorkerStep, MonitorStep

(* A handler gives its request a fate and is done with it (handleRequest,  *)
(* server.go).                                                             *)
LEMMA HandlerRequests ==
  ASSUME TypeOK, RequestInv, NEW d \in Daemons, NEW r \in Requests, HandlerStep(d, r)
  PROVE  RequestInv'
<1>1. /\ r \in handling[d] /\ Answer(d, r) /\ sent' = sent
      /\ \E f \in {"queued", "refused", "done", "failed"} : fate' = [fate EXCEPT ![r] = f]
  BY DEF HandlerStep, Enqueue, QueueFull, ServeRead, FateIs, Outcome
<1>2. /\ r \in sent /\ \A q \in Requests \ {r} : fate'[q] = fate[q]
      /\ \A p \in FrontEnds : call[p] = r => stage[p] = "sent"
      /\ \A e \in Daemons \ {d} : r \notin handling[e]
  BY <1>1 DEF TypeOK, RequestInv
<1>3. /\ handling'[d] = handling[d] \ {r}
      /\ \A e \in Daemons \ {d} : handling'[e] = handling[e]
  BY <1>1 DEF TypeOK, Answer
<1>4. \A p \in FrontEnds :
        \/ call'[p] = None /\ stage'[p] = "none"
        \/ call[p] # r /\ call'[p] = call[p] /\ stage'[p] = stage[p]
  <2> SUFFICES ASSUME NEW p \in FrontEnds
               PROVE  \/ call'[p] = None /\ stage'[p] = "none"
                      \/ call[p] # r /\ call'[p] = call[p] /\ stage'[p] = stage[p]
    OBVIOUS
  <2>1. CASE call[p] = r
    BY <1>1, <2>1 DEF Answer
  <2>2. CASE call[p] # r
    BY <1>1, <2>2 DEF Answer
  <2> QED
    BY <2>1, <2>2
<1>5. \A e \in Daemons : handling'[e] \subseteq handling[e] \ {r} /\ None \notin handling[e]
                        /\ handling[e] \subseteq Requests
  <2>1. \A e \in Daemons : handling[e] \subseteq Requests
    BY DEF TypeOK
  <2>2. \A e \in Daemons : handling'[e] \subseteq handling[e] \ {r}
    BY <1>2, <1>3
  <2> QED
    BY <2>1, <2>2, DaemonAssumption
<1>6. \A p \in FrontEnds : stage[p] \in {"opening", "open"} => call[p] \in Requests
  BY DEF TypeOK
<1>7. \A q \in Requests : fate'[q] # "none" => q \in sent'
  BY <1>1, <1>2 DEF RequestInv
<1>8. \A p \in FrontEnds :
        /\ call'[p] # None => call'[p] \in sent'
        /\ \A q \in FrontEnds : call'[p] # None /\ call'[q] = call'[p] => q = p
        /\ stage'[p] \in {"opening", "open"} => fate'[call'[p]] = "none"
        /\ stage'[p] # "sent" => \A e \in Daemons : call'[p] \notin handling'[e]
  BY <1>1, <1>2, <1>4, <1>5, <1>6 DEF RequestInv
<1>9. \A e \in Daemons : \A q \in handling'[e] :
        /\ fate'[q] = "none" /\ q \in sent'
        /\ \A f \in Daemons : q \in handling'[f] => f = e
  BY <1>1, <1>2, <1>5 DEF RequestInv
<1> QED
  BY <1>7, <1>8, <1>9 DEF RequestInv

(* No step sends a request two ways.                                       *)
LEMMA RequestStepInv ==
  TypeOK /\ ProcessInv /\ RequestInv /\ LineInv /\ [Next]_vars => RequestInv'
<1> SUFFICES ASSUME TypeOK, ProcessInv, RequestInv, LineInv, [Next]_vars PROVE RequestInv'
  OBVIOUS
<1>1. CASE UNCHANGED vars
  BY <1>1 DEF RequestInv
<1>2. CASE Next
  BY <1>2, FrontEndRequests, DaemonRequests, HandlerRequests DEF Next
<1> QED
  BY <1>1, <1>2

-----------------------------------------------------------------------------
(* Theorems. *)

(* Before anything runs, the invariant holds.                              *)
LEMMA InitInv == Init => IInv
<1> SUFFICES ASSUME Init PROVE IInv
  OBVIOUS
<1>1. ConnectInv
  BY DaemonAssumption DEF Init, ConnectInv
<1>2. ProcessInv
  BY DaemonAssumption DEF Init, ProcessInv, Holding, Serving
<1>3. RequestInv
  BY DaemonAssumption DEF Init, RequestInv
<1>4. LineInv
  <2>1. \A d \in Daemons : Waiting(d) = <<>>
    BY DEF Init, Waiting
  <2> QED
    BY <2>1 DEF LineInv, LineOf
<1> QED
  BY TypesInit, <1>1, <1>2, <1>3, <1>4 DEF IInv

(* And no step breaks it.                                                  *)
LEMMA StepInv == IInv /\ [Next]_vars => IInv'
<1> SUFFICES ASSUME IInv, [Next]_vars PROVE IInv'
  OBVIOUS
<1>1. TypeOK'
  BY TypesStep DEF IInv
<1>2. LineInv'
  BY <1>1, LineStep, LineStepInv DEF IInv
<1> QED
  BY <1>1, <1>2, ConnectStepInv, ProcessStepInv, RequestStepInv DEF IInv

(* The strengthened invariant: who holds the lock and the port, where each *)
(* request is on its way, and that a write stands in one line, once.       *)
THEOREM InductiveInvariant == Spec => []IInv
BY InitInv, StepInv, PTL DEF Spec

(* The variables of Daemon keep their types, and no channel ever holds     *)
(* more writes than its capacity (writeCh, server.go).                     *)
THEOREM TypeCorrect == Spec => []TypeOK
<1>1. IInv => TypeOK
  BY DEF IInv
<1> QED
  BY <1>1, InductiveInvariant, PTL

(* Whoever answers clients holds the brain's lock and has the engine open, *)
(* through every race of starting, stopping and dying daemons (runDaemon,  *)
(* Server.Start, watchAndExit).                                            *)
THEOREM ServersHold == Spec => []ServingHoldsTheBrain
<1>1. IInv => ServingHoldsTheBrain
  <2> SUFFICES ASSUME IInv PROVE ServingHoldsTheBrain
    OBVIOUS
  <2>1. port # None => port \in Daemons /\ proc[port] \in {"listening", "expired"}
    BY DEF IInv, TypeOK, ProcessInv
  <2> QED
    BY <2>1 DEF IInv, ProcessInv, ServingHoldsTheBrain, Holding, Serving
<1> QED
  BY <1>1, InductiveInvariant, PTL

(* One step lets a request take effect only in the process that holds the  *)
(* lock (startWriteWorker, handleRequest, EngineClient.Call).              *)
LEMMA OwnerStep ==
  ASSUME IInv, [Next]_vars, NEW r \in Requests, fate[r] # "done", fate'[r] = "done"
  PROVE  \/ \E d \in Daemons : lock = d /\ (job[d] = r \/ r \in handling[d])
         \/ \E p \in FrontEnds : lock = p /\ call[p] = r
<1> USE DEF IInv
<1>1. CASE UNCHANGED fate
  BY <1>1
<1>2. ASSUME NEW d \in Daemons, ProcessEnds(d, proc'[d]) PROVE fate'[r] # "done"
  BY <1>2 DEF ProcessEnds
<1>3. ASSUME NEW d \in Daemons, RunJob(d) PROVE lock = d /\ job[d] = r
  BY <1>3 DEF TypeOK, ProcessInv, RunJob, FateIs, Holding, Serving
<1>4. ASSUME NEW d \in Daemons, NEW q \in Requests, HandlerStep(d, q)
      PROVE  lock = d /\ r \in handling[d]
  <2>1. q \in handling[d] /\ \E f : fate' = [fate EXCEPT ![q] = f]
    BY <1>4 DEF HandlerStep, Enqueue, QueueFull, ServeRead, FateIs
  <2>2. q = r
    BY <2>1 DEF TypeOK
  <2> QED
    BY <2>1, <2>2 DEF ProcessInv, Holding, Serving
<1>5. ASSUME NEW p \in FrontEnds, DirectFails(p) PROVE fate'[r] # "done"
  BY <1>5 DEF TypeOK, DirectFails, FateIs
<1>6. ASSUME NEW p \in FrontEnds, DirectRun(p) PROVE lock = p /\ call[p] = r
  BY <1>6 DEF TypeOK, ProcessInv, DirectRun, FateIs
<1>7. ASSUME NEW p \in FrontEnds, ConnectStep(p) \/ CallStep(p) \/ DirectOpen(p) \/ DirectReturn(p)
      PROVE  UNCHANGED fate
  BY <1>7 DEF ConnectStep, CallStep, PingAnswered, Fork, ForkFails, PingUnanswered, Become,
              Send, SendFails, DirectCall, ClientTimesOut, DirectOpen, DirectReturn
<1>8. ASSUME NEW d \in Daemons, OpenBrain(d) \/ Listen(d) \/ Minute(d) \/ TakeJob(d)
               \/ NoticeIdle(d) \/ CloseListener(d) \/ CloseEngine(d)
      PROVE  UNCHANGED fate
  BY <1>8 DEF OpenBrain, Listen, Minute, TakeJob, NoticeIdle, CloseListener, CloseEngine
<1>9. ASSUME NEW d \in Daemons, StartFails(d) \/ Exit(d) \/ Crash(d) PROVE fate'[r] # "done"
  <2>1. \E s \in Procs : ProcessEnds(d, s)
    BY <1>9 DEF StartFails, Exit, Crash, Procs
  <2> QED
    BY <2>1 DEF ProcessEnds
<1> QED
  BY <1>1, <1>3, <1>4, <1>5, <1>6, <1>7, <1>8, <1>9
  DEF Next, DirectStep, StartStep, WorkerStep, MonitorStep

(* The worker of a daemon that has closed its engine changes nothing any   *)
(* more, though the next process may already have the brain open.          *)
THEOREM OwnersServe == Spec => OnlyTheOwnerServes
<1>1. IInv /\ [Next]_vars =>
        [\A r \in Requests :
           fate[r] # "done" /\ fate'[r] = "done" =>
             \/ \E d \in Daemons : lock = d /\ (job[d] = r \/ r \in handling[d])
             \/ \E p \in FrontEnds : lock = p /\ call[p] = r]_vars
  BY OwnerStep
<1> QED
  BY <1>1, InductiveInvariant, PTL DEF Spec, OnlyTheOwnerServes

(* The empty lines and the requests without a fate are where WriteLine     *)
(* starts.                                                                 *)
LEMMA LineInit == Init => Line!Init
<1> SUFFICES ASSUME Init PROVE Line!Init
  OBVIOUS
<1>1. \A d \in Daemons : Waiting(d) = <<>>
  BY DEF Init, Waiting
<1> QED
  BY <1>1 DEF Init, Line!Init

(* The daemons implement WriteLine: accepted writes are served in the      *)
(* order of their acceptance, at most once, and a refused one never is     *)
(* (handleRequest, startWriteWorker).                                      *)
THEOREM LineKept == Spec => KeepsTheLine
<1>1. IInv /\ [Next]_vars => [Line!Next]_Line!vars
  BY LineStep, StepInv DEF IInv
<1> QED
  BY <1>1, LineInit, InductiveInvariant, PTL DEF Spec, KeepsTheLine, Line!Spec
=============================================================================
