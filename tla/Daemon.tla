------------------------------- MODULE Daemon -------------------------------
(***************************************************************************)
(* The processes around one brainfile: MCP front ends (fquery mcp) and the *)
(* background daemons they fork (internal/daemon, cmd/fquery).             *)
(*                                                                         *)
(* A front end pings the daemon, forks one when there is none, and pings   *)
(* again a few times; for the rest of its life it forwards its calls to    *)
(* the daemon (mode "proxy") or, when none answered in time, opens the     *)
(* brain itself for every call (mode "direct").  A daemon opens the brain, *)
(* whose file lock keeps every other process out, and only then listens.   *)
(* It answers reads at once, concurrently; a write is put into a channel   *)
(* of bounded capacity, the client is told "queued", and a single worker   *)
(* works the channel off.  A daemon that has seen no activity for the idle *)
(* timeout ends itself.                                                    *)
(*                                                                         *)
(* Abstractions.  One machine, one port and one brain.  A request is its   *)
(* identity; Writes are those of operation remember or sync, Rejected      *)
(* those that the pipeline or the engine turns down (no allow_write, the   *)
(* name of another brain).  What a write does to the brain, and what is    *)
(* left of it when the engine is closed under it, is MemoryEngine's; here  *)
(* it takes effect as a whole.  idle[d] counts the minutes since the last  *)
(* activity, up to the timeout.                                            *)
(***************************************************************************)
EXTENDS Naturals, Sequences

CONSTANTS
  FrontEnds,    \* fquery mcp processes
  Daemons,      \* daemon processes that can be forked (bound: each runs once)
  Requests,     \* calls of the agents (bound: each is made once)
  Writes, Rejected,
  Capacity,     \* writeBufferSize
  IdleTimeout,  \* in minutes
  Pings,        \* pings of a front end after it forked a daemon
  MaxCrashes,   \* bound: daemons that are killed
  None          \* "no value"

ASSUME DaemonAssumption ==
  /\ Writes \subseteq Requests /\ Rejected \subseteq Requests
  /\ FrontEnds \cap Daemons = {}
  /\ None \notin FrontEnds \cup Daemons \cup Requests
  /\ Capacity \in Nat \ {0} /\ IdleTimeout \in Nat \ {0}
  /\ Pings \in Nat \ {0} /\ MaxCrashes \in Nat

VARIABLES
  (* front ends *)
  mode,      \* [FrontEnds -> {"new", "waiting", "proxy", "direct"}]
  pings,     \* pings left
  call,      \* [FrontEnds -> Requests or None], the call in progress
  stage,     \* where it is: "none", "sent", "opening", "open", "ran"
  (* daemons *)
  proc,      \* what the process does
  engine,    \* [Daemons -> {"none", "open", "closed"}]
  handling,  \* requests whose HTTP handlers run
  queue,     \* writeCh
  job,       \* the write the worker runs
  idle,      \* minutes since the last activity
  (* the operating system *)
  lock,      \* the process that holds the brain's file lock
  port,      \* the daemon that listens
  (* history and bounds *)
  sent,      \* requests made
  fate,      \* what became of each request
  crashes

frontVars  == <<mode, pings, call, stage>>
serverVars == <<handling, queue, job>>
osVars     == <<lock, port>>
histVars   == <<sent, fate, crashes>>
vars == <<frontVars, proc, engine, serverVars, idle, osVars, histVars>>

(* "expired": watchAndExit has found the daemon idle; "stopping": Shutdown *)
(* has closed the listener; "exited": it ended itself; "failed": it could  *)
(* not start, or was killed.                                               *)
Alive == {"starting", "opened", "listening", "expired", "stopping"}
Procs == {"none", "exited", "failed"} \cup Alive

TypeOK ==
  /\ mode \in [FrontEnds -> {"new", "waiting", "proxy", "direct"}]
  /\ pings \in [FrontEnds -> 0 .. Pings]
  /\ call \in [FrontEnds -> Requests \cup {None}]
  /\ stage \in [FrontEnds -> {"none", "sent", "opening", "open", "ran"}]
  /\ \A p \in FrontEnds : call[p] = None <=> stage[p] = "none"
  /\ proc \in [Daemons -> Procs]
  /\ engine \in [Daemons -> {"none", "open", "closed"}]
  /\ handling \in [Daemons -> SUBSET Requests]
  /\ queue \in [Daemons -> Seq(Requests)]
  /\ \A d \in Daemons : Len(queue[d]) <= Capacity
  /\ job \in [Daemons -> Requests \cup {None}]
  /\ idle \in [Daemons -> 0 .. IdleTimeout]
  /\ lock \in Daemons \cup FrontEnds \cup {None}
  /\ port \in Daemons \cup {None}
  /\ sent \subseteq Requests
  /\ fate \in [Requests -> {"none", "queued", "done", "failed", "refused", "lost"}]
  /\ crashes \in 0 .. MaxCrashes

-----------------------------------------------------------------------------
(* Connecting (runMCP, tryConnectDaemon). *)

Become(p, m) ==
  /\ mode' = [mode EXCEPT ![p] = m]
  /\ UNCHANGED <<call, stage, engine, serverVars, idle, osVars, histVars>>

(* A ping is answered by whoever listens; it is no activity.               *)
PingAnswered(p) ==
  /\ mode[p] \in {"new", "waiting"} /\ port # None
  /\ Become(p, "proxy")
  /\ UNCHANGED <<pings, proc>>

Fork(p) ==
  /\ mode[p] = "new" /\ port = None
  /\ \E d \in Daemons : proc[d] = "none" /\ proc' = [proc EXCEPT ![d] = "starting"]
  /\ Become(p, "waiting")
  /\ UNCHANGED pings

ForkFails(p) ==
  /\ mode[p] = "new" /\ port = None
  /\ Become(p, "direct")
  /\ UNCHANGED <<pings, proc>>

PingUnanswered(p) ==
  /\ mode[p] = "waiting" /\ port = None
  /\ pings' = [pings EXCEPT ![p] = @ - 1]
  /\ Become(p, IF pings[p] = 1 THEN "direct" ELSE "waiting")
  /\ UNCHANGED proc

-----------------------------------------------------------------------------
(* The life of a daemon (runDaemon, Server.Start, watchAndExit). *)

EngineIs(d, state) == engine' = [engine EXCEPT ![d] = state]
ProcIs(d, state) == proc' = [proc EXCEPT ![d] = state]

OpenBrain(d) ==
  /\ proc[d] = "starting" /\ lock = None
  /\ ProcIs(d, "opened") /\ EngineIs(d, "open") /\ lock' = d
  /\ UNCHANGED <<frontVars, serverVars, idle, port, histVars>>

(* The worker and the monitor start, the daemon touches its activity and   *)
(* listens.                                                                *)
Listen(d) ==
  /\ proc[d] = "opened" /\ port = None
  /\ ProcIs(d, "listening") /\ port' = d
  /\ idle' = [idle EXCEPT ![d] = 0]
  /\ UNCHANGED <<frontVars, engine, serverVars, lock, histVars>>

Waiting(d) == (IF job[d] = None THEN <<>> ELSE <<job[d]>>) \o queue[d]
Unserved(d) == {Waiting(d)[k] : k \in DOMAIN Waiting(d)}

(* A process ends: the operating system takes back the lock and the port,  *)
(* open connections break, and the channel is gone with what it holds.     *)
ProcessEnds(d, state) ==
  /\ ProcIs(d, state)
  /\ handling' = [handling EXCEPT ![d] = {}]
  /\ queue' = [queue EXCEPT ![d] = <<>>]
  /\ job' = [job EXCEPT ![d] = None]
  /\ fate' = [r \in Requests |-> IF r \in Unserved(d) THEN "lost" ELSE fate[r]]
  /\ lock' = IF lock = d THEN None ELSE lock
  /\ port' = IF port = d THEN None ELSE port
  /\ call' = [p \in FrontEnds |-> IF call[p] \in handling[d] THEN None ELSE call[p]]
  /\ stage' = [p \in FrontEnds |-> IF call[p] \in handling[d] THEN "none" ELSE stage[p]]
  /\ UNCHANGED <<mode, pings, engine, idle, sent>>

(* The models cannot be set up, the lock is not free within its timeout,   *)
(* or another program has the port.                                        *)
StartFails(d) ==
  /\ proc[d] \in {"starting", "opened"}
  /\ ProcessEnds(d, "failed") /\ UNCHANGED crashes

(* The handler of a write does not block, nor does a free worker wait: no  *)
(* minute passes before they are done.                                     *)
Minute(d) ==
  /\ proc[d] = "listening" /\ idle[d] < IdleTimeout
  /\ handling[d] \cap Writes = {}
  /\ job[d] = None => queue[d] = <<>>
  /\ idle' = [idle EXCEPT ![d] = @ + 1]
  /\ UNCHANGED <<frontVars, proc, engine, serverVars, osVars, histVars>>

(* The monitor compares, and acts on what it saw.                          *)
NoticeIdle(d) ==
  /\ proc[d] = "listening" /\ idle[d] = IdleTimeout
  /\ ProcIs(d, "expired")
  /\ UNCHANGED <<frontVars, engine, serverVars, idle, osVars, histVars>>

(* Shutdown closes the listener, then waits for the handlers.              *)
CloseListener(d) ==
  /\ proc[d] = "expired"
  /\ ProcIs(d, "stopping") /\ port' = None
  /\ UNCHANGED <<frontVars, engine, serverVars, idle, lock, histVars>>

(* Faulty variant: the server is closed, not shut down.                    *)
CloseEngineAtOnce(d) ==
  /\ proc[d] = "stopping" /\ engine[d] = "open"
  /\ EngineIs(d, "closed") /\ lock' = None
  /\ UNCHANGED <<frontVars, proc, serverVars, idle, port, histVars>>

(* shutdownFn: the engine is closed, whatever the worker is doing.         *)
CloseEngine(d) ==
  /\ proc[d] = "stopping" /\ engine[d] = "open" /\ handling[d] = {}
  /\ EngineIs(d, "closed") /\ lock' = None
  /\ UNCHANGED <<frontVars, proc, serverVars, idle, port, histVars>>

(* os.Exit(0), once the engine is closed; or before, for Serve returns as  *)
(* soon as the listener is closed, and with it runDaemon and main.         *)
Exit(d) ==
  /\ proc[d] = "stopping"
  /\ ProcessEnds(d, "exited") /\ UNCHANGED crashes

Crash(d) ==
  /\ proc[d] \in Alive /\ crashes < MaxCrashes
  /\ crashes' = crashes + 1
  /\ ProcessEnds(d, "failed")

-----------------------------------------------------------------------------
(* Calls forwarded to the daemon (handleRequest, startWriteWorker). *)

(* The call of p is over.                                                  *)
Return(p) ==
  /\ call' = [call EXCEPT ![p] = None]
  /\ stage' = [stage EXCEPT ![p] = "none"]

Begin(p, r, s) ==
  /\ call[p] = None /\ r \notin sent
  /\ sent' = sent \cup {r}
  /\ call' = [call EXCEPT ![p] = r]
  /\ stage' = [stage EXCEPT ![p] = s]

(* The daemon that listens receives the request and notes the activity.    *)
Send(p, r) ==
  /\ mode[p] = "proxy" /\ port # None
  /\ Begin(p, r, "sent")
  /\ handling' = [handling EXCEPT ![port] = @ \cup {r}]
  /\ idle' = [idle EXCEPT ![port] = 0]
  /\ UNCHANGED <<mode, pings, proc, engine, queue, job, osVars, fate, crashes>>

(* Nobody listens: the call fails.  A front end never connects anew.       *)
SendFails(p, r) ==
  /\ mode[p] = "proxy" /\ port = None
  /\ call[p] = None /\ r \notin sent
  /\ sent' = sent \cup {r}
  /\ UNCHANGED <<frontVars, proc, engine, serverVars, idle, osVars, fate, crashes>>

(* The client gives up (30 s); the handler runs on.                        *)
ClientTimesOut(p) ==
  /\ stage[p] = "sent"
  /\ Return(p)
  /\ UNCHANGED <<mode, pings, proc, engine, serverVars, idle, osVars, histVars>>

(* A handler answers r, to the front end that still waits for it.          *)
Answer(d, r) ==
  /\ handling' = [handling EXCEPT ![d] = @ \ {r}]
  /\ call' = [p \in FrontEnds |-> IF call[p] = r THEN None ELSE call[p]]
  /\ stage' = [p \in FrontEnds |-> IF call[p] = r THEN "none" ELSE stage[p]]
  /\ UNCHANGED <<mode, pings>>

FateIs(r, f) == fate' = [fate EXCEPT ![r] = f]
Outcome(r) == IF r \in Rejected THEN "failed" ELSE "done"

Enqueue(d, r) ==
  /\ r \in handling[d] \cap Writes
  /\ Len(queue[d]) < Capacity
  /\ queue' = [queue EXCEPT ![d] = Append(@, r)]
  /\ FateIs(r, "queued")
  /\ Answer(d, r)
  /\ UNCHANGED <<proc, engine, job, idle, osVars, sent, crashes>>

QueueFull(d, r) ==
  /\ r \in handling[d] \cap Writes
  /\ Len(queue[d]) = Capacity
  /\ FateIs(r, "refused")
  /\ Answer(d, r)
  /\ UNCHANGED <<proc, engine, queue, job, idle, osVars, sent, crashes>>

ServeRead(d, r) ==
  /\ r \in handling[d] \ Writes
  /\ FateIs(r, Outcome(r))
  /\ Answer(d, r)
  /\ UNCHANGED <<proc, engine, queue, job, idle, osVars, sent, crashes>>

(* Faulty variant: every write is run by a goroutine of its own.           *)
TakeAnyJob(d) ==
  /\ job[d] = None
  /\ \E k \in DOMAIN queue[d] :
       /\ job' = [job EXCEPT ![d] = queue[d][k]]
       /\ queue' = [queue EXCEPT ![d] = SubSeq(@, 1, k - 1) \o SubSeq(@, k + 1, Len(@))]
  /\ UNCHANGED <<frontVars, proc, engine, handling, idle, osVars, histVars>>

TakeJob(d) ==
  /\ job[d] = None /\ queue[d] # <<>>
  /\ job' = [job EXCEPT ![d] = Head(queue[d])]
  /\ queue' = [queue EXCEPT ![d] = Tail(@)]
  /\ UNCHANGED <<frontVars, proc, engine, handling, idle, osVars, histVars>>

(* Faulty variant: the store does not remember that it was closed.         *)
RunJobUnguarded(d) ==
  /\ job[d] # None
  /\ FateIs(job[d], Outcome(job[d]))
  /\ job' = [job EXCEPT ![d] = None]
  /\ idle' = [idle EXCEPT ![d] = 0]
  /\ UNCHANGED <<frontVars, proc, engine, handling, queue, osVars, sent, crashes>>

(* Faulty variant: the worker stops at the first error.                    *)
RunJobOrStop(d) ==
  /\ job[d] # None
  /\ engine[d] = "open" /\ job[d] \notin Rejected
  /\ FateIs(job[d], "done")
  /\ job' = [job EXCEPT ![d] = None]
  /\ idle' = [idle EXCEPT ![d] = 0]
  /\ UNCHANGED <<frontVars, proc, engine, handling, queue, osVars, sent, crashes>>

(* A write fails when it is rejected or finds the engine closed; an error  *)
(* is logged only.                                                         *)
RunJob(d) ==
  /\ job[d] # None
  /\ FateIs(job[d], IF engine[d] = "open" THEN Outcome(job[d]) ELSE "failed")
  /\ job' = [job EXCEPT ![d] = None]
  /\ idle' = [idle EXCEPT ![d] = 0]
  /\ UNCHANGED <<frontVars, proc, engine, handling, queue, osVars, sent, crashes>>

-----------------------------------------------------------------------------
(* Calls of a front end without a daemon (runMCPDirect, EngineClient). *)

DirectCall(p, r) ==
  /\ mode[p] = "direct"
  /\ Begin(p, r, "opening")
  /\ UNCHANGED <<mode, pings, proc, engine, serverVars, idle, osVars, fate, crashes>>

DirectOpen(p) ==
  /\ stage[p] = "opening" /\ lock = None
  /\ stage' = [stage EXCEPT ![p] = "open"]
  /\ lock' = p
  /\ UNCHANGED <<mode, pings, call, proc, engine, serverVars, idle, port, histVars>>

(* The contract is rejected, or the lock is not free within its timeout.   *)
DirectFails(p) ==
  /\ stage[p] = "opening"
  /\ call[p] \in Rejected \/ lock # None
  /\ FateIs(call[p], "failed")
  /\ Return(p)
  /\ UNCHANGED <<mode, pings, proc, engine, serverVars, idle, osVars, sent, crashes>>

DirectRun(p) ==
  /\ stage[p] = "open"
  /\ FateIs(call[p], Outcome(call[p]))
  /\ stage' = [stage EXCEPT ![p] = "ran"]
  /\ UNCHANGED <<mode, pings, call, proc, engine, serverVars, idle, osVars, sent, crashes>>

(* Faulty variant: the engine of a call is not closed.                     *)
DirectReturnOpen(p) ==
  /\ stage[p] = "ran"
  /\ Return(p)
  /\ UNCHANGED <<mode, pings, proc, engine, serverVars, idle, osVars, histVars>>

DirectReturn(p) ==
  /\ stage[p] = "ran"
  /\ Return(p)
  /\ lock' = None
  /\ UNCHANGED <<mode, pings, proc, engine, serverVars, idle, port, histVars>>

-----------------------------------------------------------------------------
Init ==
  /\ mode = [p \in FrontEnds |-> "new"]
  /\ pings = [p \in FrontEnds |-> Pings]
  /\ call = [p \in FrontEnds |-> None]
  /\ stage = [p \in FrontEnds |-> "none"]
  /\ proc = [d \in Daemons |-> "none"]
  /\ engine = [d \in Daemons |-> "none"]
  /\ handling = [d \in Daemons |-> {}]
  /\ queue = [d \in Daemons |-> <<>>]
  /\ job = [d \in Daemons |-> None]
  /\ idle = [d \in Daemons |-> 0]
  /\ lock = None /\ port = None
  /\ sent = {} /\ crashes = 0
  /\ fate = [r \in Requests |-> "none"]

ConnectStep(p) ==
  PingAnswered(p) \/ Fork(p) \/ ForkFails(p) \/ PingUnanswered(p)

CallStep(p) ==
  \/ \E r \in Requests : Send(p, r) \/ SendFails(p, r) \/ DirectCall(p, r)
  \/ ClientTimesOut(p)

DirectStep(p) == DirectOpen(p) \/ DirectFails(p) \/ DirectRun(p) \/ DirectReturn(p)

StartStep(d) == OpenBrain(d) \/ Listen(d) \/ StartFails(d)
HandlerStep(d, r) == Enqueue(d, r) \/ QueueFull(d, r) \/ ServeRead(d, r)
WorkerStep(d) == TakeJob(d) \/ RunJob(d)
MonitorStep(d) == NoticeIdle(d) \/ CloseListener(d) \/ CloseEngine(d) \/ Exit(d)

Next ==
  \/ \E p \in FrontEnds : ConnectStep(p) \/ CallStep(p) \/ DirectStep(p)
  \/ \E d \in Daemons :
       \/ StartStep(d) \/ WorkerStep(d) \/ MonitorStep(d) \/ Minute(d) \/ Crash(d)
       \/ \E r \in Requests : HandlerStep(d, r)

Spec == Init /\ [][Next]_vars

(* Goroutines and processes that can go on do; nobody is obliged to        *)
(* connect or to call.                                                     *)
Fairness ==
  /\ \A p \in FrontEnds : WF_vars(DirectStep(p))
  /\ \A d \in Daemons :
       /\ WF_vars(StartStep(d))
       /\ WF_vars(WorkerStep(d))
       /\ WF_vars(MonitorStep(d))
       /\ \A r \in Requests : WF_vars(HandlerStep(d, r))

FairSpec == Spec /\ Fairness

-----------------------------------------------------------------------------
(* Safety. *)

(* Whoever answers clients has the brain open: a daemon listens only       *)
(* between the opening of its engine (runDaemon) and its closing, and no   *)
(* handler is still at work when shutdownFn closes it (server.go).         *)
ServingHoldsTheBrain ==
  /\ port # None => lock = port
  /\ \A d \in Daemons : handling[d] # {} => lock = d /\ engine[d] = "open"

(* A request takes effect only in the process that holds the lock of the   *)
(* brain: not in the worker of a daemon that has closed its engine while   *)
(* the next process opened it.                                             *)
OnlyTheOwnerServes ==
  [][\A r \in Requests :
       fate[r] # "done" /\ fate'[r] = "done" =>
         \/ \E d \in Daemons : lock = d /\ (job[d] = r \/ r \in handling[d])
         \/ \E p \in FrontEnds : lock = p /\ call[p] = r]_vars

(* The daemons keep the promises of WriteLine: the worker's job and the    *)
(* channel behind it are the line.                                         *)
Line == INSTANCE WriteLine WITH line <- [d \in Daemons |-> Waiting(d)]

KeepsTheLine == Line!Spec

-----------------------------------------------------------------------------
(* Liveness. *)

(* As long as the daemon serves, a write that it accepted is served: the   *)
(* worker gets to it, whatever failed before (startWriteWorker).           *)
QueuedWritesSettle ==
  \A d \in Daemons, r \in Requests :
    r \in Unserved(d) ~> fate[r] \in {"done", "failed"} \/ proc[d] # "listening"

TimePasses == \A d \in Daemons : WF_vars(Minute(d))

(* As time passes, whoever holds the brain gives it back once its clients  *)
(* fall silent: a daemon by its idle timeout, which neither pings nor the  *)
(* queue put off for ever, a front end when its call returns.              *)
BrainReleased ==
  TimePasses => \A x \in Daemons \cup FrontEnds : lock = x ~> lock # x
=============================================================================
