# FireMemory: models, checks and proofs

TLA+ modules that model FireMemory (a local-first memory engine for AI agents:
one `.fbrain` file, the `fmem` command line, and the `fquery` MCP server with its
background daemon), TLC configurations that model-check them on small instances,
and theorems about them checked by TLAPS for all values of the constants.
`PROJECT.json` maps every definition to the lines of the code it models.

    tlc -workers 2 -config engine_faults.cfg MCMemoryEngine.tla
    tlapm MemoryEngineProofs.tla

## 1. The system

| Component | State it keeps | Operations | Talks to |
|---|---|---|---|
| engine, writing (`internal/engine`, `dedup`, `vector`) | namespaces `memories`, `vectors`, `hash_index`, `sync_queue`, `traces`, `entities`, `facts`, `relations`; in memory: vector index, hash index | `Open`, `Close`, `Remember`, `Sync` | store, graph, embedder, extractor, relation classifier |
| engine, reading | none of its own: each read looks at store, indexes and graph again and again | `Recall`, `Context` (and its token budget), `Explain` | store, vector index, graph |
| knowledge graph (`internal/graph`) | `graph_nodes`, `graph_edges`, and a copy of both in memory | `AddNode`, `AddEdge`, `Neighbors`, `TraverseDepth`, `load` | store |
| storage (`internal/storage`) | one bbolt file with its lock | `Put`, `Delete`, `Get`, `List`, one transaction each; `Compact` | file system |
| brainfile (`internal/brainfile`, `defaultbrain`) | manifest, namespaces, schema version | `Create`, `Open`, `Migrate`, `Backup`, `Restore`, `Inspect` | storage, file system |
| daemon (`internal/daemon`, `fquery daemon`) | write channel, running job, last activity, listener | `Start`, `handleRequest`, write worker, `watchAndExit` | pipeline and engine; front ends over HTTP |
| front end (`fquery mcp`) | proxy or direct mode, the call in progress | `tryConnectDaemon`, `handleToolsCall`, `EngineClient.Call` | daemon, or the engine itself |
| firequery pipeline (`internal/firequery/pipeline`, `builder`, `validator`, `contract`) | none between requests | classify, extract, build, validate, run | specialists, adapters |
| specialists (`models`, `python`, `onnx`) | one Python process with its two pipes and the mutex in front of them; or an ONNX session | `Start`, `Close`, `ClassifyIntent`, `ExtractEntities`, `EmbedQuery` and their heuristic fallbacks | the runner `runner.py`, external runtimes |
| model runtime (`runtime`, `devices`) | registry of models, memory in use | `Register`, `EnsureLoaded`, backend selection | loaders |
| model cache (`internal/modelcache`) | model files, `.sha256` stamps, partial downloads | `EnsureAll`, `PullAll`, `Verify` | HTTP, file system |
| protocol, UI, initcfg, util | none, or one file rewritten once | dispatch, views, patch of an editor's settings | engine, file system |

How they interact. A front end pings the daemon on the one port, forks one if
nobody answers, and after at most three seconds falls back to opening the brain
for each call. The daemon opens the brain (the bbolt file lock admits one process),
listens, answers reads in their HTTP handlers, queues writes in a channel and
tells the client "queued" at once; one worker runs the queue. Every write is one
engine operation, and an engine operation is a series of separate bbolt
transactions and changes of in-memory indexes that are rebuilt at the next `Open`.

What is hard about it, and to test:

* an engine operation is **not atomic**: between any two of its up to eight writes
  the process may die or a store operation may fail, and nothing is undone;
* the in-memory indexes and the namespaces are changed one after the other, by
  code that must cope with what the last crash left;
* `Sync` is repeatable work on a moving set: memories are reinforced, become
  pending again, and each pair is classified from both of its sides;
* a read of the daemon runs in its HTTP handler while the worker writes: up to a dozen
  looks at store, index and graph, without a snapshot;
* answers of the Python runner carry no number: what belongs to which request is a matter of
  order on two pipes, which a stray line, a crash or a fallback could upset;
* the model registry gives up its lock while a loader runs;
* HTTP handlers, the worker, the idle monitor and `main` of one daemon run
  concurrently, and several front ends and daemons contend for one file lock and
  one port;
* renames, copies and downloads that may be cut short (storage, brainfile, model
  cache).

The hazards with their lines and the properties aimed at them are in
`PROJECT.json` under `hazards`.

What makes each component correct:

* engine: what was acknowledged is durable; no record names a memory that is not
  there; a content is not remembered twice; a synced memory is enriched whole, and
  every pending memory is in the end;
* graph: an edge joins two nodes; a related pair has one relation;
* daemon and front ends: one process at a time works on the brain; accepted writes
  take effect once, in order, unless the daemon dies; the brain is given back;
* storage and brainfile: a crash never leaves a path without a brain, or a brain
  that cannot be opened; a backup is a state the brain was in;
* model cache: a model reported as verified has the files of its manifest, and trying again
  leads to it in the end;
* reading: an answer holds nothing of another scope, leaves nothing acknowledged out, and
  shows one value of each memory; a context is within its token budget and coherent;
* runtime: the memory of the loaded models stays within the budget, as far as calls do not
  overlap;
* specialists: a call takes the answer to its own request, returns in the end, and no child
  process is left behind;
* pipeline: nothing writes without permission, whatever the specialists answer.

## 2. The modules

| Module | What it is | Lines of code it models |
|---|---|---|
| `MemoryEngine` | `Remember`, `Sync`, `Open`, `Close`, crashes and refused writes, one action per transaction or index change | `engine/remember.go`, `sync.go`, `base.go`, `dedup.go`, `graph.go` AddEdge |
| `MemoryBook` | what the engine promises: the abstract specification of `MemoryEngine` | - |
| `MemoryEngineProofs` | theorems about `MemoryEngine`, `Reading` and `RelationClassifier` | - |
| `Daemon` | front ends, daemons, their goroutines, the file lock and the port | `daemon/*.go`, `cmd/fquery/daemon.go`, `main.go`, `adapters` |
| `WriteLine` | what the daemons promise about requests: the abstract specification of `Daemon` | - |
| `DaemonProofs` | theorems about `Daemon` | - |
| `BrainFile` | the commands that create, open, migrate, compact, back up and restore a brain, one action per transaction or file operation | `brainfile/*.go`, `storage/bbolt_store.go` Compact and Open, `defaultbrain` |
| `BrainFileProofs` | theorems about `BrainFile` | - |
| `ModelCache` | downloading, verifying, extracting and removing a model, by several processes | `modelcache/*.go` |
| `ModelCacheProofs` | theorems about `ModelCache` | - |
| `Contract` | a tool call on its way to the engine: the wrappers, the daemon's queue, both validators, the builder, the pipeline's error paths | `firequery/mcp/server.go`, `pipeline`, `builder`, `validator`, `adapters`, `engine/contracts.go` |
| `ContractProofs` | theorems about `Contract` | - |
| `RelationClassifier` | the classifier of pairs as operators; `MCMemoryEngine` takes the constant `RelationType` from it, and `MemoryEngineProofs` proves its symmetry | `engine/relation_classifier.go` |
| `Reading` | `Recall` and `Context`, one action per critical section or transaction, beside the writer of `MemoryEngine` (which it extends) | `engine/recall.go`, `context_engine.go`, `vector/index.go` Search, `graph/graph.go` Neighbors |
| `ContextBudget` | how a context is cut to the caller's budget | `engine/context_engine.go` fitContextBudget, enforceRenderedBudget, BuildText |
| `ContextBudgetProofs` | theorems about `ContextBudget` | - |
| `RuntimeRegistry` | the model registry with concurrent loads, and the selection of a backend | `firequery/runtime/runtime.go` |
| `RuntimeRegistryProofs` | theorems about `RuntimeRegistry` | - |
| `Specialists` | the Python backend: its start, calls, close, the child process and the pipes; the fallbacks in front of it | `firequery/python/backend.go`, `runner.py`, `models/required.go`, `heuristic.go` |
| `SpecialistsProofs` | theorems about `Specialists` | - |
| `MCMemoryEngine`, `MCDaemon`, `MCBrainFile`, `MCModelCache`, `MCContract`, `MCReading`, `MCContextBudget`, `MCRuntimeRegistry`, `MCSpecialists` | values of the constants for TLC | - |

### MemoryEngine

The namespaces of the file are variables that survive a crash; `open`,
`vectorIndex` and `hashIndex` do not; `pc`, `mem`, `batch`, ... are the local
variables of the one operation in progress (callers are serialised: in the daemon
by the worker, between processes by the file lock). Each `Put` is an action of the
code's order:

    Remember:  SaveMemory, PersistVector, AddVector, SetHash, PutHash, EnqueueSync, PersistTrace
    Sync, for each pending memory, oldest first:
               SyncNext (saves the node), per entity PersistEntity, AddEntityNode,
               PersistEntityRelation, AddEntityEdge; per fact PersistFact;
               SearchRelated, per hit RelateHit, PersistRelation, AddRelationEdge;
               MarkSynced, Dequeue, PersistSyncTrace

`StoreFails` ends the operation at any of its writes and leaves the earlier ones
(and the change `SetHash` made to the index before its `Put`); `Crash` also empties
the indexes; `Open` rebuilds them from the namespaces.

Abstractions. A text is a model value with the hash, the similarities, the
entities and the facts that the real hash, embedder and extractor would give it:
`Hash`, `Similar`, `Related`, `Entities`, `Facts` are constants, constrained by
`ConstantsAssumption` only as far as the code guarantees (similarity is symmetric,
a text is similar to itself, the deduplication threshold is the higher one).
`OutOfRange` is the set of pairs whose computed cosine exceeds 1, on which
`Classify` returns an error. `Recall` and `Context` change none of these variables; they are
`Reading`. The type of a relation is the constant `RelationType`, which the code computes from
the two contents; `MCMemoryEngine` computes it with the operators of `RelationClassifier`, so that
`OneRelationPerPair` fails if the classifier depends on the side it looks from.

### Daemon

`mode`, `pings`, `call`, `stage` are a front end; `proc`, `engine`, `handling`,
`queue`, `job`, `idle` a daemon: `proc` is the goroutine of `main` and
`watchAndExit`, `handling` the HTTP handlers, `queue` the channel `writeCh`, `job`
the write the worker runs. `lock` is the bbolt file lock, `port` the listening
socket. `fate` is history: what became of each request. Requests that the pipeline
or the engine turns down are the constant `Rejected`. Time is a counter of minutes
without activity.

What `Daemon` makes of a write ("it takes effect") is a run of `MemoryEngine`: the
lock theorem `OwnersServe` is the reason why `MemoryEngine` needs only one process
with the brain open at a time.

### BrainFile

Below `MemoryEngine`: the file itself. `dir` says which file (inode) each path names,
`content` what is in it, `lock` who has bbolt's lock on it; `op`, `pc`, `file`, `source` are a
process: its command, its next step and the files it has open. bbolt opens a file
first, creating it if there is none, and then waits for the lock of what it has opened, which
is no longer the file at the path if another process renames meanwhile; this is why
files and paths are kept apart.

    Create, Open, Migrate:  OpenFile, Lock, ReadManifest, EnsureNamespace (twice: one, then all), WriteManifest
    Compact:  RemoveOldTemp, RemoveOldBackup, MakeTemp, CompactInto, CloseDatabase,
              RenameToBackup, RenameToPath, Reopen, Relock, DropBackup, DropTemp
              (after a failure: RemoveNew, RestoreBackup, DropTemp)
    Backup:   Open, Close, CopyCreate, CopyPart, BackupDone
    Restore:  CopyCreate, CopyPart, RestoreCopied, Open, Close, Restore

`Crash` kills a process between any two of these; the operating system gives up its
locks. An I/O error (a full disk) has the effect of a kill and is not a separate action.
Assumed, not checked: files may be renamed while they are open (on Windows the rename in
`Compact` would fail); and users run `backup` and `restore` with no other process on the brain, as
`docs/operations/backup-restore.md` tells them to (`Alone`). `risky` remembers that a
compaction ran beside another process, or was begun while the backup of a killed one was there
(which `Compact` removes at its start): `AckedKept` promises nothing then, and
`compact_race` shows why it cannot.

### ModelCache

The daemon and the front end that forked it both call `EnsureAll` on their first start; the front
end waits for three seconds only and then downloads as well, to the same temporary
file and without a lock. `dir` and `content` are the temporary file and the archive (as
inodes: a rename under a writer takes the file with it), `files`, `stamp` and `modelDir` the
model's directory with its `.sha256`; `pc`, `url`, `part`, `appends`, `fd` a process. The
server's answers are choices: everything (200), the rest (206), nothing missing (416), an
error. One model stands for the three of the manifest, which share no files. `overlaid`
remembers that an extraction went over files that had a stamp already or were to get it from
another process. As long as it is false `VerifiedIsWhole` promises that a verified model is whole,
whoever dies and however many processes there are. Once it is true, the promise is for two
processes that are done and of which none was killed (section 3 says why it cannot be more).

### Contract

Above `Daemon`: what is in the calls. `asked` is what the agent sent, `request` the copy that a
tool's wrapper makes of it, `internal` the one that the builder makes of that; `stage` is where
the call is between them, `queue` and `worker` the daemon's channel and its worker.

    CallTool, then Enqueue (answered "queued") or QueueFull or RunAtOnce, RequestOver, Dequeue,
    RejectExternal or AcceptExternal, NothingToRank or Classify, Build,
    RejectInternal or AcceptInternal, CallEngine or CallFails

The same steps stand for the pipeline of the front end (`mode = "direct"`: the engine of the
named brain is opened) and for that of the daemon (`mode = "proxy"`: the engine that is open
refuses other brains). What the specialists find is any of `Triggers`; a flag may be spelt in a way
that `boolValue` does not understand, a number be out of range, a text be blank. `Daemon` and
`Contract` share the queue: `Daemon` follows it through the life of processes and knows of a
request only whether it will be rejected (`Rejected`); `Contract` says which are, and leaves out
that processes end. `effect` is what reaches `MemoryEngine`.

A queued job carries the context of its request (`server.go:123`), which net/http cancels once the
handler has returned. `RequestOver` does so at any step of the call after the answer, or never;
`cancelled` are the calls it has come to. Nothing in the pipeline refuses to go on for it: a model
that gives up is replaced by its heuristic, which is one more choice of `Triggers`, and adapters and
engine do not look at the context.

`Meets` is the contract as the documents have it. The code turns down three kinds of call that they
allow (section 3), and `TurnedDown` names them. `EffectDue` is what is left: the effect that
`SameEffectEitherWay` expects of a call, from what the agent asked for alone.

### Reading

The daemon answers `recall` and `context` in the goroutine of the request, beside the worker that
runs `Remember` and `Sync`. `Reading` adds a reader to `MemoryEngine`, whose every action may come
between two of the reader's:

    BeginRead (the vector search), ListKeys, LoadListed per memory, LoadHit per hit, Rank;
    for a context: per memory ExpandGraph, LoadNeighbour or SkipNeighbour per neighbour;
    LoadEntities, LoadFacts, LoadRelations; Answer

`step` and `left` are where the read is; `listed`, `found` and `shown` are *values* of memories as
they were when loaded, not ids, since the same memory is loaded up to three times and may have
changed. Entities and facts are kept with the source they had when they were loaded
(`shownEntities`, `shownFacts`), for the same reason. `known` is history: what had been acknowledged
when the read began. `ReadFails` is a refused transaction or a closed store, and ends the read;
where a neighbour is loaded it only passes over that neighbour (`SkipNeighbour`). The end of the
process ends the read.
Similarities and word overlaps are the constants `Cosine` and `Overlap`; which of equally good
memories are among the best `TopK` is left open (the code breaks ties by id). Traces and the
wording of reasons are left out. The graph is followed to depth 1, which is what the program does.

### ContextBudget

What `Context` does afterwards, without another look at the store. `fitContextBudget` takes items
in the order of the ranking as long as their own words fit (`Take`, `Skip`, `NextSection`);
`enforceRenderedBudget` then renders the text and drops the last item of the last section while the
text with its headings and punctuation is over the budget (`DropLast`), and at last cuts the one
memory that is left (`Truncate`). An item is a number of words and the memories it belongs to. The
running totals (`upTo`) stand for `EstimateTokens(BuildText(...))`, which adds up the text anew
each time. A budget of 1 is exceeded by one word, because a heading and a dash are two words.

### RuntimeRegistry

`EnsureLoaded` is two locked sections with the loader between them: `Refuse` or `StartLoad`, then
`LoadFails` or `LoadSucceeds`. `Register` may replace a specification at any time. Amounts are
`uint64` in the code and wrap at `Word` here. `overlapped` and `wrapped` are history; the properties
that need them name them. Devices are those the environment enables at each call (`Enabled`) and
the CPU. Two remarks that no property states. Overlapping calls for one model may load it twice
and charge it twice (`runtime.go:264-285`): `runtime_test.go:91-93` expects it to be loaded once, of two
calls in sequence. And `LocalManager.EnsureLoaded` answers the backend that it selects now,
which need not be the one a loaded model was loaded for. The programs of the repository run with
`StaticManager`, which keeps no state.

### Specialists

`start`, `closing`, `mutex`, `at`, `answer` are the backend and the calls of it; `runner`, `input`,
`output` the child process and its pipes; `script` the runner's program in the temporary
directory, which every process that starts a backend writes anew.

    Truncate, Fill, Launch, (the health check), Ready or StartFails; StartRefused before it;
    Ask, then Send and Read, or ReadFails, or Refused; AskClose, Close
    Boot, Reply, PrintLine, Die; OtherTruncates, OtherFills

A specialist that gets an error or an answer without content answers with its heuristic
(`"heuristic"`); the embedder does not look whether there is a vector before it takes the first, so that
an answer of another operation, which only a stray line can bring it, makes it panic (in the
goroutine of the caller, after `call` has returned and given the mutex up: the call counts as
returned). The embedder is made with one more call, `model_info`, for its dimension; the run does
without that call, the theorems hold for any assignment of operations to calls. `StartRefused`
stands for the error paths of `Start` before there is a child. `call` ignores
its context: a runner that hangs holds the mutex, and with it every call and `Close`; that it does
not hang is the fairness of `Runner`. The backend is code that the programs of the repository do
not wire up (they use ONNX or the heuristics).

## 3. What is checked

| Run | Instance | What it shows |
|---|---|---|
| `engine_faults` | 3 memories, 4 contents in 2 scopes, 4 time stamps, 1 fault; 2.8 million states | `NoDanglingReference`, `NoNearDuplicates`, `AckedDurable`, `SyncedIsEnriched`, `OneRelationPerPair`, `RelatedPairsLinked`, `QueueMatchesStatus`, `UniqueContent`, `HashBindingsPermanent`, and the refinement `KeepsTheBook` |
| `engine_live` | 3 memories, 3 contents in 1 scope, 3 time stamps, 1 fault, similarities above 1; 119 thousand states | `EventuallySynced` |
| `daemon` | 2 front ends, 2 daemons, 3 writes (1 rejected), 1 read, a channel of 2, 1 crash; 870 thousand states | `ServingHoldsTheBrain`, `OnlyTheOwnerServes`, and the refinement `KeepsTheLine` |
| `daemon_live` | 2 front ends, 1 daemon, 2 writes, 1 read, a channel of 1, 1 crash; 33 thousand states | `QueuedWritesSettle`, `BrainReleased` |
| `brainfile` | 2 processes, 5 files, 1 write, 2 compactions, 1 kill; 2.2 million states | `AckedKept`, `NothingUnopenable`, `NoLeftovers`, `RestoredAsSaved` |
| `modelcache` | 2 processes, 4 files, 2 versions, 1 upgrade, forced pull or removal, 1 failed request, 1 kill; 1.3 million states | `VerifiedIsWhole`, `EventuallyVerified` |
| `contract` | 2 calls, the first any tool with a complete request changed in up to two places, or `ask` with any operation, permissions and thresholds; 2 brains, a channel of 1, both modes; 682 thousand states | `SafetyRule`, `WritesAreAskedFor`, `SameEffectEitherWay`, `AnswersHold` |
| `reading` | 2 memories, 3 contents in 2 scopes, 1 question, a recall and a context of the best 2, 2 time stamps, 1 fault; 4.01 million states | `OnlyTheScopeAskedFor`, `NothingAckedIsMissed`, `OneValueOfEach`, `SyncedIsShownWhole` |
| `context_budget` | up to 3 memories with up to 1 entity, 1 fact and 2 relations, 8 budgets; 514 thousand states | `WithinBudget`, `NothingOrphaned`, `BestMemoriesFirst`, `WholeIfItFits` |
| `registry` | 2 models, 3 callers, 3 specifications, 3 kinds of request, a budget of 4 in words of 16, 3 registrations, 5 loads; 46 thousand states | `BudgetHeld`, `ResidentFits`, `OvershootBounded` |
| `specialists` | the health check and 3 calls, 2 stray lines, 1 death, 1 other process; 86 thousand states | `AnswersInStep`, `NoRunnerLeft`, `CallsReturn` |
| `compact_race` | 2 processes, 1 compaction, no kill | violated: `CompactKeepsData` |

Why the bounds are enough. *Engine*: the properties relate at most two memories and
one content; a third memory makes a bystander, so that a `Sync` handles one memory
before and one after the pair, and the search can return more than the pair. The
contents cover the ways two texts can relate: same hash but not similar (`case`,
`CASE`), similar with another hash (`like`), related only, with a shared entity
(`near`), and all of these across scopes. Four time stamps allow two creations, a
reinforcement and a creation after a sync. One fault at any step is what one
recovery must cope with; a second fault starts from states that the first one has
already produced. *Daemon*: two front ends and two daemons give both races (two
forks; a stopping daemon and its successor). A channel of two with three writes can
be full while a job runs. *BrainFile*: two processes give
each race (the one that waits for the lock while the other renames); no step ever needs
a sixth file. One write is enough, since no step looks
into the data: what is kept of one is kept of each. Two compactions let one follow a killed
one; one kill is what a recovery must cope with. *ModelCache*: the daemon and
its front end; two parts, so that a download can be cut, resumed, doubled or holed; two versions for
remains of an earlier manifest. Three processes that download at once
are left to the proof (section 4).
*Contract*: calls meet in the queue only, so that a second one is enough to fill a channel of one
while the worker is busy; each rule of the validators, the builder and the engine looks at one or
two fields of a request, and every pair of the texts is changed, every number, flag and part of
the envelope. *Reading*: each property relates the answer to at most two memories; one read is
enough, since a read leaves nothing behind. With two memories and a `TopK` of 2 no
memory is cut from the ranking, so that whatever is missing in an answer was missed by the
searches; how a ranking is cut is `ContextBudget`'s matter. *ContextBudget*: the functions compare sums only; the lists are long
enough for every section to be cut, emptied or passed over, with budgets from 1 to one at which
everything fits. *RuntimeRegistry*: two callers overlap and the third follows; one
specification wraps the sum. *Specialists*: two calls that classify can be mixed up with each
other, and one that embeds cannot be told from its answer's fields; two stray lines set two
answers back.
*Symmetry* (permutations of memories, of front ends, of daemons, of processes of `BrainFile`) is
used in the safety runs only.

Fairness. Engine: an operation once begun goes on (`WF` of its steps; it is a plain
Go function), the brain is opened again after a crash (`WF` of `Open`), and users
call `sync` again and again (`SF` of `Sync`, as `docs/faq.md:118-122` tells them
to; weak fairness would not do, since the call is possible only between
operations). Nobody is obliged to call `Remember`, which is what could disturb
`Sync`; `MaxStamps` bounds how often it can. Daemon: goroutines and processes that
can go on do; nobody is obliged to connect or to call, and a crash never has to
happen. That time passes is only a premise of `BrainReleased`.

Model cache: a command once begun goes on (`WF` of its steps; the
servers' failures and kills are bounded and never obliged to happen). That somebody tries
again and again is a premise of `EventuallyVerified`, not an assumption. Specialists: the
goroutines of `Start` and the runner go on (`WF`); a call or a `Close` that waits for the mutex
gets it in the end (`SF`: the mutex is taken and released by others meanwhile, and Go hands a mutex
to a goroutine that has waited for a millisecond); the runner answers what it has read, which
`call` relies on since it has no timeout. Nobody is obliged to call, and nothing to die.

`CHECK_DEADLOCK FALSE` in the runs `daemon`, `daemon_live`, `contract`, `context_budget`, `registry` and
`specialists`: requests, daemons, calls and loads are finite in number there, and a context is
computed once; when all is done the system stops. All other runs check deadlock, since a user
can always begin another operation.

### The violated property

`CompactKeepsData`: `Compact` closes the database, and so gives up the lock, before it
renames (`bbolt_store.go:208-231`). A process that waits for the lock of the old file gets it,
writes and acknowledges, and the file is then removed as the backup. Two processes and no
crash are enough.

### Other disagreements between code and documents

These are visible in the models, and no run is spent on them.

* `entityID` hashes type and name only, so that `persistEntity` of a second memory overwrites the
  record of the first, with its `SourceMemoryID` (`sync.go:297`). `sync_test.go:197-198` expects the source
  to be the synced memory, and `context_engine.go:154` finds the entities of a memory by it. (A
  context still shows the relation to the entity: `SyncedIsShownWhole`.)
* `activity.go:29-30` says that pending writes are flushed before the exit. A write that is accepted
  between the monitor's idle check and `Shutdown` is answered "queued" and lost, since nothing
  waits for the channel; `KeepsTheLine` says that it is lost as a whole.
* `server.go:31` says that `ShutdownFn` is called before the exit: `Serve` returns when the listener
  closes, so that `main` may end the process before the monitor reaches it (`Exit` of `Daemon`).
* `pullOne` extracts in place while an earlier `.sha256` stands, and `checkModel` compares that stamp
  only. Of two processes that start for the first time one finishes, the other is killed while it
  extracts again: the truncated model counts as verified from then on. Three processes need no
  kill for it: one truncates the temporary file that the second is done with; the second renames it
  to the archive that the third has verified and not opened yet; the third then extracts what is
  left of it over files with a stamp, and fails in the middle of one. These are the conditions of
  `VerifiedIsWhole` (`overlaid`, and then `crashes = 0` and `AtMostTwo`). Neither `docs` nor the
  tests speak of more than one process.
* Three kinds of call are turned down although the documents allow them (`TurnedDown` of `Contract`;
  `SameEffectEitherWay` says that no others are, and that these are on every way).
  - A request in another language: `validator.go:69` demands `en`;
    `docs/reference/firequery-contract.md:16` says that a request may be in the user's language, and its
    example (`:37`) has `pt-BR`.
  - A request without text: `transport.go:188-196` offers `firequery.explain` with nothing required but
    `target_operation`, and `firequery.ask` with nothing required. Without `content`, `query`, `task` or
    `text` the pipeline passes over its classifiers but not over the reranker (`pipeline.go:159`),
    which fails on an empty text. (So does `sync`, which needs no input.)
  - `relate`, `forget` and `consolidate`: `docs/reference/domain.md:65-67` lists them and the validator
    knows them, but no adapter passes them on (`persistent_client.go:35`).
* `download.go:66-73` writes the body of the second answer whatever its status. An error page is
  renamed to the archive and fails its checksum; if the process is killed before, it stays as a
  temporary file whose rest the next command asks for (`RetryRefused`, `ErrorPage` of `ModelCache`).
  It costs one more try (`EventuallyVerified`).
* `docs/operations/backup-restore.md:66` says that a backup does not mutate its source: `Backup`
  opens the source with `Open`, which migrates it first (`brainfile.go:231`; `BrainFile`).

Properties that hold only because of a stated condition say so: `UniqueContent` and
`QueueMatchesStatus` require `faults = 0`, because a crash between `SaveMemory` and
`PersistVector` does leave a second memory of one content, and one between
`MarkSynced` and `Dequeue` a stale queue record (which nothing reads). With contents of two
kinds that are similar and out of range, `EventuallySynced` does not hold: `Sync`
gives up at the pair every time. The daemon and `fmem` use the kind `note` only.

## 4. What is proved

For all values of the constants that satisfy the assumptions `ConstantsAssumption`
and `NoneAssumption` (MemoryEngine), `ReadingAssumption` (Reading), `DaemonAssumption` (Daemon),
`FilesAssumption` (BrainFile), `CacheAssumption` (ModelCache),
`ContractAssumption` (Contract), `BudgetAssumption` (ContextBudget), `RegistryAssumption` and
`NoneIsNone` (RuntimeRegistry) and `CallsAssumption` (Specialists), with no bound on the number of
memories, requests, processes, files, calls, models, faults or crashes:

| Theorem | Statement |
|---|---|
| `MemoryEngineProofs!InductiveInvariant` | `Spec => []IInv` |
| `MemoryEngineProofs!TypeCorrect` | `Spec => []TypeOK` |
| `MemoryEngineProofs!ReferencesSafe` | `Spec => []NoDanglingReference` |
| `MemoryEngineProofs!VectorsApart` | `Spec => []NoNearDuplicates` |
| `MemoryEngineProofs!AcksDurable` | `Spec => []AckedDurable` |
| `MemoryEngineProofs!BindingsPermanent` | `Spec => HashBindingsPermanent` |
| `MemoryEngineProofs!BookKept` | `Spec => KeepsTheBook`: the engine implements `MemoryBook` |
| `MemoryEngineProofs!FullInvariant` | `Spec => []FullInv` |
| `MemoryEngineProofs!ContentsPermanent` | no step changes the text, scope or kind of a stored memory |
| `MemoryEngineProofs!EnrichmentWhole` | `Spec => []SyncedIsEnriched` |
| `MemoryEngineProofs!QueueKept` | `Spec => []QueueMatchesStatus` |
| `MemoryEngineProofs!ContentUnique` | `Spec => []UniqueContent` |
| `MemoryEngineProofs!RelationsOnce` | `Spec => []OneRelationPerPair`, if `SymmetricVerdicts` |
| `MemoryEngineProofs!PairsLinked` | `Spec => []RelatedPairsLinked`, if `SymmetricVerdicts` and `Ids` is finite |
| `MemoryEngineProofs!ClassifierRelatesOnce` | `Spec => []OneRelationPerPair`, if `RelationType` is what `RelationClassifier` computes |
| `MemoryEngineProofs!VerdictIsSymmetric` | `Classify(l, r, s) = Classify(r, l, s)` |
| `MemoryEngineProofs!ContradictionIsSeen` | what contradicts is a duplicate or a conflict |
| `MemoryEngineProofs!ReadInvariant` | `ReadSpec => []ReadInv` |
| `MemoryEngineProofs!ReadTypes` | `ReadSpec => []ReadTypeOK` |
| `MemoryEngineProofs!ScopeOfAnswers` | `ReadSpec => []OnlyTheScopeAskedFor` |
| `MemoryEngineProofs!OneValueShown` | `ReadSpec => []OneValueOfEach` |
| `MemoryEngineProofs!AckedIsShown` | `ReadSpec => []NothingAckedIsMissed` |
| `MemoryEngineProofs!SyncedShownWhole` | `ReadSpec => []SyncedIsShownWhole`, if `SymmetricVerdicts` and `Ids` is finite |
| `DaemonProofs!InductiveInvariant` | `Spec => []IInv` |
| `DaemonProofs!TypeCorrect` | `Spec => []TypeOK` |
| `DaemonProofs!ServersHold` | `Spec => []ServingHoldsTheBrain` |
| `DaemonProofs!OwnersServe` | `Spec => OnlyTheOwnerServes` |
| `DaemonProofs!LineKept` | `Spec => KeepsTheLine`: the daemons implement `WriteLine` |
| `BrainFileProofs!FileInv` | `Spec => []IInv` |
| `BrainFileProofs!FileTypes` | `Spec => []TypeOK` |
| `BrainFileProofs!NothingIsUnopenable` | `Spec => []NothingUnopenable` |
| `BrainFileProofs!RestoresAreAsSaved` | `Spec => RestoredAsSaved` |
| `BrainFileProofs!NothingLeftOver` | `Spec => []NoLeftovers` |
| `BrainFileProofs!AcknowledgedIsKept` | `Spec => []AckedKept` |
| `ModelCacheProofs!CacheInvariant` | `Spec => []IInv` |
| `ModelCacheProofs!CacheTypes` | `Spec => []TypeOK` |
| `ModelCacheProofs!VerifiedModelIsWhole` | `Spec => []VerifiedIsWhole` |
| `ContractProofs!ContractInv` | `Spec => []IInv` |
| `ContractProofs!TypesHold` | `Spec => []TypeOK` |
| `ContractProofs!SafetyRuleHolds` | `Spec => []SafetyRule` |
| `ContractProofs!WritesAreAskedForHolds` | `Spec => []WritesAreAskedFor` |
| `ContractProofs!SameEffectHolds` | `Spec => []SameEffectEitherWay` |
| `ContractProofs!AnswersHoldAlways` | `Spec => []AnswersHold` |
| `ContextBudgetProofs!BudgetRespected` | `Spec => []WithinBudget` |
| `ContextBudgetProofs!NeverOrphaned` | `Spec => []NothingOrphaned` |
| `ContextBudgetProofs!BestKept` | `Spec => []BestMemoriesFirst` |
| `ContextBudgetProofs!WholeWhenItFits` | `Spec => []WholeIfItFits` |
| `RuntimeRegistryProofs!BudgetRespected` | `Spec => []BudgetHeld` |
| `RuntimeRegistryProofs!ResidentFit` | `Spec => []ResidentFits` |
| `RuntimeRegistryProofs!OvershootHasBound` | `Spec => []OvershootBounded`, for a finite set of `Callers` |
| `RuntimeRegistryProofs!LoadedHealthy` | `Spec => []LoadedIsHealthy` |
| `RuntimeRegistryProofs!StaysLoaded` | `Spec => LoadedForGood` |
| `SpecialistsProofs!TypeCorrect` | `Spec => []TypeOK` |
| `SpecialistsProofs!AnswersKeepStep` | `Spec => []AnswersInStep` |
| `SpecialistsProofs!NobodyLeft` | `Spec => []NoRunnerLeft` |

Type invariants (`TypeOK`, and `ReadTypeOK` of `Reading`) are proved here and listed in no run.

What the assumptions say, beyond types. In the engine, that similarity is symmetric, that a text is
like itself, and that the threshold of the detector is the higher one. In the files, that there is
one, and that no process or file is "no value". In reading, that a cosine and an overlap are numbers on
a scale. Five theorems have a hypothesis more.
`SymmetricVerdicts` says that the verdict on a pair of texts does not depend on their order; it is
not an assumption of `MemoryEngine`, whose other theorems do without. That the code's classifier
satisfies it is not taken on trust either: `ClassifierRelatesOnce` has the verdicts computed by
`RelationClassifier` from the words and similarities of the texts, whatever those are, and uses
`VerdictIsSymmetric`. (Two texts whose cosine is out of range have no verdict, from either
side.) That `Ids` is finite, as the memories of a brain are, is needed because `SyncTopK` is
compared with a number of memories; that `Callers` is, because the bound of `OvershootBounded` counts
them.

**The argument for the engine.** None of the invariants is inductive alone, because in
the middle of an operation the store is not what the next operation may rely on.
`IInv` says what it is meanwhile. `OperationInv`: what the writer has at hand at each
`pc`, for instance that a `Remember` past `save` works on a stored memory. `BatchInv`:
the memories that `Sync` has read are still as they were read, so that `MarkSynced`
overwrites nothing. `IndexInv`: the indexes equal their namespaces, up to the one
entry being written; for hashes in one direction only, since `SetHash` comes before
`PutHash` and a refused `Put` leaves the index ahead. `VectorInv` and `HashInv`: whatever
is bound to a hash is stored and has its vector; this is what makes an answer through an
exact hash durable. `FreshInv`: between the search of the detector and `PersistVector`
the store still holds nothing like the new memory; with it `NoNearDuplicates` is
preserved. `GraphInv` gives `NoDanglingReference`. Each action has a lemma for the
parts it can disturb.

`FullInv` adds what the theorems about `Sync` need. `CopyInv`: the copies of a
stored memory, its vector and the one at hand, say the same as it does. `EnrichInv`: at each step of the enrichment, what is
no longer to do is in the store; so all of it is when `MarkSynced` comes, and a stored memory's
enrichment is never taken back. `RelationInv`: a relation between memories is the verdict on them,
hence (by symmetry) the only one of the pair. `QueueInv` and `UniqueInv` say by how much queue and
status, memories and hashes may differ in the middle of an operation. For `RelatedPairsLinked`, the
invariant `LinksOf` says that the memory at hand is linked to every alike one that is synced, but for
those still to be visited; the pair is linked by whichever of the two is synced later. That its search finds the earlier one
though it is cut at `SyncTopK` results is counting, which is where a finite `Ids` is used.

**The argument for reading.** `ReadInv` is about the writer and the reader. `WriterInv` adds to
`FullInv` what a reader sees of the writer that nobody else does. `ScopeInv`: relations and edges
join memories of one scope, which no step of `Sync` checks, since its search keeps to the scope.
`NewInv`: a memory that is being created is in no index and acknowledged to nobody, so that a
reader that comes upon it can have loaded it as pending at most. `ReaderInv` says at each `step` what
was loaded and what is still to be. What has been loaded is stored, and of the text, scope and
kind it had (`LoadInv`), since memories never lose those (`ContentsPermanent`); only the status may
be out of date. Entities and facts are chosen by the ids of what is shown, so that the sources they were
chosen by are of its scope, whatever becomes of their records afterwards. `OnceInv` makes each loop load a memory once, and `OneValueOfEach` follows as the
ranking takes hits first. `KnownInv` carries along what was acknowledged when the read began: it is among the hits,
or there are `TopK`; it is in the listing; then in the ranking. For `SyncedIsShownWhole` it is not
enough that what *is* synced is enriched: a reader may hold a memory as synced that a `Remember` has made
pending since. `WholeInv` says it of what the reader holds, and `LinksOf`, the link invariant of the
engine, was stated for any set of memories so that it can be used with `WasSynced`, those that are synced or
held as synced.

**The argument for the daemon.** `ConnectInv` (a front end that is still connecting has
pings left; without it the type of `pings` is not inductive). `ProcessInv` ties the
lock, the port, the engine and the state of each process together: who holds what
in which stage. `RequestInv`: an unanswered request is in one front end's hands and in at
most one handler, hence takes effect at most once. `LineInv`: the worker's job and the
channel behind it hold queued writes only, each in one place. From `RequestInv` and
`LineInv` every step is a step of `WriteLine` or a stutter.

**The argument for the brain file.** `IInv` says for each process what it has open and locked at its
stage, and in which state that file is. A process writes only to a file it has locked (`LockInv`), and a
backup or a restore is alone (`AloneInv`) with the files of its own (`ApartInv`), so the part about one
process survives the others' steps. `GoodPaths` and `GoodFiles` make every file that is the brain, or that
a compaction may yet put there, one that `Open` accepts, whatever several compactions do to each
other's files; this is `NothingUnopenable`. `SavedInv` and `RestoreInv` make the copy that a restore has
opened successfully a copy of the last whole backup: one that was cut short is no database, or has no
manifest. That nothing acknowledged is lost is claimed only while `risky` is false, and
`KeptInv`, which holds then, follows the data through a compaction: in the temporary file before the
brain is renamed, in the backup before the new file is opened, in the brain before the backup goes.
It also says that whoever has the brain open has the file that is at the path. `LeftInv` gives every
temporary file a process that will remove it, as long as nobody was killed.

**The argument for the model cache.** Two invariants side by side, since the property makes two
promises. For any number of processes while extractions stay apart: a download with a part of an
old version in it is never one whose checksum is right, and `OldInv` keeps it away from the archives and
the extractions of the new one, so that whatever is extracted is of the version wanted. `ExtractInv`
then says that at most one process is extracting, that its files so far are as wanted and that there
is no stamp until it is through; a kill leaves torn files without a stamp. For two processes that
nobody kills, extractions may overlap, and it matters that none of them fails in the middle. `SoleInv`:
while one process has verified the archive and not opened it, the other alone writes to the
download, and what that holds is a beginning of the archive (whole before it is renamed) or begins with a
part that cannot be opened at all. `FullInv`: whoever extracts therefore has a whole archive, or opens
nothing. `TornInv`: a torn file is one that is being filled, and is filled in the end. That three
processes break `SoleInv` is how the case in section 3 was found: the property was first
stated for any number of them, and held in the run.

**The argument for the contract.** `SafetyRule` compares what reached the engine with what the
agent asked for, and the checks see copies. `TiedCall` ties the copies to the original for as
long as the call is on its way: the request is the wrapped one, it has passed the first check,
the internal one is what the builder makes of it, and has passed the second. At `CallEngine`
both checks then hold of one tool call, and `ChecksSuffice` shows from the definitions of the
wrappers, the builder and the validators alone that the call meets the contract; `EffectMeant`
keeps that. `QueueInv` (what is queued waits there, in one place) is needed because `Dequeue`
moves a call by its place in the queue.

`OutcomeInv` is for the two theorems about what a call leads to. `EffectInv` ties the effect of an
ended call to what is due to the *tool call* (`EffectDue`), and its step is a lemma per way to end:
what either validator, the rankless request or the engine's own demands refuse was not due
(`RefusedWasNotDue`), what the engine takes was (`CalledWasDue`). `cancelled` occurs in none of them,
which is the point: no step of a call depends on it. Both need that the
wrappers, `ask`'s guess of an operation included, and the builder neither drop nor add what the
checks look at (`WrapperKeeps`, `WrapperKeepsText`). `AnswerInv` follows what the agent has been told.

**The argument for the context budget.** What `Truncate` leaves is a heading, a dash and at most
`budget - 2` words, and every other way to the end passes the test of the rendered text; that
`Tokens` is that text's count needs `upTo` of each line to be the sum of the lines up to it. For
`NothingOrphaned` the invariant says that an extra is taken only with one of its memories, and that
memories are dropped only when no extra is left.

`WholeWhenItFits` needs to know what a section renders in the end, which is a recursive function on
its lines (`WordsThrough`). `ThroughFacts` shows, by induction, that it adds up line by line and never decreases.
`TakenWhole` then says that, if everything fits, whatever a loop has looked at has been taken,
and compares the words `fitContextBudget` has counted with the ones rendered. So the next item fits
(`NextFits`), is wanted since all memories were taken (`AllWanted`), and the text is within the budget
when `enforceRenderedBudget` measures it (`TextIsWhole`).

**The argument for the registry.** While no loads overlap, at most one loader runs, and the amount it
was admitted with still fits: `used` changes only where a loader ends. A model that is loaded is not
being loaded, so that neither `Refuse` nor `LoadFails` marks it.

`Counted` says that `used` is the total of what the resident models were charged, and is an equation only
while nothing overlaps; `Admitted`, that each load under way is within the budget by itself. A load
starts only if `used` and its bytes are within the budget together, and each of the other callers adds a
budget at most. Both are about `Total`, a fold over a finite set. What a total obeys (`TotalValue`,
`TotalWithout`, `TotalAgrees`, `TotalBound`) is proved from the definition of the fold in the community
modules.

**Induction over data.** The induction theorems of the library take a predicate as a parameter, which the
installed provers cannot instantiate. Its theorem on minimal elements of a well-founded relation,
`WFMin`, takes a set, and so do the inductions here: `NumberInduction` and `SetInduction` say that a *set*
that contains what its steps lead to contains every number, or every finite set. With them
the recursive function and the fold that the two properties above need are shown to exist and to
obey their equations.

**The argument for the specialists.** The two pipes, read one after the other, are one queue of
unread lines. When no call waits for an answer, at most `noise` lines are left in it (`RoomInv`), for only
a stray line is ever left behind. The k-th unread line then belongs to a request at most
`noise - k` before the last (`LagInv`); a call reads the first one, as the last that has sent
(`SentInv`: the mutex). A runner that is gone reads nothing, so nothing is said of its input.

**Only model-checked.** The liveness properties (`EventuallySynced`, `QueuedWritesSettle`,
`BrainReleased`, `EventuallyVerified`, `CallsReturn`), since fairness and `ENABLED` are out of reach of the
prover. All other properties of the passing runs are theorems.

## 5. Plan

In order of weight; the first nine are done.

1. `MemoryEngine` with `MemoryBook`; its proofs.
2. `Daemon` with `WriteLine`; its proofs.
3. `BrainFile`; its proofs. Left: an abstract specification of a brain that is changed by its
   writes and by whole restores only.
4. `ModelCache`; its proofs.
5. `Contract`; its proofs.
6. `Reading` beside `MemoryEngine`; its proofs.
7. `ContextBudget`; its proofs. `RelationClassifier`; its theorems.
8. `RuntimeRegistry`; its proofs.
9. `Specialists`; its proofs.
10. A variant of `MemoryEngine` with two concurrent writers, for users of the library.

## 6. What is not modelled, and why

* Inference (`onnx`, `embedder`, `extractor`, the models in `runner.py`): numerical code and
  external runtimes; their results are constants or choices of the models.
* `Explain`: one load of one record or of a trace.
* `TraverseDepth` of the graph beyond depth 1: no program of the repository asks for it. (Its
  depth-first walk marks a node at the depth it is first reached, and so can miss nodes that
  a shorter way reaches.)
* `DetectAvailability` of the Python backend and the ONNX backend: one call of foreign code.
* `protocol/mcp`, JSON-RPC framing, tool schemas: stateless translation.
* `initcfg`, `ui`, `util`, `version`, `doctor`: no state beyond one file rewritten once,
  or read-only.
* `fmem`: each command opens a brain, runs one operation and closes it; as a process it
  behaves like a front end of `Daemon` in direct mode, or a process of `BrainFile`.
* Concurrent writers of one engine inside a program: `engine` has no lock of its own;
  neither the daemon nor the command lines call it so (plan, item 10).
