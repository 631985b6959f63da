# OneTool: a verification development

TLA+ models of the stateful parts of OneTool, the MCP server that executes Python
code for a language model, with TLC runs on small instances and TLAPS proofs for
every instance. Paths are relative to the repository; the implementation is in
`src/src/` (`ot` the library and executor, `onetool` the server and its command
line, `ottools` and `otutil` the built-in tool packs, `otdev` further packs).

To repeat a run: `tlc -workers 2 -config proxy.cfg MCProxyManager` (module and
configuration of each run are below and in `PROJECT.json`). To repeat the proofs:
`tlapm X.tla` for each of the eight modules `X` whose name ends in `Proofs`.

## 1. The system

A FastMCP server (`ot/server.py`) has one tool, `run`. It hands the code to
`execute_command` (`ot/executor/runner.py`), which prepares it, chooses where it runs,
and executes it with the tool packs as its namespace. The code may call built-in packs
(plain Python functions), extension tools that live in worker processes, and tools of
other MCP servers through the proxy. Requests are concurrent: while a server is
connected, each runs in a thread of its own (`runner.py:511-518`, `asyncio.to_thread`).

| Part | State | Operations | Interacts with |
|---|---|---|---|
| Proxy manager `ot/proxy/manager.py` | connected clients, their tools, instructions, timeouts; errors; `_initialized`, the connect task | `connect_background`, `connect`, `connect_additional`, `disconnect_server`, `shutdown`, `reconnect`, `call_tool`, the `*_sync` wrappers, module-level `reconnect_proxy_manager`, `_reset_state` | coroutines on the server's event loop; called from user code's threads with `run_coroutine_threadsafe` |
| Server control and request execution `ottools/server.py`, `ot/meta/_config_health.py`, `ot/executor/runner.py`, `ot/server.py` | the `enabled` flags of the configuration; which thread a request has | `ot.server(enable/disable/restart)`, `ot.reload()`, `execute_command`, the lifespan | proxy manager |
| Worker pool `ot/executor/worker_pool.py`, `worker.py` | tool to process table, pipes, last use | `call`, spawn, reaper thread, `shutdown` | user code's threads, processes |
| Stats writer `ot/stats/jsonl_writer.py` | list of records, flush task, JSONL file | `record_run`, `record_tool`, flush loop, `stop` | tool calls in threads, the event loop, a thread per write |
| Memory store `otutil/tools/_mem/`, `ot/utils/sqlite_pool.py` | SQLite tables of memories and history, vectors, embedding queue and thread | `write`, `update`, `append`, `delete`, `read`, `refresh`, `reindex`, `flush`, bulk operations, decay, snapshots, search | user code's threads, the embedding API |
| Context store `ot/ctx/`, result store `ot/executor/result_store.py` | two files per entry, a session directory per process | write, append, read, delete, purge | user code's threads; other OneTool processes purge old sessions |
| Knowledge base `otutil/tools/_knowledge/`, `ot/utils/sqlite_pool.py` | chunks, vectors, links in SQLite, one transaction for all calls | `index` in three committed phases, `reindex`, `write`, `append`, `update`, `delete`, search | user code's threads, files, the embedding API |
| Direct host `onetool/cli_commands/direct_app.py`, `_direct_host_worker.py`, `ot/direct_host.py`, `ottools/ot_direct.py` | pid file (neither locked nor written at once), host process, port | start, stop, restart, status, run | processes, TCP |
| Tool loading `ot/executor/tool_loader.py`, `pack_proxy.py` | registry and namespace caches | load, reload on change | files, proxy manager |
| Command preparation `ot/executor/` | none | parse, validate, rewrite | - |
| Configuration, secrets, prompts, shared utilities, stateless packs, CLI, telemetry | caches | - | - |

What makes them correct, and what makes that hard:

* **Proxy manager.** The tables describe the same sessions; a registered session is
  open; a session has one owner; none is forgotten; what is settled agrees with the
  configuration. Every operation awaits in the middle, any other may run then, and
  each can be cancelled or can fail there.
* **Server control.** A request is always answered, nothing waits on the loop thread for
  that thread, and requests use the manager only as it allows. Where the code runs is
  decided on a value that changes while it runs, and a wait that times out leaves its
  coroutine running.
* **Worker pool.** A call returns its own answer, no process is forgotten, every call
  returns. Requests carry no identifier, a worker is shared without a lock, and
  crashes, timeouts, the reaper and respawning race.
* **Stats writer.** Records reach the file once and in order, the list is bounded,
  `stop()` writes the rest. A cancelled write goes on in its thread; the list changes
  while a copy of it is being written.
* **Memory store.** What was acknowledged is stored or in the history, the history holds
  former contents only, a vector belongs to the content beside it, none is missing
  unnoticed. One connection has one transaction for all threads, `get()` rolls it
  back, `read()` commits it without the lock, and any call can fail half way.
* **Context and result store.** Content and metadata agree, a live session is not purged,
  no append is lost, what exists is found. Nothing is locked, a write truncates first, and
  other processes purge.
* **Knowledge base.** Chunk, vector and links agree or it is known why not, a report
  without errors is true, what was reported as stored stays. No call takes the pool's
  lock: `get()` of any call rolls back what another has not committed, any commit
  commits what others have written, the API fails and the process is killed between
  two phases.
* **Direct host.** The pid file names the host that runs, stop and restart leave no
  other behind, code is executed at most once. Commands are separate processes; a host
  may fail to boot, hang, die or lose its port to another.
* **Tool loading.** The namespace offers the tools that exist now.

`PROJECT.json` lists every component with its status, and under "hazards" what is
hard to test in this code, at its line, with the property that watches it.

## 2. Modules

| Module | Models | Runs |
|---|---|---|
| `ProxyManager` | proxy manager | `proxy`, `proxy_reload` |
| `ProxyManagerProofs`, `ProxyManagerCalmProofs` | theorems about it | |
| `ServerControl` (EXTENDS `ProxyManager`) | requests composed with the manager; refines it | `control`, `control_deadlock` |
| `ServerControlProofs` | the refinement and theorems about the composition | |
| `WorkerPool`, `WorkerPoolProofs` | worker pool, pipes, processes | `pool`, `pool_swap` |
| `StatsWriter`, `StatsWriterProofs` | stats writer | `stats`, `stats_loss` |
| `MemStore`, `MemStoreProofs` | memory store, connection pool, embedding thread | `mem`, `mem_refresh` |
| `KnowledgeIndex`, `KnowledgeIndexProofs` | knowledge base, connection pool | `knowledge` |
| `DirectHost`, `DirectHostProofs` | commands of the direct host, pid file, hosts | `direct` |
| `MC...` | the constants of the runs and what the bounds must satisfy | |
| `SessionRegistry`, `IsolatedCalls`, `StatsLog`, `Memories`, `OneHost` | abstract specifications: what a component promises those who use it | as a property of `proxy`, `pool`, `stats`, `mem`, `direct` |

In every module, variables are named after the attribute or local they stand for,
actions after the function (or the part of it between two points where others may run),
and the operators under "Plausible bugs" are variants of actions and helpers; nothing
else refers to them. `PROJECT.json`'s "map" gives the lines of each definition.

### ProxyManager

A coroutine runs from one `await` to the next. `loop` names the one that is running
and has not awaited yet; `Free` lets any other run. Steps between two awaits are thus
one action or a chain nobody can interrupt, and the awaits of `Client.__aenter__`,
`list_tools`, `__aexit__`, `transport.close` and `call_tool` are actions that choose
among the outcomes. A cancellation is delivered at the next await (`CancelDelivered`).

* `connect()`: `ConnectEntry`, `ConnectNext`, then per server `CreateClient`,
  `CreateFails`, `SessionOpens`, `SessionFails`, `ToolsListed`, `ListFails`, `CleanupDone`.
  `connect_additional()` is `EnableEntry` and the same chain.
* `disconnect_server()`: `DisableEntry`, `SessionLeft`. The transport is not closed.
* `shutdown()`: `ShutdownEntry`, `TaskEnded`, `ShutdownReturns` (no clients),
  `Snapshot`, `CloseNext`, `SessionExits`, `TransportCloses`, `CloseRaises`, `ClearAll`.
  `reconnect()` goes on with `ConnectEntry`.
* `reconnect_proxy_manager()` with no server configured: `ResetState`.
* `call_tool()`: `CallEntry`, `CallReturns`, `CallTimesOut`.
* `ConnectBackground` and the `Submit...` actions put a coroutine on the loop, with the
  configuration change the caller made before.

A coroutine is given the configuration when it is submitted, by reference: it sees an `enabled`
flag that is set in place later, but not the new object a reload makes. `enabled` is the
configuration there is; `older[j]` what coroutine `j` has still to read if that was replaced since
(`ConfigReplaced`), and `Config(j)` what it reads. The second half of `ot.server(restart=...)`
works on the configuration its first half found (`SubmitEnable`).

Abstractions. A server's tools and instructions are named by the client they came from.
All servers are stdio servers, the kind whose transport must be closed. Configuration
order is some fixed order. `_reset_state()`'s assignments are one step and happen in
the calling thread, as they do under the interpreter lock with nothing to await. An
`__aenter__` that fails leaves nothing open: that is fastmcp's promise, not OneTool's.
The fallback of `disconnect_server_sync` for a stopped loop is left out, since the
lifespan's loop runs as long as requests do. `connect_background` precedes the requests
because the lifespan calls it before serving.

### ServerControl

A request `r` chooses its thread in `Arrive` (`UseThreadPool`): if no server is
connected it takes the loop itself (`loop = r`). It then does one of `ServerEnable`,
`ServerDisable`, `ServerRestart`, `Reload`, `ReloadEmpty`, `CallTool`, each of which
submits a coroutine of ProxyManager and waits (`ResultArrives`, `ResultTimesOut`), or
answers at once (`AlreadyThere`). `UsesProxyManager` states that it implements
`ProxyManager!Spec` when a loop held by user code counts as idle.

### WorkerPool

`call()` is `Arrive`, the lookup without lock (`Found`), `Spawn` or `SpawnFails`,
`Install` (under the lock; the loser's process ends), `Refresh`, `Write`, `Select`,
`ReadLine` or `EndOfFile`, and after a timeout or a broken pipe `Evict` and `Kill`.
`Reap` and `Shutdown` are the reaper and the exit handler. A worker process answers
(`WorkerAnswers`) or dies (`WorkerCrashes`). `proc[w]` has its unread request lines, the
response lines in the pipe, and those in the reader's text buffer: `readline()` moves
all lines of the pipe into the buffer, which `select()` does not see. Not modelled:
lines larger than the pipe, Windows' thread-pool reader, the content of requests.

### StatsWriter

Appending is four steps of a thread (`AppendRecord`, `Check`, `Measure`, `DropOldest`),
because the list is shared without a lock. `_flush()` is `StartWrite` and `FinishWrite`
around `WriteLine`, `ThreadEnds`, `ThreadFails` of the thread that writes; the task
runs it in `TaskWakes` and `TaskResumes`, `stop()` in `StopFlushes` and `StopResumes`.
`TaskCancelled` delivers the cancellation, while the thread goes on. Records are
numbered; their fields, `_dropped_records` (only logged) and a record made by a thread
that fetched the writer before `stop()` ended are left out. A file grows line by line;
a partly written line is not modelled.

### MemStore

`db` is what is committed and `work` what the connection sees. A row has a content, a
vector named by the content it was computed from, and a history. A content is the set of
calls whose text it has, so that `append` and `update` can be told apart and loss can be seen.
Each call goes `get` (`GetConnection`: rolls back an open transaction), lock, and its own
steps; `read()` goes on without the lock (`Read`, `CommitRead`). `delete()` is two statements:
by id the memory, then its history (`Delete`, `Forget`); by topic the histories, then the
memories (`DeleteTopic`, `Remove`). A `read()` may commit between them: `torn` has the memories
of which only that half is committed. `refresh()` reads in one `use()` and
writes in another; `reindex()` computes vectors from rows read earlier.
The worker thread is `WorkerTakes`, `WorkerGets`, `WorkerSkips`, `WorkerEmbeds`,
`WorkerFails`, `WorkerCommits`. `Crash` is a kill of the process: the uncommitted
transaction, the lock and the queue are gone.

That calls are concurrent follows from `runner.py:511-518` and contradicts the comment
in `_mem/__init__.py:7-10` ("MCP tool dispatch is single-threaded"), which is true only
while no server is connected. Abstractions: all memories are in one topic; `reindex()`
handles one memory per call; an access count is the transaction it opens; SQLite does
not fail, the embedding API does; the bulk operations, decay, stats, search and
snapshots are left out (section 6).

### KnowledgeIndex

`db` is what is committed and `work` what the connection sees: a table of chunks by id, their
vectors, and links. A content is a set of texts, as in `MemStore`. A chunk's `key` is the
`(source_path, anchor)` of a section of a file, or `Note`. Every call begins with
`GetConnection`, which rolls back; none takes the lock afterwards.

* `index()`, chunks: `ReadSection`, `ChunkingFails`, `Upsert`, `CommitChunks`; vectors:
  `StoreVectors` and `CommitVectors` per sub-batch, `ClientRaises`; links: `ReadLinks`,
  `InsertLinks`, `LinkRaises`, `CommitLinks`. `reindex()` is `SelectMissing`, the second phase,
  and its report (`ReportVectors`), which takes all the vectors there are from the number of chunks
  that had none (`missing`) and says that many failed (`Admits`).
* `write()`, `append()`, `update()`, `delete()`: `Declines` or `SelectRows`, then per row
  `Change` and `TryEmbed`, or `Delete`, and `CommitChange`.
* A search counts hits: `CountHits`, `CommitHits`. `read()` and its like end after `GetConnection`.
* `Edit` changes a file, `Crash` kills the process.

The history variables: `said` is what callers were told of each chunk; `raced` that calls have
overlapped; `disturbed` the chunks that a call changed or rolled back while another worked
on them; `unembedded` those whose last embedding failed or was cut off. Abstractions:
embeddings are enabled; the commit after the vectors (`indexer.py:139`) is that of the last
sub-batch; a file that is empty or cannot be read is as good as none; files change
only between calls; no two sections have the same `(source_path, anchor)`; topics are
sections' keys, or one for all notes; a hit count is the transaction it opens; the SELECT
of a change and its choice of rows are one step. `ask()`, `related()` and `list()` only read.

### DirectHost

A command `c` is a process: `Arrive` says which (`start`, `stop`, `restart`, `status`, `run`,
`run` with auto-start), and it goes on with `ReadPid`, `CheckAlive`, `Kill`, `RemovePidFile`;
`Launch`, `Truncate`, `Fill`, `Ready`, `NotReady`; `Probe`, `Post`, `Answered`, `RequestFails`,
`RunInProcess`. `Abort` is an interrupt. A host is launched, then `Bind`, `BootFails`,
`Execute`, `Close`, `Exit`, `Crash`. The pid file is written in two steps, because
`write_text` truncates before it fills. A probe shows that somebody listens, not who
(`Answering`). `os.kill(pid, 0)` also finds a process that has ended and whose parent has not
looked after it (`Seen`): the one difference between a command and the same operation as a
tool of a living server (`ToolCalls`). `calm` is the history in which commands have not overlapped,
none was killed in the middle of a launch, and none started a host beside another.

Left out: reuse of pids, a foreign program on the port, hosts on other machines, errors of the
configuration before anything starts, and what prints only (`logs`, `list`, `search`, `help`,
`servers`, the interactive prompt, which is `run` in a loop).

### The abstract specifications

Each says in a page what its component is for, without threads, pipes, locks or
half-finished calls, and a property of the detailed module says that this is implemented.
They are written from what the code does; where it promises something only under a
condition, so do they. The mapping is the `INSTANCE` above that property.

| Abstract | Property | Promise | Mapping |
|---|---|---|---|
| `SessionRegistry` | `SessionsKept` | a client has one life, comes to the registry once at most, is closed after it has left or by a shutdown that listed it; a shutdown empties the registry only when all it listed is over | `session` is the table of clients, `life` (`Life`) is read from `cstate` and from what the connects have in hand, `listed` are the snapshots |
| `IsolatedCalls` | `PoolServes` | a call is answered once at most, by a response to a call of its tool that nobody else is given, its own if calls do not overlap; shutdown is final | `live` are the processes that run, `call` a summary of the program counter |
| `StatsLog` | `FileIsLog` | a log that grows by records in order; none repeated or out of order unless a write failed or was cut off, none left out unless the list was full; `stop()` completes it | the file, what was made, how far `stop()` is; list, copy and threads are hidden |
| `Memories` | `CallsAtomic` | every step of the committed tables is a whole call, or the first half of a delete that a read overlaps; a replaced content goes to the history, a text is stored once, a deleted memory stays away | `rows` is `db`; transaction, lock, queue, `torn` and program counters are hidden |
| `OneHost` | `HostManaged` | only a starting command brings a host up, and none beside another while commands do not overlap; after stop none is left; code is executed once at most | `running` are the hosts not told to end; pid file, port and probes are hidden |

## 3. Runs

| Run | Result | States | What it shows |
|---|---|---|---|
| `proxy` | holds | 919 thousand | registry invariants under any interleaving of three coroutines over two servers |
| `proxy_reload` | `ReloadConnects` violated | | finding 1 |
| `control` | holds | 69 thousand | requests, timeouts and the lifespan over the manager; liveness; refinement |
| `control_deadlock` | `NoSelfDeadlock` violated | | finding 2 |
| `pool` | holds | 340 thousand | calls, crashes, timeouts, reaper and shutdown on one tool |
| `pool_swap` | `OwnAnswer` violated | | finding 3 |
| `stats` | holds | 171 thousand | three records, a list of two, one failing write, `stop()` at any time |
| `stats_loss` | `FlushLosesNothing` violated | | finding 4 |
| `mem` | holds | 621 thousand | three calls of any kind, two memories, a full queue, a kill |
| `mem_refresh` | `HistoryPreserved` violated | | finding 5 |
| `knowledge` | holds | 744 thousand | two calls of any kind, API failures, an edit, a kill, from a base that may lack a vector |
| `direct` | holds | 980 thousand | three commands of any kind, two at once, hosts that fail, hang or die, an interrupt |

What the properties say is at their definitions. All are violated by at least one plausible
bug of the code they watch ("mutants" in `PROJECT.json`).

**Bounds.** `proxy`: two servers, so that one can be connected while another fails, is
disabled or is being closed; three coroutines, so that a reload, its connect task's
cancellation and one more operation overlap; six clients, more than any behaviour of
three coroutines creates, so that creating one is never refused. `control`: two
requests (one on the loop, one in a thread, or both) and three coroutines (a restart
takes two) on one server. `pool`: three calls to one tool, so that one may have left a
line behind, one may share, one may start afterwards; a worker per call, since a call
spawns at most one (assumed in `MCWorkerPool`). Two tools share nothing but the lock,
whose sections are single steps; that a response is one of the same tool is a question
only for several, and answered by the proof of `PoolServes` alone. `stats`: one more record than the list holds, two
threads, so that both may measure the same overflow; one write failure. Three records also make
`stats_loss`: one in the copy, two that push it out of a list of two. `mem`: three calls,
because the hazards of one connection need one call that fails half way, one that commits
it, and one whose data it was; a queue of one job (1000 in the code) is full with two;
two attempts stand for the three of the code: first, last; one kill. `knowledge`: one
section, two texts, one of which links to the notes, and a sub-batch of one; two calls meet in every
way two threads can on one row, and the initial states hold what a third one before them
may have left (a chunk with the text of an older file, without vector or with an
older one); three ids, since a call makes at most one (assumed in `MCKnowledgeIndex`); one
edit, one kill. `direct`: three commands, so that one can come between one that starts a
host and one that finds or misses it, two at work at once, one of them a tool's; a pid per
command, since a command launches at most one host (assumed in `MCDirectHost`); one crash,
one interrupt. The other counters
are bounded because each call or coroutine is made once.

**Deadlock** is not checked: all calls of an instance end and the system then stops.

**Exclusions.** A property that holds only under a condition says so in its statement:
`CalmNoLeak` and `CalmSettled` need lifecycle operations that do not overlap (overlap
does leak sessions: two connects of one name leave one of the clients unowned), and a restart
whose halves a reload comes between counts as overlap;
`SoloOwnAnswer`, `SoloNoOrphan` and the pool's `CallsEnd` need calls to a tool that do
not overlap; `HistoryComplete` and `NoOrphanHistory` excuse a `refresh()`, and
`VectorFresh` a `reindex()`, that overlapped another call; the first two, and `HistoryPreserved`,
the memories of which a `read()` has committed half a delete (`torn`); `VectorArrives` those
whose job was dropped, given up or lost (`forgotten`). `OrphanVectors`, `Embedded` and
`StoredAsSaid` excuse only the chunks that calls collided on (`disturbed`), and `Embedded` those
whose embedding failed or was cut off (`index()` and `write()` report that, `kb.update` drops the error,
`crud.py:242`); `ReportsTrue` needs calls that did not overlap, and for `reindex()` that no
embedding failed or that there was no vector before, since its count takes older vectors for new ones.
`Owned` and `OldHostEnds` need `calm`: of two overlapping starts one may leave a pid file that
names the host that lost the port, and so may a `start` beside a running host or a `run` with
auto-start beside one that is still booting, which its probe does not find. The runs that end in a
violation show what happens without the conditions, where a line of the repository
promises otherwise. `KeptUnlessOverflow` and `WriterProgresses` excuse an overflow
(`stats_loss` is about that). `FileIsLog` allows repetition after a failed or cancelled write
and gaps after an overflow, `CallsAtomic` half a delete beside a `read()` and what a `refresh()` or `reindex()` that
overlapped does to a history or a vector, `PoolServes` another call's answer and an orphan when calls to a
tool overlap, `HostManaged` a second host when commands do.

**Fairness.** `ProxyManager`: weak fairness of each coroutine's steps. The event loop is
fair to ready coroutines, and an await of a session ends because fastmcp has
timeouts and the call has one of its own; nothing is promised for coroutines on a
loop that user code holds. `ServerControl` adds weak fairness of each request: threads
are scheduled, and a wait has a timeout. `WorkerPool`: of each call's steps only; no worker
need answer, the reaper need not run. `StatsWriter`: of the writer as a whole
(its task, `stop()` and the writing threads); no one need record. `MemStore`: of each call
and of the embedding thread; a kill need not happen, an API call fails or succeeds.
`KnowledgeIndex`: of each call's steps. `DirectHost`: of each command's steps, which have
time-outs, and of nothing a host does.

## 4. Proofs

Every invariant of every passing run is proved for any values of the constants, and so are
the action properties `OldHostEnds` and `ReportsTrue`, the refinement `UsesProxyManager`, and
the refinements of the five abstract specifications; the theorems with
their properties are in `PROJECT.json`. Each module assumes only what the module it is
about assumes by name: that the markers for absence are none of the things they stand
for, that what counts is a number, that a set that must have an element has one. None
of these bounds the size of an instance.

A refinement is proved from two facts: initial states map to initial states, and a step from a
state in which the inductive invariant holds maps to a step of the abstract specification or to a
stutter. The second has one lemma per action or per group of actions that the mapping does not
distinguish; most actions stutter, and the few that do not are where the promise is kept.
All refinements are about safety: the abstract specifications have no fairness.

An invariant about what is committed, registered or written is seldom inductive: it holds
because of what each call has in its hands half way. The arguments:

* **`ProxyManagerProofs`** (`ConstantsOK`). `TypeOK` is inductive. `RegistryAgrees` is, given
  `TypeOK`: the four actions that write a table of the registry (`ToolsListed`,
  `DisableEntry`, `ClearAll`, `ResetState`) write all that have to agree, with no await in
  between. `ClientsApart` and `RegisteredIsLive` are only inductive together (`Owned`): a
  step could close a registered client from another's hands, or register one twice. A
  client that is being opened is in nobody else's hands (`OpeningApart`), one that
  `disconnect_server` is leaving is not registered (`LeavingApart`), `shutdown` closes only what its snapshot has
  (`ClosingSnapped`), a client created now was nowhere before (`UnusedNowhere`). `SessionsCorrect`
needs that a shutdown has closed all it has gone past when it empties the registry: `Books` says
which part of its snapshot is over. `ScheduleCorrect` is the safety behind `JobsEnd`
(`NobodyStuck`): a coroutine between two awaits has the loop and cannot be cancelled there, and
only the connect task is ever to be cancelled, where that is delivered. Fairness of each
coroutine then suffices for it to go on.
* **`ProxyManagerCalmProofs`** (`ConstantsOK`). `CalmNoLeak` and `CalmSettled` say something
  only while `calm`, a history of submissions. `CalmInv` first shows what `calm` means for the coroutines:
  at most one lifecycle operation is at work, or the connect task and a shutdown that waits for
  it (`Alone`, `TaskKnown`). Of that one it says what it still has before it and
  what will be so when it ends: every open client is registered, in its hands or in its
  snapshot (`ClosesAll`, `NoLeak`); what is connected has no error and stays enabled
  (`NoError`, `StaysEnabled`, `WillBeEnabled`); what is enabled is dealt with or ahead
  of it (`ComesToAll`, `Accounted`), because the configuration it will read is the one there is (`Current`).
* **`ServerControlProofs`** (`ConstantsOK`; `RequestsHold`: who may hold the loop is a
  request). It instantiates `ProxyManagerProofs` with the loop mapped to `Free` while user code
  has it. A coroutine's step needs a loop that no request has, so it is the manager's own
  step; a request that takes, keeps or gives up the loop is a stutter (`UsesManager`, initial
  states and each step). The manager's theorems then hold in the composition (`ReqRegistered`),
  its promise about sessions too (`ReqSessions`: a refinement of a refinement),
  its types give `ReqTypeOK`. `HeldAlone`: a request is given the loop only when nothing is
  connected, and while it has it no coroutine runs that could register a client.
* **`WorkerPoolProofs`** (`NoneApart`). No property names the lines in the pipes and all
  depend on them. `PoolInv`: a request or response line is in one place (`OnePlace`), of a process
  that runs its call's tool (`OneTool`), and without overlap only where its own call will
  read it, or in a process no call can reach any more (`Alone`). For `PoolServesCorrect` these
  are what `ReadLine` needs to be `Return`: the line it consumes was nobody's before, and `Shutdown`
  leaves nothing because of `SoloNoOrphan`.
* **`StatsWriterProofs`** (`Limits`). `WriterInv` says where the copy being written stands in
  the list: at the front, element by element, until an overflow (`Kept`); behind the file and
  before the rest, whatever was dropped (`Sorted`); how far its thread is (`Writing`). `Room` counts, for the
  bound in `TypeOK`, only the appending threads that may still delete. For `FileIsLogCorrect`,
  `Whole` adds that without overflow the copy being written is records in a row with none missing
  before them, so that the next line leaves no gap.
* **`MemStoreProofs`** (`MemConstants`). Any thread may commit what another has
  written, so `MemInv` claims the properties of the open transaction too (`Stores`), with what
  a call relies on under the lock (`Held`), from one lock to the next (`Unraced`) and before
  it has written (`New`). `Alone`: without overlap, a transaction that a failed embedding left
  open is rolled back by whoever comes next. For `CallsAtomicCorrect`: the open transaction
  is at most one abstract step ahead of the committed tables (`Ahead`), whoever commits it, a
  delete's first half being a step of its own; what is claimed of the tables takes `torn` as a
  parameter, since the transaction's half is not torn before somebody commits it;
  what `append()` adds to is what is there (`Appends`); a memory not born yet has no history,
  and no `refresh()` is about to write one (`Births`).
* **`KnowledgeIndexProofs`** (`KnowledgeConstants`). The properties of both tables (`Sound`),
  and, there being no lock, of each call: its rows are there (`Present`), what it has written is in the
  transaction (`Kept`), rows whose embedding it tried agree (`TriedOK`), each unless
  the row is `disturbed`. `OthersSpared`: a step spares the rows in others' hands or
  disturbs them. `ReportInv`, for calls that do not overlap: no section has two chunks
  (`OneRow`), and the call at work has stored the sections behind it, has every missing
  vector before it, and what it has read is so still, unless it has an error to report. That
  the report of `reindex()` admits an error then takes counting: if there was no vector
  before, the vectors are some of `missing`, and when their numbers agree, all (`CountTells`).
* **`DirectHostProofs`** (`DirectConstants`). `RunInv` says where code that is about to be
  executed here cannot have been executed elsewhere. `CalmInv` has, for each place in a
  command, which hosts may run there (`Placed`): none before a launch, the launched one until the file is filled,
  the one the file names otherwise. For `HostManagedCorrect`: `RunInv` makes an execution the first,
  `CalmInv` makes a launch one with no host beside it and gives what a command that ends says
  of the hosts (`LeavesStep`).

Proved without being a property of a run, because a refinement that is one says more:
`RegisteredCorrect` (and `ReqRegistered`), `AnswersOnceCorrect`, `OnceInOrderCorrect`,
`DeduplicatedCorrect`, `RunCorrect`.

Only model-checked: liveness (`JobsEnd`, `RequestsEnd`, `WriterProgresses`, `VectorArrives`,
`CommandsEnd`, `CallsEnd` of three modules), which is out of the prover's reach.
Of `JobsEnd` the safety part is proved (`ScheduleCorrect`).

## 5. Findings

1. **A reload after every server failed connects nothing** (`manager.py:614`). With no client
   `shutdown()` returns before it resets `_initialized`, and `connect()` then returns at once. In the
   trace the one enabled server fails to connect, a reload adds a second one, and that is never tried.
2. **A request can wait for itself** (`runner.py:496`). With no server connected, code runs on
   the loop thread; `ot.server(enable=...)` or `ot.reload()` blocks it until the timeout,
   and the server with it.
3. **Two calls to one extension tool can swap answers** (`worker_pool.py:307`).
4. **An overflow during a flush loses records** (`jsonl_writer.py:243`), uncounted.
5. **A refresh that overlaps an update loses it** (`_mem/refresh.py:118`), from content and
   history.

Each is the run named in section 3; the trace TLC prints is the scenario.

Met while modelling, and described without a run:

* `kb.index()` in mode skip leaves a chunk without a vector whose embedding failed or was cut off
  before: its text is unchanged, so it is skipped (`_knowledge/indexer.py`). `reindex()`
  completes it.
  `Embedded` excuses it (`unembedded`), `ReportsTrue` asks it of `reindex()` only.
* A lock-free `mem.read()` can commit between the two statements of a `mem.delete()`
  (`read.py:80`; `mutations.py:54-58, 83-88`), and a kill makes that permanent: by id the history
  of a memory that is gone, which the second statement is there to prevent ("Clean up history too",
  `mutations.py:56`); by topic a memory whose history is gone. `HistoryComplete` and
  `NoOrphanHistory` except these memories (`torn`), and `Memories` has the half as a step of its own.
* `kb.reindex()` subtracts the number of all vectors from that of the chunks that had none
  (`indexing.py:86-98`, "Count how many embeddings are now present to report accurate numbers"). When
  as many embeddings failed as there were vectors before, the report is one of success; when fewer
  failed, the count of errors is negative. `ReportsTrue` excepts this; without the exception TLC finds the false report
  in 13 states.
* `onetool direct start` on a port where a host listens already reports that its own is ready:
  the probe cannot tell the two apart (`Ready`), and the pid file then names a process that
  has ended. `calm` excludes it from `Owned`.

## 6. Plan

Done, in this order because the proxy manager is the state most of the server shares and
the most concurrent: `ProxyManager`, `ServerControl`, `WorkerPool`, `StatsWriter`, `MemStore`,
`KnowledgeIndex`, `DirectHost`, and the proofs of all their safety properties.

Next modules:

1. `ContextStore`: entries of two files, append, read with its metadata update,
   delete, expiry, purge, and the truncation before each write. A handle belongs to one
   process, so kills do not matter, the purge of a session by another process does.
   The result store is a wrapper over it.
2. `ToolRegistry`: the caches of tools and namespaces against file changes and reconnects
   (`pack_proxy.py:277`, `tool_loader.py:291`).
3. `MemStore`: decay, snapshots and the bulk operations as loops over the steps there are.
4. Small ones: the timers' eviction (`ot_timer.py:52`), the client factory (`ot/utils/factory.py`).

Abstract specifications: stated and proved for five components; left is that of the
knowledge base, a table whose rows change by whole calls except where calls collide.

Theorems next: that one, and the safety parts of the other liveness properties, as
`ScheduleCorrect` is of `JobsEnd`.

Not modelled, with the reason in `PROJECT.json`: command preparation and validation (functions of
text), configuration, secrets and prompts (parsing), stateless packs, command lines,
telemetry, the benchmark and packaging programs. They are most of the lines of the repository:
adapters to web services, spreadsheets, diagrams and files, of which each call has one effect and
keeps no state.
