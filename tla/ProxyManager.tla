---------------------------- MODULE ProxyManager ----------------------------
(***************************************************************************)
(* The registry of connections to external MCP servers that OneTool keeps  *)
(* (src/src/ot/proxy/manager.py).  Everything that changes the registry is *)
(* a coroutine on one asyncio event loop: the connect task started by the  *)
(* server's lifespan, the coroutines that ot.server() and ot.reload()      *)
(* submit from other threads, proxied tool calls, the final shutdown.      *)
(*                                                                         *)
(* A coroutine keeps the loop from one await to the next.  `loop` names    *)
(* the coroutine that is running and has not awaited yet; another one runs *)
(* only when it is Free.  What an awaited fastmcp Client does (open a      *)
(* session, list its tools, close) is a choice over its outcomes.  Every   *)
(* server is a stdio server: its process outlives the session and ends     *)
(* only when the transport is closed.                                      *)
(***************************************************************************)
EXTENDS FiniteSets

CONSTANTS Servers,   \* names configured under `servers`
          Clients,   \* fastmcp Client objects that can be created in a run
          Jobs,      \* coroutines that can be submitted in a run, each once
          Holders,   \* user code that can hold the loop thread itself
          NoClient,  \* an absent entry of _clients
          NoJob,     \* _connect_task is None
          Free       \* no coroutine is between two awaits

ASSUME ConstantsOK ==
  /\ Servers # {}
  /\ NoClient \notin Clients
  /\ NoJob \notin Jobs
  /\ Free \notin Jobs \cup Holders
  /\ Jobs \cap Holders = {}

VARIABLES
  clients,       \* _clients: server -> Client
  tools,         \* _tools_by_server: server -> the client whose tools are kept
  instructions,  \* _server_instructions, likewise
  timeouts,      \* the keys of _server_timeouts
  errors,        \* _errors: server -> kind of the last error
  initialized,   \* _initialized
  connectTask,   \* _connect_task
  enabled,       \* servers whose McpServerConfig.enabled is set
  cancelled,     \* tasks whose cancel() was called and is not delivered yet
  cstate,        \* what is left open of each Client
  loop,          \* who runs on the event loop
  op, pc,        \* of each coroutine: what it was submitted for, where it is
  srv, cl,       \* the server and the Client it works on
  todo,          \* connect(): enabled_configs not tried yet
  snap, left,    \* shutdown(): clients in the snapshot, and those not closed yet
  res,           \* how it ended
  older,         \* {}, or the `enabled` of the replaced configuration it will read
  calm           \* history: no two lifecycle operations have overlapped so far

mgr    == <<clients, tools, instructions, timeouts, errors>>
locals == <<op, srv, todo, snap, left>>
env    == <<enabled, older, calm>>
vars   == <<mgr, initialized, connectTask, cancelled, cstate, loop, pc, cl, res,
            locals, env>>

Ops == {"none", "connect", "reconnect", "shutdown", "enable", "disable", "call",
        "reset"}

Pcs == {"idle", "done",
        "connect", "next", "create", "entering", "listing", "cleanup",
        "shutdown", "awaiting", "snapshot", "closeall", "exiting", "transport",
        "enable", "disable", "leaving", "call", "calling"}

Results == {"none", "ok", "failed", "cancelled", "noop", "timeout"}

TypeOK ==
  /\ clients \in [Servers -> Clients \cup {NoClient}]
  /\ tools \in [Servers -> Clients \cup {NoClient}]
  /\ instructions \in [Servers -> Clients \cup {NoClient}]
  /\ timeouts \subseteq Servers
  /\ errors \in [Servers -> {"none", "failed", "cancelled"}]
  /\ initialized \in BOOLEAN
  /\ connectTask \in Jobs \cup {NoJob}
  /\ enabled \subseteq Servers
  /\ cancelled \subseteq Jobs
  /\ cstate \in [Clients -> {"unused", "entering", "open", "exited", "closed"}]
  /\ loop \in Jobs \cup Holders \cup {Free}
  /\ op \in [Jobs -> Ops]
  /\ pc \in [Jobs -> Pcs]
  /\ srv \in [Jobs -> Servers]
  /\ cl \in [Jobs -> Clients \cup {NoClient}]
  /\ todo \in [Jobs -> SUBSET Servers]
  /\ snap \in [Jobs -> SUBSET Clients]
  /\ left \in [Jobs -> SUBSET Clients]
  /\ res \in [Jobs -> Results]
  /\ older \in [Jobs -> SUBSET SUBSET Servers]
  /\ calm \in BOOLEAN
-----------------------------------------------------------------------------
Connected == {s \in Servers : clients[s] # NoClient}

Registered == {clients[s] : s \in Connected}

\* is_connecting
IsConnecting == connectTask # NoJob /\ pc[connectTask] # "done"

\* The coroutine may take its next step: nobody is between two awaits, or it is.
CanRun(j) == loop \in {Free, j} /\ j \notin cancelled

\* The coroutine goes on to p without giving up the loop.
Continue(j, p) ==
  /\ pc' = [pc EXCEPT ![j] = p]
  /\ loop' = j
  /\ UNCHANGED cl

\* The coroutine awaits something of client c; it will resume at p.
AwaitOn(j, p, c) ==
  /\ pc' = [pc EXCEPT ![j] = p]
  /\ loop' = Free
  /\ cl' = [cl EXCEPT ![j] = c]

Await(j, p) == AwaitOn(j, p, cl[j])

\* The coroutine ends with result r.
Return(j, r) == AwaitOn(j, "done", NoClient) /\ res' = [res EXCEPT ![j] = r]

\* The enabled servers of the configuration that j was submitted with.  It is the
\* one in force, in which ot.server() sets `enabled` in place, or one that a
\* reload has replaced since and nobody changes any more.
Config(j) == IF older[j] = {} THEN enabled ELSE UNION older[j]

DownPcs == {"shutdown", "awaiting", "snapshot", "closeall", "exiting", "transport"}

\* j reads it, once, and needs it no more.
ConfigRead(j) ==
  /\ older' = [older EXCEPT ![j] = {}]
  /\ UNCHANGED <<enabled, calm>>

\* Somebody will still read the configuration j was submitted with: connect(),
\* connect_additional(), a reconnect() that shuts down first, or a restart
\* between its two halves.
HoldsConfig(j) ==
  \/ pc[j] \in {"connect", "enable"}
  \/ op[j] = "reconnect" /\ pc[j] \in DownPcs
  \/ op[j] = "disable"

\* The configuration file is read again, into new objects.
ConfigReplaced ==
  older' = [j \in Jobs |-> IF HoldsConfig(j) /\ older[j] = {} THEN {enabled}
                          ELSE older[j]]

\* Closing never reopens: __aexit__ ends a session that is still open.
Exited(c) == [cstate EXCEPT ![c] = IF @ = "closed" THEN @ ELSE "exited"]

EmptyRegistry ==
  /\ clients' = [s \in Servers |-> NoClient]
  /\ tools' = [s \in Servers |-> NoClient]
  /\ instructions' = [s \in Servers |-> NoClient]
  /\ timeouts' = {}
  /\ errors' = [s \in Servers |-> "none"]

Init ==
  /\ clients = [s \in Servers |-> NoClient]
  /\ tools = [s \in Servers |-> NoClient]
  /\ instructions = [s \in Servers |-> NoClient]
  /\ timeouts = {}
  /\ errors = [s \in Servers |-> "none"]
  /\ initialized = FALSE
  /\ connectTask = NoJob
  /\ enabled \in SUBSET Servers
  /\ cancelled = {}
  /\ cstate = [c \in Clients |-> "unused"]
  /\ loop = Free
  /\ op = [j \in Jobs |-> "none"]
  /\ pc = [j \in Jobs |-> "idle"]
  /\ srv = [j \in Jobs |-> CHOOSE s \in Servers : TRUE]
  /\ cl = [j \in Jobs |-> NoClient]
  /\ todo = [j \in Jobs |-> {}]
  /\ snap = [j \in Jobs |-> {}]
  /\ left = [j \in Jobs |-> {}]
  /\ res = [j \in Jobs |-> "none"]
  /\ older = [j \in Jobs |-> {}]
  /\ calm = TRUE
-----------------------------------------------------------------------------
(***************************************************************************)
(* Plausible bugs, each a variant of an action below                       *)
(***************************************************************************)

\* _server_timeouts filed under the client instead of the server's name
ToolsListedWrongKey(j) ==
  /\ pc[j] = "listing"
  /\ CanRun(j)
  /\ clients' = [clients EXCEPT ![srv[j]] = cl[j]]
  /\ tools' = [tools EXCEPT ![srv[j]] = cl[j]]
  /\ timeouts' = timeouts \cup {cl[j]}
  /\ instructions' = [instructions EXCEPT ![srv[j]] = cl[j]]
  /\ errors' = [errors EXCEPT ![srv[j]] = "none"]
  /\ IF op[j] = "enable"
       THEN Return(j, "ok")
       ELSE Continue(j, "next") /\ UNCHANGED res
  /\ UNCHANGED <<initialized, connectTask, cancelled, cstate, locals, env>>

\* the error of an earlier attempt survives a connection
ToolsListedKeepsError(j) ==
  /\ pc[j] = "listing"
  /\ CanRun(j)
  /\ clients' = [clients EXCEPT ![srv[j]] = cl[j]]
  /\ tools' = [tools EXCEPT ![srv[j]] = cl[j]]
  /\ timeouts' = timeouts \cup {srv[j]}
  /\ instructions' = [instructions EXCEPT ![srv[j]] = cl[j]]
  /\ IF op[j] = "enable"
       THEN Return(j, "ok")
       ELSE Continue(j, "next") /\ UNCHANGED res
  /\ UNCHANGED <<errors, initialized, connectTask, cancelled, cstate, locals, env>>

\* disconnect_server() forgets _tools_by_server
DisableEntryKeepsTools(j) ==
  /\ pc[j] = "disable"
  /\ CanRun(j)
  /\ IF srv[j] \notin Connected
       THEN Return(j, "noop") /\ UNCHANGED mgr
       ELSE /\ AwaitOn(j, "leaving", clients[srv[j]])
            /\ clients' = [clients EXCEPT ![srv[j]] = NoClient]
            /\ instructions' = [instructions EXCEPT ![srv[j]] = NoClient]
            /\ errors' = [errors EXCEPT ![srv[j]] = "none"]
            /\ UNCHANGED <<tools, timeouts, res>>
  /\ UNCHANGED <<initialized, connectTask, cancelled, cstate, op, srv, todo, snap,
                 left, env>>

\* disconnect_server() leaves the client registered while it closes it
DisableEntryKeepsClient(j) ==
  /\ pc[j] = "disable"
  /\ CanRun(j)
  /\ IF srv[j] \notin Connected
       THEN Return(j, "noop") /\ UNCHANGED mgr
       ELSE /\ AwaitOn(j, "leaving", clients[srv[j]])
            /\ errors' = [errors EXCEPT ![srv[j]] = "none"]
            /\ UNCHANGED <<clients, tools, instructions, timeouts, res>>
  /\ UNCHANGED <<initialized, connectTask, cancelled, cstate, op, srv, todo, snap,
                 left, env>>

\* shutdown() gives up on the clients behind the first that closes with an error
ClearAllEarly(j) ==
  /\ pc[j] = "closeall"
  /\ CanRun(j)
  /\ EmptyRegistry
  /\ initialized' = FALSE
  /\ snap' = [snap EXCEPT ![j] = {}]
  /\ IF op[j] = "reconnect"
       THEN Continue(j, "connect") /\ UNCHANGED res
       ELSE Return(j, "ok")
  /\ UNCHANGED <<connectTask, cancelled, cstate, op, srv, todo, left, env>>

\* connect_additional() without the test for a server that is connected
EnableEntryUnchecked(j) ==
  /\ pc[j] = "enable"
  /\ CanRun(j)
  /\ IF srv[j] \notin Config(j)
       THEN Return(j, "noop")
       ELSE Continue(j, "create") /\ UNCHANGED res
  /\ ConfigRead(j)
  /\ UNCHANGED <<mgr, initialized, connectTask, cancelled, cstate, locals>>

\* call_tool() waits with the timeout the server has when it fires
CallTimesOutIfKnown(j) ==
  /\ pc[j] = "calling"
  /\ CanRun(j)
  /\ srv[j] \in timeouts
  /\ Return(j, "timeout")
  /\ UNCHANGED <<mgr, initialized, connectTask, cancelled, cstate, locals, env>>
-----------------------------------------------------------------------------
(***************************************************************************)
(* Submission of coroutines                                                *)
(***************************************************************************)

\* connect_background has run: _loop is set.
LoopKnown == \E k \in Jobs : op[k] = "connect"

\* No lifecycle operation other than calls is under way that o would overlap.
\* shutdown() cancels the connect task and awaits it, so these two may overlap.
Undisturbed(o) ==
  \A k \in Jobs : \/ pc[k] \in {"idle", "done"}
                 \/ op[k] = "call"
                 \/ (o \in {"reconnect", "shutdown"} /\ op[k] = "connect")

\* Coroutine objects are interchangeable: the first idle one is used.
Submit(j, o, s) ==
  /\ pc[j] = "idle"
  /\ j = CHOOSE k \in Jobs : pc[k] = "idle"
  /\ op' = [op EXCEPT ![j] = o]
  /\ srv' = [srv EXCEPT ![j] = s]
  /\ calm' = (calm /\ (o = "call" \/ Undisturbed(o)) /\ older'[j] = {})
  /\ UNCHANGED <<mgr, initialized, cancelled, cstate, cl, res, todo, snap, left>>

Scheduled(j, p) == pc' = [pc EXCEPT ![j] = p] /\ UNCHANGED loop

\* The lifespan starts the connect task, once.
ConnectBackground(j) ==
  /\ loop = Free
  /\ ~LoopKnown
  /\ connectTask' = j
  /\ Scheduled(j, "connect")
  /\ UNCHANGED <<enabled, older>>
  /\ Submit(j, "connect", srv[j])

\* connect_additional_sync: ot.server(enable = s), or the second half of a restart,
\* with the configuration its first half k began with.
SubmitEnable(j, s) ==
  /\ LoopKnown
  /\ \/ enabled' = enabled \cup {s} /\ UNCHANGED older
     \/ \E k \in Jobs :
          /\ op[k] = "disable" /\ srv[k] = s /\ pc[k] = "done"
          /\ older' = [older EXCEPT ![j] = older[k]]
          /\ UNCHANGED enabled
  /\ Scheduled(j, "enable")
  /\ Submit(j, "enable", s)
  /\ UNCHANGED connectTask

\* disconnect_server_sync: ot.server(disable = s), or the first half of a restart,
\* which enables s.
SubmitDisable(j, s) ==
  /\ LoopKnown
  /\ \/ s \in enabled /\ enabled' = enabled \ {s}
     \/ enabled' = enabled \cup {s}
  /\ UNCHANGED older
  /\ Scheduled(j, "disable")
  /\ Submit(j, "disable", s)
  /\ UNCHANGED connectTask

\* reconnect_sync, after ot.reload() has read the configuration file again.
SubmitReconnect(j) ==
  /\ LoopKnown
  /\ enabled' \in SUBSET Servers
  /\ ConfigReplaced
  /\ Scheduled(j, "shutdown")
  /\ Submit(j, "reconnect", srv[j])
  /\ UNCHANGED connectTask

\* The end of the lifespan: it calls shutdown() itself, without a submission.
BeginShutdown(j) ==
  /\ LoopKnown
  /\ loop = Free
  /\ Connected # {} \/ IsConnecting
  /\ UNCHANGED <<connectTask, enabled, older>>
  /\ Continue(j, "shutdown")
  /\ Submit(j, "shutdown", srv[j])

SubmitCall(j, s) ==
  /\ LoopKnown
  /\ UNCHANGED <<connectTask, enabled, older>>
  /\ Scheduled(j, "call")
  /\ Submit(j, "call", s)
-----------------------------------------------------------------------------
(***************************************************************************)
(* connect() and _connect_server()                                         *)
(***************************************************************************)

\* connect() of a manager that is initialized does nothing.
ConnectEntry(j) ==
  /\ pc[j] = "connect"
  /\ CanRun(j)
  /\ \/ /\ initialized
        /\ Return(j, "noop")
        /\ UNCHANGED <<initialized, todo>>
     \/ /\ ~initialized
        /\ Config(j) = {}
        /\ initialized' = TRUE
        /\ Return(j, "ok")
        /\ UNCHANGED todo
     \/ /\ ~initialized
        /\ Config(j) # {}
        /\ todo' = [todo EXCEPT ![j] = Config(j)]
        /\ Continue(j, "next")
        /\ UNCHANGED <<initialized, res>>
  /\ ConfigRead(j)
  /\ UNCHANGED <<mgr, connectTask, cancelled, cstate, op, srv, snap, left>>

\* The loop over enabled_configs, in the order of the configuration file, and
\* the `finally` behind it.
ConnectNext(j) ==
  /\ pc[j] = "next"
  /\ CanRun(j)
  /\ \/ LET s == CHOOSE t \in todo[j] : TRUE
        IN /\ todo[j] # {}
           /\ srv' = [srv EXCEPT ![j] = s]
           /\ todo' = [todo EXCEPT ![j] = @ \ {s}]
           /\ Continue(j, "create")
           /\ UNCHANGED <<initialized, res>>
     \/ /\ todo[j] = {}
        /\ initialized' = TRUE
        /\ Return(j, "ok")
        /\ UNCHANGED <<srv, todo>>
  /\ UNCHANGED <<mgr, connectTask, cancelled, cstate, op, snap, left, env>>

\* Exception in _connect_server: connect() goes on to the next server, even if it
\* was being cancelled; connect_additional() returns "failed: ...".
ConnectFailed(j) ==
  /\ errors' = [errors EXCEPT ![srv[j]] = "failed"]
  /\ IF op[j] = "enable"
       THEN Return(j, "failed")
       ELSE Continue(j, "next") /\ res' = [res EXCEPT ![j] = "none"]
  /\ UNCHANGED <<clients, tools, instructions, timeouts, initialized>>

\* CancelledError in _connect_server: connect() records it and is over.
ConnectAborted(j) ==
  /\ errors' = [errors EXCEPT ![srv[j]] = "cancelled"]
  /\ initialized' = TRUE
  /\ Return(j, "cancelled")
  /\ todo' = [todo EXCEPT ![j] = {}]
  /\ UNCHANGED <<clients, tools, instructions, timeouts>>

Fresh == CHOOSE c \in Clients : cstate[c] = "unused"

CreateClient(j) ==
  /\ pc[j] = "create"
  /\ CanRun(j)
  /\ \E c \in Clients : cstate[c] = "unused"
  /\ cstate' = [cstate EXCEPT ![Fresh] = "entering"]
  /\ AwaitOn(j, "entering", Fresh)
  /\ UNCHANGED <<mgr, initialized, connectTask, cancelled, res, op, srv, todo,
                 snap, left, env>>

\* _create_client raises: no url, no command, a secret that does not expand.
CreateFails(j) ==
  /\ pc[j] = "create"
  /\ CanRun(j)
  /\ ConnectFailed(j)
  /\ UNCHANGED <<connectTask, cancelled, cstate, locals, env>>

SessionOpens(j) ==
  /\ pc[j] = "entering"
  /\ CanRun(j)
  /\ cstate' = [cstate EXCEPT ![cl[j]] = "open"]
  /\ Await(j, "listing")
  /\ UNCHANGED <<mgr, initialized, connectTask, cancelled, res, locals, env>>

\* __aenter__ raises and leaves nothing behind.
SessionFails(j) ==
  /\ pc[j] = "entering"
  /\ CanRun(j)
  /\ cstate' = [cstate EXCEPT ![cl[j]] = "closed"]
  /\ ConnectFailed(j)
  /\ UNCHANGED <<connectTask, cancelled, locals, env>>

\* list_tools answers: the server is registered, whatever was there before.
ToolsListed(j) ==
  /\ pc[j] = "listing"
  /\ CanRun(j)
  /\ clients' = [clients EXCEPT ![srv[j]] = cl[j]]
  /\ tools' = [tools EXCEPT ![srv[j]] = cl[j]]
  /\ timeouts' = timeouts \cup {srv[j]}
  /\ instructions' = [instructions EXCEPT ![srv[j]] = cl[j]]
  /\ errors' = [errors EXCEPT ![srv[j]] = "none"]
  /\ IF op[j] = "enable"
       THEN Return(j, "ok")
       ELSE Continue(j, "next") /\ UNCHANGED res
  /\ UNCHANGED <<initialized, connectTask, cancelled, cstate, locals, env>>

ListFails(j) ==
  /\ pc[j] = "listing"
  /\ CanRun(j)
  /\ Await(j, "cleanup")
  /\ UNCHANGED <<mgr, initialized, connectTask, cancelled, cstate, res, locals, env>>

\* The __aexit__ of the failure path is over; the exception goes on.  If __aexit__
\* raises, its exception takes the place of a CancelledError.
CleanupDone(j) ==
  /\ pc[j] = "cleanup"
  /\ CanRun(j)
  /\ cstate' = Exited(cl[j])
  /\ \/ res[j] = "cancelled" /\ ConnectAborted(j)
     \/ ConnectFailed(j) /\ UNCHANGED todo
  /\ UNCHANGED <<connectTask, cancelled, op, srv, snap, left, env>>

\* task.cancel() takes effect at the await the task is in.
CancelDelivered(j) ==
  /\ j \in cancelled
  /\ loop = Free
  /\ cancelled' = cancelled \ {j}
  /\ \/ /\ pc[j] = "connect"            \* the task never started
        /\ Return(j, "cancelled")
        /\ UNCHANGED <<mgr, initialized, cstate, todo>>
     \/ /\ pc[j] = "entering"
        /\ cstate' = [cstate EXCEPT ![cl[j]] = "closed"]
        /\ ConnectAborted(j)
     \/ /\ pc[j] = "listing"
        /\ Await(j, "cleanup")
        /\ res' = [res EXCEPT ![j] = "cancelled"]
        /\ UNCHANGED <<mgr, initialized, cstate, todo>>
     \/ /\ pc[j] = "cleanup"
        /\ cstate' = Exited(cl[j])
        /\ ConnectAborted(j)
  /\ UNCHANGED <<connectTask, op, srv, snap, left, env>>
-----------------------------------------------------------------------------
(***************************************************************************)
(* shutdown() and reconnect()                                              *)
(***************************************************************************)

ShutdownEntry(j) ==
  /\ pc[j] = "shutdown"
  /\ CanRun(j)
  /\ IF IsConnecting
       THEN /\ cancelled' = cancelled \cup {connectTask}
            /\ Await(j, "awaiting")
            /\ UNCHANGED connectTask
       ELSE /\ connectTask' = NoJob
            /\ Continue(j, "snapshot")
            /\ UNCHANGED cancelled
  /\ UNCHANGED <<mgr, initialized, cstate, res, locals, env>>

\* `await self._connect_task` returns when the task it captured is done.
TaskEnded(j) ==
  /\ pc[j] = "awaiting"
  /\ CanRun(j)
  /\ \A k \in Jobs : op[k] = "connect" => pc[k] = "done"
  /\ connectTask' = NoJob
  /\ Continue(j, "snapshot")
  /\ UNCHANGED <<mgr, initialized, cancelled, cstate, res, locals, env>>

\* shutdown() is over; reconnect() goes straight on into connect().
ShutdownReturns(j) ==
  IF op[j] = "reconnect"
    THEN Continue(j, "connect") /\ UNCHANGED res
    ELSE Return(j, "ok")

\* Without clients shutdown() returns early; otherwise it copies _clients.
Snapshot(j) ==
  /\ pc[j] = "snapshot"
  /\ CanRun(j)
  /\ IF Connected = {}
       THEN ShutdownReturns(j) /\ UNCHANGED <<snap, left>>
       ELSE /\ snap' = [snap EXCEPT ![j] = Registered]
            /\ left' = [left EXCEPT ![j] = Registered]
            /\ Continue(j, "closeall")
            /\ UNCHANGED res
  /\ UNCHANGED <<mgr, initialized, connectTask, cancelled, cstate, op, srv, todo, env>>

CloseNext(j) ==
  /\ pc[j] = "closeall"
  /\ CanRun(j)
  /\ \E c \in left[j] :
       /\ left' = [left EXCEPT ![j] = @ \ {c}]
       /\ AwaitOn(j, "exiting", c)
  /\ UNCHANGED <<mgr, initialized, connectTask, cancelled, cstate, res, op, srv,
                 todo, snap, env>>

SessionExits(j) ==
  /\ pc[j] = "exiting"
  /\ CanRun(j)
  /\ cstate' = Exited(cl[j])
  /\ Await(j, "transport")
  /\ UNCHANGED <<mgr, initialized, connectTask, cancelled, res, locals, env>>

TransportCloses(j) ==
  /\ pc[j] = "transport"
  /\ CanRun(j)
  /\ cstate' = [cstate EXCEPT ![cl[j]] = "closed"]
  /\ Continue(j, "closeall")
  /\ UNCHANGED <<mgr, initialized, connectTask, cancelled, res, locals, env>>

\* __aexit__ or transport.close() raises: logged, and on to the next client.
CloseRaises(j) ==
  /\ pc[j] \in {"exiting", "transport"}
  /\ CanRun(j)
  /\ cstate' = Exited(cl[j])
  /\ Continue(j, "closeall")
  /\ UNCHANGED <<mgr, initialized, connectTask, cancelled, res, locals, env>>

ClearAll(j) ==
  /\ pc[j] = "closeall"
  /\ CanRun(j)
  /\ left[j] = {}
  /\ EmptyRegistry
  /\ initialized' = FALSE
  /\ snap' = [snap EXCEPT ![j] = {}]
  /\ ShutdownReturns(j)
  /\ UNCHANGED <<connectTask, cancelled, cstate, op, srv, todo, left, env>>

\* ot.reload() when no server is configured any more: _reset_state runs in the
\* calling thread, whatever the loop is doing, and is no coroutine.
ResetState(j) ==
  /\ LoopKnown
  /\ pc[j] = "idle"
  /\ j = CHOOSE k \in Jobs : pc[k] = "idle"
  /\ op' = [op EXCEPT ![j] = "reset"]
  /\ pc' = [pc EXCEPT ![j] = "done"]
  /\ enabled' = {}
  /\ ConfigReplaced
  /\ EmptyRegistry
  /\ initialized' = FALSE
  /\ connectTask' = NoJob
  /\ calm' = FALSE
  /\ UNCHANGED <<cancelled, cstate, loop, cl, res, srv, todo, snap, left>>
-----------------------------------------------------------------------------
(***************************************************************************)
(* connect_additional(), disconnect_server() and call_tool()               *)
(***************************************************************************)

EnableEntry(j) ==
  /\ pc[j] = "enable"
  /\ CanRun(j)
  /\ IF srv[j] \in Connected \/ srv[j] \notin Config(j)
       THEN Return(j, "noop")
       ELSE Continue(j, "create") /\ UNCHANGED res
  /\ ConfigRead(j)
  /\ UNCHANGED <<mgr, initialized, connectTask, cancelled, cstate, locals>>

\* The entry is popped before __aexit__ is awaited; the timeout stays behind.
DisableEntry(j) ==
  /\ pc[j] = "disable"
  /\ CanRun(j)
  /\ IF srv[j] \notin Connected
       THEN Return(j, "noop") /\ UNCHANGED mgr
       ELSE /\ AwaitOn(j, "leaving", clients[srv[j]])
            /\ clients' = [clients EXCEPT ![srv[j]] = NoClient]
            /\ tools' = [tools EXCEPT ![srv[j]] = NoClient]
            /\ instructions' = [instructions EXCEPT ![srv[j]] = NoClient]
            /\ errors' = [errors EXCEPT ![srv[j]] = "none"]
            /\ UNCHANGED <<timeouts, res>>
  /\ UNCHANGED <<initialized, connectTask, cancelled, cstate, op, srv, todo, snap,
                 left, env>>

\* __aexit__ returned or raised; transport.close() is not called here.
SessionLeft(j) ==
  /\ pc[j] = "leaving"
  /\ CanRun(j)
  /\ cstate' = Exited(cl[j])
  /\ Return(j, "ok")
  /\ UNCHANGED <<mgr, initialized, connectTask, cancelled, locals, env>>

CallEntry(j) ==
  /\ pc[j] = "call"
  /\ CanRun(j)
  /\ IF srv[j] \in Connected
       THEN AwaitOn(j, "calling", clients[srv[j]]) /\ UNCHANGED res
       ELSE Return(j, "failed")
  /\ UNCHANGED <<mgr, initialized, connectTask, cancelled, cstate, op, srv, todo,
                 snap, left, env>>

\* The call comes back: with an answer, or with the error of the tool or session.
CallReturns(j) ==
  /\ pc[j] = "calling"
  /\ CanRun(j)
  /\ Return(j, "ok")
  /\ UNCHANGED <<mgr, initialized, connectTask, cancelled, cstate, locals, env>>

\* asyncio.wait_for gives up on a server that does not answer.
CallTimesOut(j) ==
  /\ pc[j] = "calling"
  /\ CanRun(j)
  /\ Return(j, "timeout")
  /\ UNCHANGED <<mgr, initialized, connectTask, cancelled, cstate, locals, env>>
-----------------------------------------------------------------------------
\* A step of coroutine j that the loop, or an await that ends, brings about.
Step(j) ==
  \/ ConnectEntry(j) \/ ConnectNext(j) \/ CreateClient(j) \/ CreateFails(j)
  \/ SessionOpens(j) \/ SessionFails(j) \/ ToolsListed(j) \/ ListFails(j)
  \/ CleanupDone(j) \/ CancelDelivered(j)
  \/ ShutdownEntry(j) \/ TaskEnded(j) \/ Snapshot(j) \/ CloseNext(j)
  \/ SessionExits(j) \/ TransportCloses(j) \/ CloseRaises(j) \/ ClearAll(j)
  \/ EnableEntry(j) \/ DisableEntry(j) \/ SessionLeft(j)
  \/ CallEntry(j) \/ CallTimesOut(j)

SubmitSome(j) ==
  \/ ConnectBackground(j) \/ SubmitReconnect(j) \/ BeginShutdown(j)
  \/ ResetState(j)
  \/ \E s \in Servers :
       SubmitEnable(j, s) \/ SubmitDisable(j, s) \/ SubmitCall(j, s)

Next ==
  \E j \in Jobs : SubmitSome(j) \/ Step(j) \/ CallReturns(j)

\* The loop runs every ready coroutine, every await of a Client ends or fails,
\* and the timer of wait_for fires.  A server need not answer a call.
Fairness == \A j \in Jobs : WF_vars(Step(j))

Spec == Init /\ [][Next]_vars

FairSpec == Spec /\ Fairness
-----------------------------------------------------------------------------
(***************************************************************************)
(* Properties                                                              *)
(***************************************************************************)

\* The tools and instructions a server is offered with are those of the client
\* that calls to it will use, and its timeout is known: no interleaving of
\* connect, enable, disable, reload and cancellation leaves one table ahead of
\* the other.
RegistryAgrees ==
  /\ tools = clients
  /\ instructions = clients
  /\ Connected \subseteq timeouts

\* A registered client is the session of one server and its session is open,
\* unless a shutdown() that has it in its snapshot is still under way and will
\* clear the registry: no call is dispatched to a session that was closed by
\* an operation that is over.
RegisteredIsLive ==
  /\ \A s, t \in Connected : clients[s] = clients[t] => s = t
  /\ \A s \in Connected :
       \/ cstate[clients[s]] = "open"
       \/ \E j \in Jobs : clients[s] \in snap[j]

Opening == {j \in Jobs : pc[j] \in {"entering", "listing", "cleanup"}}

Closing == {j \in Jobs : pc[j] \in {"exiting", "transport"}}

Leaving == {j \in Jobs : pc[j] = "leaving"}

\* One that is being opened is nobody else's: not registered, in no snapshot, not
\* being opened or closed by another coroutine.
OpeningApart ==
  \A j \in Opening :
    /\ cl[j] \in Clients
    /\ cstate[cl[j]] = IF pc[j] = "entering" THEN "entering" ELSE "open"
    /\ \A s \in Servers : clients[s] # cl[j]
    /\ \A k \in Jobs : cl[j] \notin snap[k]
    /\ \A k \in (Opening \cup Leaving) \ {j} : cl[j] # cl[k]

\* One that disconnect_server() is closing is not registered any more.
LeavingApart ==
  \A j \in Leaving : cl[j] \in Clients /\ \A s \in Servers : clients[s] # cl[j]

\* What shutdown() closes, or will close, is in its snapshot.
ClosingSnapped ==
  /\ \A j \in Closing : cl[j] \in Clients \cap snap[j]
  /\ \A j \in Jobs : left[j] \subseteq snap[j]

\* One that was not created yet is nowhere.
UnusedNowhere ==
  \A c \in Clients : cstate[c] = "unused" =>
    /\ \A s \in Servers : clients[s] # c
    /\ \A j \in Jobs : c \notin snap[j]
    /\ \A j \in Leaving : c # cl[j]

\* A client has one owner, whatever connects, disconnects, reloads and
\* cancellations overlap: no coroutine closes, or registers, the session another
\* one is opening.
ClientsApart == OpeningApart /\ LeavingApart /\ ClosingSnapped /\ UnusedNowhere

\* A coroutine has the client in its hands and will register or close it.
InHand(c) ==
  \E j \in Jobs :
    \/ /\ cl[j] = c
       /\ pc[j] \in {"entering", "listing", "cleanup", "exiting", "transport",
                     "leaving"}
    \/ c \in left[j]

\* As long as lifecycle operations do not overlap and no reload empties the
\* list of servers, every open session is registered or some coroutine is
\* about to register or close it: none is forgotten.
CalmNoLeak ==
  calm => \A c \in Clients : cstate[c] \in {"entering", "open"} =>
            c \in Registered \/ InHand(c)

\* Nothing but calls is under way, and something has been.
Settled ==
  /\ initialized
  /\ \A j \in Jobs : op[j] = "call" \/ pc[j] \in {"idle", "done"}

\* Without overlap, and with neither a cancelled connect task nor a reconnect()
\* that did nothing, the settled registry says what the configuration says: a
\* connected server is enabled and reports no error; an enabled one that was
\* not disconnected by name is connected or reports why not.
CalmSettled ==
  (/\ calm
   /\ Settled
   /\ \A j \in Jobs : op[j] \in {"connect", "reconnect"} =>
                        res[j] \notin {"cancelled", "noop"})
  => /\ \A s \in Connected : s \in enabled /\ errors[s] = "none"
     /\ \A s \in enabled \ Connected :
          \/ errors[s] # "none"
          \/ \E j \in Jobs : op[j] = "disable" /\ srv[j] = s

\* _connect_server has its session and has neither registered it nor given it up.
Listing(c) == \E j \in Jobs : pc[j] \in {"listing", "cleanup"} /\ cl[j] = c

Life(c) ==
  IF cstate[c] = "unused" THEN "unused"
  ELSE IF cstate[c] \in {"exited", "closed"} THEN "over"
  ELSE IF cstate[c] = "entering" \/ Listing(c) THEN "opening"
  ELSE "serving"

Lives == [c \in Clients |-> Life(c)]

Sessions == INSTANCE SessionRegistry WITH
  session <- clients, life <- Lives, listed <- snap, Shutdowns <- Jobs

\* Whatever connects, disconnects, reloads, shutdowns and cancellations overlap,
\* a session is opened once, serves under one name, is closed only when it is not
\* registered any more or a shutdown has it in its snapshot, and is not registered
\* again; and the registry is cleared only when the snapshot is closed.
SessionsKept == Sessions!Spec

\* Every submitted coroutine ends: shutdown() is not stuck behind the task it
\* cancels, and a call to a server that never answers is given up.
JobsEnd == \A j \in Jobs : pc[j] # "idle" ~> pc[j] = "done"

\* "Shuts down existing connections and reconnects with fresh config"
\* (reconnect(), manager.py:641): when a reload is over and nothing else was
\* going on, a server that failed before does not keep another one from being
\* tried: each enabled server is connected or has an error.
ReloadConnects ==
  \A j \in Jobs :
    (/\ calm
     /\ op[j] = "reconnect" /\ pc[j] = "done"
     /\ \A k \in Jobs : op[k] \in {"none", "connect", "reconnect"}
                         /\ pc[k] \in {"idle", "done"}
     /\ \E s \in enabled : errors[s] = "failed")
    => \A s \in enabled : s \in Connected \/ errors[s] # "none"
=============================================================================
