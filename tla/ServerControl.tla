---------------------------- MODULE ServerControl ----------------------------
(***************************************************************************)
(* Requests on top of the proxy manager: run() executes user code through  *)
(* execute_command (src/src/ot/executor/runner.py), and that code calls    *)
(* ot.server(), ot.reload() or a proxied tool (src/src/ottools/server.py,  *)
(* src/src/ot/meta/_config_health.py, the *_sync wrappers of manager.py).  *)
(* The code runs in a thread of its own if some server is connected when   *)
(* the request starts, and on the event loop thread otherwise.  The sync   *)
(* wrappers submit a coroutine and wait for it with a timeout.             *)
(***************************************************************************)
EXTENDS ProxyManager, Naturals

CONSTANT Requests

ASSUME RequestsHold == Requests = Holders

VARIABLES
  rpc,    \* where each request is
  want,   \* what its code does
  target, \* the server it names
  waits,  \* the coroutine whose result it waits for
  reply   \* what the user is told

reqs  == <<rpc, want, target, waits, reply>>
rvars == <<vars, reqs>>

Wants == {"none", "enable", "disable", "restart", "reload", "call"}

Replies == {"none", "done", "already", "timeout", "failed"}

ReqTypeOK ==
  /\ TypeOK
  /\ rpc \in [Requests -> {"idle", "run", "wait", "rerun", "done"}]
  /\ want \in [Requests -> Wants]
  /\ target \in [Requests -> Servers]
  /\ waits \in [Requests -> Jobs \cup {NoJob}]
  /\ reply \in [Requests -> Replies]

ReqInit ==
  /\ Init
  /\ rpc = [r \in Requests |-> "idle"]
  /\ want = [r \in Requests |-> "none"]
  /\ target = [r \in Requests |-> CHOOSE s \in Servers : TRUE]
  /\ waits = [r \in Requests |-> NoJob]
  /\ reply = [r \in Requests |-> "none"]
-----------------------------------------------------------------------------
(***************************************************************************)
(* Plausible bugs, each a variant of a definition below                    *)
(***************************************************************************)

\* "connect() is over" taken for "a server is connected"
UseThreadPoolInitialized == initialized

\* the result of the coroutine handed on as it is
AnswerVerbatim(r, a) ==
  /\ rpc' = [rpc EXCEPT ![r] = "done"]
  /\ waits' = [waits EXCEPT ![r] = NoJob]
  /\ reply' = [reply EXCEPT ![r] = IF a = "done" THEN res[waits[r]] ELSE a]
  /\ UNCHANGED <<want, target>>

\* a timeout that the loop itself would have to raise
ResultTimesOutOnLoop(r) ==
  /\ rpc[r] = "wait"
  /\ loop # r
  /\ pc[waits[r]] # "done"
  /\ rpc' = [rpc EXCEPT ![r] = "done"]
  /\ waits' = [waits EXCEPT ![r] = NoJob]
  /\ reply' = [reply EXCEPT ![r] = "timeout"]
  /\ UNCHANGED <<vars, want, target>>

\* a timeout that also cancels the coroutine
ResultTimesOutCancels(r) ==
  /\ rpc[r] = "wait"
  /\ pc[waits[r]] # "done"
  /\ cancelled' = cancelled \cup {waits[r]}
  /\ loop' = IF loop = r THEN Free ELSE loop
  /\ rpc' = [rpc EXCEPT ![r] = "done"]
  /\ waits' = [waits EXCEPT ![r] = NoJob]
  /\ reply' = [reply EXCEPT ![r] = "timeout"]
  /\ UNCHANGED <<mgr, initialized, connectTask, cstate, pc, cl, res, locals, env,
                 want, target>>
-----------------------------------------------------------------------------
IdleJobs == {j \in Jobs : pc[j] = "idle"}

Running == {r \in Requests : rpc[r] \in {"run", "rerun"}}

Restarting == {r \in Requests : want[r] = "restart" /\ rpc[r] \in {"run", "wait"}}

\* n coroutines can be spared in this instance beside those that the requests
\* under way will still submit (bound of the instance).
Spare(n) ==
  Cardinality(IdleJobs) >= Cardinality(Running) + Cardinality(Restarting) + n

\* use_thread_pool: user code leaves the loop thread iff a server is connected.
UseThreadPool == Connected # {}

\* execute_command builds the namespace, in which only connected servers have a
\* pack, and starts the code in a thread or on the loop.
Arrive(r, w, s) ==
  /\ rpc[r] = "idle"
  /\ LoopKnown
  /\ loop = Free
  /\ Spare(IF w = "restart" THEN 2 ELSE 1)
  /\ w = "call" => s \in Connected
  /\ w = "reload" => s = target[r]
  /\ rpc' = [rpc EXCEPT ![r] = "run"]
  /\ want' = [want EXCEPT ![r] = w]
  /\ target' = [target EXCEPT ![r] = s]
  /\ loop' = IF UseThreadPool THEN Free ELSE r
  /\ UNCHANGED <<mgr, initialized, connectTask, cancelled, cstate, pc, cl, res,
                 locals, env, waits, reply>>

\* future.result(): the code blocks until coroutine j is done.
WaitFor(r, j) ==
  /\ rpc' = [rpc EXCEPT ![r] = "wait"]
  /\ waits' = [waits EXCEPT ![r] = j]
  /\ UNCHANGED <<want, target, reply>>

\* The code of r ends with answer a and gives up the loop thread if it has it.
Answer(r, a) ==
  /\ rpc' = [rpc EXCEPT ![r] = "done"]
  /\ waits' = [waits EXCEPT ![r] = NoJob]
  /\ reply' = [reply EXCEPT ![r] = a]
  /\ UNCHANGED <<want, target>>

Release(r) == loop' = IF loop = r THEN Free ELSE loop

\* ot.server() finds nothing to do.
AlreadyThere(r) ==
  /\ rpc[r] = "run"
  /\ \/ want[r] = "enable" /\ target[r] \in enabled /\ target[r] \in Connected
     \/ want[r] = "disable" /\ target[r] \notin enabled
  /\ Answer(r, "already")
  /\ Release(r)
  /\ UNCHANGED <<mgr, initialized, connectTask, cancelled, cstate, pc, cl, res,
                 locals, env>>

\* ot.server(enable = ...) and the second half of restart, which still has the
\* configuration of its first.
ServerEnable(r, j) ==
  /\ \/ /\ rpc[r] = "run" /\ want[r] = "enable"
        /\ ~(target[r] \in enabled /\ target[r] \in Connected)
        /\ enabled' = enabled \cup {target[r]} /\ UNCHANGED older
     \/ /\ rpc[r] = "rerun"
        /\ older' = [older EXCEPT ![j] = older[waits[r]]] /\ UNCHANGED enabled
  /\ SubmitEnable(j, target[r])
  /\ WaitFor(r, j)

ServerDisable(r, j) ==
  /\ rpc[r] = "run" /\ want[r] = "disable"
  /\ target[r] \in enabled
  /\ enabled' = enabled \ {target[r]}
  /\ SubmitDisable(j, target[r])
  /\ WaitFor(r, j)

ServerRestart(r, j) ==
  /\ rpc[r] = "run" /\ want[r] = "restart"
  /\ enabled' = enabled \cup {target[r]}
  /\ SubmitDisable(j, target[r])
  /\ WaitFor(r, j)

Reload(r, j) ==
  /\ rpc[r] = "run" /\ want[r] = "reload"
  /\ SubmitReconnect(j)
  /\ WaitFor(r, j)

\* Reload of a configuration that names no server any more: no coroutine, the
\* result is there at once.
ReloadEmpty(r, j) ==
  /\ rpc[r] = "run" /\ want[r] = "reload"
  /\ ResetState(j)
  /\ WaitFor(r, j)

CallTool(r, j) ==
  /\ rpc[r] = "run" /\ want[r] = "call"
  /\ SubmitCall(j, target[r])
  /\ WaitFor(r, j)

\* The coroutine is done: restart goes on with the second half, others answer.
ResultArrives(r) ==
  /\ rpc[r] = "wait"
  /\ pc[waits[r]] = "done"
  /\ IF want[r] = "restart" /\ op[waits[r]] = "disable"
       THEN /\ rpc' = [rpc EXCEPT ![r] = "rerun"]
            /\ UNCHANGED <<want, target, waits, reply, loop>>
       ELSE /\ Answer(r, IF want[r] = "reload" \/ res[waits[r]] \in {"ok", "noop"}
                           THEN "done" ELSE "failed")
            /\ Release(r)
  /\ UNCHANGED <<mgr, initialized, connectTask, cancelled, cstate, pc, cl, res,
                 locals, env>>

\* future.result(timeout): the coroutine stays scheduled.  reconnect_sync only
\* logs the timeout, and ot.reload() reports success.
ResultTimesOut(r) ==
  /\ rpc[r] = "wait"
  /\ pc[waits[r]] # "done"
  /\ Answer(r, IF want[r] = "reload" THEN "done" ELSE "timeout")
  /\ Release(r)
  /\ UNCHANGED <<mgr, initialized, connectTask, cancelled, cstate, pc, cl, res,
                 locals, env>>
-----------------------------------------------------------------------------
RequestStep(r) ==
  \/ AlreadyThere(r) \/ ResultArrives(r) \/ ResultTimesOut(r)
  \/ \E j \in Jobs : \/ ServerEnable(r, j) \/ ServerDisable(r, j)
                     \/ ServerRestart(r, j) \/ Reload(r, j) \/ ReloadEmpty(r, j)
                     \/ CallTool(r, j)

LifespanStep(j) == ConnectBackground(j) \/ (Spare(1) /\ BeginShutdown(j))

ReqNext ==
  \/ \E r \in Requests, w \in Wants \ {"none"}, s \in Servers : Arrive(r, w, s)
  \/ \E r \in Requests : RequestStep(r)
  \/ \E j \in Jobs : (LifespanStep(j) \/ Step(j) \/ CallReturns(j)) /\ UNCHANGED reqs

\* Threads are scheduled, and a wait with a timeout ends.
ReqSpec ==
  /\ ReqInit /\ [][ReqNext]_rvars
  /\ \A j \in Jobs : WF_rvars(Step(j) /\ UNCHANGED reqs)
  /\ \A r \in Requests : WF_rvars(RequestStep(r))
-----------------------------------------------------------------------------
(***************************************************************************)
(* Properties                                                              *)
(***************************************************************************)

\* User code holds the event loop only while no server is connected, so a tool
\* call that needs the loop is never made from it: servers that connect, drop
\* out or are reset between the choice of the thread and the end of the code do
\* not change that.
LoopHeldAlone ==
  \A r \in Requests : loop = r => Connected = {} /\ want[r] # "call"

\* Every request is answered, also when its code waits on the loop thread for a
\* coroutine that needs this thread: the timeout of the wait ends it.
RequestsEnd == \A r \in Requests : rpc[r] # "idle" ~> rpc[r] = "done"

\* The requests use the manager only in the ways ProxyManager allows: a request
\* that holds the loop is, for the manager, a loop that is free and idle.
PM == INSTANCE ProxyManager WITH loop <- IF loop \in Requests THEN Free ELSE loop

UsesProxyManager == PM!Spec

\* "Use thread pool only when proxy servers are connected (to avoid deadlock)"
\* (runner.py:492): code that runs on the loop thread does not wait for a
\* coroutine, which only this thread could run.
NoSelfDeadlock ==
  \A r \in Requests : loop = r /\ rpc[r] = "wait" => pc[waits[r]] = "done"
=============================================================================
