----------------------------- MODULE DirectHost -----------------------------
(***************************************************************************)
(* The commands `onetool direct start | stop | restart | status | run`     *)
(* (src/src/onetool/cli_commands/direct_app.py) and the execution host     *)
(* they manage (_direct_host_worker.py, src/src/ot/direct_host.py), on one *)
(* port.                                                                   *)
(*                                                                         *)
(* Each command is a process of its own.  Commands share nothing but the   *)
(* pid file, which is neither locked nor written at once, and the port:    *)
(* a connection shows that somebody listens, not who.  The host is a third *)
(* process that boots, binds the port if it is free, and ends some time    *)
(* after a SIGTERM: it stops listening first and finishes what it has been *)
(* asked.  The same operations called as tools from a server's code        *)
(* (src/src/ottools/ot_direct.py) differ in one point, see Seen.           *)
(***************************************************************************)
EXTENDS Naturals, FiniteSets

CONSTANTS Commands,     \* each is given once
          ToolCalls,    \* those that are calls of ot_direct, in a server that lives on
          Pids,         \* pids of hosts, each used once
          MaxCrashes,   \* bound: hosts that die of themselves
          MaxAborts,    \* bound: commands that are killed
          AtOnce,       \* bound: commands at work at the same time
          NoPid,        \* there is no file, or no process
          Torn          \* what the file holds is not JSON

ASSUME DirectConstants ==
  /\ ToolCalls \subseteq Commands
  /\ NoPid \notin Pids /\ Torn \notin Pids /\ Torn # NoPid
  /\ MaxCrashes \in Nat /\ MaxAborts \in Nat /\ AtOnce \in Nat \ {0}

VARIABLES
  file,      \* the pid that the pid file names
  open,      \* commands that have truncated the file and not filled it, if it is still there
  proc,      \* the state of each host
  parent,    \* the command that launched it
  op, pc,    \* of each command: what it is, and where it is
  named,     \* the pid it has read
  at,        \* the host that has its request
  ran,       \* how many times its code was executed
  result,    \* how it ended
  crashes, aborts,
  calm       \* history: commands have not overlapped, none was killed in the middle of a
             \* launch, and none was asked to start a host beside another

hosts == <<proc, parent>>
pidfile == <<file, open>>
requests == <<at, ran>>
bounds == <<crashes, aborts>>
vars == <<pidfile, hosts, op, pc, named, requests, result, bounds, calm>>

Ops == {"start", "stop", "restart", "status", "run", "run_auto"}

Active == {"probe", "read", "check", "kill", "remove", "launch", "truncate", "fill",
           "ready", "post", "wait", "local"}

TypeOK ==
  /\ file \in Pids \cup {NoPid, Torn}
  /\ open \subseteq {c \in Commands : pc[c] = "fill"}
  /\ open # {} => file # NoPid
  /\ proc \in [Pids -> {"unused", "booting", "listening", "told", "closing", "gone"}]
  /\ parent \in [Pids -> Commands \cup {NoPid}]
  /\ op \in [Commands -> Ops \cup {"none"}]
  /\ pc \in [Commands -> Active \cup {"new", "over"}]
  /\ named \in [Commands -> Pids \cup {NoPid}]
  /\ at \in [Commands -> Pids \cup {NoPid}]
  /\ ran \in [Commands -> 0..2]
  /\ result \in [Commands -> {"", "ok", "none", "failed", "ready", "answer"}]
  /\ crashes \in 0..MaxCrashes /\ aborts \in 0..MaxAborts
  /\ calm \in BOOLEAN

Init ==
  /\ file = NoPid /\ open = {}
  /\ proc = [p \in Pids |-> "unused"] /\ parent = [p \in Pids |-> NoPid]
  /\ op = [c \in Commands |-> "none"] /\ pc = [c \in Commands |-> "new"]
  /\ named = [c \in Commands |-> NoPid]
  /\ at = [c \in Commands |-> NoPid] /\ ran = [c \in Commands |-> 0]
  /\ result = [c \in Commands |-> ""]
  /\ crashes = 0 /\ aborts = 0 /\ calm = TRUE
-----------------------------------------------------------------------------
Go(c, p) == pc' = [pc EXCEPT ![c] = p]

\* The command ends with r, and what it has read is gone.
End(c, r) ==
  /\ Go(c, "over")
  /\ result' = [result EXCEPT ![c] = r]
  /\ op' = [op EXCEPT ![c] = "none"] /\ named' = [named EXCEPT ![c] = NoPid]

Continue(c, p) == Go(c, p) /\ UNCHANGED <<op, named, result>>

NobodyAtWork == \A c \in Commands : pc[c] \notin Active

\* Processes that run and have not been told to end.
Running == {p \in Pids : proc[p] \in {"booting", "listening"}}

\* A host that is told to end answers until its event loop has noticed.
Answering == {p \in Pids : proc[p] \in {"listening", "told"}}

\* os.kill(pid, 0).  A host that has ended is still there for the kernel as long as its
\* parent is and has not looked after it: the command that launched it, or a server.
Seen(p) ==
  LET c == parent[p]
  IN {proc[p] # "gone"} \cup
     (IF c \in Commands /\ (pc[c] \in Active \/ c \in ToolCalls) THEN {TRUE} ELSE {})

\* SIGTERM: before uvicorn has its handler the process ends at once.
Terminate(p) ==
  proc' = [proc EXCEPT ![p] = CASE @ = "booting"   -> "gone"
                                [] @ = "listening" -> "told"
                                [] OTHER           -> @]

-----------------------------------------------------------------------------
(***************************************************************************)
(* Plausible bugs, each a variant of a definition below                    *)
(***************************************************************************)

\* an error of json.loads() is not noticed
ReadPidUnchecked(c) ==
  /\ pc[c] = "read"
  /\ IF file # NoPid
       THEN named' = [named EXCEPT ![c] = file] /\ Go(c, "check") /\ UNCHANGED <<op, result>>
       ELSE IF op[c] = "restart" THEN Continue(c, "launch") ELSE End(c, "none")
  /\ UNCHANGED <<pidfile, hosts, requests, bounds, calm>>

\* the pid file goes when the host is not ready in time
NotReadyRemoves(c) ==
  /\ pc[c] = "ready"
  /\ Answering = {}
  /\ file' = NoPid
  /\ End(c, "failed")
  /\ UNCHANGED <<open, hosts, requests, bounds, calm>>

\* somebody who does not listen is taken for dead
CheckListens(c) ==
  /\ pc[c] = "check"
  /\ CASE op[c] = "status" -> End(c, IF Answering # {} THEN "ok" ELSE "none")
       [] Answering # {} -> Continue(c, "kill")
       [] OTHER -> Continue(c, "remove")
  /\ UNCHANGED <<pidfile, hosts, requests, bounds, calm>>

\* a request that fails is executed here
RequestRetried(c) ==
  /\ pc[c] = "wait"
  /\ Continue(c, "local")
  /\ UNCHANGED <<pidfile, hosts, requests, bounds, calm>>

\* the wait has no deadline as long as the process is there
NotReadyIfGone(c) ==
  /\ pc[c] = "ready"
  /\ Answering = {} /\ proc[named[c]] = "gone"
  /\ End(c, "failed")
  /\ UNCHANGED <<pidfile, hosts, requests, bounds, calm>>
-----------------------------------------------------------------------------
(***************************************************************************)
(* Commands                                                                *)
(***************************************************************************)

\* Commands are taken in a fixed order.
Arrive(c, o) ==
  /\ pc[c] = "new"
  /\ c = CHOOSE d \in Commands : pc[d] = "new"
  /\ Cardinality({d \in Commands : pc[d] \in Active}) < AtOnce
  /\ c \in ToolCalls => o \in {"stop", "restart", "status"}
  /\ op' = [op EXCEPT ![c] = o]
  /\ Go(c, CASE o = "start" -> "launch"
             [] o \in {"run", "run_auto"} -> "probe"
             [] OTHER -> "read")
  /\ calm' = (calm /\ NobodyAtWork
                   /\ (o = "start" => Running = {})
                   /\ (o = "run_auto" => \A p \in Pids : proc[p] # "booting"))
  /\ UNCHANGED <<pidfile, hosts, named, requests, result, bounds>>

\* stop, restart, status: whatever is wrong with the file, there is no host.
ReadPid(c) ==
  /\ pc[c] = "read"
  /\ IF file \in Pids
       THEN named' = [named EXCEPT ![c] = file] /\ Go(c, "check") /\ UNCHANGED <<op, result>>
       ELSE IF op[c] = "restart" THEN Continue(c, "launch") ELSE End(c, "none")
  /\ UNCHANGED <<pidfile, hosts, requests, bounds, calm>>

CheckAlive(c) ==
  /\ pc[c] = "check"
  /\ \E alive \in Seen(named[c]) :
       CASE op[c] = "status" -> End(c, IF alive THEN "ok" ELSE "none")
         [] op[c] # "status" /\ alive -> Continue(c, "kill")
         [] OTHER -> Continue(c, "remove")
  /\ UNCHANGED <<pidfile, hosts, requests, bounds, calm>>

\* The process may have ended since: stop gives up, restart only warns.
Kill(c) ==
  /\ pc[c] = "kill"
  /\ \E found \in Seen(named[c]) :
       /\ IF found THEN Terminate(named[c]) ELSE UNCHANGED proc
       /\ IF ~found /\ op[c] = "stop" THEN End(c, "failed") ELSE Continue(c, "remove")
  /\ UNCHANGED <<pidfile, parent, requests, bounds, calm>>

\* The name is gone, also for a command that is about to fill the file.
RemovePidFile(c) ==
  /\ pc[c] = "remove"
  /\ file' = NoPid /\ open' = {}
  /\ IF op[c] = "stop" THEN End(c, "ok") ELSE Continue(c, "launch")
  /\ UNCHANGED <<hosts, requests, bounds, calm>>

Launch(c) ==
  LET p == CHOOSE q \in Pids : proc[q] = "unused"
  IN /\ pc[c] = "launch"
     /\ \E q \in Pids : proc[q] = "unused"
     /\ proc' = [proc EXCEPT ![p] = "booting"]
     /\ parent' = [parent EXCEPT ![p] = c]
     /\ named' = [named EXCEPT ![c] = p]
     /\ Go(c, "truncate")
     /\ UNCHANGED <<pidfile, op, requests, result, bounds, calm>>

Truncate(c) ==
  /\ pc[c] = "truncate"
  /\ file' = Torn /\ open' = open \cup {c}
  /\ Continue(c, "fill")
  /\ UNCHANGED <<hosts, requests, bounds, calm>>

\* A file that another command has filled meanwhile may be longer than what is written
\* over its beginning.  One that was removed stays removed.
Fill(c) ==
  /\ pc[c] = "fill"
  /\ file' \in CASE c \notin open -> {file}
                 [] file = Torn   -> {named[c]}
                 [] OTHER         -> {named[c], Torn}
  /\ open' = open \ {c}
  /\ Continue(c, "ready")
  /\ UNCHANGED <<hosts, requests, bounds, calm>>

\* "Host is ready."
Ready(c) ==
  /\ pc[c] = "ready"
  /\ Answering # {}
  /\ IF op[c] = "run_auto" THEN Continue(c, "post") ELSE End(c, "ready")
  /\ UNCHANGED <<pidfile, hosts, requests, bounds, calm>>

\* Five seconds have passed.
NotReady(c) ==
  /\ pc[c] = "ready"
  /\ Answering = {}
  /\ End(c, "failed")
  /\ UNCHANGED <<pidfile, hosts, requests, bounds, calm>>

\* run: the host that answers, one that is started, or this process.
Probe(c) ==
  /\ pc[c] = "probe"
  /\ Continue(c, IF Answering # {} THEN "post"
                   ELSE IF op[c] = "run_auto" THEN "launch" ELSE "local")
  /\ UNCHANGED <<pidfile, hosts, requests, bounds, calm>>

Post(c) ==
  /\ pc[c] = "post"
  /\ IF Answering = {} THEN End(c, "failed") /\ UNCHANGED at
       ELSE /\ \E p \in Answering : at' = [at EXCEPT ![c] = p]
            /\ Continue(c, "wait")
  /\ UNCHANGED <<pidfile, hosts, ran, bounds, calm>>

Answered(c) ==
  /\ pc[c] = "wait"
  /\ at[c] # NoPid /\ proc[at[c]] # "gone" /\ ran[c] > 0
  /\ End(c, "answer")
  /\ UNCHANGED <<pidfile, hosts, requests, bounds, calm>>

\* The connection is lost or direct.timeout has passed: "Server error".
RequestFails(c) ==
  /\ pc[c] = "wait"
  /\ End(c, "failed")
  /\ UNCHANGED <<pidfile, hosts, requests, bounds, calm>>

\* In this process, if the configuration can be loaded.
RunInProcess(c) ==
  /\ pc[c] = "local"
  /\ \/ ran' = [ran EXCEPT ![c] = @ + 1] /\ End(c, "answer")
     \/ UNCHANGED ran /\ End(c, "failed")
  /\ UNCHANGED <<pidfile, hosts, at, bounds, calm>>

\* The command is interrupted.  Its host, in a session of its own, is not.
Abort(c) ==
  /\ aborts < MaxAborts
  /\ pc[c] \in Active
  /\ aborts' = aborts + 1
  /\ End(c, "")
  /\ calm' = (calm /\ pc[c] \notin {"truncate", "fill"})
  /\ open' = open \ {c}
  /\ UNCHANGED <<file, hosts, requests, crashes>>
-----------------------------------------------------------------------------
(***************************************************************************)
(* Hosts                                                                   *)
(***************************************************************************)

Becomes(p, s) == proc' = [proc EXCEPT ![p] = s]

\* uvicorn binds the port, which fails if another host has it.
Bind(p) ==
  /\ proc[p] = "booting"
  /\ Becomes(p, IF Answering = {} THEN "listening" ELSE "gone")
  /\ UNCHANGED <<pidfile, parent, op, pc, named, requests, result, bounds, calm>>

\* The configuration has an error: exit 2.
BootFails(p) ==
  /\ proc[p] = "booting"
  /\ Becomes(p, "gone")
  /\ UNCHANGED <<pidfile, parent, op, pc, named, requests, result, bounds, calm>>

\* POST /run
Execute(p, c) ==
  /\ at[c] = p /\ proc[p] \in {"listening", "told", "closing"} /\ ran[c] = 0
  /\ ran' = [ran EXCEPT ![c] = @ + 1]
  /\ UNCHANGED <<pidfile, hosts, op, pc, named, at, result, bounds, calm>>

\* The host stops listening.  Connections it has not accepted yet are reset.
Close(p) ==
  /\ proc[p] = "told"
  /\ Becomes(p, "closing")
  /\ \E reset \in SUBSET {c \in Commands : at[c] = p /\ ran[c] = 0} :
       at' = [c \in Commands |-> IF c \in reset THEN NoPid ELSE at[c]]
  /\ UNCHANGED <<pidfile, parent, op, pc, named, ran, result, bounds, calm>>

\* It ends when it has done what it was asked.
Exit(p) ==
  /\ proc[p] = "closing"
  /\ \A c \in Commands : at[c] = p => ran[c] > 0
  /\ Becomes(p, "gone")
  /\ UNCHANGED <<pidfile, parent, op, pc, named, requests, result, bounds, calm>>

Crash(p) ==
  /\ crashes < MaxCrashes
  /\ proc[p] \in {"listening", "told", "closing"}
  /\ crashes' = crashes + 1
  /\ Becomes(p, "gone")
  /\ UNCHANGED <<pidfile, parent, op, pc, named, requests, result, aborts, calm>>
-----------------------------------------------------------------------------
CommandStep(c) ==
  \/ ReadPid(c) \/ CheckAlive(c) \/ Kill(c) \/ RemovePidFile(c) \/ Launch(c)
  \/ Truncate(c) \/ Fill(c) \/ Ready(c) \/ NotReady(c) \/ Probe(c) \/ Post(c)
  \/ Answered(c) \/ RequestFails(c) \/ RunInProcess(c)

HostStep(p) ==
  \/ Bind(p) \/ BootFails(p) \/ Close(p) \/ Exit(p) \/ Crash(p)
  \/ \E c \in Commands : Execute(p, c)

Next ==
  \/ \E c \in Commands : CommandStep(c) \/ Abort(c) \/ \E o \in Ops : Arrive(c, o)
  \/ \E p \in Pids : HostStep(p)

\* A command that can go on does; nothing is asked of the hosts, which may hang.
Spec == Init /\ [][Next]_vars /\ \A c \in Commands : WF_vars(CommandStep(c))
-----------------------------------------------------------------------------
(***************************************************************************)
(* Properties                                                              *)
(***************************************************************************)

\* Between commands the pid file names the host that runs, so that stop, restart and
\* status find it: through failed starts, hosts that die, stop and restart, as long as
\* commands did not overlap and nobody started a host beside another.
Owned == calm /\ NobodyAtWork => Running \subseteq {file}

\* A command that ends having found no host, or having stopped it, leaves none behind
\* that goes on, and after restart only the new one does; booting or hung, and also when
\* the process ended between the look at it and the signal.
OldHostEnds ==
  [][\A c \in Commands : calm /\ pc[c] \in Active /\ pc'[c] = "over" /\ aborts' = aborts =>
       /\ op[c] = "stop" \/ result'[c] = "none" => Running' = {}
       /\ op[c] = "restart" => Running' \subseteq {named[c]}]_vars

\* The commands manage the host as OneHost describes.
Managed == INSTANCE OneHost WITH
             running <- Running,
             doing <- [c \in Commands |-> IF pc[c] \in Active THEN op[c] ELSE pc[c]]

HostManaged == Managed!Spec

\* The code that run was given is executed at most once, wherever, and is executed when
\* run gives an answer: no failure, time-out or ending host makes it run again.
RunOnce == \A c \in Commands : ran[c] <= 1 /\ (result[c] = "answer" => ran[c] = 1)

\* Every command ends, also when the host hangs, dies or never binds.
CommandsEnd == []<>NobodyAtWork
=============================================================================
