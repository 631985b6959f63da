------------------------ MODULE ProxyManagerCalmProofs ------------------------
(***************************************************************************)
(* What ProxyManager promises while lifecycle operations do not overlap,   *)
(* for any number of servers, clients and coroutines:                      *)
(*   NoLeakCorrect    no open session is forgotten                         *)
(*   SettledCorrect   the settled registry says what the configuration says*)
(* The history variable calm only says that no submission overlapped       *)
(* another.  What follows for the coroutines at work (Alone) is proved     *)
(* first: at most one, or the connect task and a shutdown that waits for   *)
(* it.  The rest is claimed of that one coroutine: what is still before it,*)
(* what it holds, and what it will have done when it ends.                 *)
(***************************************************************************)
EXTENDS ProxyManagerProofs

USE DEF mgr, locals, env

\* Lifecycle operations that are under way.
Busy == {j \in Jobs : op[j] # "call" /\ pc[j] \notin {"idle", "done"}}

\* Where a coroutine connects a server.
OpenPcs == {"create", "entering", "listing", "cleanup"}

Down == {j \in Jobs : pc[j] \in DownPcs}

\* What a coroutine was submitted for tells where it can be.
Phases ==
  \A j \in Jobs :
    /\ pc[j] = "idle" => op[j] = "none"
    /\ pc[j] \in {"connect", "next"} => op[j] \in {"connect", "reconnect"}
    /\ pc[j] \in OpenPcs => op[j] \in {"connect", "reconnect", "enable"}
    /\ pc[j] \in DownPcs => op[j] \in {"reconnect", "shutdown"}
    /\ pc[j] = "enable" => op[j] = "enable"
    /\ pc[j] \in {"disable", "leaving"} => op[j] = "disable"
    /\ pc[j] \in {"call", "calling"} => op[j] = "call"
    /\ left[j] # {} => pc[j] \in {"closeall", "exiting", "transport"}
    /\ res[j] = "cancelled" \/ j \in cancelled => op[j] = "connect"

\* The connect task is what the lifespan submitted, before all else.
Begun ==
  /\ connectTask # NoJob => op[connectTask] = "connect"
  /\ LoopKnown \/ (Connected = {} /\ \A j \in Jobs : pc[j] = "idle")

\* Of two lifecycle operations one is the connect task and the other is shutting
\* down and has not got past awaiting it.
Alone ==
  \A j, k \in Busy : j # k =>
    \/ op[j] = "connect" /\ pc[k] \in {"shutdown", "awaiting"}
    \/ op[k] = "connect" /\ pc[j] \in {"shutdown", "awaiting"}

\* shutdown() can see a connect task that is not done.
TaskKnown == \A j \in Jobs : op[j] = "connect" /\ pc[j] # "done" => connectTask = j

\* A reload that has not got past awaiting the connect task.
Starting == {k \in Jobs : op[k] = "reconnect" /\ pc[k] \in {"shutdown", "awaiting"}}

\* A coroutine that has a configuration a reload replaced is the connect task, which
\* the reload is about to cancel, or was a restart's first half.
Current ==
  \A j \in Jobs : older[j] # {} =>
    /\ op[j] \in {"connect", "disable"}
    /\ pc[j] = "connect" => Starting # {}

\* connect() tries servers that are not connected, each once.
Unconnected ==
  \A j \in Jobs :
    /\ pc[j] = "connect" => Connected = {}
    /\ pc[j] \in OpenPcs => srv[j] \notin Connected
    /\ pc[j] \in OpenPcs \cup {"next"} /\ op[j] # "enable" =>
         todo[j] \cap Connected = {}
    /\ pc[j] \in OpenPcs /\ op[j] # "enable" => srv[j] \notin todo[j]

\* What a shutdown has not closed yet is in its hands.
ClosesAll ==
  \A j \in Jobs : pc[j] \in {"closeall", "exiting", "transport"} =>
    \A c \in Registered : cstate[c] \in {"entering", "open"} =>
      c \in left[j] \/ (pc[j] = "exiting" /\ cl[j] = c)

\* No session is forgotten.
NoLeak ==
  \A c \in Clients : cstate[c] \in {"entering", "open"} => c \in Registered \/ InHand(c)

\* A connected server has no error.
NoError == \A s \in Connected : errors[s] = "none"

\* It is enabled, unless it is about to be disconnected.
StaysEnabled ==
  \A s \in Connected :
    \/ s \in enabled \/ Down # {}
    \/ \E k \in Jobs : pc[k] = "disable" /\ srv[k] = s

\* What a coroutine is about to connect is enabled, unless a reload has begun.
WillBeEnabled ==
  \A j \in Jobs :
    /\ pc[j] \in OpenPcs => srv[j] \in enabled \/ Down # {}
    /\ pc[j] \in OpenPcs \cup {"next"} /\ op[j] # "enable" =>
         todo[j] \subseteq enabled \/ Down # {}

\* A reload that will come to connect() has begun.
Reloading == \E k \in Jobs : op[k] = "reconnect" /\ pc[k] \in DownPcs \cup {"connect"}

\* Servers that were disconnected by name, and servers a coroutine is about to enable.
Named == {s \in Servers : \E k \in Jobs : op[k] = "disable" /\ srv[k] = s}

Enabling ==
  {s \in Servers : \E k \in Jobs : /\ op[k] = "enable" /\ srv[k] = s
                                 /\ pc[k] \in OpenPcs \cup {"enable"}}

\* Servers the registry has an answer for.
Handled == {s \in Servers : s \in Connected \/ errors[s] # "none" \/ s \in Named}

\* Coroutines in connect()'s loop, and the servers each has before it.
Coming == {j \in Jobs : pc[j] \in OpenPcs \cup {"next"} /\ op[j] # "enable"}

Ahead == [j \in Jobs |-> todo[j] \cup (IF pc[j] \in OpenPcs THEN {srv[j]} ELSE {})]

\* connect() has come to each server, or will.
ComesToAll == \A j \in Coming : Reloading \/ enabled \subseteq Handled \cup Ahead[j]

\* No connect() was cancelled or did nothing.
Undeterred ==
  \A j \in Jobs : op[j] \in {"connect", "reconnect"} /\ pc[j] = "done" =>
                    res[j] \notin {"cancelled", "noop"}

\* Afterwards, each that is enabled has an answer or is about to.
Accounted == Reloading \/ enabled \subseteq Handled \cup Enabling

\* Claimed of every history.
Course == Phases /\ Begun

\* Claimed while lifecycle operations have not overlapped.
Calm ==
  /\ Alone /\ TaskKnown /\ Current /\ Unconnected
  /\ ClosesAll /\ NoLeak
  /\ NoError /\ StaysEnabled /\ WillBeEnabled
  /\ ComesToAll /\ (initialized /\ Undeterred => Accounted)

CalmInv == Course /\ (calm => Calm)
-----------------------------------------------------------------------------
\* Nothing was submitted and nothing is connected.
LEMMA CalmInit == Init => CalmInv
<1> SUFFICES ASSUME Init PROVE CalmInv
  OBVIOUS
<1>1. Connected = {} /\ Registered = {} /\ Busy = {} /\ Down = {}
  BY DEF Init, Connected, Registered, Busy, Down, DownPcs
<1>2. Course
  BY <1>1 DEF Init, Course, Phases, Begun, OpenPcs, DownPcs
<1>3. Alone /\ TaskKnown /\ Current /\ Unconnected /\ ClosesAll /\ NoLeak
  BY <1>1 DEF Init, Alone, TaskKnown, Current, Unconnected, ClosesAll, NoLeak, OpenPcs
<1>4. NoError /\ StaysEnabled /\ WillBeEnabled /\ ComesToAll /\ ~initialized
  BY <1>1 DEF Init, NoError, StaysEnabled, WillBeEnabled, ComesToAll, Coming, OpenPcs
<1> QED
  BY <1>2, <1>3, <1>4 DEF CalmInv, Calm

\* The history does not become calm again.
LEMMA CalmStays ==
  ASSUME calm', [Next]_vars
  PROVE  calm
<1>1. ASSUME NEW j \in Jobs, ConnectEntry(j) PROVE calm
  BY <1>1 DEF ConnectEntry, ConfigRead
<1>2. ASSUME NEW j \in Jobs, ConnectNext(j) PROVE calm
  BY <1>2 DEF ConnectNext
<1>3. ASSUME NEW j \in Jobs, CreateClient(j) PROVE calm
  BY <1>3 DEF CreateClient
<1>4. ASSUME NEW j \in Jobs, CreateFails(j) PROVE calm
  BY <1>4 DEF CreateFails
<1>5. ASSUME NEW j \in Jobs, SessionOpens(j) PROVE calm
  BY <1>5 DEF SessionOpens
<1>6. ASSUME NEW j \in Jobs, SessionFails(j) PROVE calm
  BY <1>6 DEF SessionFails
<1>7. ASSUME NEW j \in Jobs, ToolsListed(j) PROVE calm
  BY <1>7 DEF ToolsListed
<1>8. ASSUME NEW j \in Jobs, ListFails(j) PROVE calm
  BY <1>8 DEF ListFails
<1>9. ASSUME NEW j \in Jobs, CleanupDone(j) PROVE calm
  BY <1>9 DEF CleanupDone
<1>10. ASSUME NEW j \in Jobs, CancelDelivered(j) PROVE calm
  BY <1>10 DEF CancelDelivered
<1>11. ASSUME NEW j \in Jobs, ShutdownEntry(j) PROVE calm
  BY <1>11 DEF ShutdownEntry
<1>12. ASSUME NEW j \in Jobs, TaskEnded(j) PROVE calm
  BY <1>12 DEF TaskEnded
<1>13. ASSUME NEW j \in Jobs, Snapshot(j) PROVE calm
  BY <1>13 DEF Snapshot
<1>14. ASSUME NEW j \in Jobs, CloseNext(j) PROVE calm
  BY <1>14 DEF CloseNext
<1>15. ASSUME NEW j \in Jobs, SessionExits(j) PROVE calm
  BY <1>15 DEF SessionExits
<1>16. ASSUME NEW j \in Jobs, TransportCloses(j) PROVE calm
  BY <1>16 DEF TransportCloses
<1>17. ASSUME NEW j \in Jobs, CloseRaises(j) PROVE calm
  BY <1>17 DEF CloseRaises
<1>18. ASSUME NEW j \in Jobs, ClearAll(j) PROVE calm
  BY <1>18 DEF ClearAll
<1>19. ASSUME NEW j \in Jobs, EnableEntry(j) PROVE calm
  BY <1>19 DEF EnableEntry, ConfigRead
<1>20. ASSUME NEW j \in Jobs, DisableEntry(j) PROVE calm
  BY <1>20 DEF DisableEntry
<1>21. ASSUME NEW j \in Jobs, SessionLeft(j) PROVE calm
  BY <1>21 DEF SessionLeft
<1>22. ASSUME NEW j \in Jobs, CallEntry(j) PROVE calm
  BY <1>22 DEF CallEntry
<1>23. ASSUME NEW j \in Jobs, CallTimesOut(j) PROVE calm
  BY <1>23 DEF CallTimesOut
<1>24. ASSUME NEW j \in Jobs, CallReturns(j) PROVE calm
  BY <1>24 DEF CallReturns
<1>25. ASSUME NEW j \in Jobs, ConnectBackground(j) PROVE calm
  BY <1>25 DEF ConnectBackground, Submit
<1>26. ASSUME NEW j \in Jobs, SubmitReconnect(j) PROVE calm
  BY <1>26 DEF SubmitReconnect, Submit
<1>27. ASSUME NEW j \in Jobs, BeginShutdown(j) PROVE calm
  BY <1>27 DEF BeginShutdown, Submit
<1>28. ASSUME NEW j \in Jobs, ResetState(j) PROVE calm
  BY <1>28 DEF ResetState
<1>29. ASSUME NEW j \in Jobs, NEW s \in Servers, SubmitEnable(j, s) PROVE calm
  BY <1>29 DEF SubmitEnable, Submit
<1>30. ASSUME NEW j \in Jobs, NEW s \in Servers, SubmitDisable(j, s) PROVE calm
  BY <1>30 DEF SubmitDisable, Submit
<1>31. ASSUME NEW j \in Jobs, NEW s \in Servers, SubmitCall(j, s) PROVE calm
  BY <1>31 DEF SubmitCall, Submit
<1>32. CASE UNCHANGED vars
  BY <1>32 DEF vars
<1> QED
  BY <1>1, <1>2, <1>3, <1>4, <1>5, <1>6, <1>7, <1>8, <1>9, <1>10, <1>11, <1>12,
     <1>13, <1>14, <1>15, <1>16, <1>17, <1>18, <1>19, <1>20, <1>21, <1>22, <1>23,
     <1>24, <1>25, <1>26, <1>27, <1>28, <1>29, <1>30, <1>31, <1>32 DEF Next,
     SubmitSome, Step
-----------------------------------------------------------------------------
\* A coroutine only takes the steps of what it was submitted for.
LEMMA PhasesStep ==
  ASSUME TypeOK, Phases, Begun, [Next]_vars
  PROVE  Phases'
<1> USE ConstantsOK DEF Phases, Begun, OpenPcs, DownPcs, TypeOK, Ops, Pcs
<1>1. ASSUME NEW j \in Jobs, ConnectEntry(j) PROVE Phases'
  BY <1>1 DEF ConnectEntry, ConfigRead, Return, AwaitOn, Continue
<1>2. ASSUME NEW j \in Jobs, ConnectNext(j) PROVE Phases'
  BY <1>2 DEF ConnectNext, Return, AwaitOn, Continue
<1>3. ASSUME NEW j \in Jobs, CreateClient(j) PROVE Phases'
  BY <1>3 DEF CreateClient, AwaitOn
<1>4. ASSUME NEW j \in Jobs, CreateFails(j) PROVE Phases'
  BY <1>4 DEF CreateFails, ConnectFailed, Return, AwaitOn, Continue
<1>5. ASSUME NEW j \in Jobs, SessionOpens(j) PROVE Phases'
  BY <1>5 DEF SessionOpens, Await, AwaitOn
<1>6. ASSUME NEW j \in Jobs, SessionFails(j) PROVE Phases'
  BY <1>6 DEF SessionFails, ConnectFailed, Return, AwaitOn, Continue
<1>7. ASSUME NEW j \in Jobs, ToolsListed(j) PROVE Phases'
  BY <1>7 DEF ToolsListed, Return, AwaitOn, Continue
<1>8. ASSUME NEW j \in Jobs, ListFails(j) PROVE Phases'
  BY <1>8 DEF ListFails, Await, AwaitOn
<1>9. ASSUME NEW j \in Jobs, CleanupDone(j) PROVE Phases'
  BY <1>9 DEF CleanupDone, ConnectFailed, ConnectAborted, Return, AwaitOn,
     Continue, Exited
<1>10. ASSUME NEW j \in Jobs, CancelDelivered(j) PROVE Phases'
  BY <1>10 DEF CancelDelivered, ConnectAborted, Return, AwaitOn, Await, Exited
<1>11. ASSUME NEW j \in Jobs, ShutdownEntry(j) PROVE Phases'
  BY <1>11 DEF ShutdownEntry, IsConnecting, Await, AwaitOn, Continue
<1>12. ASSUME NEW j \in Jobs, TaskEnded(j) PROVE Phases'
  BY <1>12 DEF TaskEnded, Continue
<1>13. ASSUME NEW j \in Jobs, Snapshot(j) PROVE Phases'
  BY <1>13 DEF Snapshot, ShutdownReturns, Return, AwaitOn, Continue
<1>14. ASSUME NEW j \in Jobs, CloseNext(j) PROVE Phases'
  BY <1>14 DEF CloseNext, AwaitOn
<1>15. ASSUME NEW j \in Jobs, SessionExits(j) PROVE Phases'
  BY <1>15 DEF SessionExits, Await, AwaitOn, Exited
<1>16. ASSUME NEW j \in Jobs, TransportCloses(j) PROVE Phases'
  BY <1>16 DEF TransportCloses, Continue
<1>17. ASSUME NEW j \in Jobs, CloseRaises(j) PROVE Phases'
  BY <1>17 DEF CloseRaises, Continue, Exited
<1>18. ASSUME NEW j \in Jobs, ClearAll(j) PROVE Phases'
  BY <1>18 DEF ClearAll, ShutdownReturns, Return, AwaitOn, Continue, EmptyRegistry
<1>19. ASSUME NEW j \in Jobs, EnableEntry(j) PROVE Phases'
  BY <1>19 DEF EnableEntry, ConfigRead, Return, AwaitOn, Continue
<1>20. ASSUME NEW j \in Jobs, DisableEntry(j) PROVE Phases'
  BY <1>20 DEF DisableEntry, Return, AwaitOn
<1>21. ASSUME NEW j \in Jobs, SessionLeft(j) PROVE Phases'
  BY <1>21 DEF SessionLeft, Return, AwaitOn, Exited
<1>22. ASSUME NEW j \in Jobs, CallEntry(j) PROVE Phases'
  BY <1>22 DEF CallEntry, Return, AwaitOn
<1>23. ASSUME NEW j \in Jobs, CallTimesOut(j) PROVE Phases'
  BY <1>23 DEF CallTimesOut, Return, AwaitOn
<1>24. ASSUME NEW j \in Jobs, CallReturns(j) PROVE Phases'
  BY <1>24 DEF CallReturns, Return, AwaitOn
<1>25. ASSUME NEW j \in Jobs, ConnectBackground(j) PROVE Phases'
  BY <1>25 DEF ConnectBackground, Submit, Scheduled
<1>26. ASSUME NEW j \in Jobs, SubmitReconnect(j) PROVE Phases'
  BY <1>26 DEF SubmitReconnect, Submit, Scheduled
<1>27. ASSUME NEW j \in Jobs, BeginShutdown(j) PROVE Phases'
  BY <1>27 DEF BeginShutdown, Submit, Continue
<1>28. ASSUME NEW j \in Jobs, ResetState(j) PROVE Phases'
  BY <1>28 DEF ResetState, EmptyRegistry
<1>29. ASSUME NEW j \in Jobs, NEW s \in Servers, SubmitEnable(j, s) PROVE Phases'
  BY <1>29 DEF SubmitEnable, Submit, Scheduled
<1>30. ASSUME NEW j \in Jobs, NEW s \in Servers, SubmitDisable(j, s) PROVE Phases'
  BY <1>30 DEF SubmitDisable, Submit, Scheduled
<1>31. ASSUME NEW j \in Jobs, NEW s \in Servers, SubmitCall(j, s) PROVE Phases'
  BY <1>31 DEF SubmitCall, Submit, Scheduled
<1>32. CASE UNCHANGED vars
  BY <1>32 DEF vars
<1> QED
  BY <1>1, <1>2, <1>3, <1>4, <1>5, <1>6, <1>7, <1>8, <1>9, <1>10, <1>11, <1>12,
     <1>13, <1>14, <1>15, <1>16, <1>17, <1>18, <1>19, <1>20, <1>21, <1>22, <1>23,
     <1>24, <1>25, <1>26, <1>27, <1>28, <1>29, <1>30, <1>31, <1>32 DEF Next,
     SubmitSome, Step

\* The lifespan's submission comes first, and stays the connect task.
LEMMA BegunStep ==
  ASSUME TypeOK, Phases, Begun, [Next]_vars
  PROVE  Begun'
<1> USE ConstantsOK DEF Phases, Begun, LoopKnown, Connected, OpenPcs, DownPcs,
    TypeOK, Ops, Pcs
<1>1. ASSUME NEW j \in Jobs, ConnectEntry(j) PROVE Begun'
  BY <1>1 DEF ConnectEntry, ConfigRead, Return, AwaitOn, Continue
<1>2. ASSUME NEW j \in Jobs, ConnectNext(j) PROVE Begun'
  BY <1>2 DEF ConnectNext, Return, AwaitOn, Continue
<1>3. ASSUME NEW j \in Jobs, CreateClient(j) PROVE Begun'
  BY <1>3 DEF CreateClient, AwaitOn
<1>4. ASSUME NEW j \in Jobs, CreateFails(j) PROVE Begun'
  BY <1>4 DEF CreateFails, ConnectFailed, Return, AwaitOn, Continue
<1>5. ASSUME NEW j \in Jobs, SessionOpens(j) PROVE Begun'
  BY <1>5 DEF SessionOpens, Await, AwaitOn
<1>6. ASSUME NEW j \in Jobs, SessionFails(j) PROVE Begun'
  BY <1>6 DEF SessionFails, ConnectFailed, Return, AwaitOn, Continue
<1>7. ASSUME NEW j \in Jobs, ToolsListed(j) PROVE Begun'
  BY <1>7 DEF ToolsListed, Return, AwaitOn, Continue
<1>8. ASSUME NEW j \in Jobs, ListFails(j) PROVE Begun'
  BY <1>8 DEF ListFails, Await, AwaitOn
<1>9. ASSUME NEW j \in Jobs, CleanupDone(j) PROVE Begun'
  BY <1>9 DEF CleanupDone, ConnectFailed, ConnectAborted, Return, AwaitOn,
     Continue, Exited
<1>10. ASSUME NEW j \in Jobs, CancelDelivered(j) PROVE Begun'
  BY <1>10 DEF CancelDelivered, ConnectAborted, Return, AwaitOn, Await, Exited
<1>11. ASSUME NEW j \in Jobs, ShutdownEntry(j) PROVE Begun'
  BY <1>11 DEF ShutdownEntry, IsConnecting, Await, AwaitOn, Continue
<1>12. ASSUME NEW j \in Jobs, TaskEnded(j) PROVE Begun'
  BY <1>12 DEF TaskEnded, Continue
<1>13. ASSUME NEW j \in Jobs, Snapshot(j) PROVE Begun'
  BY <1>13 DEF Snapshot, ShutdownReturns, Return, AwaitOn, Continue
<1>14. ASSUME NEW j \in Jobs, CloseNext(j) PROVE Begun'
  BY <1>14 DEF CloseNext, AwaitOn
<1>15. ASSUME NEW j \in Jobs, SessionExits(j) PROVE Begun'
  BY <1>15 DEF SessionExits, Await, AwaitOn, Exited
<1>16. ASSUME NEW j \in Jobs, TransportCloses(j) PROVE Begun'
  BY <1>16 DEF TransportCloses, Continue
<1>17. ASSUME NEW j \in Jobs, CloseRaises(j) PROVE Begun'
  BY <1>17 DEF CloseRaises, Continue, Exited
<1>18. ASSUME NEW j \in Jobs, ClearAll(j) PROVE Begun'
  BY <1>18 DEF ClearAll, ShutdownReturns, Return, AwaitOn, Continue, EmptyRegistry
<1>19. ASSUME NEW j \in Jobs, EnableEntry(j) PROVE Begun'
  BY <1>19 DEF EnableEntry, ConfigRead, Return, AwaitOn, Continue
<1>20. ASSUME NEW j \in Jobs, DisableEntry(j) PROVE Begun'
  BY <1>20 DEF DisableEntry, Return, AwaitOn
<1>21. ASSUME NEW j \in Jobs, SessionLeft(j) PROVE Begun'
  BY <1>21 DEF SessionLeft, Return, AwaitOn, Exited
<1>22. ASSUME NEW j \in Jobs, CallEntry(j) PROVE Begun'
  BY <1>22 DEF CallEntry, Return, AwaitOn
<1>23. ASSUME NEW j \in Jobs, CallTimesOut(j) PROVE Begun'
  BY <1>23 DEF CallTimesOut, Return, AwaitOn
<1>24. ASSUME NEW j \in Jobs, CallReturns(j) PROVE Begun'
  BY <1>24 DEF CallReturns, Return, AwaitOn
<1>25. ASSUME NEW j \in Jobs, ConnectBackground(j) PROVE Begun'
  BY <1>25 DEF ConnectBackground, Submit, Scheduled
<1>26. ASSUME NEW j \in Jobs, SubmitReconnect(j) PROVE Begun'
  BY <1>26 DEF SubmitReconnect, Submit, Scheduled
<1>27. ASSUME NEW j \in Jobs, BeginShutdown(j) PROVE Begun'
  BY <1>27 DEF BeginShutdown, Submit, Continue
<1>28. ASSUME NEW j \in Jobs, ResetState(j) PROVE Begun'
  BY <1>28 DEF ResetState, EmptyRegistry
<1>29. ASSUME NEW j \in Jobs, NEW s \in Servers, SubmitEnable(j, s) PROVE Begun'
  BY <1>29 DEF SubmitEnable, Submit, Scheduled
<1>30. ASSUME NEW j \in Jobs, NEW s \in Servers, SubmitDisable(j, s) PROVE Begun'
  BY <1>30 DEF SubmitDisable, Submit, Scheduled
<1>31. ASSUME NEW j \in Jobs, NEW s \in Servers, SubmitCall(j, s) PROVE Begun'
  BY <1>31 DEF SubmitCall, Submit, Scheduled
<1>32. CASE UNCHANGED vars
  BY <1>32 DEF vars
<1> QED
  BY <1>1, <1>2, <1>3, <1>4, <1>5, <1>6, <1>7, <1>8, <1>9, <1>10, <1>11, <1>12,
     <1>13, <1>14, <1>15, <1>16, <1>17, <1>18, <1>19, <1>20, <1>21, <1>22, <1>23,
     <1>24, <1>25, <1>26, <1>27, <1>28, <1>29, <1>30, <1>31, <1>32 DEF Next,
     SubmitSome, Step
-----------------------------------------------------------------------------
\* A submission that keeps the history calm finds nothing else under way, or, if it
\* is a shutdown, the connect task.
LEMMA SubmitAlone ==
  ASSUME TypeOK, Phases, Begun, calm', Alone, TaskKnown,
         NEW j \in Jobs, NEW o \in Ops \ {"none"}, NEW s \in Servers, NEW p \in Pcs,
         Submit(j, o, s), pc' = [pc EXCEPT ![j] = p],
         IF o = "connect" THEN connectTask' = j /\ ~LoopKnown
                          ELSE UNCHANGED connectTask,
         o \in {"reconnect", "shutdown"} => p = "shutdown"
  PROVE  Alone' /\ TaskKnown'
<1>1. /\ op' = [op EXCEPT ![j] = o]
      /\ op[j] = "none" /\ pc[j] = "idle"
      /\ o = "call" \/ Undisturbed(o)
  BY DEF Submit, Phases
<1>2. \A k \in Jobs \ {j} : op'[k] = op[k] /\ pc'[k] = pc[k]
  BY <1>1 DEF TypeOK
<1>3. op'[j] = o /\ pc'[j] = p
  BY <1>1 DEF TypeOK
<1>4. Busy' \ {j} = Busy /\ j \notin Busy /\ Busy \subseteq Jobs
  BY <1>1, <1>2 DEF Busy
<1>5. TaskKnown'
  BY <1>1, <1>2, <1>3 DEF TaskKnown, LoopKnown
<1>6. CASE o = "call"
  <2>1. Busy' = Busy
    BY <1>3, <1>4, <1>6 DEF Busy
  <2> QED
    BY <1>2, <1>4, <1>5, <2>1 DEF Alone
<1>7. CASE o # "call"
  <2>1. \A k \in Busy : o \in {"reconnect", "shutdown"} /\ op[k] = "connect"
    BY <1>1, <1>7 DEF Undisturbed, Busy
  <2>2. \A k \in Busy' \ {j} : p = "shutdown" /\ op'[k] = "connect"
    BY <1>2, <1>4, <2>1
  <2>3. \A i, k \in Busy' \ {j} : i = k
    BY <1>2, <1>4, <1>5, <2>1 DEF Alone, TaskKnown, Busy
  <2> QED
    BY <1>3, <1>5, <2>2, <2>3 DEF Alone
<1> QED
  BY <1>5, <1>6, <1>7

\* Two coroutines at work are the connect task and a shutdown before it has gone on.
LEMMA AloneStep ==
  ASSUME TypeOK, Phases, Begun, calm', Alone, TaskKnown, [Next]_vars
  PROVE  Alone' /\ TaskKnown'
<1> USE ConstantsOK DEF Alone, TaskKnown, Busy, IsConnecting, Phases, Begun,
    LoopKnown, OpenPcs, DownPcs, TypeOK, Ops, Pcs
<1>1. ASSUME NEW j \in Jobs, ConnectEntry(j) PROVE Alone' /\ TaskKnown'
  BY <1>1 DEF ConnectEntry, ConfigRead, Return, AwaitOn, Continue
<1>2. ASSUME NEW j \in Jobs, ConnectNext(j) PROVE Alone' /\ TaskKnown'
  BY <1>2 DEF ConnectNext, Return, AwaitOn, Continue
<1>3. ASSUME NEW j \in Jobs, CreateClient(j) PROVE Alone' /\ TaskKnown'
  BY <1>3 DEF CreateClient, AwaitOn
<1>4. ASSUME NEW j \in Jobs, CreateFails(j) PROVE Alone' /\ TaskKnown'
  BY <1>4 DEF CreateFails, ConnectFailed, Return, AwaitOn, Continue
<1>5. ASSUME NEW j \in Jobs, SessionOpens(j) PROVE Alone' /\ TaskKnown'
  BY <1>5 DEF SessionOpens, Await, AwaitOn
<1>6. ASSUME NEW j \in Jobs, SessionFails(j) PROVE Alone' /\ TaskKnown'
  BY <1>6 DEF SessionFails, ConnectFailed, Return, AwaitOn, Continue
<1>7. ASSUME NEW j \in Jobs, ToolsListed(j) PROVE Alone' /\ TaskKnown'
  BY <1>7 DEF ToolsListed, Return, AwaitOn, Continue
<1>8. ASSUME NEW j \in Jobs, ListFails(j) PROVE Alone' /\ TaskKnown'
  BY <1>8 DEF ListFails, Await, AwaitOn
<1>9. ASSUME NEW j \in Jobs, CleanupDone(j) PROVE Alone' /\ TaskKnown'
  BY <1>9 DEF CleanupDone, ConnectFailed, ConnectAborted, Return, AwaitOn,
     Continue, Exited
<1>10. ASSUME NEW j \in Jobs, CancelDelivered(j) PROVE Alone' /\ TaskKnown'
  <2>1. Alone'
    BY <1>10 DEF CancelDelivered, ConnectAborted, Return, AwaitOn, Await, Exited,
       Alone, Busy, TypeOK
  <2>2. TaskKnown'
    BY <1>10 DEF CancelDelivered, ConnectAborted, Return, AwaitOn, Await, Exited,
       TaskKnown, TypeOK
  <2> QED
    BY <2>1, <2>2
<1>11. ASSUME NEW j \in Jobs, ShutdownEntry(j) PROVE Alone' /\ TaskKnown'
  BY <1>11 DEF ShutdownEntry, IsConnecting, Await, AwaitOn, Continue
<1>12. ASSUME NEW j \in Jobs, TaskEnded(j) PROVE Alone' /\ TaskKnown'
  BY <1>12 DEF TaskEnded, Continue
<1>13. ASSUME NEW j \in Jobs, Snapshot(j) PROVE Alone' /\ TaskKnown'
  BY <1>13 DEF Snapshot, ShutdownReturns, Return, AwaitOn, Continue
<1>14. ASSUME NEW j \in Jobs, CloseNext(j) PROVE Alone' /\ TaskKnown'
  BY <1>14 DEF CloseNext, AwaitOn
<1>15. ASSUME NEW j \in Jobs, SessionExits(j) PROVE Alone' /\ TaskKnown'
  BY <1>15 DEF SessionExits, Await, AwaitOn, Exited
<1>16. ASSUME NEW j \in Jobs, TransportCloses(j) PROVE Alone' /\ TaskKnown'
  BY <1>16 DEF TransportCloses, Continue
<1>17. ASSUME NEW j \in Jobs, CloseRaises(j) PROVE Alone' /\ TaskKnown'
  BY <1>17 DEF CloseRaises, Continue, Exited
<1>18. ASSUME NEW j \in Jobs, ClearAll(j) PROVE Alone' /\ TaskKnown'
  BY <1>18 DEF ClearAll, ShutdownReturns, Return, AwaitOn, Continue, EmptyRegistry
<1>19. ASSUME NEW j \in Jobs, EnableEntry(j) PROVE Alone' /\ TaskKnown'
  BY <1>19 DEF EnableEntry, ConfigRead, Return, AwaitOn, Continue
<1>20. ASSUME NEW j \in Jobs, DisableEntry(j) PROVE Alone' /\ TaskKnown'
  BY <1>20, SMTT(30) DEF DisableEntry, Return, AwaitOn
<1>21. ASSUME NEW j \in Jobs, SessionLeft(j) PROVE Alone' /\ TaskKnown'
  BY <1>21 DEF SessionLeft, Return, AwaitOn, Exited
<1>22. ASSUME NEW j \in Jobs, CallEntry(j) PROVE Alone' /\ TaskKnown'
  BY <1>22 DEF CallEntry, Return, AwaitOn
<1>23. ASSUME NEW j \in Jobs, CallTimesOut(j) PROVE Alone' /\ TaskKnown'
  BY <1>23 DEF CallTimesOut, Return, AwaitOn
<1>24. ASSUME NEW j \in Jobs, CallReturns(j) PROVE Alone' /\ TaskKnown'
  BY <1>24 DEF CallReturns, Return, AwaitOn
<1>25. ASSUME NEW j \in Jobs, ConnectBackground(j) PROVE Alone' /\ TaskKnown'
  BY <1>25, SubmitAlone DEF ConnectBackground, Scheduled, Ops, Pcs, TypeOK
<1>26. ASSUME NEW j \in Jobs, SubmitReconnect(j) PROVE Alone' /\ TaskKnown'
  BY <1>26, SubmitAlone DEF SubmitReconnect, Scheduled, Ops, Pcs, TypeOK
<1>27. ASSUME NEW j \in Jobs, BeginShutdown(j) PROVE Alone' /\ TaskKnown'
  BY <1>27, SubmitAlone DEF BeginShutdown, Scheduled, Continue, Ops, Pcs, TypeOK
<1>28. ASSUME NEW j \in Jobs, ResetState(j) PROVE Alone' /\ TaskKnown'
  BY <1>28 DEF ResetState, EmptyRegistry
<1>29. ASSUME NEW j \in Jobs, NEW s \in Servers, SubmitEnable(j, s)
       PROVE  Alone' /\ TaskKnown'
  BY <1>29, SubmitAlone DEF SubmitEnable, Scheduled, Ops, Pcs, TypeOK
<1>30. ASSUME NEW j \in Jobs, NEW s \in Servers, SubmitDisable(j, s)
       PROVE  Alone' /\ TaskKnown'
  BY <1>30, SubmitAlone DEF SubmitDisable, Scheduled, Ops, Pcs, TypeOK
<1>31. ASSUME NEW j \in Jobs, NEW s \in Servers, SubmitCall(j, s)
       PROVE  Alone' /\ TaskKnown'
  BY <1>31 DEF SubmitCall, Submit, Scheduled
<1>32. CASE UNCHANGED vars
  BY <1>32 DEF vars
<1> QED
  BY <1>1, <1>2, <1>3, <1>4, <1>5, <1>6, <1>7, <1>8, <1>9, <1>10, <1>11, <1>12,
     <1>13, <1>14, <1>15, <1>16, <1>17, <1>18, <1>19, <1>20, <1>21, <1>22, <1>23,
     <1>24, <1>25, <1>26, <1>27, <1>28, <1>29, <1>30, <1>31, <1>32 DEF Next,
     SubmitSome, Step

\* A step that submits nothing and lets no reload that is starting go on.
LEMMA CurrentKept ==
  ASSUME Current, UNCHANGED op, \A k \in Jobs : older'[k] \in {{}, older[k]},
         \A k \in Jobs : pc'[k] = "connect" =>
                           pc[k] = "connect" \/ op[k] = "reconnect",
         Starting \subseteq Starting'
  PROVE  Current'
  BY DEF Current

\* A submission that replaces no configuration.
LEMMA CurrentSubmit ==
  ASSUME TypeOK, Phases, Current, calm', NEW j \in Jobs, NEW o \in Ops, NEW s \in Servers,
         NEW p \in Pcs, Submit(j, o, s), pc' = [pc EXCEPT ![j] = p],
         \A k \in Jobs \ {j} : older'[k] = older[k]
  PROVE  Current'
<1>1. older'[j] = {} /\ pc[j] = "idle" /\ op' = [op EXCEPT ![j] = o] /\ op[j] = "none"
  BY DEF Submit, Phases
<1>2. \A k \in Jobs \ {j} : older'[k] = older[k] /\ op'[k] = op[k] /\ pc'[k] = pc[k]
  BY <1>1 DEF TypeOK
<1>3. Starting \subseteq Starting'
  BY <1>1, <1>2 DEF Starting
<1> QED
  BY <1>1, <1>2, <1>3 DEF Current

\* While lifecycle operations do not overlap, only the connect task can read a
\* configuration that was replaced, and only while the reload is still starting.
LEMMA CurrentStep ==
  ASSUME TypeOK, Phases, Begun, calm', Alone, TaskKnown, Current, [Next]_vars
  PROVE  Current'
<1> USE ConstantsOK DEF Phases, Begun, OpenPcs, DownPcs, TypeOK, Ops, Pcs
<1>1. ASSUME NEW j \in Jobs, ConnectEntry(j) PROVE Current'
  BY <1>1, CurrentKept DEF ConnectEntry, ConfigRead, Return, AwaitOn, Continue, Starting
<1>2. ASSUME NEW j \in Jobs, ConnectNext(j) PROVE Current'
  BY <1>2, CurrentKept DEF ConnectNext, Return, AwaitOn, Continue, Starting
<1>3. ASSUME NEW j \in Jobs, CreateClient(j) PROVE Current'
  BY <1>3, CurrentKept DEF CreateClient, AwaitOn, Starting
<1>4. ASSUME NEW j \in Jobs, CreateFails(j) PROVE Current'
  BY <1>4, CurrentKept DEF CreateFails, ConnectFailed, Return, AwaitOn, Continue, Starting
<1>5. ASSUME NEW j \in Jobs, SessionOpens(j) PROVE Current'
  BY <1>5, CurrentKept DEF SessionOpens, Await, AwaitOn, Starting
<1>6. ASSUME NEW j \in Jobs, SessionFails(j) PROVE Current'
  BY <1>6, CurrentKept DEF SessionFails, ConnectFailed, Return, AwaitOn, Continue, Starting
<1>7. ASSUME NEW j \in Jobs, ToolsListed(j) PROVE Current'
  BY <1>7, CurrentKept DEF ToolsListed, Return, AwaitOn, Continue, Starting
<1>8. ASSUME NEW j \in Jobs, ListFails(j) PROVE Current'
  BY <1>8, CurrentKept DEF ListFails, Await, AwaitOn, Starting
<1>9. ASSUME NEW j \in Jobs, CleanupDone(j) PROVE Current'
  BY <1>9, CurrentKept DEF CleanupDone, ConnectFailed, ConnectAborted, Return, AwaitOn, Continue, Exited, Starting
<1>10. ASSUME NEW j \in Jobs, CancelDelivered(j) PROVE Current'
  BY <1>10, CurrentKept DEF CancelDelivered, ConnectAborted, Return, AwaitOn, Await, Exited, Starting
<1>11. ASSUME NEW j \in Jobs, ShutdownEntry(j) PROVE Current'
  <2>1. CASE IsConnecting
    BY <1>11, <2>1, CurrentKept DEF ShutdownEntry, Await, AwaitOn, Starting
  <2>2. CASE ~IsConnecting
    <3>1. \A k \in Jobs : op[k] = "connect" => pc[k] = "done"
      BY <2>2 DEF IsConnecting, TaskKnown
    <3> QED
      BY <1>11, <2>2, <3>1 DEF ShutdownEntry, Continue, Current
  <2> QED
    BY <2>1, <2>2
<1>12. ASSUME NEW j \in Jobs, TaskEnded(j) PROVE Current'
  BY <1>12 DEF TaskEnded, Continue, Current
<1>13. ASSUME NEW j \in Jobs, Snapshot(j) PROVE Current'
  BY <1>13, CurrentKept DEF Snapshot, ShutdownReturns, Return, AwaitOn, Continue, Starting
<1>14. ASSUME NEW j \in Jobs, CloseNext(j) PROVE Current'
  BY <1>14, CurrentKept DEF CloseNext, AwaitOn, Starting
<1>15. ASSUME NEW j \in Jobs, SessionExits(j) PROVE Current'
  BY <1>15, CurrentKept DEF SessionExits, Await, AwaitOn, Exited, Starting
<1>16. ASSUME NEW j \in Jobs, TransportCloses(j) PROVE Current'
  BY <1>16, CurrentKept DEF TransportCloses, Continue, Starting
<1>17. ASSUME NEW j \in Jobs, CloseRaises(j) PROVE Current'
  BY <1>17, CurrentKept DEF CloseRaises, Continue, Exited, Starting
<1>18. ASSUME NEW j \in Jobs, ClearAll(j) PROVE Current'
  BY <1>18, CurrentKept DEF ClearAll, ShutdownReturns, Return, AwaitOn, Continue, Starting
<1>19. ASSUME NEW j \in Jobs, EnableEntry(j) PROVE Current'
  BY <1>19, CurrentKept DEF EnableEntry, ConfigRead, Return, AwaitOn, Continue, Starting
<1>20. ASSUME NEW j \in Jobs, DisableEntry(j) PROVE Current'
  BY <1>20, CurrentKept DEF DisableEntry, Return, AwaitOn, Starting
<1>21. ASSUME NEW j \in Jobs, SessionLeft(j) PROVE Current'
  BY <1>21, CurrentKept DEF SessionLeft, Return, AwaitOn, Exited, Starting
<1>22. ASSUME NEW j \in Jobs, CallEntry(j) PROVE Current'
  BY <1>22, CurrentKept DEF CallEntry, Return, AwaitOn, Starting
<1>23. ASSUME NEW j \in Jobs, CallTimesOut(j) PROVE Current'
  BY <1>23, CurrentKept DEF CallTimesOut, Return, AwaitOn, Starting
<1>24. ASSUME NEW j \in Jobs, CallReturns(j) PROVE Current'
  BY <1>24, CurrentKept DEF CallReturns, Return, AwaitOn, Starting
<1>25. ASSUME NEW j \in Jobs, ConnectBackground(j) PROVE Current'
  BY <1>25, CurrentSubmit DEF ConnectBackground, Scheduled
<1>26. ASSUME NEW j \in Jobs, SubmitReconnect(j) PROVE Current'
  <2>1. Submit(j, "reconnect", srv[j]) /\ pc' = [pc EXCEPT ![j] = "shutdown"]
    BY <1>26 DEF SubmitReconnect, Scheduled
  <2>2. j \in Starting'
    BY <2>1 DEF Submit, Starting
  <2>3. \A k \in Jobs \ {j} : HoldsConfig(k) => op[k] \in {"connect", "disable"}
    BY <2>1 DEF Submit, Undisturbed, HoldsConfig
  <2>4. older'[j] = {} /\ \A k \in Jobs \ {j} : HoldsConfig(k) \/ older'[k] = older[k]
    BY <1>26, <2>1 DEF SubmitReconnect, Submit, ConfigReplaced
  <2>5. \A k \in Jobs \ {j} : op'[k] = op[k]
    BY <2>1 DEF Submit
  <2> QED
    BY <2>2, <2>3, <2>4, <2>5 DEF Current
<1>27. ASSUME NEW j \in Jobs, BeginShutdown(j) PROVE Current'
  BY <1>27, CurrentSubmit DEF BeginShutdown, Continue
<1>28. ASSUME NEW j \in Jobs, ResetState(j) PROVE Current'
  BY <1>28 DEF ResetState
<1>29. ASSUME NEW j \in Jobs, NEW s \in Servers, SubmitEnable(j, s) PROVE Current'
  <2>1. \A k \in Jobs \ {j} : older'[k] = older[k]
    BY <1>29 DEF SubmitEnable
  <2> QED
    BY <1>29, <2>1, CurrentSubmit DEF SubmitEnable, Scheduled
<1>30. ASSUME NEW j \in Jobs, NEW s \in Servers, SubmitDisable(j, s) PROVE Current'
  BY <1>30, CurrentSubmit DEF SubmitDisable, Scheduled
<1>31. ASSUME NEW j \in Jobs, NEW s \in Servers, SubmitCall(j, s) PROVE Current'
  BY <1>31, CurrentSubmit DEF SubmitCall, Scheduled
<1>32. CASE UNCHANGED vars
  BY <1>32, CurrentKept DEF vars, Starting
<1> QED
  BY <1>1, <1>2, <1>3, <1>4, <1>5, <1>6, <1>7, <1>8, <1>9, <1>10, <1>11, <1>12,
     <1>13, <1>14, <1>15, <1>16, <1>17, <1>18, <1>19, <1>20, <1>21, <1>22, <1>23,
     <1>24, <1>25, <1>26, <1>27, <1>28, <1>29, <1>30, <1>31, <1>32 DEF Next,
     SubmitSome, Step

\* Nobody registers a server while another is about to connect it.
LEMMA UnconnectedStep ==
  ASSUME TypeOK, Phases, Begun, Owned, calm', Alone, Unconnected, [Next]_vars
  PROVE  Unconnected'
<1> USE ConstantsOK DEF Unconnected, Alone, Busy, Connected, Undisturbed, Phases,
    Begun, OpenPcs, DownPcs, TypeOK, Ops, Pcs
<1>1. ASSUME NEW j \in Jobs, ConnectEntry(j) PROVE Unconnected'
  BY <1>1 DEF ConnectEntry, ConfigRead, Return, AwaitOn, Continue
<1>2. ASSUME NEW j \in Jobs, ConnectNext(j) PROVE Unconnected'
  BY <1>2 DEF ConnectNext, Return, AwaitOn, Continue
<1>3. ASSUME NEW j \in Jobs, CreateClient(j) PROVE Unconnected'
  BY <1>3 DEF CreateClient, AwaitOn
<1>4. ASSUME NEW j \in Jobs, CreateFails(j) PROVE Unconnected'
  BY <1>4 DEF CreateFails, ConnectFailed, Return, AwaitOn, Continue
<1>5. ASSUME NEW j \in Jobs, SessionOpens(j) PROVE Unconnected'
  BY <1>5 DEF SessionOpens, Await, AwaitOn
<1>6. ASSUME NEW j \in Jobs, SessionFails(j) PROVE Unconnected'
  BY <1>6 DEF SessionFails, ConnectFailed, Return, AwaitOn, Continue
<1>7. ASSUME NEW j \in Jobs, ToolsListed(j) PROVE Unconnected'
  BY <1>7 DEF ToolsListed, Return, AwaitOn, Continue
<1>8. ASSUME NEW j \in Jobs, ListFails(j) PROVE Unconnected'
  BY <1>8 DEF ListFails, Await, AwaitOn
<1>9. ASSUME NEW j \in Jobs, CleanupDone(j) PROVE Unconnected'
  BY <1>9 DEF CleanupDone, ConnectFailed, ConnectAborted, Return, AwaitOn,
     Continue, Exited
<1>10. ASSUME NEW j \in Jobs, CancelDelivered(j) PROVE Unconnected'
  BY <1>10 DEF CancelDelivered, ConnectAborted, Return, AwaitOn, Await, Exited
<1>11. ASSUME NEW j \in Jobs, ShutdownEntry(j) PROVE Unconnected'
  BY <1>11 DEF ShutdownEntry, IsConnecting, Await, AwaitOn, Continue
<1>12. ASSUME NEW j \in Jobs, TaskEnded(j) PROVE Unconnected'
  BY <1>12 DEF TaskEnded, Continue
<1>13. ASSUME NEW j \in Jobs, Snapshot(j) PROVE Unconnected'
  BY <1>13 DEF Snapshot, ShutdownReturns, Return, AwaitOn, Continue
<1>14. ASSUME NEW j \in Jobs, CloseNext(j) PROVE Unconnected'
  BY <1>14 DEF CloseNext, AwaitOn
<1>15. ASSUME NEW j \in Jobs, SessionExits(j) PROVE Unconnected'
  BY <1>15 DEF SessionExits, Await, AwaitOn, Exited
<1>16. ASSUME NEW j \in Jobs, TransportCloses(j) PROVE Unconnected'
  BY <1>16 DEF TransportCloses, Continue
<1>17. ASSUME NEW j \in Jobs, CloseRaises(j) PROVE Unconnected'
  BY <1>17 DEF CloseRaises, Continue, Exited
<1>18. ASSUME NEW j \in Jobs, ClearAll(j) PROVE Unconnected'
  BY <1>18 DEF ClearAll, ShutdownReturns, Return, AwaitOn, Continue, EmptyRegistry
<1>19. ASSUME NEW j \in Jobs, EnableEntry(j) PROVE Unconnected'
  BY <1>19 DEF EnableEntry, ConfigRead, Return, AwaitOn, Continue
<1>20. ASSUME NEW j \in Jobs, DisableEntry(j) PROVE Unconnected'
  BY <1>20 DEF DisableEntry, Return, AwaitOn
<1>21. ASSUME NEW j \in Jobs, SessionLeft(j) PROVE Unconnected'
  BY <1>21 DEF SessionLeft, Return, AwaitOn, Exited
<1>22. ASSUME NEW j \in Jobs, CallEntry(j) PROVE Unconnected'
  BY <1>22 DEF CallEntry, Return, AwaitOn
<1>23. ASSUME NEW j \in Jobs, CallTimesOut(j) PROVE Unconnected'
  BY <1>23 DEF CallTimesOut, Return, AwaitOn
<1>24. ASSUME NEW j \in Jobs, CallReturns(j) PROVE Unconnected'
  BY <1>24 DEF CallReturns, Return, AwaitOn
<1>25. ASSUME NEW j \in Jobs, ConnectBackground(j) PROVE Unconnected'
  BY <1>25 DEF ConnectBackground, Submit, Scheduled
<1>26. ASSUME NEW j \in Jobs, SubmitReconnect(j) PROVE Unconnected'
  BY <1>26 DEF SubmitReconnect, Submit, Scheduled
<1>27. ASSUME NEW j \in Jobs, BeginShutdown(j) PROVE Unconnected'
  BY <1>27 DEF BeginShutdown, Submit, Continue
<1>28. ASSUME NEW j \in Jobs, ResetState(j) PROVE Unconnected'
  BY <1>28 DEF ResetState, EmptyRegistry
<1>29. ASSUME NEW j \in Jobs, NEW s \in Servers, SubmitEnable(j, s) PROVE Unconnected'
  BY <1>29 DEF SubmitEnable, Submit, Scheduled
<1>30. ASSUME NEW j \in Jobs, NEW s \in Servers, SubmitDisable(j, s)
       PROVE  Unconnected'
  BY <1>30 DEF SubmitDisable, Submit, Scheduled
<1>31. ASSUME NEW j \in Jobs, NEW s \in Servers, SubmitCall(j, s) PROVE Unconnected'
  BY <1>31 DEF SubmitCall, Submit, Scheduled
<1>32. CASE UNCHANGED vars
  BY <1>32 DEF vars
<1> QED
  BY <1>1, <1>2, <1>3, <1>4, <1>5, <1>6, <1>7, <1>8, <1>9, <1>10, <1>11, <1>12,
     <1>13, <1>14, <1>15, <1>16, <1>17, <1>18, <1>19, <1>20, <1>21, <1>22, <1>23,
     <1>24, <1>25, <1>26, <1>27, <1>28, <1>29, <1>30, <1>31, <1>32 DEF Next,
     SubmitSome, Step
-----------------------------------------------------------------------------
\* An open session goes from hand to hand, or into the registry, and out of it only
\* into the hands of the one that closes it.
LEMMA HandsStep ==
  ASSUME TypeOK, Phases, Begun, Owned, calm', Alone, Unconnected, ClosesAll,
         NoLeak, [Next]_vars
  PROVE  ClosesAll' /\ NoLeak'
<1>1. ASSUME NEW j \in Jobs, ConnectEntry(j) PROVE ClosesAll' /\ NoLeak'
  BY <1>1, ConstantsOK DEF ConnectEntry, ConfigRead, Return, AwaitOn, Continue, ClosesAll,
     NoLeak, InHand, Registered, Unconnected, Alone, Busy, Connected, Phases,
     Owned, ClientsApart, OpeningApart, Opening, Begun, OpenPcs, DownPcs, TypeOK,
     Ops, Pcs
<1>2. ASSUME NEW j \in Jobs, ConnectNext(j) PROVE ClosesAll' /\ NoLeak'
  <2>1. ClosesAll'
    BY <1>2 DEF ConnectNext, Return, AwaitOn, Continue, ClosesAll, Registered,
       DownPcs, Connected, Alone, Busy, Unconnected, OpenPcs, Phases, Owned,
       ClientsApart, OpeningApart, Opening, TypeOK
  <2>2. NoLeak'
    BY <1>2 DEF ConnectNext, Return, AwaitOn, Continue, NoLeak, Phases, DownPcs,
       InHand, Registered, Connected, Unconnected, OpenPcs, Owned, ClientsApart,
       OpeningApart, Opening, TypeOK
  <2> QED
    BY <2>1, <2>2
<1>3. ASSUME NEW j \in Jobs, CreateClient(j) PROVE ClosesAll' /\ NoLeak'
  BY <1>3, ConstantsOK, SMTT(30) DEF CreateClient, AwaitOn, ClosesAll, NoLeak, InHand,
     Registered, Unconnected, Alone, Busy, Connected, Phases, Owned, ClientsApart,
     OpeningApart, Opening, Begun, OpenPcs, DownPcs, TypeOK, Ops, Pcs
<1>4. ASSUME NEW j \in Jobs, CreateFails(j) PROVE ClosesAll' /\ NoLeak'
  <2>1. ClosesAll'
    BY <1>4 DEF CreateFails, ConnectFailed, Return, AwaitOn, Continue, ClosesAll,
       Registered, DownPcs, Connected, Alone, Busy, Unconnected, OpenPcs, Phases,
       Owned, ClientsApart, OpeningApart, Opening, TypeOK
  <2>2. NoLeak'
    BY <1>4 DEF CreateFails, ConnectFailed, Return, AwaitOn, Continue, NoLeak,
       Phases, DownPcs, InHand, Registered, Connected, Unconnected, OpenPcs,
       Owned, ClientsApart, OpeningApart, Opening, TypeOK
  <2> QED
    BY <2>1, <2>2
<1>5. ASSUME NEW j \in Jobs, SessionOpens(j) PROVE ClosesAll' /\ NoLeak'
  BY <1>5, ConstantsOK DEF SessionOpens, Await, AwaitOn, ClosesAll, NoLeak,
     InHand, Registered, Unconnected, Alone, Busy, Connected, Phases, Owned,
     ClientsApart, OpeningApart, Opening, Begun, OpenPcs, DownPcs, TypeOK, Ops,
     Pcs
<1>6. ASSUME NEW j \in Jobs, SessionFails(j) PROVE ClosesAll' /\ NoLeak'
  <2>1. ClosesAll'
    BY <1>6 DEF SessionFails, ConnectFailed, Return, AwaitOn, Continue, ClosesAll,
       Registered, DownPcs, Connected, Alone, Busy, Unconnected, OpenPcs, Phases,
       Owned, ClientsApart, OpeningApart, Opening, TypeOK
  <2>2. NoLeak'
    BY <1>6, SMTT(30) DEF SessionFails, ConnectFailed, Return, AwaitOn, Continue, NoLeak,
       Phases, DownPcs, InHand, Registered, Connected, Unconnected, OpenPcs,
       Owned, ClientsApart, OpeningApart, Opening, TypeOK
  <2> QED
    BY <2>1, <2>2
<1>7. ASSUME NEW j \in Jobs, ToolsListed(j) PROVE ClosesAll' /\ NoLeak'
  <2>1. \A k \in Jobs : pc'[k] \notin {"closeall", "exiting", "transport"}
    BY <1>7 DEF ToolsListed, Return, AwaitOn, Continue, Alone, Busy, Phases,
       OpenPcs, DownPcs, TypeOK
  <2>2. ClosesAll'
    BY <2>1 DEF ClosesAll
  <2>3. NoLeak'
    BY <1>7, ConstantsOK, SMTT(30) DEF ToolsListed, Return, AwaitOn, Continue, NoLeak, Phases,
       DownPcs, InHand, Registered, Connected, Unconnected, OpenPcs, Owned,
       ClientsApart, OpeningApart, Opening, TypeOK
  <2> QED
    BY <2>2, <2>3
<1>8. ASSUME NEW j \in Jobs, ListFails(j) PROVE ClosesAll' /\ NoLeak'
  BY <1>8, ConstantsOK DEF ListFails, Await, AwaitOn, ClosesAll, NoLeak, InHand,
     Registered, Unconnected, Alone, Busy, Connected, Phases, Owned, ClientsApart,
     OpeningApart, Opening, Begun, OpenPcs, DownPcs, TypeOK, Ops, Pcs
<1>9. ASSUME NEW j \in Jobs, CleanupDone(j) PROVE ClosesAll' /\ NoLeak'
  <2>1. ClosesAll'
    BY <1>9 DEF CleanupDone, ConnectFailed, ConnectAborted, Return, AwaitOn,
       Continue, Exited, ClosesAll, Registered, DownPcs, Connected, Alone, Busy,
       Unconnected, OpenPcs, Phases, Owned, ClientsApart, OpeningApart, Opening,
       TypeOK
  <2>2. NoLeak'
    BY <1>9 DEF CleanupDone, ConnectFailed, ConnectAborted, Return, AwaitOn,
       Continue, Exited, NoLeak, Phases, DownPcs, InHand, Registered, Connected,
       Unconnected, OpenPcs, Owned, ClientsApart, OpeningApart, Opening, TypeOK
  <2> QED
    BY <2>1, <2>2
<1>10. ASSUME NEW j \in Jobs, CancelDelivered(j) PROVE ClosesAll' /\ NoLeak'
  <2>1. ClosesAll'
    BY <1>10 DEF CancelDelivered, ConnectAborted, Return, AwaitOn, Await, Exited,
       ClosesAll, Registered, DownPcs, Connected, Alone, Busy, Unconnected,
       OpenPcs, Phases, Owned, ClientsApart, OpeningApart, Opening, TypeOK
  <2>2. NoLeak'
    <3>1. CASE pc[j] = "connect"
      BY <1>10, <3>1 DEF CancelDelivered, ConnectAborted, Return, AwaitOn, Await,
         Exited, NoLeak, Phases, DownPcs, InHand, Registered, Connected,
         Unconnected, OpenPcs, Owned, ClientsApart, OpeningApart, Opening, TypeOK
    <3>2. CASE pc[j] = "entering"
      BY <1>10, <3>2, SMTT(30) DEF CancelDelivered, ConnectAborted, Return, AwaitOn, Await,
         Exited, NoLeak, Phases, DownPcs, InHand, Registered, Connected,
         Unconnected, OpenPcs, Owned, ClientsApart, OpeningApart, Opening, TypeOK
    <3>3. CASE pc[j] = "listing"
      BY <1>10, <3>3 DEF CancelDelivered, ConnectAborted, Return, AwaitOn, Await,
         Exited, NoLeak, Phases, DownPcs, InHand, Registered, Connected,
         Unconnected, OpenPcs, Owned, ClientsApart, OpeningApart, Opening, TypeOK
    <3>4. CASE pc[j] = "cleanup"
      BY <1>10, <3>4, SMTT(60) DEF CancelDelivered, ConnectAborted, Return, AwaitOn, Await,
         Exited, NoLeak, Phases, DownPcs, InHand, Registered, Connected,
         Unconnected, OpenPcs, Owned, ClientsApart, OpeningApart, Opening, TypeOK
    <3> QED
      BY <1>10, <3>1, <3>2, <3>3, <3>4 DEF CancelDelivered
  <2> QED
    BY <2>1, <2>2
<1>11. ASSUME NEW j \in Jobs, ShutdownEntry(j) PROVE ClosesAll' /\ NoLeak'
  <2>1. ClosesAll'
    BY <1>11 DEF ShutdownEntry, IsConnecting, Await, AwaitOn, Continue, ClosesAll,
       Registered, DownPcs, Connected, Alone, Busy, Unconnected, OpenPcs, Phases,
       Owned, ClientsApart, OpeningApart, Opening, TypeOK
  <2>2. NoLeak'
    BY <1>11 DEF ShutdownEntry, IsConnecting, Await, AwaitOn, Continue, NoLeak,
       Phases, DownPcs, InHand, Registered, Connected, Unconnected, OpenPcs,
       Owned, ClientsApart, OpeningApart, Opening, TypeOK
  <2> QED
    BY <2>1, <2>2
<1>12. ASSUME NEW j \in Jobs, TaskEnded(j) PROVE ClosesAll' /\ NoLeak'
  BY <1>12, ConstantsOK DEF TaskEnded, Continue, ClosesAll, NoLeak, InHand,
     Registered, Unconnected, Alone, Busy, Connected, Phases, Owned, ClientsApart,
     OpeningApart, Opening, Begun, OpenPcs, DownPcs, TypeOK, Ops, Pcs
<1>13. ASSUME NEW j \in Jobs, Snapshot(j) PROVE ClosesAll' /\ NoLeak'
  <2>1. ClosesAll'
    BY <1>13, ConstantsOK DEF Snapshot, ShutdownReturns, Return, AwaitOn, Continue,
       ClosesAll, Registered, DownPcs, Connected, Alone, Busy, Unconnected,
       OpenPcs, Phases, Owned, ClientsApart, OpeningApart, Opening, TypeOK
  <2>2. NoLeak'
    BY <1>13, ConstantsOK DEF Snapshot, ShutdownReturns, Return, AwaitOn, Continue,
       NoLeak, Phases, DownPcs, InHand, Registered, Connected, Unconnected,
       OpenPcs, Owned, ClientsApart, OpeningApart, Opening, TypeOK
  <2> QED
    BY <2>1, <2>2
<1>14. ASSUME NEW j \in Jobs, CloseNext(j) PROVE ClosesAll' /\ NoLeak'
  BY <1>14, ConstantsOK DEF CloseNext, AwaitOn, ClosesAll, NoLeak, InHand,
     Registered, Unconnected, Alone, Busy, Connected, Phases, Owned, ClientsApart,
     OpeningApart, Opening, Begun, OpenPcs, DownPcs, TypeOK, Ops, Pcs
<1>15. ASSUME NEW j \in Jobs, SessionExits(j) PROVE ClosesAll' /\ NoLeak'
  BY <1>15, ConstantsOK DEF SessionExits, Await, AwaitOn, Exited, ClosesAll,
     NoLeak, InHand, Registered, Unconnected, Alone, Busy, Connected, Phases,
     Owned, ClientsApart, OpeningApart, Opening, Begun, OpenPcs, DownPcs, TypeOK,
     Ops, Pcs
<1>16. ASSUME NEW j \in Jobs, TransportCloses(j) PROVE ClosesAll' /\ NoLeak'
  BY <1>16, ConstantsOK DEF TransportCloses, Continue, ClosesAll, NoLeak, InHand,
     Registered, Unconnected, Alone, Busy, Connected, Phases, Owned, ClientsApart,
     OpeningApart, Opening, Begun, OpenPcs, DownPcs, TypeOK, Ops, Pcs
<1>17. ASSUME NEW j \in Jobs, CloseRaises(j) PROVE ClosesAll' /\ NoLeak'
  BY <1>17, ConstantsOK DEF CloseRaises, Continue, Exited, ClosesAll, NoLeak,
     InHand, Registered, Unconnected, Alone, Busy, Connected, Phases, Owned,
     ClientsApart, OpeningApart, Opening, Begun, OpenPcs, DownPcs, TypeOK, Ops,
     Pcs
<1>18. ASSUME NEW j \in Jobs, ClearAll(j) PROVE ClosesAll' /\ NoLeak'
  BY <1>18, ConstantsOK DEF ClearAll, ShutdownReturns, Return, AwaitOn, Continue,
     EmptyRegistry, ClosesAll, NoLeak, InHand, Registered, Unconnected, Alone,
     Busy, Connected, Phases, Owned, ClientsApart, OpeningApart, Opening, Begun,
     OpenPcs, DownPcs, TypeOK, Ops, Pcs
<1>19. ASSUME NEW j \in Jobs, EnableEntry(j) PROVE ClosesAll' /\ NoLeak'
  BY <1>19, ConstantsOK, SMTT(30) DEF EnableEntry, ConfigRead, Return, AwaitOn, Continue, ClosesAll,
     NoLeak, InHand, Registered, Unconnected, Alone, Busy, Connected, Phases,
     Owned, ClientsApart, OpeningApart, Opening, Begun, OpenPcs, DownPcs, TypeOK,
     Ops, Pcs
<1>20. ASSUME NEW j \in Jobs, DisableEntry(j) PROVE ClosesAll' /\ NoLeak'
  <2>1. ClosesAll'
    BY <1>20 DEF DisableEntry, Return, AwaitOn, ClosesAll, Registered, DownPcs,
       Connected, Alone, Busy, Unconnected, OpenPcs, Phases, Owned, ClientsApart,
       OpeningApart, Opening, TypeOK
  <2>2. NoLeak'
    <3>1. CASE srv[j] \in Connected
      <4>1. /\ clients' = [clients EXCEPT ![srv[j]] = NoClient]
            /\ pc' = [pc EXCEPT ![j] = "leaving"]
            /\ cl' = [cl EXCEPT ![j] = clients[srv[j]]]
            /\ UNCHANGED <<cstate, left>> /\ pc[j] = "disable"
        BY <1>20, <3>1 DEF DisableEntry, AwaitOn
      <4>2. \A c \in Registered \ Registered' : c = cl'[j]
        BY <4>1 DEF Registered, Connected, TypeOK
      <4>3. pc'[j] = "leaving"
        BY <4>1 DEF TypeOK
      <4>4. \A c \in Clients : InHand(c) => InHand(c)'
        BY <4>1 DEF InHand, TypeOK
      <4>5. \A c \in Clients : c = cl'[j] => InHand(c)'
        BY <4>3 DEF InHand
      <4> QED
        BY <4>1, <4>2, <4>4, <4>5 DEF NoLeak
    <3>2. CASE srv[j] \notin Connected
      BY <1>20, <3>2 DEF DisableEntry, Return, AwaitOn, NoLeak, Phases, DownPcs,
         InHand, Registered, Connected, Unconnected, OpenPcs, Owned, ClientsApart,
         OpeningApart, Opening, TypeOK
    <3> QED
      BY <3>1, <3>2
  <2> QED
    BY <2>1, <2>2
<1>21. ASSUME NEW j \in Jobs, SessionLeft(j) PROVE ClosesAll' /\ NoLeak'
  BY <1>21, ConstantsOK DEF SessionLeft, Return, AwaitOn, Exited, ClosesAll,
     NoLeak, InHand, Registered, Unconnected, Alone, Busy, Connected, Phases,
     Owned, ClientsApart, OpeningApart, Opening, Begun, OpenPcs, DownPcs, TypeOK,
     Ops, Pcs
<1>22. ASSUME NEW j \in Jobs, CallEntry(j) PROVE ClosesAll' /\ NoLeak'
  BY <1>22, ConstantsOK, SMTT(60) DEF CallEntry, Return, AwaitOn, ClosesAll, NoLeak, InHand,
     Registered, Unconnected, Alone, Busy, Connected, Phases, Owned, ClientsApart,
     OpeningApart, Opening, Begun, OpenPcs, DownPcs, TypeOK, Ops, Pcs
<1>23. ASSUME NEW j \in Jobs, CallTimesOut(j) PROVE ClosesAll' /\ NoLeak'
  BY <1>23, ConstantsOK DEF CallTimesOut, Return, AwaitOn, ClosesAll, NoLeak,
     InHand, Registered, Unconnected, Alone, Busy, Connected, Phases, Owned,
     ClientsApart, OpeningApart, Opening, Begun, OpenPcs, DownPcs, TypeOK, Ops,
     Pcs
<1>24. ASSUME NEW j \in Jobs, CallReturns(j) PROVE ClosesAll' /\ NoLeak'
  BY <1>24, ConstantsOK DEF CallReturns, Return, AwaitOn, ClosesAll, NoLeak,
     InHand, Registered, Unconnected, Alone, Busy, Connected, Phases, Owned,
     ClientsApart, OpeningApart, Opening, Begun, OpenPcs, DownPcs, TypeOK, Ops,
     Pcs
<1>25. ASSUME NEW j \in Jobs, ConnectBackground(j) PROVE ClosesAll' /\ NoLeak'
  BY <1>25, ConstantsOK DEF ConnectBackground, Submit, Scheduled, ClosesAll,
     NoLeak, InHand, Registered, Unconnected, Alone, Busy, Connected, Phases,
     Owned, ClientsApart, OpeningApart, Opening, Begun, OpenPcs, DownPcs, TypeOK,
     Ops, Pcs
<1>26. ASSUME NEW j \in Jobs, SubmitReconnect(j) PROVE ClosesAll' /\ NoLeak'
  BY <1>26, ConstantsOK DEF SubmitReconnect, Submit, Scheduled, ClosesAll, NoLeak,
     InHand, Registered, Unconnected, Alone, Busy, Connected, Phases, Owned,
     ClientsApart, OpeningApart, Opening, Begun, OpenPcs, DownPcs, TypeOK, Ops,
     Pcs
<1>27. ASSUME NEW j \in Jobs, BeginShutdown(j) PROVE ClosesAll' /\ NoLeak'
  BY <1>27, ConstantsOK DEF BeginShutdown, Submit, Continue, ClosesAll, NoLeak,
     InHand, Registered, Unconnected, Alone, Busy, Connected, Phases, Owned,
     ClientsApart, OpeningApart, Opening, Begun, OpenPcs, DownPcs, TypeOK, Ops,
     Pcs
<1>28. ASSUME NEW j \in Jobs, ResetState(j) PROVE ClosesAll' /\ NoLeak'
  BY <1>28, ConstantsOK DEF ResetState, EmptyRegistry, ClosesAll, NoLeak, InHand,
     Registered, Unconnected, Alone, Busy, Connected, Phases, Owned, ClientsApart,
     OpeningApart, Opening, Begun, OpenPcs, DownPcs, TypeOK, Ops, Pcs
<1>29. ASSUME NEW j \in Jobs, NEW s \in Servers, SubmitEnable(j, s)
       PROVE  ClosesAll' /\ NoLeak'
  BY <1>29, ConstantsOK DEF SubmitEnable, Submit, Scheduled, ClosesAll, NoLeak,
     InHand, Registered, Unconnected, Alone, Busy, Connected, Phases, Owned,
     ClientsApart, OpeningApart, Opening, Begun, OpenPcs, DownPcs, TypeOK, Ops,
     Pcs
<1>30. ASSUME NEW j \in Jobs, NEW s \in Servers, SubmitDisable(j, s)
       PROVE  ClosesAll' /\ NoLeak'
  BY <1>30, ConstantsOK DEF SubmitDisable, Submit, Scheduled, ClosesAll, NoLeak,
     InHand, Registered, Unconnected, Alone, Busy, Connected, Phases, Owned,
     ClientsApart, OpeningApart, Opening, Begun, OpenPcs, DownPcs, TypeOK, Ops,
     Pcs
<1>31. ASSUME NEW j \in Jobs, NEW s \in Servers, SubmitCall(j, s)
       PROVE  ClosesAll' /\ NoLeak'
  BY <1>31, ConstantsOK DEF SubmitCall, Submit, Scheduled, ClosesAll, NoLeak,
     InHand, Registered, Unconnected, Alone, Busy, Connected, Phases, Owned,
     ClientsApart, OpeningApart, Opening, Begun, OpenPcs, DownPcs, TypeOK, Ops,
     Pcs
<1>32. CASE UNCHANGED vars
  BY <1>32 DEF vars, ClosesAll, NoLeak, InHand, Registered, Unconnected, Alone,
     Busy, Connected, Phases, Owned, ClientsApart, OpeningApart, Opening, Begun,
     OpenPcs, DownPcs, TypeOK, Ops, Pcs
<1> QED
  BY <1>1, <1>2, <1>3, <1>4, <1>5, <1>6, <1>7, <1>8, <1>9, <1>10, <1>11, <1>12,
     <1>13, <1>14, <1>15, <1>16, <1>17, <1>18, <1>19, <1>20, <1>21, <1>22, <1>23,
     <1>24, <1>25, <1>26, <1>27, <1>28, <1>29, <1>30, <1>31, <1>32 DEF Next,
     SubmitSome, Step
-----------------------------------------------------------------------------
\* What is read is the configuration in force, or a reload is starting.
LEMMA ConfigHeld ==
  ASSUME Phases, Current, NEW j \in Jobs, pc[j] \in {"connect", "enable"}
  PROVE  \/ Config(j) = enabled
         \/ Starting # {} /\ Down # {} /\ Reloading /\ pc[j] = "connect"
  BY DEF Phases, Current, Config, Starting, Down, Reloading, DownPcs

\* Servers lose their place in the configuration only when somebody is about to
\* disconnect them.
LEMMA EnabledStep ==
  ASSUME TypeOK, Phases, Begun, calm', Alone, Unconnected, NoError, StaysEnabled,
         WillBeEnabled, Current, [Next]_vars
  PROVE  NoError' /\ StaysEnabled' /\ WillBeEnabled'
<1>1. ASSUME NEW j \in Jobs, ConnectEntry(j)
      PROVE  NoError' /\ StaysEnabled' /\ WillBeEnabled'
  BY <1>1, ConfigHeld, ConstantsOK DEF ConnectEntry, ConfigRead, Return, AwaitOn, Continue, NoError,
     StaysEnabled, WillBeEnabled, Down, Unconnected, Alone, Busy, Connected,
     Undisturbed, Phases, Begun, OpenPcs, DownPcs, TypeOK, Ops, Pcs
<1>2. ASSUME NEW j \in Jobs, ConnectNext(j)
      PROVE  NoError' /\ StaysEnabled' /\ WillBeEnabled'
  BY <1>2, ConstantsOK DEF ConnectNext, Return, AwaitOn, Continue, NoError,
     StaysEnabled, WillBeEnabled, Down, Unconnected, Alone, Busy, Connected,
     Undisturbed, Phases, Begun, OpenPcs, DownPcs, TypeOK, Ops, Pcs
<1>3. ASSUME NEW j \in Jobs, CreateClient(j)
      PROVE  NoError' /\ StaysEnabled' /\ WillBeEnabled'
  BY <1>3, ConstantsOK DEF CreateClient, AwaitOn, NoError, StaysEnabled,
     WillBeEnabled, Down, Unconnected, Alone, Busy, Connected, Undisturbed,
     Phases, Begun, OpenPcs, DownPcs, TypeOK, Ops, Pcs
<1>4. ASSUME NEW j \in Jobs, CreateFails(j)
      PROVE  NoError' /\ StaysEnabled' /\ WillBeEnabled'
  BY <1>4, ConstantsOK DEF CreateFails, ConnectFailed, Return, AwaitOn, Continue,
     NoError, StaysEnabled, WillBeEnabled, Down, Unconnected, Alone, Busy,
     Connected, Undisturbed, Phases, Begun, OpenPcs, DownPcs, TypeOK, Ops, Pcs
<1>5. ASSUME NEW j \in Jobs, SessionOpens(j)
      PROVE  NoError' /\ StaysEnabled' /\ WillBeEnabled'
  BY <1>5, ConstantsOK DEF SessionOpens, Await, AwaitOn, NoError, StaysEnabled,
     WillBeEnabled, Down, Unconnected, Alone, Busy, Connected, Undisturbed,
     Phases, Begun, OpenPcs, DownPcs, TypeOK, Ops, Pcs
<1>6. ASSUME NEW j \in Jobs, SessionFails(j)
      PROVE  NoError' /\ StaysEnabled' /\ WillBeEnabled'
  BY <1>6, ConstantsOK, SMTT(30) DEF SessionFails, ConnectFailed, Return, AwaitOn, Continue,
     NoError, StaysEnabled, WillBeEnabled, Down, Unconnected, Alone, Busy,
     Connected, Undisturbed, Phases, Begun, OpenPcs, DownPcs, TypeOK, Ops, Pcs
<1>7. ASSUME NEW j \in Jobs, ToolsListed(j)
      PROVE  NoError' /\ StaysEnabled' /\ WillBeEnabled'
  BY <1>7, ConstantsOK DEF ToolsListed, Return, AwaitOn, Continue, NoError,
     StaysEnabled, WillBeEnabled, Down, Unconnected, Alone, Busy, Connected,
     Undisturbed, Phases, Begun, OpenPcs, DownPcs, TypeOK, Ops, Pcs
<1>8. ASSUME NEW j \in Jobs, ListFails(j)
      PROVE  NoError' /\ StaysEnabled' /\ WillBeEnabled'
  BY <1>8, ConstantsOK DEF ListFails, Await, AwaitOn, NoError, StaysEnabled,
     WillBeEnabled, Down, Unconnected, Alone, Busy, Connected, Undisturbed,
     Phases, Begun, OpenPcs, DownPcs, TypeOK, Ops, Pcs
<1>9. ASSUME NEW j \in Jobs, CleanupDone(j)
      PROVE  NoError' /\ StaysEnabled' /\ WillBeEnabled'
  BY <1>9, ConstantsOK DEF CleanupDone, ConnectFailed, ConnectAborted, Return,
     AwaitOn, Continue, Exited, NoError, StaysEnabled, WillBeEnabled, Down,
     Unconnected, Alone, Busy, Connected, Undisturbed, Phases, Begun, OpenPcs,
     DownPcs, TypeOK, Ops, Pcs
<1>10. ASSUME NEW j \in Jobs, CancelDelivered(j)
       PROVE  NoError' /\ StaysEnabled' /\ WillBeEnabled'
  BY <1>10, ConstantsOK DEF CancelDelivered, ConnectAborted, Return, AwaitOn,
     Await, Exited, NoError, StaysEnabled, WillBeEnabled, Down, Unconnected,
     Alone, Busy, Connected, Undisturbed, Phases, Begun, OpenPcs, DownPcs, TypeOK,
     Ops, Pcs
<1>11. ASSUME NEW j \in Jobs, ShutdownEntry(j)
       PROVE  NoError' /\ StaysEnabled' /\ WillBeEnabled'
  BY <1>11, ConstantsOK DEF ShutdownEntry, IsConnecting, Await, AwaitOn, Continue,
     NoError, StaysEnabled, WillBeEnabled, Down, Unconnected, Alone, Busy,
     Connected, Undisturbed, Phases, Begun, OpenPcs, DownPcs, TypeOK, Ops, Pcs
<1>12. ASSUME NEW j \in Jobs, TaskEnded(j)
       PROVE  NoError' /\ StaysEnabled' /\ WillBeEnabled'
  BY <1>12, ConstantsOK DEF TaskEnded, Continue, NoError, StaysEnabled,
     WillBeEnabled, Down, Unconnected, Alone, Busy, Connected, Undisturbed,
     Phases, Begun, OpenPcs, DownPcs, TypeOK, Ops, Pcs
<1>13. ASSUME NEW j \in Jobs, Snapshot(j)
       PROVE  NoError' /\ StaysEnabled' /\ WillBeEnabled'
  BY <1>13, ConstantsOK DEF Snapshot, ShutdownReturns, Return, AwaitOn, Continue,
     NoError, StaysEnabled, WillBeEnabled, Down, Unconnected, Alone, Busy,
     Connected, Undisturbed, Phases, Begun, OpenPcs, DownPcs, TypeOK, Ops, Pcs
<1>14. ASSUME NEW j \in Jobs, CloseNext(j)
       PROVE  NoError' /\ StaysEnabled' /\ WillBeEnabled'
  BY <1>14, ConstantsOK DEF CloseNext, AwaitOn, NoError, StaysEnabled,
     WillBeEnabled, Down, Unconnected, Alone, Busy, Connected, Undisturbed,
     Phases, Begun, OpenPcs, DownPcs, TypeOK, Ops, Pcs
<1>15. ASSUME NEW j \in Jobs, SessionExits(j)
       PROVE  NoError' /\ StaysEnabled' /\ WillBeEnabled'
  BY <1>15, ConstantsOK DEF SessionExits, Await, AwaitOn, Exited, NoError,
     StaysEnabled, WillBeEnabled, Down, Unconnected, Alone, Busy, Connected,
     Undisturbed, Phases, Begun, OpenPcs, DownPcs, TypeOK, Ops, Pcs
<1>16. ASSUME NEW j \in Jobs, TransportCloses(j)
       PROVE  NoError' /\ StaysEnabled' /\ WillBeEnabled'
  BY <1>16, ConstantsOK DEF TransportCloses, Continue, NoError, StaysEnabled,
     WillBeEnabled, Down, Unconnected, Alone, Busy, Connected, Undisturbed,
     Phases, Begun, OpenPcs, DownPcs, TypeOK, Ops, Pcs
<1>17. ASSUME NEW j \in Jobs, CloseRaises(j)
       PROVE  NoError' /\ StaysEnabled' /\ WillBeEnabled'
  BY <1>17, ConstantsOK DEF CloseRaises, Continue, Exited, NoError, StaysEnabled,
     WillBeEnabled, Down, Unconnected, Alone, Busy, Connected, Undisturbed,
     Phases, Begun, OpenPcs, DownPcs, TypeOK, Ops, Pcs
<1>18. ASSUME NEW j \in Jobs, ClearAll(j)
       PROVE  NoError' /\ StaysEnabled' /\ WillBeEnabled'
  BY <1>18, ConstantsOK DEF ClearAll, ShutdownReturns, Return, AwaitOn, Continue,
     EmptyRegistry, NoError, StaysEnabled, WillBeEnabled, Down, Unconnected,
     Alone, Busy, Connected, Undisturbed, Phases, Begun, OpenPcs, DownPcs, TypeOK,
     Ops, Pcs
<1>19. ASSUME NEW j \in Jobs, EnableEntry(j)
       PROVE  NoError' /\ StaysEnabled' /\ WillBeEnabled'
  BY <1>19, ConfigHeld, ConstantsOK DEF EnableEntry, ConfigRead, Return, AwaitOn, Continue, NoError,
     StaysEnabled, WillBeEnabled, Down, Unconnected, Alone, Busy, Connected,
     Undisturbed, Phases, Begun, OpenPcs, DownPcs, TypeOK, Ops, Pcs
<1>20. ASSUME NEW j \in Jobs, DisableEntry(j)
       PROVE  NoError' /\ StaysEnabled' /\ WillBeEnabled'
  BY <1>20, ConstantsOK, SMTT(30) DEF DisableEntry, Return, AwaitOn, NoError, StaysEnabled,
     WillBeEnabled, Down, Unconnected, Alone, Busy, Connected, Undisturbed,
     Phases, Begun, OpenPcs, DownPcs, TypeOK, Ops, Pcs
<1>21. ASSUME NEW j \in Jobs, SessionLeft(j)
       PROVE  NoError' /\ StaysEnabled' /\ WillBeEnabled'
  BY <1>21, ConstantsOK DEF SessionLeft, Return, AwaitOn, Exited, NoError,
     StaysEnabled, WillBeEnabled, Down, Unconnected, Alone, Busy, Connected,
     Undisturbed, Phases, Begun, OpenPcs, DownPcs, TypeOK, Ops, Pcs
<1>22. ASSUME NEW j \in Jobs, CallEntry(j)
       PROVE  NoError' /\ StaysEnabled' /\ WillBeEnabled'
  BY <1>22, ConstantsOK DEF CallEntry, Return, AwaitOn, NoError, StaysEnabled,
     WillBeEnabled, Down, Unconnected, Alone, Busy, Connected, Undisturbed,
     Phases, Begun, OpenPcs, DownPcs, TypeOK, Ops, Pcs
<1>23. ASSUME NEW j \in Jobs, CallTimesOut(j)
       PROVE  NoError' /\ StaysEnabled' /\ WillBeEnabled'
  BY <1>23, ConstantsOK DEF CallTimesOut, Return, AwaitOn, NoError, StaysEnabled,
     WillBeEnabled, Down, Unconnected, Alone, Busy, Connected, Undisturbed,
     Phases, Begun, OpenPcs, DownPcs, TypeOK, Ops, Pcs
<1>24. ASSUME NEW j \in Jobs, CallReturns(j)
       PROVE  NoError' /\ StaysEnabled' /\ WillBeEnabled'
  BY <1>24, ConstantsOK DEF CallReturns, Return, AwaitOn, NoError, StaysEnabled,
     WillBeEnabled, Down, Unconnected, Alone, Busy, Connected, Undisturbed,
     Phases, Begun, OpenPcs, DownPcs, TypeOK, Ops, Pcs
<1>25. ASSUME NEW j \in Jobs, ConnectBackground(j)
       PROVE  NoError' /\ StaysEnabled' /\ WillBeEnabled'
  BY <1>25, ConstantsOK DEF ConnectBackground, Submit, Scheduled, NoError,
     StaysEnabled, WillBeEnabled, Down, Unconnected, Alone, Busy, Connected,
     Undisturbed, Phases, Begun, OpenPcs, DownPcs, TypeOK, Ops, Pcs
<1>26. ASSUME NEW j \in Jobs, SubmitReconnect(j)
       PROVE  NoError' /\ StaysEnabled' /\ WillBeEnabled'
  BY <1>26, ConstantsOK DEF SubmitReconnect, Submit, Scheduled, NoError,
     StaysEnabled, WillBeEnabled, Down, Unconnected, Alone, Busy, Connected,
     Undisturbed, Phases, Begun, OpenPcs, DownPcs, TypeOK, Ops, Pcs
<1>27. ASSUME NEW j \in Jobs, BeginShutdown(j)
       PROVE  NoError' /\ StaysEnabled' /\ WillBeEnabled'
  BY <1>27, ConstantsOK DEF BeginShutdown, Submit, Continue, NoError,
     StaysEnabled, WillBeEnabled, Down, Unconnected, Alone, Busy, Connected,
     Undisturbed, Phases, Begun, OpenPcs, DownPcs, TypeOK, Ops, Pcs
<1>28. ASSUME NEW j \in Jobs, ResetState(j)
       PROVE  NoError' /\ StaysEnabled' /\ WillBeEnabled'
  BY <1>28, ConstantsOK DEF ResetState, EmptyRegistry, NoError, StaysEnabled,
     WillBeEnabled, Down, Unconnected, Alone, Busy, Connected, Undisturbed,
     Phases, Begun, OpenPcs, DownPcs, TypeOK, Ops, Pcs
<1>29. ASSUME NEW j \in Jobs, NEW s \in Servers, SubmitEnable(j, s)
       PROVE  NoError' /\ StaysEnabled' /\ WillBeEnabled'
  BY <1>29, ConstantsOK DEF SubmitEnable, Submit, Scheduled, NoError,
     StaysEnabled, WillBeEnabled, Down, Unconnected, Alone, Busy, Connected,
     Undisturbed, Phases, Begun, OpenPcs, DownPcs, TypeOK, Ops, Pcs
<1>30. ASSUME NEW j \in Jobs, NEW s \in Servers, SubmitDisable(j, s)
       PROVE  NoError' /\ StaysEnabled' /\ WillBeEnabled'
  <2>1. NoError' /\ StaysEnabled'
    BY <1>30 DEF SubmitDisable, Submit, Scheduled, NoError, StaysEnabled, Down,
       DownPcs, Connected, TypeOK
  <2>2. WillBeEnabled'
    BY <1>30, ZenonT(60) DEF SubmitDisable, Submit, Scheduled, WillBeEnabled, Undisturbed, Down,
       DownPcs, OpenPcs, Phases, TypeOK
  <2> QED
    BY <2>1, <2>2
<1>31. ASSUME NEW j \in Jobs, NEW s \in Servers, SubmitCall(j, s)
       PROVE  NoError' /\ StaysEnabled' /\ WillBeEnabled'
  BY <1>31, ConstantsOK DEF SubmitCall, Submit, Scheduled, NoError, StaysEnabled,
     WillBeEnabled, Down, Unconnected, Alone, Busy, Connected, Undisturbed,
     Phases, Begun, OpenPcs, DownPcs, TypeOK, Ops, Pcs
<1>32. CASE UNCHANGED vars
  BY <1>32 DEF vars, NoError, StaysEnabled, WillBeEnabled, Down, Unconnected,
     Alone, Busy, Connected, Undisturbed, Phases, Begun, OpenPcs, DownPcs, TypeOK,
     Ops, Pcs
<1> QED
  BY <1>1, <1>2, <1>3, <1>4, <1>5, <1>6, <1>7, <1>8, <1>9, <1>10, <1>11, <1>12,
     <1>13, <1>14, <1>15, <1>16, <1>17, <1>18, <1>19, <1>20, <1>21, <1>22, <1>23,
     <1>24, <1>25, <1>26, <1>27, <1>28, <1>29, <1>30, <1>31, <1>32 DEF Next,
     SubmitSome, Step
-----------------------------------------------------------------------------
\* Of a step that takes nothing from what is handled and leaves what is ahead.
LEMMA Carried ==
  ASSUME ComesToAll, initialized /\ Undeterred => Accounted,
         UNCHANGED enabled,
         Handled \subseteq Handled',
         Reloading => Reloading',
         enabled \cap Enabling \subseteq Enabling' \cup Handled',
         Coming' \subseteq Coming,
         \A k \in Coming' : Ahead[k] \subseteq Ahead'[k] \cup Handled',
         initialized' /\ Undeterred' => initialized /\ Undeterred
  PROVE  ComesToAll' /\ (initialized' /\ Undeterred' => Accounted')
  BY DEF ComesToAll, Accounted

\* So does a submission that leaves the configuration alone.
LEMMA SubmitCarried ==
  ASSUME TypeOK, Phases, ComesToAll, initialized /\ Undeterred => Accounted,
         NEW j \in Jobs, NEW o \in Ops, NEW s \in Servers, NEW p \in Pcs \ {"next", "done"},
         Submit(j, o, s), pc' = [pc EXCEPT ![j] = p], p \notin OpenPcs, UNCHANGED enabled
  PROVE  ComesToAll' /\ (initialized' /\ Undeterred' => Accounted')
<1>1. /\ pc[j] = "idle" /\ op[j] = "none"
      /\ op' = [op EXCEPT ![j] = o] /\ srv' = [srv EXCEPT ![j] = s]
      /\ UNCHANGED <<clients, errors, todo, initialized, res>>
  BY DEF Submit, Phases
<1>2. \A k \in Jobs \ {j} : op'[k] = op[k] /\ pc'[k] = pc[k] /\ srv'[k] = srv[k]
  BY <1>1 DEF TypeOK
<1>3. Handled \subseteq Handled'
  BY <1>1, <1>2 DEF Handled, Named, Connected
<1>4. (Reloading => Reloading') /\ Enabling \subseteq Enabling'
  BY <1>1, <1>2 DEF Reloading, Enabling, DownPcs, OpenPcs
<1>5. Coming' \subseteq Coming /\ \A k \in Coming' : Ahead'[k] = Ahead[k]
  <2>1. j \notin Coming'
    BY DEF Coming, TypeOK
  <2> QED
    BY <1>1, <1>2, <2>1 DEF Coming, Ahead
<1>6. Undeterred' => Undeterred
  BY <1>1, <1>2 DEF Undeterred
<1> QED
  BY <1>1, <1>3, <1>4, <1>5, <1>6, Carried

\* connect() and connect_additional() leave an answer for each server they are for.
LEMMA AccountStep ==
  ASSUME TypeOK, Phases, Begun, Owned, calm', Alone, Unconnected, Current, ComesToAll,
         initialized /\ Undeterred => Accounted, [Next]_vars
  PROVE  ComesToAll' /\ (initialized' /\ Undeterred' => Accounted')
<1>1. ASSUME NEW j \in Jobs, ConnectEntry(j)
      PROVE  ComesToAll' /\ (initialized' /\ Undeterred' => Accounted')
  <2>1. pc[j] = "connect" /\ op[j] \in {"connect", "reconnect"}
    BY <1>1 DEF ConnectEntry, ConfigRead, Phases
  <2>2. Coming = {}
    BY <2>1 DEF Coming, Alone, Busy, OpenPcs, Phases
  <2>3. Starting # {} => Starting' # {}
    BY <1>1, <2>1 DEF ConnectEntry, ConfigRead, Return, AwaitOn, Continue, Starting, TypeOK
  <2>4. Config(j) = enabled \/ Reloading'
    BY <1>1, <2>1, <2>3, ConfigHeld DEF ConnectEntry, ConfigRead, Starting, Reloading, DownPcs
  <2>5. CASE initialized
    <3>1. Coming' = {} /\ ~Undeterred'
      BY <1>1, <2>1, <2>2, <2>5 DEF ConnectEntry, ConfigRead, Return, AwaitOn, Coming, Undeterred,
         OpenPcs, TypeOK
    <3> QED
      BY <3>1 DEF ComesToAll
  <2>6. CASE ~initialized /\ Config(j) = {}
    <3>1. Return(j, "ok") /\ UNCHANGED <<op, enabled>>
      BY <1>1, <2>6 DEF ConnectEntry, ConfigRead
    <3>2. Coming' = {}
      BY <2>2, <3>1 DEF Return, AwaitOn, Coming, OpenPcs, TypeOK
    <3> QED
      BY <2>4, <2>6, <3>1, <3>2 DEF ComesToAll, Accounted
  <2>7. CASE ~initialized /\ Config(j) # {}
    <3>1. /\ todo' = [todo EXCEPT ![j] = Config(j)] /\ ~initialized'
          /\ pc' = [pc EXCEPT ![j] = "next"] /\ UNCHANGED <<op, enabled>>
      BY <1>1, <2>7 DEF ConnectEntry, ConfigRead, Continue
    <3>2. Coming' \subseteq {j} /\ Config(j) \subseteq Ahead'[j]
      BY <2>2, <3>1 DEF Coming, Ahead, OpenPcs, TypeOK
    <3> QED
      BY <2>4, <3>1, <3>2 DEF ComesToAll
  <2> QED
    BY <2>5, <2>6, <2>7
<1>2. ASSUME NEW j \in Jobs, ConnectNext(j)
      PROVE  ComesToAll' /\ (initialized' /\ Undeterred' => Accounted')
  <2>1. CASE todo[j] = {}
    <3>1. /\ pc' = [pc EXCEPT ![j] = "done"] /\ res' = [res EXCEPT ![j] = "ok"]
          /\ UNCHANGED <<clients, errors, op, srv, todo, enabled>>
      BY <1>2, <2>1 DEF ConnectNext, Return, AwaitOn
    <3>2. UNCHANGED Handled
      BY <3>1 DEF Handled, Named, Connected
    <3>3. Reloading => Reloading'
      BY <1>2, <3>1 DEF ConnectNext, Reloading, DownPcs, TypeOK
    <3>4. Coming' \subseteq Coming /\ \A k \in Coming' : Ahead'[k] = Ahead[k]
      BY <3>1 DEF Coming, Ahead, OpenPcs, TypeOK
    <3>5. j \in Coming /\ Ahead[j] = {}
      BY <1>2, <2>1 DEF ConnectNext, Coming, Ahead, OpenPcs, Phases, TypeOK
    <3> QED
      BY <3>1, <3>2, <3>3, <3>4, <3>5 DEF ComesToAll, Accounted
  <2>2. CASE todo[j] # {}
    <3>1. PICK s \in todo[j] : /\ srv' = [srv EXCEPT ![j] = s]
                              /\ todo' = [todo EXCEPT ![j] = @ \ {s}]
                              /\ Continue(j, "create")
                              /\ UNCHANGED <<initialized, res>>
      BY <1>2, <2>2 DEF ConnectNext
    <3>2. op[j] \in {"connect", "reconnect"} /\ pc[j] = "next"
      BY <1>2 DEF ConnectNext, Phases
    <3>3. /\ UNCHANGED <<clients, errors, op, enabled, initialized, res>>
          /\ pc' = [pc EXCEPT ![j] = "create"]
      BY <1>2, <3>1 DEF ConnectNext, Continue
    <3>4. Handled \subseteq Handled'
      BY <3>1, <3>2, <3>3 DEF Handled, Named, Connected, TypeOK
    <3>5. (Reloading => Reloading') /\ Enabling \subseteq Enabling'
      BY <3>1, <3>2, <3>3 DEF Reloading, Enabling, OpenPcs, DownPcs, TypeOK
    <3>6. /\ Coming' \subseteq Coming
          /\ \A k \in Coming' : Ahead[k] \subseteq Ahead'[k] \cup Handled'
      BY <3>1, <3>2, <3>3 DEF Coming, Ahead, OpenPcs, TypeOK
    <3>7. Undeterred' => Undeterred
      BY <3>2, <3>3 DEF Undeterred, TypeOK
    <3> QED
      BY <3>3, <3>4, <3>5, <3>6, <3>7, Carried
  <2> QED
    BY <2>1, <2>2
<1>3. ASSUME NEW j \in Jobs, CreateClient(j)
      PROVE  ComesToAll' /\ (initialized' /\ Undeterred' => Accounted')
  BY <1>3, ConstantsOK DEF CreateClient, AwaitOn, ComesToAll, Undeterred,
     Accounted, Handled, Coming, Ahead, Named, Enabling, Reloading, Unconnected,
     Alone, Busy, Connected, Undisturbed, Phases, Begun, OpenPcs, DownPcs, TypeOK,
     Ops, Pcs
<1>4. ASSUME NEW j \in Jobs, CreateFails(j)
      PROVE  ComesToAll' /\ (initialized' /\ Undeterred' => Accounted')
  <2>1. Handled \subseteq Handled'
    BY <1>4 DEF CreateFails, ConnectFailed, Return, AwaitOn, Continue, Handled,
       Named, Connected, Unconnected, OpenPcs, Phases, TypeOK
  <2>2. Reloading => Reloading'
    BY <1>4 DEF CreateFails, ConnectFailed, Return, AwaitOn, Continue, Reloading,
       Phases, OpenPcs, DownPcs, TypeOK
  <2>3. enabled \cap Enabling \subseteq Enabling' \cup Handled'
    BY <1>4 DEF CreateFails, ConnectFailed, Return, AwaitOn, Continue, Enabling,
       Handled, Connected, Phases, OpenPcs, DownPcs, TypeOK
  <2>4. /\ Coming' \subseteq Coming
        /\ \A k \in Coming' : Ahead[k] \subseteq Ahead'[k] \cup Handled'
    BY <1>4 DEF CreateFails, ConnectFailed, Return, AwaitOn, Continue, Coming,
       Ahead, Handled, Connected, Phases, OpenPcs, DownPcs, TypeOK
  <2>5. initialized' /\ Undeterred' => initialized /\ Undeterred
    BY <1>4 DEF CreateFails, ConnectFailed, Return, AwaitOn, Continue, Undeterred,
       Phases, TypeOK
  <2>6. UNCHANGED enabled
    BY <1>4 DEF CreateFails, ConnectFailed, Return, AwaitOn, Continue
  <2> QED
    BY <2>1, <2>2, <2>3, <2>4, <2>5, <2>6, Carried
<1>5. ASSUME NEW j \in Jobs, SessionOpens(j)
      PROVE  ComesToAll' /\ (initialized' /\ Undeterred' => Accounted')
  BY <1>5, ConstantsOK DEF SessionOpens, Await, AwaitOn, ComesToAll, Undeterred,
     Accounted, Handled, Coming, Ahead, Named, Enabling, Reloading, Unconnected,
     Alone, Busy, Connected, Undisturbed, Phases, Begun, OpenPcs, DownPcs, TypeOK,
     Ops, Pcs
<1>6. ASSUME NEW j \in Jobs, SessionFails(j)
      PROVE  ComesToAll' /\ (initialized' /\ Undeterred' => Accounted')
  <2>1. Handled \subseteq Handled'
    BY <1>6 DEF SessionFails, ConnectFailed, Return, AwaitOn, Continue, Handled,
       Named, Connected, Unconnected, OpenPcs, Phases, TypeOK
  <2>2. Reloading => Reloading'
    BY <1>6 DEF SessionFails, ConnectFailed, Return, AwaitOn, Continue, Reloading,
       Phases, OpenPcs, DownPcs, TypeOK
  <2>3. enabled \cap Enabling \subseteq Enabling' \cup Handled'
    BY <1>6 DEF SessionFails, ConnectFailed, Return, AwaitOn, Continue, Enabling,
       Handled, Connected, Phases, OpenPcs, DownPcs, TypeOK
  <2>4. /\ Coming' \subseteq Coming
        /\ \A k \in Coming' : Ahead[k] \subseteq Ahead'[k] \cup Handled'
    BY <1>6 DEF SessionFails, ConnectFailed, Return, AwaitOn, Continue, Coming,
       Ahead, Handled, Connected, Phases, OpenPcs, DownPcs, TypeOK
  <2>5. initialized' /\ Undeterred' => initialized /\ Undeterred
    BY <1>6 DEF SessionFails, ConnectFailed, Return, AwaitOn, Continue, Undeterred,
       Phases, TypeOK
  <2>6. UNCHANGED enabled
    BY <1>6 DEF SessionFails, ConnectFailed, Return, AwaitOn, Continue
  <2> QED
    BY <2>1, <2>2, <2>3, <2>4, <2>5, <2>6, Carried
<1>7. ASSUME NEW j \in Jobs, ToolsListed(j)
      PROVE  ComesToAll' /\ (initialized' /\ Undeterred' => Accounted')
  <2>0. Connected' = Connected \cup {srv[j]}
    BY <1>7, ConstantsOK DEF ToolsListed, Connected, Owned, ClientsApart, OpeningApart,
       Opening, TypeOK
  <2>1. Handled \subseteq Handled'
    BY <1>7, <2>0 DEF ToolsListed, Return, AwaitOn, Continue, Handled, Named,
       Unconnected, OpenPcs, Phases, TypeOK
  <2>2. Reloading => Reloading'
    BY <1>7, <2>0 DEF ToolsListed, Return, AwaitOn, Continue, Reloading, Phases,
       OpenPcs,
       DownPcs, TypeOK
  <2>3. enabled \cap Enabling \subseteq Enabling' \cup Handled'
    BY <1>7, <2>0 DEF ToolsListed, Return, AwaitOn, Continue, Enabling, Handled,
       Phases, OpenPcs, DownPcs, TypeOK
  <2>4. /\ Coming' \subseteq Coming
        /\ \A k \in Coming' : Ahead[k] \subseteq Ahead'[k] \cup Handled'
    BY <1>7, <2>0 DEF ToolsListed, Return, AwaitOn, Continue, Coming, Ahead, Handled,
       Phases, OpenPcs, DownPcs, TypeOK
  <2>5. initialized' /\ Undeterred' => initialized /\ Undeterred
    BY <1>7, <2>0 DEF ToolsListed, Return, AwaitOn, Continue, Undeterred, Phases, TypeOK
  <2>6. UNCHANGED enabled
    BY <1>7, <2>0 DEF ToolsListed, Return, AwaitOn, Continue
  <2> QED
    BY <2>1, <2>2, <2>3, <2>4, <2>5, <2>6, Carried
<1>8. ASSUME NEW j \in Jobs, ListFails(j)
      PROVE  ComesToAll' /\ (initialized' /\ Undeterred' => Accounted')
  BY <1>8, ConstantsOK DEF ListFails, Await, AwaitOn, ComesToAll, Undeterred,
     Accounted, Handled, Coming, Ahead, Named, Enabling, Reloading, Unconnected,
     Alone, Busy, Connected, Undisturbed, Phases, Begun, OpenPcs, DownPcs, TypeOK,
     Ops, Pcs
<1>9. ASSUME NEW j \in Jobs, CleanupDone(j)
      PROVE  ComesToAll' /\ (initialized' /\ Undeterred' => Accounted')
  <2>1. Handled \subseteq Handled'
    BY <1>9 DEF CleanupDone, ConnectFailed, ConnectAborted, Return, AwaitOn,
       Continue, Exited, Handled, Named, Connected, Unconnected, OpenPcs, Phases,
       TypeOK
  <2>2. Reloading => Reloading'
    BY <1>9 DEF CleanupDone, ConnectFailed, ConnectAborted, Return, AwaitOn,
       Continue, Exited, Reloading, Phases, OpenPcs, DownPcs, TypeOK
  <2>3. enabled \cap Enabling \subseteq Enabling' \cup Handled'
    BY <1>9 DEF CleanupDone, ConnectFailed, ConnectAborted, Return, AwaitOn,
       Continue, Exited, Enabling, Handled, Connected, Phases, OpenPcs, DownPcs,
       TypeOK
  <2>4. /\ Coming' \subseteq Coming
        /\ \A k \in Coming' : Ahead[k] \subseteq Ahead'[k] \cup Handled'
    BY <1>9 DEF CleanupDone, ConnectFailed, ConnectAborted, Return, AwaitOn,
       Continue, Exited, Coming, Ahead, Handled, Connected, Phases, OpenPcs,
       DownPcs, TypeOK
  <2>5. initialized' /\ Undeterred' => initialized /\ Undeterred
    <3>1. CASE res[j] = "cancelled" /\ ConnectAborted(j)
      <4>1. op'[j] = "connect" /\ pc'[j] = "done" /\ res'[j] = "cancelled"
        BY <1>9, <3>1 DEF CleanupDone, ConnectAborted, Return, AwaitOn, Phases,
           TypeOK
      <4> QED
        BY <4>1 DEF Undeterred
    <3>2. CASE ConnectFailed(j)
      BY <1>9, <3>2 DEF CleanupDone, ConnectFailed, Return, AwaitOn, Continue,
         Undeterred, Phases, TypeOK
    <3> QED
      BY <1>9, <3>1, <3>2 DEF CleanupDone
  <2>6. UNCHANGED enabled
    BY <1>9 DEF CleanupDone, ConnectFailed, ConnectAborted, Return, AwaitOn,
       Continue, Exited
  <2> QED
    BY <2>1, <2>2, <2>3, <2>4, <2>5, <2>6, Carried
<1>10. ASSUME NEW j \in Jobs, CancelDelivered(j)
       PROVE  ComesToAll' /\ (initialized' /\ Undeterred' => Accounted')
  <2>1. Handled \subseteq Handled'
    BY <1>10 DEF CancelDelivered, ConnectAborted, Return, AwaitOn, Await, Exited,
       Handled, Named, Connected, Unconnected, OpenPcs, Phases, TypeOK
  <2>2. Reloading => Reloading'
    BY <1>10 DEF CancelDelivered, ConnectAborted, Return, AwaitOn, Await, Exited,
       Reloading, Phases, OpenPcs, DownPcs, TypeOK
  <2>3. enabled \cap Enabling \subseteq Enabling' \cup Handled'
    BY <1>10 DEF CancelDelivered, ConnectAborted, Return, AwaitOn, Await, Exited,
       Enabling, Handled, Connected, Phases, OpenPcs, DownPcs, TypeOK
  <2>4. /\ Coming' \subseteq Coming
        /\ \A k \in Coming' : Ahead[k] \subseteq Ahead'[k] \cup Handled'
    BY <1>10 DEF CancelDelivered, ConnectAborted, Return, AwaitOn, Await, Exited,
       Coming, Ahead, Handled, Connected, Phases, OpenPcs, DownPcs, TypeOK
  <2>5. initialized' /\ Undeterred' => initialized /\ Undeterred
    <3>1. CASE ConnectAborted(j)
      <4>1. op'[j] = "connect" /\ pc'[j] = "done" /\ res'[j] = "cancelled"
        BY <1>10, <3>1 DEF CancelDelivered, ConnectAborted, Return, AwaitOn, Phases,
           TypeOK
      <4> QED
        BY <4>1 DEF Undeterred
    <3>2. CASE ~ConnectAborted(j)
      BY <1>10, <3>2 DEF CancelDelivered, Return, AwaitOn, Await, Undeterred, Phases,
         TypeOK
    <3> QED
      BY <3>1, <3>2
  <2>6. UNCHANGED enabled
    BY <1>10 DEF CancelDelivered, ConnectAborted, Return, AwaitOn, Await, Exited
  <2> QED
    BY <2>1, <2>2, <2>3, <2>4, <2>5, <2>6, Carried
<1>11. ASSUME NEW j \in Jobs, ShutdownEntry(j)
       PROVE  ComesToAll' /\ (initialized' /\ Undeterred' => Accounted')
  <2>1. Handled \subseteq Handled'
    BY <1>11 DEF ShutdownEntry, IsConnecting, Await, AwaitOn, Continue, Handled,
       Named, Connected, Unconnected, OpenPcs, Phases, TypeOK
  <2>2. Reloading => Reloading'
    BY <1>11 DEF ShutdownEntry, IsConnecting, Await, AwaitOn, Continue, Reloading,
       Phases, OpenPcs, DownPcs, TypeOK
  <2>3. enabled \cap Enabling \subseteq Enabling' \cup Handled'
    BY <1>11 DEF ShutdownEntry, IsConnecting, Await, AwaitOn, Continue, Enabling,
       Handled, Connected, Phases, OpenPcs, DownPcs, TypeOK
  <2>4. /\ Coming' \subseteq Coming
        /\ \A k \in Coming' : Ahead[k] \subseteq Ahead'[k] \cup Handled'
    BY <1>11 DEF ShutdownEntry, IsConnecting, Await, AwaitOn, Continue, Coming,
       Ahead, Handled, Connected, Phases, OpenPcs, DownPcs, TypeOK
  <2>5. initialized' /\ Undeterred' => initialized /\ Undeterred
    BY <1>11 DEF ShutdownEntry, IsConnecting, Await, AwaitOn, Continue, Undeterred,
       Phases, TypeOK
  <2>6. UNCHANGED enabled
    BY <1>11 DEF ShutdownEntry, IsConnecting, Await, AwaitOn, Continue
  <2> QED
    BY <2>1, <2>2, <2>3, <2>4, <2>5, <2>6, Carried
<1>12. ASSUME NEW j \in Jobs, TaskEnded(j)
       PROVE  ComesToAll' /\ (initialized' /\ Undeterred' => Accounted')
  BY <1>12, ConstantsOK DEF TaskEnded, Continue, ComesToAll, Undeterred,
     Accounted, Handled, Coming, Ahead, Named, Enabling, Reloading, Unconnected,
     Alone, Busy, Connected, Undisturbed, Phases, Begun, OpenPcs, DownPcs, TypeOK,
     Ops, Pcs
<1>13. ASSUME NEW j \in Jobs, Snapshot(j)
       PROVE  ComesToAll' /\ (initialized' /\ Undeterred' => Accounted')
  <2>1. Handled \subseteq Handled'
    BY <1>13 DEF Snapshot, ShutdownReturns, Return, AwaitOn, Continue, Handled,
       Named, Connected, Unconnected, OpenPcs, Phases, TypeOK
  <2>2. Reloading => Reloading'
    BY <1>13 DEF Snapshot, ShutdownReturns, Return, AwaitOn, Continue, Reloading,
       Phases, OpenPcs, DownPcs, TypeOK
  <2>3. enabled \cap Enabling \subseteq Enabling' \cup Handled'
    BY <1>13 DEF Snapshot, ShutdownReturns, Return, AwaitOn, Continue, Enabling,
       Handled, Connected, Phases, OpenPcs, DownPcs, TypeOK
  <2>4. /\ Coming' \subseteq Coming
        /\ \A k \in Coming' : Ahead[k] \subseteq Ahead'[k] \cup Handled'
    BY <1>13 DEF Snapshot, ShutdownReturns, Return, AwaitOn, Continue, Coming, Ahead,
       Handled, Connected, Phases, OpenPcs, DownPcs, TypeOK
  <2>5. initialized' /\ Undeterred' => initialized /\ Undeterred
    BY <1>13 DEF Snapshot, ShutdownReturns, Return, AwaitOn, Continue, Undeterred,
       Phases, TypeOK
  <2>6. UNCHANGED enabled
    BY <1>13 DEF Snapshot, ShutdownReturns, Return, AwaitOn, Continue
  <2> QED
    BY <2>1, <2>2, <2>3, <2>4, <2>5, <2>6, Carried
<1>14. ASSUME NEW j \in Jobs, CloseNext(j)
       PROVE  ComesToAll' /\ (initialized' /\ Undeterred' => Accounted')
  BY <1>14, ConstantsOK DEF CloseNext, AwaitOn, ComesToAll, Undeterred, Accounted,
     Handled, Coming, Ahead, Named, Enabling, Reloading, Unconnected, Alone, Busy,
     Connected, Undisturbed, Phases, Begun, OpenPcs, DownPcs, TypeOK, Ops, Pcs
<1>15. ASSUME NEW j \in Jobs, SessionExits(j)
       PROVE  ComesToAll' /\ (initialized' /\ Undeterred' => Accounted')
  BY <1>15, ConstantsOK DEF SessionExits, Await, AwaitOn, Exited, ComesToAll,
     Undeterred, Accounted, Handled, Coming, Ahead, Named, Enabling, Reloading,
     Unconnected, Alone, Busy, Connected, Undisturbed, Phases, Begun, OpenPcs,
     DownPcs, TypeOK, Ops, Pcs
<1>16. ASSUME NEW j \in Jobs, TransportCloses(j)
       PROVE  ComesToAll' /\ (initialized' /\ Undeterred' => Accounted')
  BY <1>16, ConstantsOK DEF TransportCloses, Continue, ComesToAll, Undeterred,
     Accounted, Handled, Coming, Ahead, Named, Enabling, Reloading, Unconnected,
     Alone, Busy, Connected, Undisturbed, Phases, Begun, OpenPcs, DownPcs, TypeOK,
     Ops, Pcs
<1>17. ASSUME NEW j \in Jobs, CloseRaises(j)
       PROVE  ComesToAll' /\ (initialized' /\ Undeterred' => Accounted')
  BY <1>17, ConstantsOK DEF CloseRaises, Continue, Exited, ComesToAll, Undeterred,
     Accounted, Handled, Coming, Ahead, Named, Enabling, Reloading, Unconnected,
     Alone, Busy, Connected, Undisturbed, Phases, Begun, OpenPcs, DownPcs, TypeOK,
     Ops, Pcs
<1>18. ASSUME NEW j \in Jobs, ClearAll(j)
       PROVE  ComesToAll' /\ (initialized' /\ Undeterred' => Accounted')
  <2>1. Coming' = {}
    BY <1>18 DEF ClearAll, ShutdownReturns, Return, AwaitOn, Continue, Coming, Alone,
       Busy, Phases, OpenPcs, DownPcs, TypeOK
  <2>2. initialized' = FALSE
    BY <1>18 DEF ClearAll
  <2> QED
    BY <2>1, <2>2 DEF ComesToAll
<1>19. ASSUME NEW j \in Jobs, EnableEntry(j)
       PROVE  ComesToAll' /\ (initialized' /\ Undeterred' => Accounted')
  <2>1. Handled \subseteq Handled'
    BY <1>19 DEF EnableEntry, ConfigRead, Return, AwaitOn, Continue, Handled, Named, Connected,
       Unconnected, OpenPcs, Phases, TypeOK
  <2>2. Reloading => Reloading'
    BY <1>19 DEF EnableEntry, ConfigRead, Return, AwaitOn, Continue, Reloading, Phases, OpenPcs,
       DownPcs, TypeOK
  <2>3. enabled \cap Enabling \subseteq Enabling' \cup Handled'
    BY <1>19, ConfigHeld DEF EnableEntry, ConfigRead, Return, AwaitOn, Continue, Enabling, Handled,
       Connected, Phases, OpenPcs, DownPcs, TypeOK
  <2>4. /\ Coming' \subseteq Coming
        /\ \A k \in Coming' : Ahead[k] \subseteq Ahead'[k] \cup Handled'
    BY <1>19 DEF EnableEntry, ConfigRead, Return, AwaitOn, Continue, Coming, Ahead, Handled,
       Connected, Phases, OpenPcs, DownPcs, TypeOK
  <2>5. initialized' /\ Undeterred' => initialized /\ Undeterred
    BY <1>19 DEF EnableEntry, ConfigRead, Return, AwaitOn, Continue, Undeterred, Phases, TypeOK
  <2>6. UNCHANGED enabled
    BY <1>19 DEF EnableEntry, ConfigRead, Return, AwaitOn, Continue
  <2> QED
    BY <2>1, <2>2, <2>3, <2>4, <2>5, <2>6, Carried
<1>20. ASSUME NEW j \in Jobs, DisableEntry(j)
       PROVE  ComesToAll' /\ (initialized' /\ Undeterred' => Accounted')
  <2>1. Handled \subseteq Handled'
    BY <1>20 DEF DisableEntry, Return, AwaitOn, Handled, Named, Connected,
       Unconnected, OpenPcs, Phases, TypeOK
  <2>2. Reloading => Reloading'
    BY <1>20 DEF DisableEntry, Return, AwaitOn, Reloading, Phases, OpenPcs, DownPcs,
       TypeOK
  <2>3. enabled \cap Enabling \subseteq Enabling' \cup Handled'
    BY <1>20 DEF DisableEntry, Return, AwaitOn, Enabling, Handled, Connected, Phases,
       OpenPcs, DownPcs, TypeOK
  <2>4. /\ Coming' \subseteq Coming
        /\ \A k \in Coming' : Ahead[k] \subseteq Ahead'[k] \cup Handled'
    BY <1>20 DEF DisableEntry, Return, AwaitOn, Coming, Ahead, Handled, Connected,
       Phases, OpenPcs, DownPcs, TypeOK
  <2>5. initialized' /\ Undeterred' => initialized /\ Undeterred
    BY <1>20 DEF DisableEntry, Return, AwaitOn, Undeterred, Phases, TypeOK
  <2>6. UNCHANGED enabled
    BY <1>20 DEF DisableEntry, Return, AwaitOn
  <2> QED
    BY <2>1, <2>2, <2>3, <2>4, <2>5, <2>6, Carried
<1>21. ASSUME NEW j \in Jobs, SessionLeft(j)
       PROVE  ComesToAll' /\ (initialized' /\ Undeterred' => Accounted')
  BY <1>21, ConstantsOK DEF SessionLeft, Return, AwaitOn, Exited, ComesToAll,
     Undeterred, Accounted, Handled, Coming, Ahead, Named, Enabling, Reloading,
     Unconnected, Alone, Busy, Connected, Undisturbed, Phases, Begun, OpenPcs,
     DownPcs, TypeOK, Ops, Pcs
<1>22. ASSUME NEW j \in Jobs, CallEntry(j)
       PROVE  ComesToAll' /\ (initialized' /\ Undeterred' => Accounted')
  <2>1. Handled \subseteq Handled'
    BY <1>22 DEF CallEntry, Return, AwaitOn, Handled, Named, Connected, Unconnected,
       OpenPcs, Phases, TypeOK
  <2>2. Reloading => Reloading'
    BY <1>22 DEF CallEntry, Return, AwaitOn, Reloading, Phases, OpenPcs, DownPcs,
       TypeOK
  <2>3. enabled \cap Enabling \subseteq Enabling' \cup Handled'
    BY <1>22 DEF CallEntry, Return, AwaitOn, Enabling, Handled, Connected, Phases,
       OpenPcs, DownPcs, TypeOK
  <2>4. /\ Coming' \subseteq Coming
        /\ \A k \in Coming' : Ahead[k] \subseteq Ahead'[k] \cup Handled'
    BY <1>22 DEF CallEntry, Return, AwaitOn, Coming, Ahead, Handled, Connected,
       Phases, OpenPcs, DownPcs, TypeOK
  <2>5. initialized' /\ Undeterred' => initialized /\ Undeterred
    BY <1>22 DEF CallEntry, Return, AwaitOn, Undeterred, Phases, TypeOK
  <2>6. UNCHANGED enabled
    BY <1>22 DEF CallEntry, Return, AwaitOn
  <2> QED
    BY <2>1, <2>2, <2>3, <2>4, <2>5, <2>6, Carried
<1>23. ASSUME NEW j \in Jobs, CallTimesOut(j)
       PROVE  ComesToAll' /\ (initialized' /\ Undeterred' => Accounted')
  BY <1>23, ConstantsOK DEF CallTimesOut, Return, AwaitOn, ComesToAll, Undeterred,
     Accounted, Handled, Coming, Ahead, Named, Enabling, Reloading, Unconnected,
     Alone, Busy, Connected, Undisturbed, Phases, Begun, OpenPcs, DownPcs, TypeOK,
     Ops, Pcs
<1>24. ASSUME NEW j \in Jobs, CallReturns(j)
       PROVE  ComesToAll' /\ (initialized' /\ Undeterred' => Accounted')
  BY <1>24, ConstantsOK DEF CallReturns, Return, AwaitOn, ComesToAll, Undeterred,
     Accounted, Handled, Coming, Ahead, Named, Enabling, Reloading, Unconnected,
     Alone, Busy, Connected, Undisturbed, Phases, Begun, OpenPcs, DownPcs, TypeOK,
     Ops, Pcs
<1>25. ASSUME NEW j \in Jobs, ConnectBackground(j)
       PROVE  ComesToAll' /\ (initialized' /\ Undeterred' => Accounted')
  BY <1>25, SubmitCarried DEF ConnectBackground, Scheduled, Ops, Pcs, OpenPcs, TypeOK
<1>26. ASSUME NEW j \in Jobs, SubmitReconnect(j)
       PROVE  ComesToAll' /\ (initialized' /\ Undeterred' => Accounted')
  BY <1>26, ConstantsOK DEF SubmitReconnect, Submit, Scheduled, ComesToAll,
     Undeterred, Accounted, Handled, Coming, Ahead, Named, Enabling, Reloading,
     Unconnected, Alone, Busy, Connected, Undisturbed, Phases, Begun, OpenPcs,
     DownPcs, TypeOK, Ops, Pcs
<1>27. ASSUME NEW j \in Jobs, BeginShutdown(j)
       PROVE  ComesToAll' /\ (initialized' /\ Undeterred' => Accounted')
  BY <1>27, SubmitCarried DEF BeginShutdown, Continue, Ops, Pcs, OpenPcs, TypeOK
<1>28. ASSUME NEW j \in Jobs, ResetState(j)
       PROVE  ComesToAll' /\ (initialized' /\ Undeterred' => Accounted')
  BY <1>28, ConstantsOK DEF ResetState, EmptyRegistry, ComesToAll, Undeterred,
     Accounted, Handled, Coming, Ahead, Named, Enabling, Reloading, Unconnected,
     Alone, Busy, Connected, Undisturbed, Phases, Begun, OpenPcs, DownPcs, TypeOK,
     Ops, Pcs
<1>29. ASSUME NEW j \in Jobs, NEW s \in Servers, SubmitEnable(j, s)
       PROVE  ComesToAll' /\ (initialized' /\ Undeterred' => Accounted')
  <2>1. Coming' = {}
    BY <1>29 DEF SubmitEnable, Submit, Scheduled, Undisturbed, Coming, Phases, OpenPcs, TypeOK
  <2>2. Handled \subseteq Handled' /\ (Reloading => Reloading')
    BY <1>29 DEF SubmitEnable, Submit, Scheduled, Handled, Named, Connected, Reloading,
       Phases, DownPcs, TypeOK
  <2>3. Enabling \cup {s} \subseteq Enabling'
    BY <1>29 DEF SubmitEnable, Submit, Scheduled, Enabling, Phases, OpenPcs, TypeOK
  <2>4. UNCHANGED initialized /\ enabled' \subseteq enabled \cup {s}
    BY <1>29 DEF SubmitEnable, Submit
  <2>5. Undeterred' => Undeterred
    BY <1>29 DEF SubmitEnable, Submit, Scheduled, Undeterred, Phases, TypeOK
  <2> QED
    BY <2>1, <2>2, <2>3, <2>4, <2>5 DEF ComesToAll, Accounted
<1>30. ASSUME NEW j \in Jobs, NEW s \in Servers, SubmitDisable(j, s)
       PROVE  ComesToAll' /\ (initialized' /\ Undeterred' => Accounted')
  BY <1>30, ConstantsOK DEF SubmitDisable, Submit, Scheduled, ComesToAll,
     Undeterred, Accounted, Handled, Coming, Ahead, Named, Enabling, Reloading,
     Unconnected, Alone, Busy, Connected, Undisturbed, Phases, Begun, OpenPcs,
     DownPcs, TypeOK, Ops, Pcs
<1>31. ASSUME NEW j \in Jobs, NEW s \in Servers, SubmitCall(j, s)
       PROVE  ComesToAll' /\ (initialized' /\ Undeterred' => Accounted')
  BY <1>31, ConstantsOK, SMTT(30) DEF SubmitCall, Submit, Scheduled, ComesToAll, Undeterred,
     Accounted, Handled, Coming, Ahead, Named, Enabling, Reloading, Unconnected,
     Alone, Busy, Connected, Undisturbed, Phases, Begun, OpenPcs, DownPcs, TypeOK,
     Ops, Pcs
<1>32. CASE UNCHANGED vars
  BY <1>32 DEF vars, ComesToAll, Undeterred, Accounted, Handled, Coming, Ahead,
     Named, Enabling, Reloading, Unconnected, Alone, Busy, Connected, Undisturbed,
     Phases, Begun, OpenPcs, DownPcs, TypeOK, Ops, Pcs
<1> QED
  BY <1>1, <1>2, <1>3, <1>4, <1>5, <1>6, <1>7, <1>8, <1>9, <1>10, <1>11, <1>12,
     <1>13, <1>14, <1>15, <1>16, <1>17, <1>18, <1>19, <1>20, <1>21, <1>22, <1>23,
     <1>24, <1>25, <1>26, <1>27, <1>28, <1>29, <1>30, <1>31, <1>32 DEF Next,
     SubmitSome, Step
-----------------------------------------------------------------------------
\* The conjunction is inductive.
LEMMA CalmStep == TypeOK /\ Owned /\ CalmInv /\ [Next]_vars => CalmInv'
<1> SUFFICES ASSUME TypeOK, Owned, CalmInv, [Next]_vars PROVE CalmInv'
  OBVIOUS
<1>1. Phases /\ Begun
  BY DEF CalmInv, Course
<1>2. Course'
  BY <1>1, PhasesStep, BegunStep DEF Course
<1>3. ASSUME calm' PROVE Calm'
  <2>1. Calm
    BY <1>3, CalmStays DEF CalmInv
  <2>2. Alone' /\ TaskKnown'
    BY <1>1, <1>3, <2>1, AloneStep DEF Calm
  <2>7. Current'
    BY <1>1, <1>3, <2>1, CurrentStep DEF Calm
  <2>3. Unconnected'
    BY <1>1, <1>3, <2>1, UnconnectedStep DEF Calm
  <2>4. ClosesAll' /\ NoLeak'
    BY <1>1, <1>3, <2>1, HandsStep DEF Calm
  <2>5. NoError' /\ StaysEnabled' /\ WillBeEnabled'
    BY <1>1, <1>3, <2>1, EnabledStep DEF Calm
  <2>6. ComesToAll' /\ (initialized' /\ Undeterred' => Accounted')
    BY <1>1, <1>3, <2>1, AccountStep DEF Calm
  <2> QED
    BY <2>2, <2>3, <2>4, <2>5, <2>6, <2>7 DEF Calm
<1> QED
  BY <1>2, <1>3 DEF CalmInv

\* The invariant this module and ProxyManagerProofs rest on.
LEMMA CalmInvariant == Spec => [](TypeOK /\ Owned /\ CalmInv)
  BY TypeInit, TypeStep, OwnedInit, OwnedStep, CalmInit, CalmStep, PTL DEF Spec

\* No open session is forgotten as long as lifecycle operations do not overlap.
THEOREM NoLeakCorrect == Spec => []CalmNoLeak
<1>1. CalmInv => CalmNoLeak
  BY DEF CalmInv, Calm, NoLeak, CalmNoLeak
<1> QED
  BY <1>1, CalmInvariant, PTL

\* When nothing but calls is under way, the registry says what the configuration says.
THEOREM SettledCorrect == Spec => []CalmSettled
<1>1. ASSUME TypeOK, CalmInv PROVE CalmSettled
  <2> SUFFICES ASSUME calm, Settled,
                      \A j \in Jobs : op[j] \in {"connect", "reconnect"} =>
                                       res[j] \notin {"cancelled", "noop"}
               PROVE  /\ \A s \in Connected : s \in enabled /\ errors[s] = "none"
                      /\ \A s \in enabled \ Connected :
                           \/ errors[s] # "none"
                           \/ \E j \in Jobs : op[j] = "disable" /\ srv[j] = s
    BY DEF CalmSettled
  <2>1. Phases /\ Calm
    BY <1>1 DEF CalmInv, Course
  <2>2. \A j \in Jobs : pc[j] \in {"idle", "done", "call", "calling"}
    BY <1>1, <2>1 DEF Settled, Phases, OpenPcs, DownPcs, TypeOK, Pcs
  <2>3. Down = {} /\ ~Reloading /\ Enabling = {}
    BY <2>2 DEF Down, Reloading, Enabling, OpenPcs, DownPcs
  <2>4. \A s \in Connected : s \in enabled /\ errors[s] = "none"
    BY <2>1, <2>2, <2>3 DEF Calm, NoError, StaysEnabled
  <2>5. Undeterred
    BY DEF Undeterred
  <2>6. enabled \subseteq Handled
    BY <2>1, <2>3, <2>5 DEF Calm, Accounted, Settled
  <2> QED
    BY <2>4, <2>6 DEF Handled, Named
<1> QED
  BY <1>1, CalmInvariant, PTL
=============================================================================
