------------------------ MODULE ServerControlProofs ------------------------
(***************************************************************************)
(* Proofs about ServerControl, for any number of requests, servers,        *)
(* clients and coroutines:                                                 *)
(*   UsesManager       requests, their threads and their time-outs use the *)
(*                     manager as ProxyManager says: a refinement          *)
(*   HeldAlone         user code on the loop thread meets no connection    *)
(*   ReqTypeCorrect    the type invariant                                  *)
(*   ReqRegistered     what ProxyManagerProofs shows of the manager alone  *)
(*                     holds under the requests too                        *)
(*   ReqSessions       sessions come and go as SessionRegistry says        *)
(* A step of a coroutine needs a loop that is free or its own, so that no  *)
(* request has it; a request that takes, keeps or gives up the loop is a   *)
(* stutter of the manager.  Type correctness of the manager's part and its *)
(* other invariants then follow from the theorems about the manager.       *)
(***************************************************************************)
EXTENDS ServerControl, TLAPS

M == INSTANCE ProxyManagerProofs WITH loop <- IF loop \in Requests THEN Free ELSE loop

USE DEF mgr, locals, env, PM!mgr, PM!locals, PM!env

\* What requests keep.
ReqTyped ==
  /\ rpc \in [Requests -> {"idle", "run", "wait", "rerun", "done"}]
  /\ want \in [Requests -> Wants]
  /\ target \in [Requests -> Servers]
  /\ waits \in [Requests -> Jobs \cup {NoJob}]
  /\ reply \in [Requests -> Replies]
-----------------------------------------------------------------------------
\* A coroutine runs only when no request has the loop: its steps are the manager's.
LEMMA StepIsManagers ==
  ASSUME NEW j \in Jobs, Step(j) \/ CallReturns(j)
  PROVE  (PM!Step(j) \/ PM!CallReturns(j)) /\ loop' \in {Free, j}
<1> USE ConstantsOK, RequestsHold
<1>1. ASSUME ConnectEntry(j) PROVE PM!ConnectEntry(j) /\ loop' \in {Free, j}
  BY <1>1 DEF ConnectEntry, PM!ConnectEntry, ConfigRead, PM!ConfigRead, Config, PM!Config, CanRun, Return, AwaitOn, Continue, PM!CanRun,
     PM!Return, PM!AwaitOn, PM!Continue
<1>2. ASSUME ConnectNext(j) PROVE PM!ConnectNext(j) /\ loop' \in {Free, j}
  BY <1>2 DEF ConnectNext, PM!ConnectNext, CanRun, Return, AwaitOn, Continue, PM!CanRun,
     PM!Return, PM!AwaitOn, PM!Continue
<1>3. ASSUME CreateClient(j) PROVE PM!CreateClient(j) /\ loop' \in {Free, j}
  BY <1>3 DEF CreateClient, PM!CreateClient, CanRun, AwaitOn, Fresh, PM!CanRun, PM!AwaitOn,
     PM!Fresh
<1>4. ASSUME CreateFails(j) PROVE PM!CreateFails(j) /\ loop' \in {Free, j}
  BY <1>4 DEF CreateFails, PM!CreateFails, CanRun, ConnectFailed, Return, AwaitOn, Continue,
     PM!CanRun, PM!ConnectFailed, PM!Return, PM!AwaitOn, PM!Continue
<1>5. ASSUME SessionOpens(j) PROVE PM!SessionOpens(j) /\ loop' \in {Free, j}
  BY <1>5 DEF SessionOpens, PM!SessionOpens, CanRun, Await, AwaitOn, PM!CanRun, PM!Await,
     PM!AwaitOn
<1>6. ASSUME SessionFails(j) PROVE PM!SessionFails(j) /\ loop' \in {Free, j}
  BY <1>6 DEF SessionFails, PM!SessionFails, CanRun, ConnectFailed, Return, AwaitOn, Continue,
     PM!CanRun, PM!ConnectFailed, PM!Return, PM!AwaitOn, PM!Continue
<1>7. ASSUME ToolsListed(j) PROVE PM!ToolsListed(j) /\ loop' \in {Free, j}
  BY <1>7 DEF ToolsListed, PM!ToolsListed, CanRun, Return, AwaitOn, Continue, PM!CanRun,
     PM!Return, PM!AwaitOn, PM!Continue
<1>8. ASSUME ListFails(j) PROVE PM!ListFails(j) /\ loop' \in {Free, j}
  BY <1>8 DEF ListFails, PM!ListFails, CanRun, Await, AwaitOn, PM!CanRun, PM!Await, PM!AwaitOn
<1>9. ASSUME CleanupDone(j) PROVE PM!CleanupDone(j) /\ loop' \in {Free, j}
  BY <1>9 DEF CleanupDone, PM!CleanupDone, CanRun, Exited, ConnectAborted, ConnectFailed, Return,
     AwaitOn, Continue, PM!CanRun, PM!Exited, PM!ConnectAborted, PM!ConnectFailed,
     PM!Return, PM!AwaitOn, PM!Continue
<1>10. ASSUME CancelDelivered(j) PROVE PM!CancelDelivered(j) /\ loop' \in {Free, j}
  BY <1>10 DEF CancelDelivered, PM!CancelDelivered, Exited, ConnectAborted, Return, AwaitOn,
     Await, PM!Exited, PM!ConnectAborted, PM!Return, PM!AwaitOn, PM!Await
<1>11. ASSUME ShutdownEntry(j) PROVE PM!ShutdownEntry(j) /\ loop' \in {Free, j}
  BY <1>11 DEF ShutdownEntry, PM!ShutdownEntry, CanRun, IsConnecting, Await, AwaitOn, Continue,
     PM!CanRun, PM!IsConnecting, PM!Await, PM!AwaitOn, PM!Continue
<1>12. ASSUME TaskEnded(j) PROVE PM!TaskEnded(j) /\ loop' \in {Free, j}
  BY <1>12 DEF TaskEnded, PM!TaskEnded, CanRun, Continue, PM!CanRun, PM!Continue
<1>13. ASSUME Snapshot(j) PROVE PM!Snapshot(j) /\ loop' \in {Free, j}
  BY <1>13 DEF Snapshot, PM!Snapshot, CanRun, Connected, Registered, ShutdownReturns, Return,
     AwaitOn, Continue, PM!CanRun, PM!Connected, PM!Registered, PM!ShutdownReturns,
     PM!Return, PM!AwaitOn, PM!Continue
<1>14. ASSUME CloseNext(j) PROVE PM!CloseNext(j) /\ loop' \in {Free, j}
  BY <1>14 DEF CloseNext, PM!CloseNext, CanRun, AwaitOn, PM!CanRun, PM!AwaitOn
<1>15. ASSUME SessionExits(j) PROVE PM!SessionExits(j) /\ loop' \in {Free, j}
  BY <1>15 DEF SessionExits, PM!SessionExits, CanRun, Exited, Await, AwaitOn, PM!CanRun,
     PM!Exited, PM!Await, PM!AwaitOn
<1>16. ASSUME TransportCloses(j) PROVE PM!TransportCloses(j) /\ loop' \in {Free, j}
  BY <1>16 DEF TransportCloses, PM!TransportCloses, CanRun, Continue, PM!CanRun, PM!Continue
<1>17. ASSUME CloseRaises(j) PROVE PM!CloseRaises(j) /\ loop' \in {Free, j}
  BY <1>17 DEF CloseRaises, PM!CloseRaises, CanRun, Exited, Continue, PM!CanRun, PM!Exited,
     PM!Continue
<1>18. ASSUME ClearAll(j) PROVE PM!ClearAll(j) /\ loop' \in {Free, j}
  BY <1>18 DEF ClearAll, PM!ClearAll, CanRun, EmptyRegistry, ShutdownReturns, Return, AwaitOn,
     Continue, PM!CanRun, PM!EmptyRegistry, PM!ShutdownReturns, PM!Return, PM!AwaitOn,
     PM!Continue
<1>19. ASSUME EnableEntry(j) PROVE PM!EnableEntry(j) /\ loop' \in {Free, j}
  BY <1>19 DEF EnableEntry, PM!EnableEntry, ConfigRead, PM!ConfigRead, Config, PM!Config, CanRun, Connected, Return, AwaitOn, Continue,
     PM!CanRun, PM!Connected, PM!Return, PM!AwaitOn, PM!Continue
<1>20. ASSUME DisableEntry(j) PROVE PM!DisableEntry(j) /\ loop' \in {Free, j}
  BY <1>20 DEF DisableEntry, PM!DisableEntry, CanRun, Connected, Return, AwaitOn, PM!CanRun,
     PM!Connected, PM!Return, PM!AwaitOn
<1>21. ASSUME SessionLeft(j) PROVE PM!SessionLeft(j) /\ loop' \in {Free, j}
  BY <1>21 DEF SessionLeft, PM!SessionLeft, CanRun, Exited, Return, AwaitOn, PM!CanRun, PM!Exited,
     PM!Return, PM!AwaitOn
<1>22. ASSUME CallEntry(j) PROVE PM!CallEntry(j) /\ loop' \in {Free, j}
  BY <1>22 DEF CallEntry, PM!CallEntry, CanRun, Connected, Return, AwaitOn, PM!CanRun,
     PM!Connected, PM!Return, PM!AwaitOn
<1>23. ASSUME CallTimesOut(j) PROVE PM!CallTimesOut(j) /\ loop' \in {Free, j}
  BY <1>23 DEF CallTimesOut, PM!CallTimesOut, CanRun, Return, AwaitOn, PM!CanRun, PM!Return,
     PM!AwaitOn
<1>24. ASSUME CallReturns(j) PROVE PM!CallReturns(j) /\ loop' \in {Free, j}
  BY <1>24 DEF CallReturns, PM!CallReturns, CanRun, Return, AwaitOn, PM!CanRun, PM!Return,
     PM!AwaitOn
<1> QED
  BY <1>1, <1>2, <1>3, <1>4, <1>5, <1>6, <1>7, <1>8, <1>9, <1>10, <1>11, <1>12, <1>13,
     <1>14, <1>15, <1>16, <1>17, <1>18, <1>19, <1>20, <1>21, <1>22, <1>23, <1>24 DEF
     Step, PM!Step

\* A coroutine that a request or the lifespan submits, and a reset, are the manager's.
LEMMA SubmissionIsManagers ==
  ASSUME NEW r \in Requests, NEW j \in Jobs, ReqTyped,
         \/ ServerEnable(r, j) \/ ServerDisable(r, j) \/ ServerRestart(r, j)
         \/ Reload(r, j) \/ ReloadEmpty(r, j) \/ CallTool(r, j)
  PROVE  PM!SubmitSome(j)
<1> DEFINE s == target[r]
<1> USE DEF PM!LoopKnown, LoopKnown, PM!Scheduled, Scheduled, PM!Submit, Submit,
            PM!Undisturbed, Undisturbed
<1>1. s \in Servers
  BY DEF ReqTyped
<1>2. ASSUME ServerEnable(r, j) PROVE PM!SubmitEnable(j, s)
  BY <1>2 DEF ServerEnable, SubmitEnable, PM!SubmitEnable
<1>3. ASSUME ServerDisable(r, j) PROVE PM!SubmitDisable(j, s)
  BY <1>3 DEF ServerDisable, SubmitDisable, PM!SubmitDisable
<1>4. ASSUME ServerRestart(r, j) PROVE PM!SubmitDisable(j, s)
  BY <1>4 DEF ServerRestart, SubmitDisable, PM!SubmitDisable
<1>5. ASSUME Reload(r, j) PROVE PM!SubmitReconnect(j)
  BY <1>5 DEF Reload, SubmitReconnect, PM!SubmitReconnect, ConfigReplaced,
     PM!ConfigReplaced, HoldsConfig, PM!HoldsConfig, DownPcs, PM!DownPcs
<1>6. ASSUME ReloadEmpty(r, j) PROVE PM!ResetState(j)
  BY <1>6 DEF ReloadEmpty, ResetState, PM!ResetState, EmptyRegistry, PM!EmptyRegistry,
     ConfigReplaced, PM!ConfigReplaced, HoldsConfig, PM!HoldsConfig, DownPcs, PM!DownPcs
<1>7. ASSUME CallTool(r, j) PROVE PM!SubmitCall(j, s)
  BY <1>7 DEF CallTool, SubmitCall, PM!SubmitCall
<1> QED
  BY <1>1, <1>2, <1>3, <1>4, <1>5, <1>6, <1>7 DEF PM!SubmitSome

LEMMA LifespanIsManagers ==
  ASSUME NEW j \in Jobs, LifespanStep(j)
  PROVE  PM!SubmitSome(j)
<1> USE ConstantsOK, RequestsHold
<1> USE DEF PM!LoopKnown, LoopKnown, PM!Scheduled, Scheduled, PM!Submit, Submit,
            PM!Undisturbed, Undisturbed
<1>1. ASSUME ConnectBackground(j) PROVE PM!ConnectBackground(j)
  BY <1>1 DEF ConnectBackground, PM!ConnectBackground
<1>2. ASSUME BeginShutdown(j) PROVE PM!BeginShutdown(j)
  BY <1>2 DEF BeginShutdown, PM!BeginShutdown, Continue, PM!Continue, Connected,
     PM!Connected, IsConnecting, PM!IsConnecting
<1> QED
  BY <1>1, <1>2 DEF LifespanStep, PM!SubmitSome

\* The other steps of a request take, keep or give up the loop, and nothing else.
LEMMA RestIsStutter ==
  ASSUME NEW r \in Requests,
         \/ \E w \in Wants, s \in Servers : Arrive(r, w, s)
         \/ AlreadyThere(r) \/ ResultArrives(r) \/ ResultTimesOut(r)
  PROVE  UNCHANGED PM!vars
<1> USE ConstantsOK, RequestsHold DEF PM!vars
<1>1. ASSUME NEW w \in Wants, NEW s \in Servers, Arrive(r, w, s) PROVE UNCHANGED PM!vars
  BY <1>1 DEF Arrive
<1>2. CASE AlreadyThere(r)
  BY <1>2 DEF AlreadyThere, Release
<1>3. CASE ResultArrives(r)
  BY <1>3 DEF ResultArrives, Release
<1>4. CASE ResultTimesOut(r)
  BY <1>4 DEF ResultTimesOut, Release
<1> QED
  BY <1>1, <1>2, <1>3, <1>4

LEMMA ManagerStep == ReqTyped /\ [ReqNext]_rvars => [PM!Next]_PM!vars
<1> SUFFICES ASSUME ReqTyped, [ReqNext]_rvars PROVE [PM!Next]_PM!vars
  OBVIOUS
<1>1. CASE UNCHANGED rvars
  BY <1>1 DEF rvars, vars, PM!vars
<1>2. ASSUME NEW r \in Requests, NEW w \in Wants, NEW s \in Servers, Arrive(r, w, s)
      PROVE  UNCHANGED PM!vars
  BY <1>2, RestIsStutter
<1>3. ASSUME NEW r \in Requests, RequestStep(r) PROVE [PM!Next]_PM!vars
  BY <1>3, RestIsStutter, SubmissionIsManagers DEF RequestStep, PM!Next
<1>4. ASSUME NEW j \in Jobs, LifespanStep(j) \/ Step(j) \/ CallReturns(j) PROVE PM!Next
  BY <1>4, LifespanIsManagers, StepIsManagers DEF PM!Next
<1> QED
  BY <1>1, <1>2, <1>3, <1>4 DEF ReqNext

LEMMA ManagerInit == ReqInit => PM!Init
  BY ConstantsOK, RequestsHold DEF ReqInit, Init, PM!Init
-----------------------------------------------------------------------------
LEMMA ReqTypedInit == ReqInit => ReqTyped
<1> SUFFICES ASSUME ReqInit PROVE ReqTyped
  OBVIOUS
<1>1. (CHOOSE s \in Servers : TRUE) \in Servers
  BY ConstantsOK
<1> QED
  BY <1>1 DEF ReqInit, ReqTyped, Wants, Replies

LEMMA ReqTypedStep == ReqTyped /\ [ReqNext]_rvars => ReqTyped'
<1> SUFFICES ASSUME ReqTyped, [ReqNext]_rvars PROVE ReqTyped'
  OBVIOUS
<1> USE DEF ReqTyped, Wants, Replies
<1>1. CASE UNCHANGED reqs
  BY <1>1 DEF reqs
<1>2. ASSUME NEW r \in Requests, NEW w \in Wants, NEW s \in Servers, Arrive(r, w, s)
      PROVE  ReqTyped'
  BY <1>2 DEF Arrive
<1>3. ASSUME NEW r \in Requests, NEW j \in Jobs, WaitFor(r, j) PROVE ReqTyped'
  BY <1>3 DEF WaitFor
<1>4. ASSUME NEW r \in Requests, NEW a \in Replies, Answer(r, a) PROVE ReqTyped'
  BY <1>4 DEF Answer
<1>5. ASSUME NEW r \in Requests, RequestStep(r) PROVE ReqTyped'
  <2>1. CASE AlreadyThere(r)
    BY <2>1, <1>4 DEF AlreadyThere
  <2>2. CASE ResultTimesOut(r)
    BY <2>2, <1>4 DEF ResultTimesOut
  <2>3. CASE ResultArrives(r)
    <3>1. CASE want[r] = "restart" /\ op[waits[r]] = "disable"
      BY <2>3, <3>1 DEF ResultArrives
    <3>2. CASE ~(want[r] = "restart" /\ op[waits[r]] = "disable")
      <4>1. \E a \in Replies : Answer(r, a)
        BY <2>3, <3>2 DEF ResultArrives
      <4> QED
        BY <4>1, <1>4
    <3> QED
      BY <3>1, <3>2
  <2>4. ASSUME NEW j \in Jobs,
               \/ ServerEnable(r, j) \/ ServerDisable(r, j) \/ ServerRestart(r, j)
               \/ Reload(r, j) \/ ReloadEmpty(r, j) \/ CallTool(r, j)
        PROVE  WaitFor(r, j)
    BY <2>4 DEF ServerEnable, ServerDisable, ServerRestart, Reload, ReloadEmpty, CallTool
  <2> QED
    BY <1>5, <2>1, <2>2, <2>3, <2>4, <1>3 DEF RequestStep
<1> QED
  BY <1>1, <1>2, <1>5 DEF ReqNext, rvars

\* Requests, their threads and their time-outs use the manager as ProxyManager says.
THEOREM UsesManager == ReqSpec => UsesProxyManager
  BY ReqTypedInit, ReqTypedStep, ManagerInit, ManagerStep, PTL
     DEF ReqSpec, UsesProxyManager, PM!Spec
-----------------------------------------------------------------------------
\* The two instances of the manager, of its specification and of its proofs, are one.
LEMMA SameManager ==
  /\ PM!Init <=> M!Init
  /\ [PM!Next]_PM!vars <=> [M!Next]_M!vars
<1>1. PM!Init <=> M!Init
  BY DEF PM!Init, M!Init
<1>2. UNCHANGED PM!vars <=> UNCHANGED M!vars
  BY DEF PM!vars, M!vars, M!mgr, M!locals, M!env
<1>3. PM!Next <=> M!Next
  BY Zenon DEF
     PM!Connected, M!Connected, PM!Registered, M!Registered, PM!IsConnecting,
     M!IsConnecting, PM!CanRun, M!CanRun, PM!Continue, M!Continue, PM!AwaitOn,
     M!AwaitOn, PM!Await, M!Await, PM!Return, M!Return, PM!Exited, M!Exited,
     PM!EmptyRegistry, M!EmptyRegistry, PM!Config, M!Config, PM!DownPcs, M!DownPcs,
     PM!HoldsConfig, M!HoldsConfig, PM!ConfigReplaced, M!ConfigReplaced,
     PM!LoopKnown, M!LoopKnown, PM!Undisturbed,
     M!Undisturbed, PM!Submit, M!Submit, PM!Scheduled, M!Scheduled,
     PM!ConnectBackground, M!ConnectBackground, PM!SubmitEnable, M!SubmitEnable,
     PM!SubmitDisable, M!SubmitDisable, PM!SubmitReconnect, M!SubmitReconnect,
     PM!BeginShutdown, M!BeginShutdown, PM!SubmitCall, M!SubmitCall, PM!ConnectEntry,
     M!ConnectEntry, PM!ConfigRead, M!ConfigRead, PM!ConnectNext, M!ConnectNext, PM!ConnectFailed, M!ConnectFailed,
     PM!ConnectAborted, M!ConnectAborted, PM!Fresh, M!Fresh, PM!CreateClient,
     M!CreateClient, PM!CreateFails, M!CreateFails, PM!SessionOpens, M!SessionOpens,
     PM!SessionFails, M!SessionFails, PM!ToolsListed, M!ToolsListed, PM!ListFails,
     M!ListFails, PM!CleanupDone, M!CleanupDone, PM!CancelDelivered, M!CancelDelivered,
     PM!ShutdownEntry, M!ShutdownEntry, PM!TaskEnded, M!TaskEnded, PM!ShutdownReturns,
     M!ShutdownReturns, PM!Snapshot, M!Snapshot, PM!CloseNext, M!CloseNext,
     PM!SessionExits, M!SessionExits, PM!TransportCloses, M!TransportCloses,
     PM!CloseRaises, M!CloseRaises, PM!ClearAll, M!ClearAll, PM!ResetState,
     M!ResetState, PM!EnableEntry, M!EnableEntry, PM!DisableEntry, M!DisableEntry,
     PM!SessionLeft, M!SessionLeft, PM!CallEntry, M!CallEntry, PM!CallReturns,
     M!CallReturns, PM!CallTimesOut, M!CallTimesOut, PM!Step, M!Step, PM!SubmitSome,
     M!SubmitSome, PM!Next, M!Next, M!mgr, M!locals, M!env
<1> QED
  BY <1>1, <1>2, <1>3

\* Who is on the loop: nobody, a coroutine or a request.
LoopTyped == loop \in Jobs \cup Requests \cup {Free}

LEMMA LoopInit == ReqInit => LoopTyped
  BY DEF ReqInit, Init, LoopTyped

LEMMA LoopStep == LoopTyped /\ [ReqNext]_rvars => LoopTyped'
<1> SUFFICES ASSUME LoopTyped, [ReqNext]_rvars PROVE LoopTyped'
  OBVIOUS
<1> USE DEF LoopTyped
<1>1. CASE UNCHANGED rvars
  BY <1>1 DEF rvars, vars
<1>2. ASSUME NEW r \in Requests, NEW w \in Wants, NEW s \in Servers, Arrive(r, w, s)
      PROVE  loop' \in {Free, r}
  BY <1>2 DEF Arrive
<1>3. ASSUME NEW r \in Requests, RequestStep(r) PROVE loop' \in {loop, Free}
  BY <1>3 DEF RequestStep, AlreadyThere, ResultArrives, ResultTimesOut, Release,
     ServerEnable, ServerDisable, ServerRestart, Reload, ReloadEmpty, CallTool,
     SubmitEnable, SubmitDisable, SubmitReconnect, ResetState, SubmitCall, Scheduled
<1>4. ASSUME NEW j \in Jobs, LifespanStep(j) PROVE loop' \in {Free, j}
  BY <1>4 DEF LifespanStep, ConnectBackground, Scheduled, BeginShutdown, Continue
<1>5. ASSUME NEW j \in Jobs, Step(j) \/ CallReturns(j) PROVE loop' \in {Free, j}
  BY <1>5, StepIsManagers
<1> QED
  BY <1>1, <1>2, <1>3, <1>4, <1>5 DEF ReqNext

\* The type invariant: the manager's part is its own theorem.
THEOREM ReqTypeCorrect == ReqSpec => []ReqTypeOK
<1>2. M!TypeOK /\ ReqTyped /\ LoopTyped => ReqTypeOK
  BY RequestsHold DEF M!TypeOK, M!Ops, M!Pcs, M!Results, TypeOK, Ops, Pcs, Results,
     ReqTyped, LoopTyped, ReqTypeOK
<1>3. M!Init => M!TypeOK
  BY M!TypeInit, ConstantsOK
<1>4. M!TypeOK /\ [M!Next]_M!vars => M!TypeOK'
  BY M!TypeStep, ConstantsOK
<1> QED
  BY <1>2, <1>3, <1>4, SameManager, ReqTypedInit, ReqTypedStep, LoopInit,
     LoopStep, ManagerInit, ManagerStep, PTL DEF ReqSpec

\* What is shown of the manager alone holds under the requests too: the tables agree,
\* registered sessions are open, and a session has one owner.
THEOREM ReqRegistered == ReqSpec => [](RegistryAgrees /\ RegisteredIsLive /\ ClientsApart)
<1>2. M!RegistryAgrees => RegistryAgrees
  BY DEF M!RegistryAgrees, RegistryAgrees, M!Connected, Connected
<1>3. M!RegisteredIsLive => RegisteredIsLive
  BY DEF M!RegisteredIsLive, RegisteredIsLive, M!Connected, Connected
<1>4. M!ClientsApart => ClientsApart
  BY DEF M!ClientsApart, ClientsApart, M!OpeningApart, OpeningApart, M!LeavingApart,
     LeavingApart, M!ClosingSnapped, ClosingSnapped, M!UnusedNowhere, UnusedNowhere,
     M!Opening, Opening, M!Closing, Closing, M!Leaving, Leaving
<1>5. M!Spec => []M!RegistryAgrees
  BY M!RegistryCorrect, ConstantsOK
<1>6. M!Spec => []M!RegisteredIsLive
  BY M!RegisteredCorrect, ConstantsOK
<1>7. M!Spec => []M!ClientsApart
  BY M!OwnershipCorrect, ConstantsOK
<1> QED
  BY <1>2, <1>3, <1>4, <1>5, <1>6, <1>7, SameManager, ReqTypedInit, ReqTypedStep, ManagerInit,
     ManagerStep, PTL DEF ReqSpec, M!Spec

\* So do sessions come and go as SessionRegistry says when requests, on the loop and off
\* it, with their time-outs, are what makes them.
THEOREM ReqSessions == ReqSpec => SessionsKept
<1> USE DEF M!Lives, Lives, M!Life, Life, M!Listing, Listing
<1>1. M!Spec => M!SessionsKept
  BY M!SessionsCorrect, ConstantsOK
<1>2. M!Sessions!Init <=> Sessions!Init
  BY Zenon DEF M!Sessions!Init, Sessions!Init, M!Sessions!NobodyServes, Sessions!NobodyServes
<1>3. UNCHANGED M!Sessions!vars <=> UNCHANGED Sessions!vars
  BY Zenon DEF M!Sessions!vars, Sessions!vars
<1>4. M!Sessions!Next <=> Sessions!Next
  BY Zenon DEF M!Sessions!Next, Sessions!Next, M!Sessions!Open, Sessions!Open,
     M!Sessions!GiveUp, Sessions!GiveUp, M!Sessions!Close, Sessions!Close, M!Sessions!InUse,
     Sessions!InUse, M!Sessions!Withdraw, Sessions!Withdraw, M!Sessions!Register,
     Sessions!Register, M!Sessions!BeginShutdown, Sessions!BeginShutdown,
     M!Sessions!EndShutdown, Sessions!EndShutdown, M!Sessions!Forget, Sessions!Forget,
     M!Sessions!NobodyServes, Sessions!NobodyServes
<1> HIDE DEF M!Lives, Lives, M!Life, Life, M!Listing, Listing
<1> QED
  BY <1>1, <1>2, <1>3, <1>4, SameManager, ReqTypedInit, ReqTypedStep, ManagerInit,
     ManagerStep, PTL
     DEF ReqSpec, M!Spec, M!SessionsKept, M!Sessions!Spec, SessionsKept, Sessions!Spec
-----------------------------------------------------------------------------
LEMMA HeldInit == ReqInit => LoopHeldAlone
  BY ConstantsOK, RequestsHold DEF ReqInit, Init, LoopHeldAlone

\* Only Arrive gives the loop to a request, and only when nothing is connected; while the
\* request has it no coroutine runs, and nothing but a reset touches the tables.
LEMMA HeldStep == ReqTyped /\ LoopHeldAlone /\ [ReqNext]_rvars => LoopHeldAlone'
<1> SUFFICES ASSUME ReqTyped, LoopHeldAlone, [ReqNext]_rvars PROVE LoopHeldAlone'
  OBVIOUS
<1> USE ConstantsOK, RequestsHold
<1>1. ASSUME loop' \in {loop, Free}, UNCHANGED <<clients, want>> PROVE LoopHeldAlone'
  BY <1>1 DEF LoopHeldAlone, Connected
<1>2. ASSUME NEW j \in Jobs, loop' \in {Free, j} PROVE LoopHeldAlone'
  BY <1>2 DEF LoopHeldAlone
<1>3. ASSUME NEW r \in Requests, NEW w \in Wants, NEW s \in Servers, Arrive(r, w, s)
      PROVE  LoopHeldAlone'
  BY <1>3 DEF Arrive, UseThreadPool, LoopHeldAlone, Connected, ReqTyped
<1>4. ASSUME NEW r \in Requests, NEW j \in Jobs, ReloadEmpty(r, j) PROVE LoopHeldAlone'
  BY <1>4 DEF ReloadEmpty, ResetState, EmptyRegistry, WaitFor, LoopHeldAlone, Connected
<1>5. ASSUME NEW r \in Requests, NEW j \in Jobs,
             \/ ServerEnable(r, j) \/ ServerDisable(r, j) \/ ServerRestart(r, j)
             \/ Reload(r, j) \/ CallTool(r, j)
      PROVE  UNCHANGED <<loop, clients, want>>
  BY <1>5 DEF ServerEnable, ServerDisable, ServerRestart, Reload, CallTool, SubmitEnable,
     SubmitDisable, SubmitReconnect, SubmitCall, Scheduled, Submit, WaitFor
<1>6. ASSUME NEW r \in Requests, AlreadyThere(r) \/ ResultArrives(r) \/ ResultTimesOut(r)
      PROVE  loop' \in {loop, Free} /\ UNCHANGED <<clients, want>>
  BY <1>6 DEF AlreadyThere, ResultArrives, ResultTimesOut, Release, Answer
<1>7. ASSUME NEW r \in Requests, RequestStep(r) PROVE LoopHeldAlone'
  BY <1>7, <1>1, <1>4, <1>5, <1>6 DEF RequestStep
<1>8. ASSUME NEW j \in Jobs, LifespanStep(j) PROVE loop' \in {Free, j}
  BY <1>8 DEF LifespanStep, ConnectBackground, Scheduled, BeginShutdown, Continue
<1>9. ASSUME NEW j \in Jobs, Step(j) \/ CallReturns(j) PROVE loop' \in {Free, j}
  BY <1>9, StepIsManagers
<1>10. CASE UNCHANGED rvars
  BY <1>10, <1>1 DEF rvars, vars, reqs
<1> QED
  BY <1>2, <1>3, <1>7, <1>8, <1>9, <1>10 DEF ReqNext

\* User code on the loop thread meets no connection, so it cannot call through one.
THEOREM HeldAlone == ReqSpec => []LoopHeldAlone
  BY ReqTypedInit, ReqTypedStep, HeldInit, HeldStep, PTL DEF ReqSpec
=============================================================================
