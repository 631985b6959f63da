------------------------- MODULE ProxyManagerProofs -------------------------
(***************************************************************************)
(* Proofs about ProxyManager, for any number of servers, clients and       *)
(* coroutines:                                                             *)
(*   TypeCorrect        the type invariant                                 *)
(*   RegistryCorrect    the tables of the registry agree                   *)
(*   OwnershipCorrect   a client has one owner                             *)
(*   RegisteredCorrect  what is registered is a session that is open, or   *)
(*                      that a shutdown under way is closing               *)
(*   SessionsCorrect    clients come and go as SessionRegistry says: a     *)
(*                      refinement                                         *)
(*   ScheduleCorrect    who has the loop goes on, and a cancellation can   *)
(*                      be delivered                                       *)
(* TypeOK and RegistryAgrees are inductive, the second one given the       *)
(* first.  RegisteredIsLive is not: a step could close the session of a    *)
(* registered client, or register one that is closed, unless clients in    *)
(* the hands of a coroutine are apart from the registered ones.  That is   *)
(* ClientsApart, and the conjunction is inductive.  For the refinement one *)
(* has to know besides how far a shutdown has come (Books).                *)
(***************************************************************************)
EXTENDS ProxyManager, TLAPS

USE DEF mgr, locals, env

\* Where a coroutine works on a client of its own.
InHandPcs == {"entering", "listing", "cleanup", "exiting", "transport", "leaving"}

Owned == RegisteredIsLive /\ ClientsApart
-----------------------------------------------------------------------------
\* Typing: one step per action of Next.
LEMMA TypeInit == Init => TypeOK
<1> SUFFICES ASSUME Init PROVE TypeOK
  OBVIOUS
<1>1. (CHOOSE s \in Servers : TRUE) \in Servers
  BY ConstantsOK
<1> QED
  BY <1>1 DEF Init, TypeOK, Ops, Pcs, Results

\* What the helpers of several actions leave behind is typed.
LEMMA ExitedType ==
  ASSUME TypeOK, NEW c
  PROVE  Exited(c) \in [Clients -> {"unused", "entering", "open", "exited", "closed"}]
  BY DEF TypeOK, Exited

\* A coroutine that ends keeps its program counter, client and result typed.
LEMMA ReturnType ==
  ASSUME TypeOK, NEW j \in Jobs, NEW r \in Results, Return(j, r)
  PROVE  /\ pc' \in [Jobs -> Pcs]
         /\ loop' \in Jobs \cup Holders \cup {Free}
         /\ cl' \in [Jobs -> Clients \cup {NoClient}]
         /\ res' \in [Jobs -> Results]
  BY DEF TypeOK, Pcs, Return, AwaitOn

\* The failure path of _connect_server() keeps the tables and locals it writes typed.
LEMMA FailedType ==
  ASSUME TypeOK, NEW j \in Jobs, ConnectFailed(j),
         UNCHANGED <<connectTask, op, srv, todo, snap, left, env>>,
         cancelled' \subseteq Jobs,
         cstate' \in [Clients -> {"unused", "entering", "open", "exited", "closed"}]
  PROVE  TypeOK'
<1> USE DEF TypeOK, Ops, Pcs, Results
<1>1. CASE op[j] = "enable"
  BY <1>1 DEF ConnectFailed, Return, AwaitOn
<1>2. CASE op[j] # "enable"
  BY <1>2 DEF ConnectFailed, Continue
<1> QED
  BY <1>1, <1>2

\* So does the path a cancellation takes.
LEMMA AbortedType ==
  ASSUME TypeOK, NEW j \in Jobs, ConnectAborted(j),
         UNCHANGED <<connectTask, op, srv, snap, left, env>>,
         cancelled' \subseteq Jobs,
         cstate' \in [Clients -> {"unused", "entering", "open", "exited", "closed"}]
  PROVE  TypeOK'
  BY ConstantsOK DEF TypeOK, Ops, Pcs, Results, ConnectAborted, Return, AwaitOn

\* A configuration names servers, also one that was replaced.
LEMMA ConfigType ==
  ASSUME TypeOK, NEW j \in Jobs
  PROVE  Config(j) \subseteq Servers
  BY DEF TypeOK, Config

LEMMA ReplacedType ==
  ASSUME TypeOK, ConfigReplaced
  PROVE  older' \in [Jobs -> SUBSET SUBSET Servers]
<1>1. \A j \in Jobs : {enabled} \in SUBSET SUBSET Servers
  BY DEF TypeOK
<1> QED
  BY <1>1 DEF TypeOK, ConfigReplaced

\* No action leaves the types.
LEMMA TypeStep == TypeOK /\ [Next]_vars => TypeOK'
<1> SUFFICES ASSUME TypeOK, [Next]_vars PROVE TypeOK'
  OBVIOUS
<1> USE ConstantsOK DEF TypeOK, Ops, Pcs, Results
<1>1. ASSUME NEW j \in Jobs, ConnectEntry(j) PROVE TypeOK'
  <2>1. CASE initialized
    BY <1>1, <2>1 DEF ConnectEntry, ConfigRead, Return, AwaitOn
  <2>2. CASE ~initialized /\ Config(j) = {}
    <3>1. initialized' = TRUE /\ Return(j, "ok") /\ UNCHANGED todo
      BY <1>1, <2>2 DEF ConnectEntry, ConfigRead
    <3> QED
      BY <1>1, <3>1 DEF ConnectEntry, ConfigRead, Return, AwaitOn
  <2>3. CASE ~initialized /\ Config(j) # {}
    BY <1>1, <2>3, ConfigType DEF ConnectEntry, ConfigRead, Continue
  <2> QED
    BY <2>1, <2>2, <2>3
<1>2. ASSUME NEW j \in Jobs, ConnectNext(j) PROVE TypeOK'
  <2>1. CASE todo[j] = {}
    BY <1>2, <2>1 DEF ConnectNext, Return, AwaitOn
  <2>2. CASE todo[j] # {}
    <3>1. PICK s \in Servers : /\ srv' = [srv EXCEPT ![j] = s]
                              /\ todo' = [todo EXCEPT ![j] = @ \ {s}]
                              /\ Continue(j, "create")
                              /\ UNCHANGED <<initialized, res>>
      BY <1>2, <2>2 DEF ConnectNext
    <3>2. UNCHANGED <<mgr, connectTask, cancelled, cstate, op, snap, left, env>>
      BY <1>2 DEF ConnectNext
    <3> QED
      BY <3>1, <3>2 DEF Continue
  <2> QED
    BY <2>1, <2>2
<1>3. ASSUME NEW j \in Jobs, CreateClient(j) PROVE TypeOK'
  BY <1>3 DEF CreateClient, AwaitOn, Fresh
<1>4. ASSUME NEW j \in Jobs, CreateFails(j) PROVE TypeOK'
  BY <1>4, FailedType DEF CreateFails
<1>5. ASSUME NEW j \in Jobs, SessionOpens(j) PROVE TypeOK'
  BY <1>5 DEF SessionOpens, Await, AwaitOn
<1>6. ASSUME NEW j \in Jobs, SessionFails(j) PROVE TypeOK'
  BY <1>6, FailedType DEF SessionFails
<1>7. ASSUME NEW j \in Jobs, ToolsListed(j) PROVE TypeOK'
  <2>1. CASE op[j] = "enable"
    BY <1>7, <2>1, ReturnType DEF ToolsListed
  <2>2. CASE op[j] # "enable"
    BY <1>7, <2>2 DEF ToolsListed, Continue
  <2> QED
    BY <2>1, <2>2
<1>8. ASSUME NEW j \in Jobs, ListFails(j) PROVE TypeOK'
  BY <1>8 DEF ListFails, Await, AwaitOn
<1>9. ASSUME NEW j \in Jobs, CleanupDone(j) PROVE TypeOK'
  <2>1. CASE ConnectAborted(j)
    BY <1>9, <2>1, AbortedType, ExitedType DEF CleanupDone
  <2>2. CASE ConnectFailed(j) /\ UNCHANGED todo
    BY <1>9, <2>2, FailedType, ExitedType DEF CleanupDone
  <2> QED
    BY <1>9, <2>1, <2>2 DEF CleanupDone
<1>10. ASSUME NEW j \in Jobs, CancelDelivered(j) PROVE TypeOK'
  <2>1. CASE pc[j] = "connect"
    BY <1>10, <2>1, ReturnType DEF CancelDelivered
  <2>2. CASE pc[j] = "entering"
    BY <1>10, <2>2, AbortedType DEF CancelDelivered
  <2>3. CASE pc[j] = "listing"
    BY <1>10, <2>3 DEF CancelDelivered, Await, AwaitOn
  <2>4. CASE pc[j] = "cleanup"
    BY <1>10, <2>4, AbortedType, ExitedType DEF CancelDelivered
  <2> QED
    BY <1>10, <2>1, <2>2, <2>3, <2>4 DEF CancelDelivered
<1>11. ASSUME NEW j \in Jobs, ShutdownEntry(j) PROVE TypeOK'
  BY <1>11 DEF ShutdownEntry, Await, AwaitOn, Continue, IsConnecting
<1>12. ASSUME NEW j \in Jobs, TaskEnded(j) PROVE TypeOK'
  BY <1>12 DEF TaskEnded, Continue
<1>13. ASSUME NEW j \in Jobs, Snapshot(j) PROVE TypeOK'
  BY <1>13 DEF Snapshot, ShutdownReturns, Return, AwaitOn, Continue, Registered,
     Connected
<1>14. ASSUME NEW j \in Jobs, CloseNext(j) PROVE TypeOK'
  BY <1>14 DEF CloseNext, AwaitOn
<1>15. ASSUME NEW j \in Jobs, SessionExits(j) PROVE TypeOK'
  BY <1>15 DEF SessionExits, Await, AwaitOn, Exited
<1>16. ASSUME NEW j \in Jobs, TransportCloses(j) PROVE TypeOK'
  BY <1>16 DEF TransportCloses, Continue
<1>17. ASSUME NEW j \in Jobs, CloseRaises(j) PROVE TypeOK'
  BY <1>17 DEF CloseRaises, Continue, Exited
<1>18. ASSUME NEW j \in Jobs, ClearAll(j) PROVE TypeOK'
  <2>1. CASE op[j] = "reconnect"
    BY <1>18, <2>1 DEF ClearAll, ShutdownReturns, Continue, EmptyRegistry
  <2>2. CASE op[j] # "reconnect"
    BY <1>18, <2>2, ReturnType DEF ClearAll, ShutdownReturns, EmptyRegistry
  <2> QED
    BY <2>1, <2>2
<1>19. ASSUME NEW j \in Jobs, EnableEntry(j) PROVE TypeOK'
  BY <1>19 DEF EnableEntry, ConfigRead, Return, AwaitOn, Continue
<1>20. ASSUME NEW j \in Jobs, DisableEntry(j) PROVE TypeOK'
  <2>1. CASE srv[j] \notin Connected
    BY <1>20, <2>1 DEF DisableEntry, Return, AwaitOn
  <2>2. CASE srv[j] \in Connected
    <3>1. AwaitOn(j, "leaving", clients[srv[j]]) /\ UNCHANGED <<timeouts, res>>
      BY <1>20, <2>2 DEF DisableEntry
    <3>2. /\ pc' \in [Jobs -> Pcs] /\ cl' \in [Jobs -> Clients \cup {NoClient}]
          /\ loop' = Free
      BY <3>1 DEF AwaitOn
    <3>3. /\ clients' \in [Servers -> Clients \cup {NoClient}]
          /\ tools' \in [Servers -> Clients \cup {NoClient}]
          /\ instructions' \in [Servers -> Clients \cup {NoClient}]
          /\ errors' \in [Servers -> {"none", "failed", "cancelled"}]
      BY <1>20, <2>2 DEF DisableEntry
    <3> QED
      BY <1>20, <3>1, <3>2, <3>3 DEF DisableEntry
  <2> QED
    BY <2>1, <2>2
<1>21. ASSUME NEW j \in Jobs, SessionLeft(j) PROVE TypeOK'
  BY <1>21 DEF SessionLeft, Return, AwaitOn, Exited
<1>22. ASSUME NEW j \in Jobs, CallEntry(j) PROVE TypeOK'
  BY <1>22 DEF CallEntry, Return, AwaitOn, Connected
<1>23. ASSUME NEW j \in Jobs, CallTimesOut(j) PROVE TypeOK'
  BY <1>23 DEF CallTimesOut, Return, AwaitOn
<1>24. ASSUME NEW j \in Jobs, CallReturns(j) PROVE TypeOK'
  BY <1>24 DEF CallReturns, Return, AwaitOn
<1>25. ASSUME NEW j \in Jobs, ConnectBackground(j) PROVE TypeOK'
  BY <1>25 DEF ConnectBackground, Submit, Scheduled
<1>26. ASSUME NEW j \in Jobs, SubmitReconnect(j) PROVE TypeOK'
  <2>1. older' \in [Jobs -> SUBSET SUBSET Servers]
    BY <1>26, ReplacedType DEF SubmitReconnect
  <2> QED
    BY <1>26, <2>1 DEF SubmitReconnect, Submit, Scheduled
<1>27. ASSUME NEW j \in Jobs, BeginShutdown(j) PROVE TypeOK'
  BY <1>27 DEF BeginShutdown, Submit, Continue
<1>28. ASSUME NEW j \in Jobs, ResetState(j) PROVE TypeOK'
  <2>1. older' \in [Jobs -> SUBSET SUBSET Servers]
    BY <1>28, ReplacedType DEF ResetState
  <2> QED
    BY <1>28, <2>1 DEF ResetState, EmptyRegistry
<1>29. ASSUME NEW j \in Jobs, NEW s \in Servers, SubmitEnable(j, s) PROVE TypeOK'
  BY <1>29 DEF SubmitEnable, Submit, Scheduled
<1>30. ASSUME NEW j \in Jobs, NEW s \in Servers, SubmitDisable(j, s) PROVE TypeOK'
  BY <1>30 DEF SubmitDisable, Submit, Scheduled
<1>31. ASSUME NEW j \in Jobs, NEW s \in Servers, SubmitCall(j, s) PROVE TypeOK'
  BY <1>31 DEF SubmitCall, Submit, Scheduled
<1>32. CASE UNCHANGED vars
  BY <1>32 DEF vars
<1> QED
  BY <1>1, <1>2, <1>3, <1>4, <1>5, <1>6, <1>7, <1>8, <1>9, <1>10, <1>11, <1>12,
     <1>13, <1>14, <1>15, <1>16, <1>17, <1>18, <1>19, <1>20, <1>21, <1>22, <1>23,
     <1>24, <1>25, <1>26, <1>27, <1>28, <1>29, <1>30, <1>31, <1>32 DEF Next,
     SubmitSome, Step

\* Every variable keeps the values the code can give it.
THEOREM TypeCorrect == Spec => []TypeOK
  BY TypeInit, TypeStep, PTL DEF Spec
-----------------------------------------------------------------------------
\* The tables start out empty.
LEMMA RegistryInit == Init => RegistryAgrees
  BY DEF Init, RegistryAgrees, Connected

\* Four actions write the tables: they write all that have to agree.
LEMMA RegistryStep == TypeOK /\ RegistryAgrees /\ [Next]_vars => RegistryAgrees'
<1> SUFFICES ASSUME TypeOK, RegistryAgrees, [Next]_vars PROVE RegistryAgrees'
  OBVIOUS
<1> DEFINE Same == UNCHANGED <<clients, tools, instructions, timeouts>>
<1>1. Same => RegistryAgrees'
  BY DEF RegistryAgrees, Connected
<1>2. ASSUME NEW j \in Jobs, ToolsListed(j) PROVE RegistryAgrees'
  BY <1>2, ConstantsOK DEF ToolsListed, RegistryAgrees, Connected, TypeOK
<1>3. ASSUME NEW j \in Jobs, DisableEntry(j) PROVE RegistryAgrees'
  <2>1. CASE srv[j] \notin Connected
    BY <1>3, <2>1, <1>1 DEF DisableEntry
  <2>2. CASE srv[j] \in Connected
    BY <1>3, <2>2 DEF DisableEntry, RegistryAgrees, Connected, TypeOK
  <2> QED
    BY <2>1, <2>2
<1>4. ASSUME NEW j \in Jobs, ClearAll(j) PROVE RegistryAgrees'
  BY <1>4 DEF ClearAll, EmptyRegistry, RegistryAgrees, Connected, TypeOK
<1>5. ASSUME NEW j \in Jobs, ResetState(j) PROVE RegistryAgrees'
  BY <1>5 DEF ResetState, EmptyRegistry, RegistryAgrees, Connected, TypeOK
<1>6. ASSUME NEW j \in Jobs, ConnectEntry(j) PROVE Same
  BY <1>6 DEF ConnectEntry, ConfigRead
<1>7. ASSUME NEW j \in Jobs, ConnectNext(j) PROVE Same
  BY <1>7 DEF ConnectNext
<1>8. ASSUME NEW j \in Jobs, CreateClient(j) PROVE Same
  BY <1>8 DEF CreateClient
<1>9. ASSUME NEW j \in Jobs, CreateFails(j) PROVE Same
  BY <1>9 DEF CreateFails, ConnectFailed
<1>10. ASSUME NEW j \in Jobs, SessionOpens(j) PROVE Same
  BY <1>10 DEF SessionOpens
<1>11. ASSUME NEW j \in Jobs, SessionFails(j) PROVE Same
  BY <1>11 DEF SessionFails, ConnectFailed
<1>12. ASSUME NEW j \in Jobs, ListFails(j) PROVE Same
  BY <1>12 DEF ListFails
<1>13. ASSUME NEW j \in Jobs, CleanupDone(j) PROVE Same
  BY <1>13 DEF CleanupDone, ConnectFailed, ConnectAborted
<1>14. ASSUME NEW j \in Jobs, CancelDelivered(j) PROVE Same
  BY <1>14 DEF CancelDelivered, ConnectAborted
<1>15. ASSUME NEW j \in Jobs, ShutdownEntry(j) PROVE Same
  BY <1>15 DEF ShutdownEntry
<1>16. ASSUME NEW j \in Jobs, TaskEnded(j) PROVE Same
  BY <1>16 DEF TaskEnded
<1>17. ASSUME NEW j \in Jobs, Snapshot(j) PROVE Same
  BY <1>17 DEF Snapshot
<1>18. ASSUME NEW j \in Jobs, CloseNext(j) PROVE Same
  BY <1>18 DEF CloseNext
<1>19. ASSUME NEW j \in Jobs, SessionExits(j) PROVE Same
  BY <1>19 DEF SessionExits
<1>20. ASSUME NEW j \in Jobs, TransportCloses(j) PROVE Same
  BY <1>20 DEF TransportCloses
<1>21. ASSUME NEW j \in Jobs, CloseRaises(j) PROVE Same
  BY <1>21 DEF CloseRaises
<1>22. ASSUME NEW j \in Jobs, EnableEntry(j) PROVE Same
  BY <1>22 DEF EnableEntry, ConfigRead
<1>23. ASSUME NEW j \in Jobs, SessionLeft(j) PROVE Same
  BY <1>23 DEF SessionLeft
<1>24. ASSUME NEW j \in Jobs, CallEntry(j) PROVE Same
  BY <1>24 DEF CallEntry
<1>25. ASSUME NEW j \in Jobs, CallTimesOut(j) PROVE Same
  BY <1>25 DEF CallTimesOut
<1>26. ASSUME NEW j \in Jobs, CallReturns(j) PROVE Same
  BY <1>26 DEF CallReturns
<1>27. ASSUME NEW j \in Jobs, ConnectBackground(j) PROVE Same
  BY <1>27 DEF ConnectBackground, Submit
<1>28. ASSUME NEW j \in Jobs, SubmitReconnect(j) PROVE Same
  BY <1>28 DEF SubmitReconnect, Submit
<1>29. ASSUME NEW j \in Jobs, BeginShutdown(j) PROVE Same
  BY <1>29 DEF BeginShutdown, Submit
<1>30. ASSUME NEW j \in Jobs, NEW s \in Servers, SubmitEnable(j, s) PROVE Same
  BY <1>30 DEF SubmitEnable, Submit
<1>31. ASSUME NEW j \in Jobs, NEW s \in Servers, SubmitDisable(j, s) PROVE Same
  BY <1>31 DEF SubmitDisable, Submit
<1>32. ASSUME NEW j \in Jobs, NEW s \in Servers, SubmitCall(j, s) PROVE Same
  BY <1>32 DEF SubmitCall, Submit
<1>33. CASE UNCHANGED vars
  BY <1>33, <1>1 DEF vars
<1> QED
  BY <1>1, <1>2, <1>3, <1>4, <1>5, <1>6, <1>7, <1>8, <1>9, <1>10, <1>11, <1>12,
     <1>13, <1>14, <1>15, <1>16, <1>17, <1>18, <1>19, <1>20, <1>21, <1>22, <1>23,
     <1>24, <1>25, <1>26, <1>27, <1>28, <1>29, <1>30, <1>31, <1>32, <1>33 DEF Next,
     SubmitSome, Step

\* Tools, instructions and timeouts are those of the registered clients.
THEOREM RegistryCorrect == Spec => []RegistryAgrees
  BY TypeInit, TypeStep, RegistryInit, RegistryStep, PTL DEF Spec
-----------------------------------------------------------------------------
\* Nothing is registered and nobody has a client.
LEMMA OwnedInit == Init => Owned
  BY ConstantsOK DEF Init, Owned, RegisteredIsLive, Connected, ClientsApart,
     OpeningApart, LeavingApart, ClosingSnapped, UnusedNowhere, Opening, Closing,
     Leaving

\* A step that touches no client and takes j to a place without one.
LEMMA Bystander ==
  ASSUME TypeOK, Owned, NEW j \in Jobs, NEW p \in Pcs \ InHandPcs,
         UNCHANGED <<clients, cstate, snap, left>>,
         pc' = [pc EXCEPT ![j] = p],
         \A k \in Jobs \ {j} : cl'[k] = cl[k]
  PROVE  Owned'
<1>1. /\ Opening' \subseteq Opening \ {j}
      /\ Closing' \subseteq Closing \ {j}
      /\ Leaving' \subseteq Leaving \ {j}
  BY DEF Opening, Closing, Leaving, TypeOK, InHandPcs
<1>2. \A k \in Jobs \ {j} : pc'[k] = pc[k]
  BY DEF TypeOK
<1>3. OpeningApart'
  BY <1>1, <1>2 DEF Owned, ClientsApart, OpeningApart, Opening, Leaving
<1>4. LeavingApart' /\ ClosingSnapped' /\ UnusedNowhere'
  BY <1>1, <1>2 DEF Owned, ClientsApart, LeavingApart, ClosingSnapped, UnusedNowhere,
     Opening, Closing, Leaving
<1>5. RegisteredIsLive'
  BY DEF Owned, RegisteredIsLive, Connected
<1> QED
  BY <1>3, <1>4, <1>5 DEF Owned, ClientsApart

\* No action breaks it: the bystanders first, then the actions on a client.
LEMMA OwnedStep == TypeOK /\ Owned /\ [Next]_vars => Owned'
<1> SUFFICES ASSUME TypeOK, Owned, [Next]_vars PROVE Owned'
  OBVIOUS
<1> USE ConstantsOK
<1>1. ASSUME NEW j \in Jobs, ConnectEntry(j) PROVE Owned'
  <2>1. PICK p \in Pcs \ InHandPcs : pc' = [pc EXCEPT ![j] = p]
    BY <1>1 DEF ConnectEntry, ConfigRead, Return, AwaitOn, Continue, Pcs, InHandPcs
  <2>2. /\ UNCHANGED <<clients, cstate, snap, left>>
        /\ \A k \in Jobs \ {j} : cl'[k] = cl[k]
    BY <1>1 DEF ConnectEntry, ConfigRead, Return, AwaitOn, Continue, TypeOK
  <2> QED
    BY <2>1, <2>2, Bystander
<1>2. ASSUME NEW j \in Jobs, ConnectNext(j) PROVE Owned'
  <2>1. PICK p \in Pcs \ InHandPcs : pc' = [pc EXCEPT ![j] = p]
    BY <1>2 DEF ConnectNext, Return, AwaitOn, Continue, Pcs, InHandPcs
  <2>2. /\ UNCHANGED <<clients, cstate, snap, left>>
        /\ \A k \in Jobs \ {j} : cl'[k] = cl[k]
    BY <1>2 DEF ConnectNext, Return, AwaitOn, Continue, TypeOK
  <2> QED
    BY <2>1, <2>2, Bystander
<1>3. ASSUME NEW j \in Jobs, CreateFails(j) PROVE Owned'
  <2>1. PICK p \in Pcs \ InHandPcs : pc' = [pc EXCEPT ![j] = p]
    BY <1>3 DEF CreateFails, ConnectFailed, Return, AwaitOn, Continue, Pcs,
       InHandPcs
  <2>2. /\ UNCHANGED <<clients, cstate, snap, left>>
        /\ \A k \in Jobs \ {j} : cl'[k] = cl[k]
    BY <1>3 DEF CreateFails, ConnectFailed, Return, AwaitOn, Continue, TypeOK
  <2> QED
    BY <2>1, <2>2, Bystander
<1>4. ASSUME NEW j \in Jobs, ShutdownEntry(j) PROVE Owned'
  <2>1. PICK p \in Pcs \ InHandPcs : pc' = [pc EXCEPT ![j] = p]
    BY <1>4 DEF ShutdownEntry, Await, AwaitOn, Continue, Pcs, InHandPcs
  <2>2. /\ UNCHANGED <<clients, cstate, snap, left>>
        /\ \A k \in Jobs \ {j} : cl'[k] = cl[k]
    BY <1>4 DEF ShutdownEntry, Await, AwaitOn, Continue, TypeOK
  <2> QED
    BY <2>1, <2>2, Bystander
<1>5. ASSUME NEW j \in Jobs, TaskEnded(j) PROVE Owned'
  <2>1. PICK p \in Pcs \ InHandPcs : pc' = [pc EXCEPT ![j] = p]
    BY <1>5 DEF TaskEnded, Continue, Pcs, InHandPcs
  <2>2. /\ UNCHANGED <<clients, cstate, snap, left>>
        /\ \A k \in Jobs \ {j} : cl'[k] = cl[k]
    BY <1>5 DEF TaskEnded, Continue, TypeOK
  <2> QED
    BY <2>1, <2>2, Bystander
<1>6. ASSUME NEW j \in Jobs, EnableEntry(j) PROVE Owned'
  <2>1. PICK p \in Pcs \ InHandPcs : pc' = [pc EXCEPT ![j] = p]
    BY <1>6 DEF EnableEntry, ConfigRead, Return, AwaitOn, Continue, Pcs, InHandPcs
  <2>2. /\ UNCHANGED <<clients, cstate, snap, left>>
        /\ \A k \in Jobs \ {j} : cl'[k] = cl[k]
    BY <1>6 DEF EnableEntry, ConfigRead, Return, AwaitOn, Continue, TypeOK
  <2> QED
    BY <2>1, <2>2, Bystander
<1>7. ASSUME NEW j \in Jobs, CallEntry(j) PROVE Owned'
  <2>1. PICK p \in Pcs \ InHandPcs : pc' = [pc EXCEPT ![j] = p]
    BY <1>7 DEF CallEntry, Return, AwaitOn, Pcs, InHandPcs
  <2>2. /\ UNCHANGED <<clients, cstate, snap, left>>
        /\ \A k \in Jobs \ {j} : cl'[k] = cl[k]
    BY <1>7 DEF CallEntry, Return, AwaitOn, TypeOK
  <2> QED
    BY <2>1, <2>2, Bystander
<1>8. ASSUME NEW j \in Jobs, CallTimesOut(j) PROVE Owned'
  <2>1. PICK p \in Pcs \ InHandPcs : pc' = [pc EXCEPT ![j] = p]
    BY <1>8 DEF CallTimesOut, Return, AwaitOn, Pcs, InHandPcs
  <2>2. /\ UNCHANGED <<clients, cstate, snap, left>>
        /\ \A k \in Jobs \ {j} : cl'[k] = cl[k]
    BY <1>8 DEF CallTimesOut, Return, AwaitOn, TypeOK
  <2> QED
    BY <2>1, <2>2, Bystander
<1>9. ASSUME NEW j \in Jobs, CallReturns(j) PROVE Owned'
  <2>1. PICK p \in Pcs \ InHandPcs : pc' = [pc EXCEPT ![j] = p]
    BY <1>9 DEF CallReturns, Return, AwaitOn, Pcs, InHandPcs
  <2>2. /\ UNCHANGED <<clients, cstate, snap, left>>
        /\ \A k \in Jobs \ {j} : cl'[k] = cl[k]
    BY <1>9 DEF CallReturns, Return, AwaitOn, TypeOK
  <2> QED
    BY <2>1, <2>2, Bystander
<1>10. ASSUME NEW j \in Jobs, ConnectBackground(j) PROVE Owned'
  <2>1. PICK p \in Pcs \ InHandPcs : pc' = [pc EXCEPT ![j] = p]
    BY <1>10 DEF ConnectBackground, Submit, Scheduled, Pcs, InHandPcs
  <2>2. /\ UNCHANGED <<clients, cstate, snap, left>>
        /\ \A k \in Jobs \ {j} : cl'[k] = cl[k]
    BY <1>10 DEF ConnectBackground, Submit, Scheduled, TypeOK
  <2> QED
    BY <2>1, <2>2, Bystander
<1>11. ASSUME NEW j \in Jobs, SubmitReconnect(j) PROVE Owned'
  <2>1. PICK p \in Pcs \ InHandPcs : pc' = [pc EXCEPT ![j] = p]
    BY <1>11 DEF SubmitReconnect, Submit, Scheduled, Pcs, InHandPcs
  <2>2. /\ UNCHANGED <<clients, cstate, snap, left>>
        /\ \A k \in Jobs \ {j} : cl'[k] = cl[k]
    BY <1>11 DEF SubmitReconnect, Submit, Scheduled, TypeOK
  <2> QED
    BY <2>1, <2>2, Bystander
<1>12. ASSUME NEW j \in Jobs, BeginShutdown(j) PROVE Owned'
  <2>1. PICK p \in Pcs \ InHandPcs : pc' = [pc EXCEPT ![j] = p]
    BY <1>12 DEF BeginShutdown, Submit, Continue, Pcs, InHandPcs
  <2>2. /\ UNCHANGED <<clients, cstate, snap, left>>
        /\ \A k \in Jobs \ {j} : cl'[k] = cl[k]
    BY <1>12 DEF BeginShutdown, Submit, Continue, TypeOK
  <2> QED
    BY <2>1, <2>2, Bystander
<1>13. ASSUME NEW j \in Jobs, NEW s \in Servers, SubmitEnable(j, s) PROVE Owned'
  <2>1. PICK p \in Pcs \ InHandPcs : pc' = [pc EXCEPT ![j] = p]
    BY <1>13 DEF SubmitEnable, Submit, Scheduled, Pcs, InHandPcs
  <2>2. /\ UNCHANGED <<clients, cstate, snap, left>>
        /\ \A k \in Jobs \ {j} : cl'[k] = cl[k]
    BY <1>13 DEF SubmitEnable, Submit, Scheduled, TypeOK
  <2> QED
    BY <2>1, <2>2, Bystander
<1>14. ASSUME NEW j \in Jobs, NEW s \in Servers, SubmitDisable(j, s) PROVE Owned'
  <2>1. PICK p \in Pcs \ InHandPcs : pc' = [pc EXCEPT ![j] = p]
    BY <1>14 DEF SubmitDisable, Submit, Scheduled, Pcs, InHandPcs
  <2>2. /\ UNCHANGED <<clients, cstate, snap, left>>
        /\ \A k \in Jobs \ {j} : cl'[k] = cl[k]
    BY <1>14 DEF SubmitDisable, Submit, Scheduled, TypeOK
  <2> QED
    BY <2>1, <2>2, Bystander
<1>15. ASSUME NEW j \in Jobs, NEW s \in Servers, SubmitCall(j, s) PROVE Owned'
  <2>1. PICK p \in Pcs \ InHandPcs : pc' = [pc EXCEPT ![j] = p]
    BY <1>15 DEF SubmitCall, Submit, Scheduled, Pcs, InHandPcs
  <2>2. /\ UNCHANGED <<clients, cstate, snap, left>>
        /\ \A k \in Jobs \ {j} : cl'[k] = cl[k]
    BY <1>15 DEF SubmitCall, Submit, Scheduled, TypeOK
  <2> QED
    BY <2>1, <2>2, Bystander
<1>16. ASSUME NEW j \in Jobs, CreateClient(j) PROVE Owned'
  <2>1. RegisteredIsLive'
    BY <1>16 DEF CreateClient, AwaitOn, Fresh, Owned, RegisteredIsLive, Connected,
       ClientsApart, OpeningApart, LeavingApart, ClosingSnapped, UnusedNowhere,
       Opening, Closing, Leaving, TypeOK
  <2>2. OpeningApart'
    BY <1>16 DEF CreateClient, AwaitOn, Fresh, Owned, ClientsApart, OpeningApart,
       LeavingApart, ClosingSnapped, UnusedNowhere, Opening, Closing, Leaving,
       TypeOK
  <2>3. LeavingApart'
    BY <1>16 DEF CreateClient, AwaitOn, Fresh, Owned, ClientsApart, OpeningApart,
       LeavingApart, ClosingSnapped, UnusedNowhere, Opening, Closing, Leaving,
       TypeOK
  <2>4. ClosingSnapped'
    BY <1>16 DEF CreateClient, AwaitOn, Fresh, Owned, ClientsApart, OpeningApart,
       LeavingApart, ClosingSnapped, UnusedNowhere, Opening, Closing, Leaving,
       TypeOK
  <2>5. UnusedNowhere'
    BY <1>16 DEF CreateClient, AwaitOn, Fresh, Owned, ClientsApart, OpeningApart,
       LeavingApart, ClosingSnapped, UnusedNowhere, Opening, Closing, Leaving,
       TypeOK
  <2> QED
    BY <2>1, <2>2, <2>3, <2>4, <2>5 DEF Owned, ClientsApart
<1>17. ASSUME NEW j \in Jobs, SessionOpens(j) PROVE Owned'
  <2>1. RegisteredIsLive'
    BY <1>17 DEF SessionOpens, Await, AwaitOn, Owned, RegisteredIsLive, Connected,
       ClientsApart, OpeningApart, LeavingApart, ClosingSnapped, UnusedNowhere,
       Opening, Closing, Leaving, TypeOK
  <2>2. OpeningApart'
    BY <1>17 DEF SessionOpens, Await, AwaitOn, Owned, ClientsApart, OpeningApart,
       LeavingApart, ClosingSnapped, UnusedNowhere, Opening, Closing, Leaving,
       TypeOK
  <2>3. LeavingApart'
    BY <1>17 DEF SessionOpens, Await, AwaitOn, Owned, ClientsApart, OpeningApart,
       LeavingApart, ClosingSnapped, UnusedNowhere, Opening, Closing, Leaving,
       TypeOK
  <2>4. ClosingSnapped'
    BY <1>17 DEF SessionOpens, Await, AwaitOn, Owned, ClientsApart, OpeningApart,
       LeavingApart, ClosingSnapped, UnusedNowhere, Opening, Closing, Leaving,
       TypeOK
  <2>5. UnusedNowhere'
    BY <1>17 DEF SessionOpens, Await, AwaitOn, Owned, ClientsApart, OpeningApart,
       LeavingApart, ClosingSnapped, UnusedNowhere, Opening, Closing, Leaving,
       TypeOK
  <2> QED
    BY <2>1, <2>2, <2>3, <2>4, <2>5 DEF Owned, ClientsApart
<1>18. ASSUME NEW j \in Jobs, SessionFails(j) PROVE Owned'
  <2>1. RegisteredIsLive'
    BY <1>18 DEF SessionFails, ConnectFailed, Return, AwaitOn, Continue, Owned,
       RegisteredIsLive, Connected, ClientsApart, OpeningApart, LeavingApart,
       ClosingSnapped, UnusedNowhere, Opening, Closing, Leaving, TypeOK
  <2>2. OpeningApart'
    BY <1>18 DEF SessionFails, ConnectFailed, Return, AwaitOn, Continue, Owned,
       ClientsApart, OpeningApart, LeavingApart, ClosingSnapped, UnusedNowhere,
       Opening, Closing, Leaving, TypeOK
  <2>3. LeavingApart'
    BY <1>18 DEF SessionFails, ConnectFailed, Return, AwaitOn, Continue, Owned,
       ClientsApart, OpeningApart, LeavingApart, ClosingSnapped, UnusedNowhere,
       Opening, Closing, Leaving, TypeOK
  <2>4. ClosingSnapped'
    BY <1>18 DEF SessionFails, ConnectFailed, Return, AwaitOn, Continue, Owned,
       ClientsApart, OpeningApart, LeavingApart, ClosingSnapped, UnusedNowhere,
       Opening, Closing, Leaving, TypeOK
  <2>5. UnusedNowhere'
    BY <1>18, SMTT(30) DEF SessionFails, ConnectFailed, Return, AwaitOn, Continue, Owned,
       ClientsApart, OpeningApart, LeavingApart, ClosingSnapped, UnusedNowhere,
       Opening, Closing, Leaving, TypeOK
  <2> QED
    BY <2>1, <2>2, <2>3, <2>4, <2>5 DEF Owned, ClientsApart
<1>19. ASSUME NEW j \in Jobs, ToolsListed(j) PROVE Owned'
  <2>1. RegisteredIsLive'
    BY <1>19 DEF ToolsListed, Return, AwaitOn, Continue, Owned, RegisteredIsLive,
       Connected, ClientsApart, OpeningApart, LeavingApart, ClosingSnapped,
       UnusedNowhere, Opening, Closing, Leaving, TypeOK
  <2>2. OpeningApart'
    <3>1. CASE op[j] = "enable"
      BY <1>19, <3>1, SMTT(30) DEF ToolsListed, Return, AwaitOn, Owned, ClientsApart,
         OpeningApart, LeavingApart, ClosingSnapped, UnusedNowhere, Opening,
         Closing, Leaving, TypeOK
    <3>2. CASE op[j] # "enable"
      BY <1>19, <3>2 DEF ToolsListed, Continue, Owned, ClientsApart, OpeningApart,
         LeavingApart, ClosingSnapped, UnusedNowhere, Opening, Closing, Leaving,
         TypeOK
    <3> QED
      BY <3>1, <3>2
  <2>3. LeavingApart'
    <3>1. CASE op[j] = "enable"
      BY <1>19, <3>1 DEF ToolsListed, Return, AwaitOn, Owned, ClientsApart,
         OpeningApart, LeavingApart, ClosingSnapped, UnusedNowhere, Opening,
         Closing, Leaving, TypeOK
    <3>2. CASE op[j] # "enable"
      BY <1>19, <3>2 DEF ToolsListed, Continue, Owned, ClientsApart, OpeningApart,
         LeavingApart, ClosingSnapped, UnusedNowhere, Opening, Closing, Leaving,
         TypeOK
    <3> QED
      BY <3>1, <3>2
  <2>4. ClosingSnapped'
    <3>1. CASE op[j] = "enable"
      BY <1>19, <3>1 DEF ToolsListed, Return, AwaitOn, Owned, ClientsApart,
         OpeningApart, LeavingApart, ClosingSnapped, UnusedNowhere, Opening,
         Closing, Leaving, TypeOK
    <3>2. CASE op[j] # "enable"
      BY <1>19, <3>2 DEF ToolsListed, Continue, Owned, ClientsApart, OpeningApart,
         LeavingApart, ClosingSnapped, UnusedNowhere, Opening, Closing, Leaving,
         TypeOK
    <3> QED
      BY <3>1, <3>2
  <2>5. UnusedNowhere'
    <3>1. CASE op[j] = "enable"
      BY <1>19, <3>1 DEF ToolsListed, Return, AwaitOn, Owned, ClientsApart,
         OpeningApart, LeavingApart, ClosingSnapped, UnusedNowhere, Opening,
         Closing, Leaving, TypeOK
    <3>2. CASE op[j] # "enable"
      BY <1>19, <3>2 DEF ToolsListed, Continue, Owned, ClientsApart, OpeningApart,
         LeavingApart, ClosingSnapped, UnusedNowhere, Opening, Closing, Leaving,
         TypeOK
    <3> QED
      BY <3>1, <3>2
  <2> QED
    BY <2>1, <2>2, <2>3, <2>4, <2>5 DEF Owned, ClientsApart
<1>20. ASSUME NEW j \in Jobs, ListFails(j) PROVE Owned'
  <2>1. RegisteredIsLive'
    BY <1>20 DEF ListFails, Await, AwaitOn, Owned, RegisteredIsLive, Connected,
       ClientsApart, OpeningApart, LeavingApart, ClosingSnapped, UnusedNowhere,
       Opening, Closing, Leaving, TypeOK
  <2>2. OpeningApart'
    BY <1>20 DEF ListFails, Await, AwaitOn, Owned, ClientsApart, OpeningApart,
       LeavingApart, ClosingSnapped, UnusedNowhere, Opening, Closing, Leaving,
       TypeOK
  <2>3. LeavingApart'
    BY <1>20 DEF ListFails, Await, AwaitOn, Owned, ClientsApart, OpeningApart,
       LeavingApart, ClosingSnapped, UnusedNowhere, Opening, Closing, Leaving,
       TypeOK
  <2>4. ClosingSnapped'
    BY <1>20 DEF ListFails, Await, AwaitOn, Owned, ClientsApart, OpeningApart,
       LeavingApart, ClosingSnapped, UnusedNowhere, Opening, Closing, Leaving,
       TypeOK
  <2>5. UnusedNowhere'
    BY <1>20 DEF ListFails, Await, AwaitOn, Owned, ClientsApart, OpeningApart,
       LeavingApart, ClosingSnapped, UnusedNowhere, Opening, Closing, Leaving,
       TypeOK
  <2> QED
    BY <2>1, <2>2, <2>3, <2>4, <2>5 DEF Owned, ClientsApart
<1>21. ASSUME NEW j \in Jobs, CleanupDone(j) PROVE Owned'
  <2>1. RegisteredIsLive'
    BY <1>21 DEF CleanupDone, ConnectFailed, ConnectAborted, Return, AwaitOn,
       Continue, Exited, Owned, RegisteredIsLive, Connected, ClientsApart,
       OpeningApart, LeavingApart, ClosingSnapped, UnusedNowhere, Opening, Closing,
       Leaving, TypeOK
  <2>2. OpeningApart'
    BY <1>21, SMTT(30) DEF CleanupDone, ConnectFailed, ConnectAborted, Return, AwaitOn,
       Continue, Exited, Owned, ClientsApart, OpeningApart, LeavingApart,
       ClosingSnapped, UnusedNowhere, Opening, Closing, Leaving, TypeOK
  <2>3. LeavingApart'
    BY <1>21 DEF CleanupDone, ConnectFailed, ConnectAborted, Return, AwaitOn,
       Continue, Exited, Owned, ClientsApart, OpeningApart, LeavingApart,
       ClosingSnapped, UnusedNowhere, Opening, Closing, Leaving, TypeOK
  <2>4. ClosingSnapped'
    BY <1>21 DEF CleanupDone, ConnectFailed, ConnectAborted, Return, AwaitOn,
       Continue, Exited, Owned, ClientsApart, OpeningApart, LeavingApart,
       ClosingSnapped, UnusedNowhere, Opening, Closing, Leaving, TypeOK
  <2>5. UnusedNowhere'
    BY <1>21 DEF CleanupDone, ConnectFailed, ConnectAborted, Return, AwaitOn,
       Continue, Exited, Owned, ClientsApart, OpeningApart, LeavingApart,
       ClosingSnapped, UnusedNowhere, Opening, Closing, Leaving, TypeOK
  <2> QED
    BY <2>1, <2>2, <2>3, <2>4, <2>5 DEF Owned, ClientsApart
<1>22. ASSUME NEW j \in Jobs, CancelDelivered(j) PROVE Owned'
  <2>1. RegisteredIsLive'
    BY <1>22 DEF CancelDelivered, ConnectAborted, Return, Await, AwaitOn, Continue,
       Exited, Owned, RegisteredIsLive, Connected, ClientsApart, OpeningApart,
       LeavingApart, ClosingSnapped, UnusedNowhere, Opening, Closing, Leaving,
       TypeOK
  <2>2. OpeningApart'
    BY <1>22 DEF CancelDelivered, ConnectAborted, Return, Await, AwaitOn, Continue,
       Exited, Owned, ClientsApart, OpeningApart, LeavingApart, ClosingSnapped,
       UnusedNowhere, Opening, Closing, Leaving, TypeOK
  <2>3. LeavingApart'
    BY <1>22 DEF CancelDelivered, ConnectAborted, Return, Await, AwaitOn, Continue,
       Exited, Owned, ClientsApart, OpeningApart, LeavingApart, ClosingSnapped,
       UnusedNowhere, Opening, Closing, Leaving, TypeOK
  <2>4. ClosingSnapped'
    BY <1>22 DEF CancelDelivered, ConnectAborted, Return, Await, AwaitOn, Continue,
       Exited, Owned, ClientsApart, OpeningApart, LeavingApart, ClosingSnapped,
       UnusedNowhere, Opening, Closing, Leaving, TypeOK
  <2>5. UnusedNowhere'
    BY <1>22 DEF CancelDelivered, ConnectAborted, Return, Await, AwaitOn, Continue,
       Exited, Owned, ClientsApart, OpeningApart, LeavingApart, ClosingSnapped,
       UnusedNowhere, Opening, Closing, Leaving, TypeOK
  <2> QED
    BY <2>1, <2>2, <2>3, <2>4, <2>5 DEF Owned, ClientsApart
<1>23. ASSUME NEW j \in Jobs, Snapshot(j) PROVE Owned'
  <2>1. RegisteredIsLive'
    BY <1>23 DEF Snapshot, ShutdownReturns, Return, AwaitOn, Continue, Registered,
       Owned, RegisteredIsLive, Connected, ClientsApart, OpeningApart, LeavingApart,
       ClosingSnapped, UnusedNowhere, Opening, Closing, Leaving, TypeOK
  <2>2. OpeningApart'
    BY <1>23 DEF Snapshot, ShutdownReturns, Return, AwaitOn, Continue, Registered,
       Connected, Owned, ClientsApart, OpeningApart, LeavingApart, ClosingSnapped,
       UnusedNowhere, Opening, Closing, Leaving, TypeOK
  <2>3. LeavingApart'
    BY <1>23 DEF Snapshot, ShutdownReturns, Return, AwaitOn, Continue, Registered,
       Connected, Owned, ClientsApart, OpeningApart, LeavingApart, ClosingSnapped,
       UnusedNowhere, Opening, Closing, Leaving, TypeOK
  <2>4. ClosingSnapped'
    BY <1>23 DEF Snapshot, ShutdownReturns, Return, AwaitOn, Continue, Registered,
       Connected, Owned, ClientsApart, OpeningApart, LeavingApart, ClosingSnapped,
       UnusedNowhere, Opening, Closing, Leaving, TypeOK
  <2>5. UnusedNowhere'
    BY <1>23 DEF Snapshot, ShutdownReturns, Return, AwaitOn, Continue, Registered,
       Connected, Owned, ClientsApart, OpeningApart, LeavingApart, ClosingSnapped,
       UnusedNowhere, Opening, Closing, Leaving, TypeOK
  <2> QED
    BY <2>1, <2>2, <2>3, <2>4, <2>5 DEF Owned, ClientsApart
<1>24. ASSUME NEW j \in Jobs, CloseNext(j) PROVE Owned'
  <2>1. RegisteredIsLive'
    BY <1>24 DEF CloseNext, AwaitOn, Owned, RegisteredIsLive, Connected,
       ClientsApart, OpeningApart, LeavingApart, ClosingSnapped, UnusedNowhere,
       Opening, Closing, Leaving, TypeOK
  <2>2. OpeningApart'
    BY <1>24 DEF CloseNext, AwaitOn, Owned, ClientsApart, OpeningApart,
       LeavingApart, ClosingSnapped, UnusedNowhere, Opening, Closing, Leaving,
       TypeOK
  <2>3. LeavingApart'
    BY <1>24 DEF CloseNext, AwaitOn, Owned, ClientsApart, OpeningApart,
       LeavingApart, ClosingSnapped, UnusedNowhere, Opening, Closing, Leaving,
       TypeOK
  <2>4. ClosingSnapped'
    BY <1>24 DEF CloseNext, AwaitOn, Owned, ClientsApart, OpeningApart,
       LeavingApart, ClosingSnapped, UnusedNowhere, Opening, Closing, Leaving,
       TypeOK
  <2>5. UnusedNowhere'
    BY <1>24 DEF CloseNext, AwaitOn, Owned, ClientsApart, OpeningApart,
       LeavingApart, ClosingSnapped, UnusedNowhere, Opening, Closing, Leaving,
       TypeOK
  <2> QED
    BY <2>1, <2>2, <2>3, <2>4, <2>5 DEF Owned, ClientsApart
<1>25. ASSUME NEW j \in Jobs, SessionExits(j) PROVE Owned'
  <2>1. RegisteredIsLive'
    BY <1>25 DEF SessionExits, Await, AwaitOn, Exited, Owned, RegisteredIsLive,
       Connected, ClientsApart, OpeningApart, LeavingApart, ClosingSnapped,
       UnusedNowhere, Opening, Closing, Leaving, TypeOK
  <2>2. OpeningApart'
    BY <1>25 DEF SessionExits, Await, AwaitOn, Exited, Owned, ClientsApart,
       OpeningApart, LeavingApart, ClosingSnapped, UnusedNowhere, Opening, Closing,
       Leaving, TypeOK
  <2>3. LeavingApart'
    BY <1>25 DEF SessionExits, Await, AwaitOn, Exited, Owned, ClientsApart,
       OpeningApart, LeavingApart, ClosingSnapped, UnusedNowhere, Opening, Closing,
       Leaving, TypeOK
  <2>4. ClosingSnapped'
    BY <1>25 DEF SessionExits, Await, AwaitOn, Exited, Owned, ClientsApart,
       OpeningApart, LeavingApart, ClosingSnapped, UnusedNowhere, Opening, Closing,
       Leaving, TypeOK
  <2>5. UnusedNowhere'
    BY <1>25 DEF SessionExits, Await, AwaitOn, Exited, Owned, ClientsApart,
       OpeningApart, LeavingApart, ClosingSnapped, UnusedNowhere, Opening, Closing,
       Leaving, TypeOK
  <2> QED
    BY <2>1, <2>2, <2>3, <2>4, <2>5 DEF Owned, ClientsApart
<1>26. ASSUME NEW j \in Jobs, TransportCloses(j) PROVE Owned'
  <2>1. RegisteredIsLive'
    BY <1>26 DEF TransportCloses, Continue, Owned, RegisteredIsLive, Connected,
       ClientsApart, OpeningApart, LeavingApart, ClosingSnapped, UnusedNowhere,
       Opening, Closing, Leaving, TypeOK
  <2>2. OpeningApart'
    BY <1>26 DEF TransportCloses, Continue, Owned, ClientsApart, OpeningApart,
       LeavingApart, ClosingSnapped, UnusedNowhere, Opening, Closing, Leaving,
       TypeOK
  <2>3. LeavingApart'
    BY <1>26 DEF TransportCloses, Continue, Owned, ClientsApart, OpeningApart,
       LeavingApart, ClosingSnapped, UnusedNowhere, Opening, Closing, Leaving,
       TypeOK
  <2>4. ClosingSnapped'
    BY <1>26 DEF TransportCloses, Continue, Owned, ClientsApart, OpeningApart,
       LeavingApart, ClosingSnapped, UnusedNowhere, Opening, Closing, Leaving,
       TypeOK
  <2>5. UnusedNowhere'
    BY <1>26 DEF TransportCloses, Continue, Owned, ClientsApart, OpeningApart,
       LeavingApart, ClosingSnapped, UnusedNowhere, Opening, Closing, Leaving,
       TypeOK
  <2> QED
    BY <2>1, <2>2, <2>3, <2>4, <2>5 DEF Owned, ClientsApart
<1>27. ASSUME NEW j \in Jobs, CloseRaises(j) PROVE Owned'
  <2>1. RegisteredIsLive'
    BY <1>27 DEF CloseRaises, Continue, Exited, Owned, RegisteredIsLive, Connected,
       ClientsApart, OpeningApart, LeavingApart, ClosingSnapped, UnusedNowhere,
       Opening, Closing, Leaving, TypeOK
  <2>2. OpeningApart'
    BY <1>27 DEF CloseRaises, Continue, Exited, Owned, ClientsApart, OpeningApart,
       LeavingApart, ClosingSnapped, UnusedNowhere, Opening, Closing, Leaving,
       TypeOK
  <2>3. LeavingApart'
    BY <1>27 DEF CloseRaises, Continue, Exited, Owned, ClientsApart, OpeningApart,
       LeavingApart, ClosingSnapped, UnusedNowhere, Opening, Closing, Leaving,
       TypeOK
  <2>4. ClosingSnapped'
    BY <1>27 DEF CloseRaises, Continue, Exited, Owned, ClientsApart, OpeningApart,
       LeavingApart, ClosingSnapped, UnusedNowhere, Opening, Closing, Leaving,
       TypeOK
  <2>5. UnusedNowhere'
    BY <1>27 DEF CloseRaises, Continue, Exited, Owned, ClientsApart, OpeningApart,
       LeavingApart, ClosingSnapped, UnusedNowhere, Opening, Closing, Leaving,
       TypeOK
  <2> QED
    BY <2>1, <2>2, <2>3, <2>4, <2>5 DEF Owned, ClientsApart
<1>28. ASSUME NEW j \in Jobs, ClearAll(j) PROVE Owned'
  <2>1. RegisteredIsLive'
    BY <1>28 DEF ClearAll, ShutdownReturns, Return, AwaitOn, Continue,
       EmptyRegistry, Owned, RegisteredIsLive, Connected, ClientsApart,
       OpeningApart, LeavingApart, ClosingSnapped, UnusedNowhere, Opening, Closing,
       Leaving, TypeOK
  <2>2. OpeningApart'
    BY <1>28 DEF ClearAll, ShutdownReturns, Return, AwaitOn, Continue,
       EmptyRegistry, Owned, ClientsApart, OpeningApart, LeavingApart,
       ClosingSnapped, UnusedNowhere, Opening, Closing, Leaving, TypeOK
  <2>3. LeavingApart'
    BY <1>28 DEF ClearAll, ShutdownReturns, Return, AwaitOn, Continue,
       EmptyRegistry, Owned, ClientsApart, OpeningApart, LeavingApart,
       ClosingSnapped, UnusedNowhere, Opening, Closing, Leaving, TypeOK
  <2>4. ClosingSnapped'
    BY <1>28 DEF ClearAll, ShutdownReturns, Return, AwaitOn, Continue,
       EmptyRegistry, Owned, ClientsApart, OpeningApart, LeavingApart,
       ClosingSnapped, UnusedNowhere, Opening, Closing, Leaving, TypeOK
  <2>5. UnusedNowhere'
    BY <1>28 DEF ClearAll, ShutdownReturns, Return, AwaitOn, Continue,
       EmptyRegistry, Owned, ClientsApart, OpeningApart, LeavingApart,
       ClosingSnapped, UnusedNowhere, Opening, Closing, Leaving, TypeOK
  <2> QED
    BY <2>1, <2>2, <2>3, <2>4, <2>5 DEF Owned, ClientsApart
<1>29. ASSUME NEW j \in Jobs, ResetState(j) PROVE Owned'
  <2>1. RegisteredIsLive'
    BY <1>29 DEF ResetState, EmptyRegistry, Owned, RegisteredIsLive, Connected,
       ClientsApart, OpeningApart, LeavingApart, ClosingSnapped, UnusedNowhere,
       Opening, Closing, Leaving, TypeOK
  <2>2. OpeningApart'
    BY <1>29 DEF ResetState, EmptyRegistry, Owned, ClientsApart, OpeningApart,
       LeavingApart, ClosingSnapped, UnusedNowhere, Opening, Closing, Leaving,
       TypeOK
  <2>3. LeavingApart'
    BY <1>29 DEF ResetState, EmptyRegistry, Owned, ClientsApart, OpeningApart,
       LeavingApart, ClosingSnapped, UnusedNowhere, Opening, Closing, Leaving,
       TypeOK
  <2>4. ClosingSnapped'
    BY <1>29 DEF ResetState, EmptyRegistry, Owned, ClientsApart, OpeningApart,
       LeavingApart, ClosingSnapped, UnusedNowhere, Opening, Closing, Leaving,
       TypeOK
  <2>5. UnusedNowhere'
    BY <1>29 DEF ResetState, EmptyRegistry, Owned, ClientsApart, OpeningApart,
       LeavingApart, ClosingSnapped, UnusedNowhere, Opening, Closing, Leaving,
       TypeOK
  <2> QED
    BY <2>1, <2>2, <2>3, <2>4, <2>5 DEF Owned, ClientsApart
<1>30. ASSUME NEW j \in Jobs, DisableEntry(j) PROVE Owned'
  <2>1. RegisteredIsLive'
    <3>1. UNCHANGED <<cstate, snap>>
      BY <1>30 DEF DisableEntry
    <3>2. \A s \in Servers : clients'[s] \in {clients[s], NoClient}
      BY <1>30 DEF DisableEntry, Return, AwaitOn, TypeOK
    <3> QED
      BY <3>1, <3>2 DEF Owned, RegisteredIsLive, Connected
  <2>2. OpeningApart'
    <3>1. CASE srv[j] \notin Connected
      BY <1>30, <3>1 DEF DisableEntry, Return, AwaitOn, Owned, ClientsApart,
         OpeningApart, LeavingApart, ClosingSnapped, UnusedNowhere, Opening,
         Closing, Leaving, TypeOK
    <3>2. CASE srv[j] \in Connected
      BY <1>30, <3>2 DEF DisableEntry, AwaitOn, Connected, Owned, ClientsApart,
         OpeningApart, LeavingApart, ClosingSnapped, UnusedNowhere, Opening,
         Closing, Leaving, TypeOK
    <3> QED
      BY <3>1, <3>2
  <2>3. LeavingApart'
    BY <1>30 DEF DisableEntry, Return, AwaitOn, Owned, RegisteredIsLive, Connected,
       ClientsApart, OpeningApart, LeavingApart, ClosingSnapped, UnusedNowhere,
       Opening, Closing, Leaving, TypeOK
  <2>4. ClosingSnapped'
    BY <1>30 DEF DisableEntry, Return, AwaitOn, Owned, ClientsApart, OpeningApart,
       LeavingApart, ClosingSnapped, UnusedNowhere, Opening, Closing, Leaving,
       TypeOK
  <2>5. UnusedNowhere'
    BY <1>30 DEF DisableEntry, Return, AwaitOn, Owned, ClientsApart, OpeningApart,
       LeavingApart, ClosingSnapped, UnusedNowhere, Opening, Closing, Leaving,
       TypeOK
  <2> QED
    BY <2>1, <2>2, <2>3, <2>4, <2>5 DEF Owned, ClientsApart
<1>31. ASSUME NEW j \in Jobs, SessionLeft(j) PROVE Owned'
  <2>1. RegisteredIsLive'
    BY <1>31 DEF SessionLeft, Return, AwaitOn, Exited, Owned, RegisteredIsLive,
       Connected, ClientsApart, OpeningApart, LeavingApart, ClosingSnapped,
       UnusedNowhere, Opening, Closing, Leaving, TypeOK
  <2>2. OpeningApart'
    BY <1>31 DEF SessionLeft, Return, AwaitOn, Exited, Owned, ClientsApart,
       OpeningApart, LeavingApart, ClosingSnapped, UnusedNowhere, Opening, Closing,
       Leaving, TypeOK
  <2>3. LeavingApart'
    BY <1>31 DEF SessionLeft, Return, AwaitOn, Exited, Owned, ClientsApart,
       OpeningApart, LeavingApart, ClosingSnapped, UnusedNowhere, Opening, Closing,
       Leaving, TypeOK
  <2>4. ClosingSnapped'
    BY <1>31 DEF SessionLeft, Return, AwaitOn, Exited, Owned, ClientsApart,
       OpeningApart, LeavingApart, ClosingSnapped, UnusedNowhere, Opening, Closing,
       Leaving, TypeOK
  <2>5. UnusedNowhere'
    BY <1>31 DEF SessionLeft, Return, AwaitOn, Exited, Owned, ClientsApart,
       OpeningApart, LeavingApart, ClosingSnapped, UnusedNowhere, Opening, Closing,
       Leaving, TypeOK
  <2> QED
    BY <2>1, <2>2, <2>3, <2>4, <2>5 DEF Owned, ClientsApart
<1>32. CASE UNCHANGED vars
  BY <1>32 DEF vars, Owned, RegisteredIsLive, Connected, ClientsApart, OpeningApart,
     LeavingApart, ClosingSnapped, UnusedNowhere, Opening, Closing, Leaving, TypeOK
<1> QED
  BY <1>1, <1>2, <1>3, <1>4, <1>5, <1>6, <1>7, <1>8, <1>9, <1>10, <1>11, <1>12,
     <1>13, <1>14, <1>15, <1>16, <1>17, <1>18, <1>19, <1>20, <1>21, <1>22, <1>23,
     <1>24, <1>25, <1>26, <1>27, <1>28, <1>29, <1>30, <1>31, <1>32 DEF Next,
     SubmitSome, Step

\* A client has one owner.
THEOREM OwnershipCorrect == Spec => []ClientsApart
<1>1. Owned => ClientsApart
  BY DEF Owned
<1> QED
  BY <1>1, TypeInit, TypeStep, OwnedInit, OwnedStep, PTL DEF Spec

\* No call is dispatched to a session that an operation which is over has closed.
THEOREM RegisteredCorrect == Spec => []RegisteredIsLive
<1>1. Owned => RegisteredIsLive
  BY DEF Owned
<1> QED
  BY <1>1, TypeInit, TypeStep, OwnedInit, OwnedStep, PTL DEF Spec
-----------------------------------------------------------------------------
\* Where a coroutine has a session it may still register, and where it shuts down.
ListPcs == {"listing", "cleanup"}

ShutPcs == {"closeall", "exiting", "transport"}

\* Some coroutine opens the session.
Entering(c) == \E j \in Jobs : pc[j] = "entering" /\ cl[j] = c

\* A snapshot is kept as long as its clients are being closed, and those that are
\* not left, and not being closed now, are over.
Books ==
  /\ \A j \in Jobs :
       /\ pc[j] \notin ShutPcs => snap[j] = {}
       /\ \A c \in snap[j] :
            \/ c \in left[j]
            \/ pc[j] = "exiting" /\ cl[j] = c
            \/ cstate[c] \in {"exited", "closed"}
  /\ \A c \in Clients : cstate[c] = "entering" => Entering(c)


LEMMA LifeIs ==
  ASSUME NEW c \in Clients
  PROVE  /\ cstate[c] = "unused" => Life(c) = "unused"
         /\ cstate[c] = "entering" => Life(c) = "opening"
         /\ cstate[c] \in {"exited", "closed"} => Life(c) = "over"
         /\ cstate[c] = "open" /\ Listing(c) => Life(c) = "opening"
         /\ cstate[c] = "open" /\ ~Listing(c) => Life(c) = "serving"
  BY DEF Life

\* The same of the next state.
LEMMA LifeWillBe ==
  ASSUME NEW c \in Clients
  PROVE  /\ cstate'[c] = "unused" => Life(c)' = "unused"
         /\ cstate'[c] = "entering" => Life(c)' = "opening"
         /\ cstate'[c] \in {"exited", "closed"} => Life(c)' = "over"
         /\ cstate'[c] = "open" /\ Listing(c)' => Life(c)' = "opening"
         /\ cstate'[c] = "open" /\ ~Listing(c)' => Life(c)' = "serving"
  BY DEF Life

\* A client nobody begins or ends to list, and whose state stays, has the same life.
LEMMA LifeStays ==
  ASSUME NEW c \in Clients, cstate'[c] = cstate[c], Listing(c)' <=> Listing(c)
  PROVE  Life(c)' = Life(c)
  BY DEF Life

\* A coroutine that is about no client to be registered changes nobody's being listed.
LEMMA ListingElse ==
  ASSUME NEW c, NEW j \in Jobs, pc[j] \notin ListPcs, pc'[j] \notin ListPcs,
         \A k \in Jobs \ {j} : pc'[k] = pc[k] /\ cl'[k] = cl[k]
  PROVE  Listing(c)' <=> Listing(c)
  BY DEF Listing, ListPcs

LEMMA LivesSame ==
  ASSUME \A c \in Clients : Life(c)' = Life(c)
  PROVE  UNCHANGED Lives
  BY DEF Lives

LEMMA LivesBut ==
  ASSUME NEW c \in Clients, NEW v, Life(c)' = v,
         \A d \in Clients \ {c} : Life(d)' = Life(d)
  PROVE  Lives' = [Lives EXCEPT ![c] = v]
  BY DEF Lives

\* What the abstract actions say of the manager.
LEMMA ClientsSee ==
  ASSUME NEW c
  PROVE  /\ Sessions!Open(c) <=>
              /\ Lives[c] = "unused"
              /\ Lives' = [Lives EXCEPT ![c] = "opening"]
              /\ UNCHANGED <<clients, snap>>
         /\ Sessions!GiveUp(c) <=>
              /\ Lives[c] = "opening"
              /\ Lives' = [Lives EXCEPT ![c] = "over"]
              /\ UNCHANGED <<clients, snap>>
         /\ Sessions!Close(c) <=>
              /\ Lives[c] = "serving"
              /\ c \notin Sessions!InUse \/ \E k \in Jobs : c \in snap[k]
              /\ Lives' = [Lives EXCEPT ![c] = "over"]
              /\ UNCHANGED <<clients, snap>>
  BY Zenon DEF Sessions!Open, Sessions!GiveUp, Sessions!Close

LEMMA ServersSee ==
  ASSUME NEW s
  PROVE  /\ \A c : Sessions!Register(s, c) <=>
              /\ Lives[c] = "opening"
              /\ Lives' = [Lives EXCEPT ![c] = "serving"]
              /\ clients' = [clients EXCEPT ![s] = c]
              /\ UNCHANGED snap
         /\ Sessions!Withdraw(s) <=>
              /\ clients[s] # NoClient
              /\ clients' = [clients EXCEPT ![s] = NoClient]
              /\ UNCHANGED <<Lives, snap>>
  BY Zenon DEF Sessions!Register, Sessions!Withdraw

LEMMA ShutdownsSee ==
  ASSUME NEW j
  PROVE  /\ Sessions!BeginShutdown(j) <=>
              /\ snap[j] = {}
              /\ snap' = [snap EXCEPT ![j] = Sessions!InUse]
              /\ UNCHANGED <<clients, Lives>>
         /\ Sessions!EndShutdown(j) <=>
              /\ \A d \in snap[j] : Lives[d] = "over"
              /\ snap' = [snap EXCEPT ![j] = {}]
              /\ clients' = [t \in Servers |-> NoClient]
              /\ UNCHANGED Lives
  BY Zenon DEF Sessions!BeginShutdown, Sessions!EndShutdown, Sessions!NobodyServes

LEMMA InUseIs ==
  ASSUME TypeOK
  PROVE  Sessions!InUse = Registered
  BY ConstantsOK DEF TypeOK, Sessions!InUse, Registered, Connected

\* A step of any of them is one of the sessions.
LEMMA SessionsNext ==
  /\ \A c \in Clients : Sessions!Open(c) \/ Sessions!GiveUp(c) \/ Sessions!Close(c) => Sessions!Next
  /\ \A s \in Servers : Sessions!Withdraw(s) => Sessions!Next
  /\ \A s \in Servers, c \in Clients : Sessions!Register(s, c) => Sessions!Next
  /\ \A j \in Jobs : Sessions!BeginShutdown(j) \/ Sessions!EndShutdown(j) => Sessions!Next
  /\ Sessions!Forget => Sessions!Next
  BY Zenon DEF Sessions!Next

LEMMA SessionsRest ==
  UNCHANGED Sessions!vars <=> UNCHANGED <<clients, Lives, snap>>
  BY DEF Sessions!vars

LEMMA BooksInit == Init => Books
  BY DEF Init, Books, ShutPcs

LEMMA SessionsInit == Init => Sessions!Init
<1> SUFFICES ASSUME Init PROVE Sessions!Init
  OBVIOUS
<1>1. \A c \in Clients : Life(c) = "unused"
  BY LifeIs DEF Init
<1> QED
  BY <1>1 DEF Init, Sessions!Init, Sessions!NobodyServes, Lives

-----------------------------------------------------------------------------
Fine == Books' /\ [Sessions!Next]_(Sessions!vars)

\* A coroutine that goes on where no client is at stake.
LEMMA Aside ==
  ASSUME Books, NEW j \in Jobs, TypeOK,
         pc[j] \notin {"entering", "listing", "cleanup"} \cup ShutPcs,
         pc'[j] \notin {"entering", "listing", "cleanup"} \cup ShutPcs,
         \A k \in Jobs \ {j} : pc'[k] = pc[k] /\ cl'[k] = cl[k],
         UNCHANGED <<clients, cstate, snap, left>>
  PROVE  Fine
<1>1. Books'
  BY DEF Books, Entering, ShutPcs
<1>2. \A c \in Clients : Life(c)' = Life(c)
  BY LifeStays, ListingElse DEF ListPcs
<1> QED
  BY <1>1, <1>2, LivesSame, SessionsRest DEF Fine

LEMMA AsideEntry ==
  ASSUME Books, TypeOK, NEW j \in Jobs,
         \/ ConnectEntry(j) \/ ConnectNext(j) \/ CreateFails(j) \/ ShutdownEntry(j)
         \/ TaskEnded(j) \/ EnableEntry(j) \/ CallEntry(j) \/ CallReturns(j)
         \/ CallTimesOut(j)
  PROVE  Fine
<1> DEFINE Calm == /\ UNCHANGED <<clients, cstate, snap, left>>
                   /\ pc[j] \notin {"entering", "listing", "cleanup"} \cup ShutPcs
                   /\ pc'[j] \notin {"entering", "listing", "cleanup"} \cup ShutPcs
                   /\ \A k \in Jobs \ {j} : pc'[k] = pc[k] /\ cl'[k] = cl[k]
<1> USE DEF TypeOK, ShutPcs
<1>1. ASSUME ConnectEntry(j) PROVE Calm
  BY <1>1 DEF ConnectEntry, ConfigRead, Return, AwaitOn, Continue
<1>2. ASSUME ConnectNext(j) PROVE Calm
  BY <1>2 DEF ConnectNext, Return, AwaitOn, Continue
<1>3. ASSUME CreateFails(j) PROVE Calm
  BY <1>3 DEF CreateFails, ConnectFailed, Return, AwaitOn, Continue
<1>4. ASSUME ShutdownEntry(j) PROVE Calm
  BY <1>4 DEF ShutdownEntry, Await, AwaitOn, Continue
<1>5. ASSUME TaskEnded(j) PROVE Calm
  BY <1>5 DEF TaskEnded, Continue
<1>6. ASSUME EnableEntry(j) PROVE Calm
  BY <1>6 DEF EnableEntry, ConfigRead, Return, AwaitOn, Continue
<1>7. ASSUME CallEntry(j) PROVE Calm
  BY <1>7 DEF CallEntry, Return, AwaitOn
<1>8. ASSUME CallReturns(j) PROVE Calm
  BY <1>8 DEF CallReturns, Return, AwaitOn
<1>9. ASSUME CallTimesOut(j) PROVE Calm
  BY <1>9 DEF CallTimesOut, Return, AwaitOn
<1>10. Calm
  BY <1>1, <1>2, <1>3, <1>4, <1>5, <1>6, <1>7, <1>8, <1>9
<1> QED
  BY <1>10, Aside

\* So does one that is submitted, unless it forgets the registry.
LEMMA AsideSubmit ==
  ASSUME Books, TypeOK, NEW j \in Jobs,
         \/ ConnectBackground(j) \/ SubmitReconnect(j) \/ BeginShutdown(j)
         \/ \E s \in Servers :
              SubmitEnable(j, s) \/ SubmitDisable(j, s) \/ SubmitCall(j, s)
  PROVE  Fine
<1>1. \E s, o : Submit(j, o, s)
  BY DEF ConnectBackground, SubmitReconnect, BeginShutdown, SubmitEnable, SubmitDisable,
     SubmitCall
<1>2. \E p \in {"connect", "shutdown", "enable", "disable", "call"} :
        pc' = [pc EXCEPT ![j] = p]
  BY DEF ConnectBackground, SubmitReconnect, BeginShutdown, SubmitEnable, SubmitDisable,
     SubmitCall, Scheduled, Continue
<1>3. UNCHANGED <<clients, cstate, snap, left, cl>> /\ pc[j] = "idle"
  BY <1>1 DEF Submit
<1>4. /\ pc'[j] \notin {"entering", "listing", "cleanup"} \cup ShutPcs
      /\ \A k \in Jobs \ {j} : pc'[k] = pc[k]
  BY <1>2 DEF TypeOK, ShutPcs
<1> QED
  BY <1>3, <1>4, Aside DEF ShutPcs
-----------------------------------------------------------------------------
\* Coroutine j is at p next, and works on c.
Moves(j, p, c) ==
  /\ pc' = [pc EXCEPT ![j] = p]
  /\ cl' = [cl EXCEPT ![j] = c]

LEMMA CreateFine ==
  ASSUME TypeOK, Owned, Books, NEW j \in Jobs, CreateClient(j)
  PROVE  Fine
<1>1. PICK c \in Clients : cstate[c] = "unused" /\ c = Fresh
  BY DEF CreateClient, Fresh
<1>2. /\ cstate' = [cstate EXCEPT ![c] = "entering"] /\ Moves(j, "entering", c)
      /\ UNCHANGED <<clients, snap, left>> /\ pc[j] = "create"
  BY <1>1 DEF CreateClient, AwaitOn, Moves
<1>3. Books'
  BY <1>1, <1>2 DEF Books, Entering, ShutPcs, TypeOK, Owned, ClientsApart, UnusedNowhere, Moves
<1>4. \A d \in Clients : Listing(d)' <=> Listing(d)
  BY <1>2, ListingElse DEF ListPcs, Moves, TypeOK
<1>5. \A d \in Clients \ {c} : Life(d)' = Life(d)
  BY <1>2, <1>4, LifeStays DEF TypeOK
<1>6. Life(c) = "unused" /\ Life(c)' = "opening"
  BY <1>1, <1>2, LifeIs, LifeWillBe DEF TypeOK
<1>7. Lives[c] = "unused" /\ Lives' = [Lives EXCEPT ![c] = "opening"]
  BY <1>1, <1>5, <1>6, LivesBut DEF Lives
<1>8. Sessions!Next
  BY <1>1, <1>2, <1>7, ClientsSee, SessionsNext
<1> QED
  BY <1>3, <1>8 DEF Fine

\* The client coroutine j works on is over, or was; nobody lists it.
LEMMA CloseFine ==
  ASSUME TypeOK, Owned, NEW j \in Jobs, NEW c \in Clients, cl[j] = c,
         pc[j] \in {"exiting", "transport", "leaving"}, Books,
         cstate' \in {Exited(c), [cstate EXCEPT ![c] = "closed"]},
         pc'[j] \notin {"entering", "listing", "cleanup"},
         \A k \in Jobs \ {j} : pc'[k] = pc[k] /\ cl'[k] = cl[k],
         pc[j] \in ShutPcs <=> pc'[j] \in ShutPcs, pc'[j] # "exiting",
         UNCHANGED <<clients, snap, left>>
  PROVE  Fine
<1>1. /\ cstate'[c] \in {"exited", "closed"}
      /\ \A d \in Clients \ {c} : cstate'[d] = cstate[d]
  BY DEF TypeOK, Exited
<1>2. Books'
  BY <1>1 DEF Books, Entering, ShutPcs, TypeOK
<1>3. c \notin Registered \/ c \in snap[j]
  BY DEF Owned, ClientsApart, LeavingApart, ClosingSnapped, Leaving, Closing, Registered,
     Connected
<1>4. cstate[c] \notin {"unused", "entering"}
  BY DEF Owned, ClientsApart, OpeningApart, LeavingApart, ClosingSnapped, UnusedNowhere,
     Leaving, Closing, Opening, Books, Entering
<1>5. ~Listing(c)
  BY DEF Owned, ClientsApart, OpeningApart, LeavingApart, ClosingSnapped, Leaving, Closing,
     Opening, Listing
<1>6. \A d \in Clients : Listing(d)' <=> Listing(d)
  BY ListingElse DEF ListPcs
<1>7. \A d \in Clients \ {c} : Life(d)' = Life(d)
  BY <1>1, <1>6, LifeStays
<1>8. Life(c)' = "over"
  BY <1>1, LifeWillBe
<1>9. CASE cstate[c] = "open"
  <2>1. Lives[c] = "serving" /\ Lives' = [Lives EXCEPT ![c] = "over"]
    BY <1>5, <1>7, <1>8, <1>9, LifeIs, LivesBut DEF Lives
  <2>2. Sessions!Close(c)
    BY <1>3, <2>1, ClientsSee, InUseIs
  <2> QED
    BY <1>2, <2>2, SessionsNext DEF Fine
<1>10. CASE cstate[c] # "open"
  <2>1. cstate[c] \in {"exited", "closed"}
    BY <1>4, <1>10 DEF TypeOK
  <2>2. \A d \in Clients : Life(d)' = Life(d)
    BY <2>1, <1>7, <1>8, LifeIs
  <2> QED
    BY <1>2, <2>2, LivesSame, SessionsRest DEF Fine
<1> QED
  BY <1>9, <1>10

LEMMA ClosingFine ==
  ASSUME TypeOK, Owned, Books, NEW j \in Jobs,
         SessionExits(j) \/ TransportCloses(j) \/ CloseRaises(j) \/ SessionLeft(j)
  PROVE  Fine
<1> DEFINE Over(c) == /\ pc[j] \in {"exiting", "transport", "leaving"}
                      /\ cstate' \in {Exited(c), [cstate EXCEPT ![c] = "closed"]}
                      /\ pc'[j] \notin {"entering", "listing", "cleanup", "exiting"}
                      /\ \A k \in Jobs \ {j} : pc'[k] = pc[k] /\ cl'[k] = cl[k]
                      /\ pc[j] \in ShutPcs <=> pc'[j] \in ShutPcs
                      /\ UNCHANGED <<clients, snap, left>>
<1> USE DEF TypeOK, ShutPcs
<1>1. ASSUME SessionExits(j) PROVE Over(cl[j])
  BY <1>1 DEF SessionExits, Await, AwaitOn
<1>2. ASSUME TransportCloses(j) PROVE Over(cl[j])
  BY <1>2 DEF TransportCloses, Continue
<1>3. ASSUME CloseRaises(j) PROVE Over(cl[j])
  BY <1>3 DEF CloseRaises, Continue
<1>4. ASSUME SessionLeft(j) PROVE Over(cl[j])
  BY <1>4 DEF SessionLeft, Return, AwaitOn
<1>5. Over(cl[j])
  BY <1>1, <1>2, <1>3, <1>4
<1>6. PICK c \in Clients : c = cl[j]
  BY <1>5 DEF Owned, ClientsApart, LeavingApart, ClosingSnapped, Leaving, Closing
<1>7. Over(c)
  BY <1>5, <1>6
<1> QED
  BY <1>6, <1>7, CloseFine

\* _connect_server gives its client up.
LEMMA GiveUpFine ==
  ASSUME TypeOK, Owned, NEW j \in Jobs, NEW c \in Clients, cl[j] = c,
         pc[j] \in {"entering", "listing", "cleanup"}, Books,
         cstate' \in {Exited(c), [cstate EXCEPT ![c] = "closed"]},
         pc'[j] \notin {"entering", "listing", "cleanup"} \cup ShutPcs,
         \A k \in Jobs \ {j} : pc'[k] = pc[k] /\ cl'[k] = cl[k],
         UNCHANGED <<clients, snap, left>>
  PROVE  Fine
<1>1. /\ cstate'[c] \in {"exited", "closed"}
      /\ \A d \in Clients \ {c} : cstate'[d] = cstate[d]
  BY DEF TypeOK, Exited
<1>2. Books'
  BY <1>1 DEF Books, Entering, ShutPcs, TypeOK
<1>3. cstate[c] = "entering" \/ (cstate[c] = "open" /\ Listing(c))
  BY DEF Owned, ClientsApart, OpeningApart, Opening, Listing
<1>4. \A d \in Clients \ {c} : Listing(d)' <=> Listing(d)
  BY DEF Listing
<1>5. \A d \in Clients \ {c} : Life(d)' = Life(d)
  BY <1>1, <1>4, LifeStays
<1>6. Life(c) = "opening" /\ Life(c)' = "over"
  BY <1>1, <1>3, LifeIs, LifeWillBe
<1>7. Lives[c] = "opening" /\ Lives' = [Lives EXCEPT ![c] = "over"]
  BY <1>5, <1>6, LivesBut DEF Lives
<1>8. Sessions!GiveUp(c)
  BY <1>7, ClientsSee
<1> QED
  BY <1>2, <1>8, SessionsNext DEF Fine

LEMMA FailuresFine ==
  ASSUME TypeOK, Owned, Books, NEW j \in Jobs,
         \/ SessionFails(j) \/ CleanupDone(j)
         \/ CancelDelivered(j) /\ pc[j] \in {"entering", "cleanup"}
  PROVE  Fine
<1> DEFINE Up(c) == /\ pc[j] \in {"entering", "listing", "cleanup"}
                    /\ cstate' \in {Exited(c), [cstate EXCEPT ![c] = "closed"]}
                    /\ pc'[j] \notin {"entering", "listing", "cleanup"} \cup ShutPcs
                    /\ \A k \in Jobs \ {j} : pc'[k] = pc[k] /\ cl'[k] = cl[k]
                    /\ UNCHANGED <<clients, snap, left>>
<1> USE DEF TypeOK, ShutPcs
<1>1. ASSUME SessionFails(j) PROVE Up(cl[j])
  BY <1>1 DEF SessionFails, ConnectFailed, Return, AwaitOn, Continue
<1>2. ASSUME CleanupDone(j) PROVE Up(cl[j])
  <2>1. CASE ConnectAborted(j)
    BY <1>2, <2>1 DEF CleanupDone, ConnectAborted, Return, AwaitOn
  <2>2. CASE ConnectFailed(j)
    BY <1>2, <2>2 DEF CleanupDone, ConnectFailed, Return, AwaitOn, Continue
  <2> QED
    BY <1>2, <2>1, <2>2 DEF CleanupDone
<1>3. ASSUME CancelDelivered(j), pc[j] \in {"entering", "cleanup"} PROVE Up(cl[j])
  <2>1. /\ ConnectAborted(j) /\ UNCHANGED <<snap, left>>
        /\ cstate' \in {Exited(cl[j]), [cstate EXCEPT ![cl[j]] = "closed"]}
    BY <1>3 DEF CancelDelivered
  <2> QED
    BY <1>3, <2>1 DEF ConnectAborted, Return, AwaitOn
<1>5. Up(cl[j])
  BY <1>1, <1>2, <1>3
<1>6. PICK c \in Clients : c = cl[j]
  BY <1>5 DEF Owned, ClientsApart, OpeningApart, Opening
<1>7. Up(c)
  BY <1>5, <1>6
<1> QED
  BY <1>6, <1>7, GiveUpFine

\* A client that is listed, or tried again, by the same coroutine goes on being opened.
LEMMA OpensFine ==
  ASSUME TypeOK, Owned, Books, NEW j \in Jobs, SessionOpens(j)
  PROVE  Fine
<1>1. PICK c \in Clients : c = cl[j] /\ cstate[c] = "entering"
  BY DEF SessionOpens, Owned, ClientsApart, OpeningApart, Opening
<1>2. /\ cstate' = [cstate EXCEPT ![c] = "open"] /\ pc' = [pc EXCEPT ![j] = "listing"]
      /\ cl' = [cl EXCEPT ![j] = c] /\ UNCHANGED <<clients, snap, left>>
      /\ pc[j] = "entering" /\ cl[j] = c
  BY <1>1 DEF SessionOpens, Await, AwaitOn
<1>3. \A k \in Jobs : c \notin snap[k]
  BY <1>2 DEF Owned, ClientsApart, OpeningApart, Opening
<1>4. Books'
  BY <1>2, <1>3 DEF Books, Entering, ShutPcs, TypeOK
<1>5. \A d \in Clients \ {c} : Listing(d)' <=> Listing(d)
  BY <1>2 DEF Listing, TypeOK
<1>6. Listing(c)'
  BY <1>2 DEF Listing, TypeOK
<1>7. \A d \in Clients : Life(d)' = Life(d)
  BY <1>1, <1>2, <1>5, <1>6, LifeStays, LifeIs, LifeWillBe DEF TypeOK
<1> QED
  BY <1>2, <1>4, <1>7, LivesSame, SessionsRest DEF Fine

LEMMA ListFailsFine ==
  ASSUME TypeOK, Owned, Books, NEW j \in Jobs, pc[j] = "listing", Await(j, "cleanup"),
         UNCHANGED <<clients, cstate, snap, left>>
  PROVE  Fine
<1>1. pc' = [pc EXCEPT ![j] = "cleanup"] /\ cl' = cl
  BY DEF Await, AwaitOn, TypeOK
<1>2. Books'
  BY <1>1 DEF Books, Entering, ShutPcs, TypeOK
<1>3. \A d \in Clients : Listing(d)' <=> Listing(d)
  BY <1>1 DEF Listing, TypeOK
<1>4. \A d \in Clients : Life(d)' = Life(d)
  BY <1>3, LifeStays
<1> QED
  BY <1>2, <1>4, LivesSame, SessionsRest DEF Fine

LEMMA RegisterFine ==
  ASSUME TypeOK, Owned, Books, NEW j \in Jobs, ToolsListed(j)
  PROVE  Fine
<1>1. PICK c \in Clients : c = cl[j] /\ cstate[c] = "open"
  BY DEF ToolsListed, Owned, ClientsApart, OpeningApart, Opening
<1>2. /\ clients' = [clients EXCEPT ![srv[j]] = c] /\ pc[j] = "listing" /\ cl[j] = c
      /\ UNCHANGED <<cstate, snap, left>>
      /\ pc'[j] \in {"done", "next"}
      /\ \A k \in Jobs \ {j} : pc'[k] = pc[k] /\ cl'[k] = cl[k]
  BY <1>1 DEF ToolsListed, Return, AwaitOn, Continue, TypeOK
<1>3. Books'
  BY <1>2 DEF Books, Entering, ShutPcs, TypeOK
<1>4. \A d \in Clients \ {c} : Listing(d)' <=> Listing(d)
  BY <1>2 DEF Listing
<1>5. Listing(c) /\ ~Listing(c)'
  BY <1>2 DEF Listing, Owned, ClientsApart, OpeningApart, Opening
<1>6. \A d \in Clients \ {c} : Life(d)' = Life(d)
  BY <1>2, <1>4, LifeStays
<1>7. Lives[c] = "opening" /\ Lives' = [Lives EXCEPT ![c] = "serving"]
  <2>1. Life(c) = "opening" /\ Life(c)' = "serving"
    BY <1>1, <1>2, <1>5, LifeIs, LifeWillBe
  <2> QED
    BY <2>1, <1>6, LivesBut DEF Lives
<1>8. PICK s \in Servers : s = srv[j]
  BY DEF TypeOK
<1>9. Sessions!Register(s, c)
  BY <1>2, <1>7, <1>8, ServersSee
<1> QED
  BY <1>3, <1>9, SessionsNext DEF Fine

\* Nobody's life changes with the tables and snapshots.
LEMMA LivesKept ==
  ASSUME TypeOK, NEW j \in Jobs, pc[j] \notin {"entering", "listing", "cleanup"},
         pc'[j] \notin {"entering", "listing", "cleanup"}, UNCHANGED cstate,
         \A k \in Jobs \ {j} : pc'[k] = pc[k] /\ cl'[k] = cl[k]
  PROVE  UNCHANGED Lives /\ \A c : Entering(c)' <=> Entering(c)
<1>1. \A d \in Clients : Life(d)' = Life(d)
  BY LifeStays, ListingElse DEF ListPcs
<1>2. \A c : Entering(c)' <=> Entering(c)
  BY DEF Entering
<1> QED
  BY <1>1, <1>2, LivesSame

LEMMA SnapshotFine ==
  ASSUME TypeOK, Owned, Books, NEW j \in Jobs, Snapshot(j)
  PROVE  Fine
<1>1. CASE Connected = {}
  <2>1. /\ UNCHANGED <<clients, cstate, snap, left>> /\ pc[j] = "snapshot"
        /\ pc'[j] \in {"connect", "done"}
        /\ \A k \in Jobs \ {j} : pc'[k] = pc[k] /\ cl'[k] = cl[k]
    BY <1>1 DEF Snapshot, ShutdownReturns, Return, AwaitOn, Continue, TypeOK
  <2> QED
    BY <2>1, Aside DEF ShutPcs
<1>2. CASE Connected # {}
  <2>1. /\ snap' = [snap EXCEPT ![j] = Registered] /\ left' = [left EXCEPT ![j] = Registered]
        /\ pc' = [pc EXCEPT ![j] = "closeall"] /\ pc[j] = "snapshot"
        /\ UNCHANGED <<clients, cstate, cl>>
    BY <1>2 DEF Snapshot, Continue
  <2>2. UNCHANGED Lives /\ \A c : Entering(c)' <=> Entering(c)
    BY <2>1, LivesKept DEF TypeOK
  <2>3. Books'
    BY <2>1, <2>2 DEF Books, ShutPcs, TypeOK
  <2>4. Sessions!BeginShutdown(j)
    BY <2>1, <2>2, ShutdownsSee, InUseIs DEF Books, ShutPcs
  <2> QED
    BY <2>3, <2>4, SessionsNext DEF Fine
<1> QED
  BY <1>1, <1>2

LEMMA CloseNextFine ==
  ASSUME TypeOK, Owned, Books, NEW j \in Jobs, CloseNext(j)
  PROVE  Fine
<1>1. PICK c \in left[j] : /\ left' = [left EXCEPT ![j] = @ \ {c}]
                           /\ AwaitOn(j, "exiting", c)
  BY DEF CloseNext
<1>2. /\ pc' = [pc EXCEPT ![j] = "exiting"] /\ cl' = [cl EXCEPT ![j] = c]
      /\ UNCHANGED <<clients, cstate, snap>> /\ pc[j] = "closeall"
  BY <1>1 DEF CloseNext, AwaitOn
<1>3. UNCHANGED Lives /\ \A d : Entering(d)' <=> Entering(d)
  BY <1>2, LivesKept DEF TypeOK
<1>4. Books'
  BY <1>1, <1>2, <1>3 DEF Books, ShutPcs, TypeOK
<1> QED
  BY <1>2, <1>3, <1>4, SessionsRest DEF Fine

LEMMA ClearFine ==
  ASSUME TypeOK, Owned, Books, NEW j \in Jobs, ClearAll(j)
  PROVE  Fine
<1>1. /\ clients' = [s \in Servers |-> NoClient] /\ snap' = [snap EXCEPT ![j] = {}]
      /\ left[j] = {} /\ UNCHANGED <<cstate, left>> /\ pc[j] = "closeall"
      /\ pc'[j] \in {"connect", "done"}
      /\ \A k \in Jobs \ {j} : pc'[k] = pc[k] /\ cl'[k] = cl[k]
  BY DEF ClearAll, EmptyRegistry, ShutdownReturns, Return, AwaitOn, Continue, TypeOK
<1>2. UNCHANGED Lives /\ \A d : Entering(d)' <=> Entering(d)
  BY <1>1, LivesKept
<1>3. Books'
  BY <1>1, <1>2 DEF Books, ShutPcs, TypeOK
<1>4. \A c \in snap[j] : Lives[c] = "over"
  BY <1>1, LifeIs DEF Books, Lives, TypeOK
<1>5. Sessions!EndShutdown(j)
  BY <1>1, <1>2, <1>4, ShutdownsSee
<1> QED
  BY <1>3, <1>5, SessionsNext DEF Fine

LEMMA WithdrawFine ==
  ASSUME TypeOK, Owned, Books, NEW j \in Jobs, DisableEntry(j)
  PROVE  Fine
<1>1. CASE srv[j] \notin Connected
  <2>1. /\ UNCHANGED <<clients, cstate, snap, left>> /\ pc[j] = "disable"
        /\ pc'[j] = "done"
        /\ \A k \in Jobs \ {j} : pc'[k] = pc[k] /\ cl'[k] = cl[k]
    BY <1>1 DEF DisableEntry, Return, AwaitOn, TypeOK
  <2> QED
    BY <2>1, Aside DEF ShutPcs
<1>2. CASE srv[j] \in Connected
  <2>1. /\ clients' = [clients EXCEPT ![srv[j]] = NoClient] /\ UNCHANGED <<cstate, snap, left>>
        /\ pc[j] = "disable" /\ pc'[j] = "leaving"
        /\ \A k \in Jobs \ {j} : pc'[k] = pc[k] /\ cl'[k] = cl[k]
    BY <1>2 DEF DisableEntry, AwaitOn, TypeOK
  <2>2. UNCHANGED Lives /\ \A d : Entering(d)' <=> Entering(d)
    BY <2>1, LivesKept
  <2>3. Books'
    BY <2>1, <2>2 DEF Books, ShutPcs, TypeOK
  <2>4. PICK s \in Servers : s = srv[j] /\ clients[s] # NoClient
    BY <1>2 DEF Connected
  <2>5. Sessions!Withdraw(s)
    BY <2>1, <2>2, <2>4, ServersSee
  <2> QED
    BY <2>3, <2>5, SessionsNext DEF Fine
<1> QED
  BY <1>1, <1>2

LEMMA ForgetFine ==
  ASSUME TypeOK, Owned, Books, NEW j \in Jobs, ResetState(j)
  PROVE  Fine
<1>1. /\ clients' = [s \in Servers |-> NoClient] /\ UNCHANGED <<cstate, snap, left, cl>>
      /\ pc' = [pc EXCEPT ![j] = "done"] /\ pc[j] = "idle"
  BY DEF ResetState, EmptyRegistry
<1>2. UNCHANGED Lives /\ \A d : Entering(d)' <=> Entering(d)
  BY <1>1, LivesKept DEF TypeOK
<1>3. Books'
  BY <1>1, <1>2 DEF Books, ShutPcs, TypeOK
<1>4. Sessions!Forget
  BY <1>1, <1>2, Zenon DEF Sessions!Forget, Sessions!NobodyServes
<1> QED
  BY <1>3, <1>4, Zenon DEF Fine, Sessions!Next

\* Every step of the manager is a step of the sessions, or nothing to them.
LEMMA SessionsStep ==
  TypeOK /\ Owned /\ Books /\ [Next]_vars => Books' /\ [Sessions!Next]_(Sessions!vars)
<1> SUFFICES ASSUME TypeOK, Owned, Books, [Next]_vars PROVE Fine
  BY DEF Fine
<1>1. ASSUME NEW j \in Jobs, CancelDelivered(j) PROVE Fine
  <2>1. CASE pc[j] \in {"entering", "cleanup"}
    BY <1>1, <2>1, FailuresFine
  <2>2. CASE pc[j] = "connect"
    <3>1. /\ UNCHANGED <<clients, cstate, snap, left>> /\ pc'[j] = "done"
          /\ \A k \in Jobs \ {j} : pc'[k] = pc[k] /\ cl'[k] = cl[k]
      BY <1>1, <2>2 DEF CancelDelivered, Return, AwaitOn, TypeOK
    <3> QED
      BY <2>2, <3>1, Aside DEF ShutPcs
  <2>3. CASE pc[j] = "listing"
    <3>1. Await(j, "cleanup") /\ UNCHANGED <<clients, cstate, snap, left>>
      BY <1>1, <2>3 DEF CancelDelivered
    <3> QED
      BY <2>3, <3>1, ListFailsFine
  <2> QED
    BY <1>1, <2>1, <2>2, <2>3 DEF CancelDelivered
<1>2. ASSUME NEW j \in Jobs, ListFails(j) PROVE Fine
  BY <1>2, ListFailsFine DEF ListFails
<1>3. ASSUME NEW j \in Jobs, Step(j) \/ CallReturns(j) PROVE Fine
  BY <1>1, <1>2, <1>3, AsideEntry, CreateFine, OpensFine, FailuresFine, RegisterFine, SnapshotFine,
     CloseNextFine, ClosingFine, ClearFine, WithdrawFine, Zenon DEF Step
<1>4. ASSUME NEW j \in Jobs, SubmitSome(j) PROVE Fine
  BY <1>4, AsideSubmit, ForgetFine, Zenon DEF SubmitSome
<1>5. CASE UNCHANGED vars
  <2>1. UNCHANGED <<clients, cstate, snap, left, pc, cl>>
    BY <1>5 DEF vars
  <2>2. Books' /\ UNCHANGED Lives
    BY <2>1 DEF Books, Entering, Lives, Life, Listing
  <2> QED
    BY <2>1, <2>2, SessionsRest DEF Fine
<1> QED
  BY <1>3, <1>4, <1>5, Zenon DEF Next

\* Clients come and go as SessionRegistry says, whatever operations overlap.
THEOREM SessionsCorrect == Spec => SessionsKept
  BY TypeInit, TypeStep, OwnedInit, OwnedStep, BooksInit, SessionsInit, SessionsStep, PTL
     DEF Spec, SessionsKept, Sessions!Spec
-----------------------------------------------------------------------------
\* Where a coroutine is between two awaits, and where its task can be cancelled.
BetweenPcs == {"next", "create", "snapshot", "closeall"}

CancelPcs == {"connect", "entering", "listing", "cleanup"}

\* A coroutine between two awaits has the loop, and the one that has it goes on: it
\* neither awaits anything nor has been cancelled.  A cancellation is only ever under
\* way to the connect task, and that is where it can be delivered: shutdown(), which
\* awaits the task, is not stuck behind it.
NobodyStuck ==
  /\ \A j \in Jobs : pc[j] \in BetweenPcs => loop = j
  /\ loop \in Jobs =>
       pc[loop] \in BetweenPcs \cup {"connect", "shutdown"} /\ loop \notin cancelled
  /\ \A j \in cancelled : op[j] = "connect" /\ pc[j] \in CancelPcs

\* What the connect task is.
TaskIsConnect ==
  /\ connectTask # NoJob => op[connectTask] = "connect"
  /\ \A j \in Jobs : op[j] = "connect" => pc[j] \in CancelPcs \cup {"next", "create", "done"}

Scheduling == NobodyStuck /\ TaskIsConnect

LEMMA SchedulingInit == Init => Scheduling
  BY ConstantsOK DEF Init, Scheduling, NobodyStuck, TaskIsConnect, BetweenPcs

\* No action leaves this.
LEMMA SchedulingStep == TypeOK /\ Scheduling /\ [Next]_vars => Scheduling'
<1> SUFFICES ASSUME TypeOK, Scheduling, [Next]_vars PROVE Scheduling'
  OBVIOUS
<1> USE ConstantsOK DEF Scheduling, NobodyStuck, TaskIsConnect, BetweenPcs, CancelPcs, TypeOK
\* Coroutine j takes a step that is none of the connect task's entries or ends.
<1>0. ASSUME NEW j \in Jobs, CanRun(j), UNCHANGED <<op, cancelled>>,
             connectTask' \in {connectTask, NoJob},
             \/ loop' = Free /\ pc'[j] \notin BetweenPcs
             \/ loop' = j /\ pc'[j] \in BetweenPcs \cup {"connect"},
             op[j] = "connect" => pc'[j] \in CancelPcs \cup {"next", "create", "done"},
             \A k \in Jobs \ {j} : pc'[k] = pc[k]
      PROVE  Scheduling'
  BY <1>0 DEF CanRun
<1> DEFINE Runs(j) == /\ CanRun(j)
                      /\ UNCHANGED <<op, cancelled>>
                      /\ connectTask' \in {connectTask, NoJob}
                      /\ \/ loop' = Free /\ pc'[j] \notin BetweenPcs
                         \/ loop' = j /\ pc'[j] \in BetweenPcs \cup {"connect"}
                      /\ op[j] = "connect" => pc'[j] \in CancelPcs \cup {"next", "create", "done"}
                      /\ \A k \in Jobs \ {j} : pc'[k] = pc[k]
<1>1. ASSUME NEW j \in Jobs, ConnectEntry(j) PROVE Runs(j)
  BY <1>1 DEF ConnectEntry, ConfigRead, Return, AwaitOn, Continue
<1>2. ASSUME NEW j \in Jobs, ConnectNext(j) PROVE Runs(j)
  BY <1>2 DEF ConnectNext, Return, AwaitOn, Continue
<1>3. ASSUME NEW j \in Jobs, CreateClient(j) PROVE Runs(j)
  BY <1>3 DEF CreateClient, AwaitOn
<1>4. ASSUME NEW j \in Jobs, CreateFails(j) PROVE Runs(j)
  BY <1>4 DEF CreateFails, ConnectFailed, Return, AwaitOn, Continue
<1>5. ASSUME NEW j \in Jobs, SessionOpens(j) PROVE Runs(j)
  BY <1>5 DEF SessionOpens, Await, AwaitOn
<1>6. ASSUME NEW j \in Jobs, SessionFails(j) PROVE Runs(j)
  BY <1>6 DEF SessionFails, ConnectFailed, Return, AwaitOn, Continue
<1>7. ASSUME NEW j \in Jobs, ToolsListed(j) PROVE Runs(j)
  BY <1>7 DEF ToolsListed, Return, AwaitOn, Continue
<1>8. ASSUME NEW j \in Jobs, ListFails(j) PROVE Runs(j)
  BY <1>8 DEF ListFails, Await, AwaitOn
<1>9. ASSUME NEW j \in Jobs, CleanupDone(j) PROVE Runs(j)
  <2>1. CASE ConnectAborted(j)
    BY <1>9, <2>1 DEF CleanupDone, ConnectAborted, Return, AwaitOn
  <2>2. CASE ConnectFailed(j)
    BY <1>9, <2>2 DEF CleanupDone, ConnectFailed, Return, AwaitOn, Continue
  <2> QED
    BY <1>9, <2>1, <2>2 DEF CleanupDone
<1>10. ASSUME NEW j \in Jobs, TaskEnded(j) PROVE Runs(j)
  BY <1>10 DEF TaskEnded, Continue
<1>11. ASSUME NEW j \in Jobs, Snapshot(j) PROVE Runs(j)
  BY <1>11 DEF Snapshot, ShutdownReturns, Return, AwaitOn, Continue
<1>12. ASSUME NEW j \in Jobs, CloseNext(j) PROVE Runs(j)
  BY <1>12 DEF CloseNext, AwaitOn
<1>13. ASSUME NEW j \in Jobs, SessionExits(j) PROVE Runs(j)
  BY <1>13 DEF SessionExits, Await, AwaitOn
<1>14. ASSUME NEW j \in Jobs, TransportCloses(j) PROVE Runs(j)
  BY <1>14 DEF TransportCloses, Continue
<1>15. ASSUME NEW j \in Jobs, CloseRaises(j) PROVE Runs(j)
  BY <1>15 DEF CloseRaises, Continue
<1>16. ASSUME NEW j \in Jobs, ClearAll(j) PROVE Runs(j)
  BY <1>16 DEF ClearAll, ShutdownReturns, Return, AwaitOn, Continue
<1>17. ASSUME NEW j \in Jobs, EnableEntry(j) PROVE Runs(j)
  BY <1>17 DEF EnableEntry, ConfigRead, Return, AwaitOn, Continue
<1>18. ASSUME NEW j \in Jobs, DisableEntry(j) PROVE Runs(j)
  BY <1>18 DEF DisableEntry, Return, AwaitOn
<1>19. ASSUME NEW j \in Jobs, SessionLeft(j) PROVE Runs(j)
  BY <1>19 DEF SessionLeft, Return, AwaitOn
<1>20. ASSUME NEW j \in Jobs, CallEntry(j) PROVE Runs(j)
  BY <1>20 DEF CallEntry, Return, AwaitOn
<1>21. ASSUME NEW j \in Jobs, CallTimesOut(j) \/ CallReturns(j) PROVE Runs(j)
  BY <1>21 DEF CallTimesOut, CallReturns, Return, AwaitOn
<1>22. ASSUME NEW j \in Jobs, CancelDelivered(j) PROVE Scheduling'
  <2>1. /\ loop' = Free /\ cancelled' = cancelled \ {j} /\ UNCHANGED <<op, connectTask>>
        /\ pc'[j] \in {"done", "cleanup"} /\ \A k \in Jobs \ {j} : pc'[k] = pc[k]
    BY <1>22 DEF CancelDelivered, ConnectAborted, Return, Await, AwaitOn
  <2>2. loop = Free
    BY <1>22 DEF CancelDelivered
  <2> QED
    BY <2>1, <2>2
<1>23. ASSUME NEW j \in Jobs, ShutdownEntry(j) PROVE Scheduling'
  <2>1. CASE IsConnecting
    <3>1. /\ cancelled' = cancelled \cup {connectTask} /\ loop' = Free
          /\ pc' = [pc EXCEPT ![j] = "awaiting"] /\ UNCHANGED <<op, connectTask>>
          /\ loop \in {Free, j} /\ j \notin cancelled /\ pc[j] = "shutdown"
      BY <1>23, <2>1 DEF ShutdownEntry, Await, AwaitOn, CanRun
    <3>2. op[connectTask] = "connect" /\ pc[connectTask] \in CancelPcs /\ connectTask \in Jobs
      BY <2>1, <3>1 DEF IsConnecting
    <3> QED
      BY <3>1, <3>2
  <2>2. CASE ~IsConnecting
    BY <1>23, <2>2 DEF ShutdownEntry, Continue, CanRun
  <2> QED
    BY <2>1, <2>2
<1>24. ASSUME NEW j \in Jobs, NEW s, NEW o, Submit(j, o, s),
              \/ UNCHANGED <<loop, connectTask>> /\ o # "connect"
                 /\ \E p \in {"shutdown", "enable", "disable", "call"} : pc' = [pc EXCEPT ![j] = p]
              \/ pc' = [pc EXCEPT ![j] = "connect"] /\ connectTask' = j /\ o = "connect"
                 /\ UNCHANGED loop
              \/ pc' = [pc EXCEPT ![j] = "shutdown"] /\ loop = Free /\ loop' = j
                 /\ UNCHANGED connectTask /\ o = "shutdown"
       PROVE Scheduling'
  <2>1. pc[j] = "idle" /\ op' = [op EXCEPT ![j] = o] /\ UNCHANGED cancelled
    BY <1>24 DEF Submit
  <2> QED
    BY <1>24, <2>1
<1>25. ASSUME NEW j \in Jobs,
              \/ ConnectBackground(j) \/ SubmitReconnect(j) \/ BeginShutdown(j)
              \/ \E s \in Servers : SubmitEnable(j, s) \/ SubmitDisable(j, s) \/ SubmitCall(j, s)
       PROVE Scheduling'
  BY <1>25, <1>24 DEF ConnectBackground, SubmitReconnect, BeginShutdown, SubmitEnable,
     SubmitDisable, SubmitCall, Scheduled, Continue
<1>26. ASSUME NEW j \in Jobs, ResetState(j) PROVE Scheduling'
  BY <1>26 DEF ResetState
<1>27. ASSUME NEW j \in Jobs, Step(j) \/ CallReturns(j) PROVE Scheduling'
  <2>1. ASSUME Runs(j) PROVE Scheduling'
    BY <2>1, <1>0
  <2> HIDE DEF Runs, Scheduling
  <2> QED
    BY <1>27, <2>1, <1>1, <1>2, <1>3, <1>4, <1>5, <1>6, <1>7, <1>8, <1>9, <1>10, <1>11, <1>12,
       <1>13, <1>14, <1>15, <1>16, <1>17, <1>18, <1>19, <1>20, <1>21, <1>22, <1>23, Zenon
       DEF Step
<1>28. CASE UNCHANGED vars
  BY <1>28 DEF vars
<1> HIDE DEF Scheduling
<1> QED
  BY <1>25, <1>26, <1>27, <1>28, Zenon DEF Next, SubmitSome

\* Nobody who is between two awaits is stuck there, and no cancellation is.
THEOREM ScheduleCorrect == Spec => []NobodyStuck
<1>1. Scheduling => NobodyStuck
  BY DEF Scheduling
<1> QED
  BY <1>1, TypeInit, TypeStep, SchedulingInit, SchedulingStep, PTL DEF Spec
=============================================================================
