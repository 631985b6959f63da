-------------------------- MODULE SessionRegistry ---------------------------
(***************************************************************************)
(* What ProxyManager promises of its sessions (src/src/ot/proxy/manager.py)*)
(* A client has one life: it is opened, serves one server or is given up,  *)
(* and once over it is over; one that has left the registry never comes    *)
(* back to it.  A session is closed only after it has left the registry,   *)
(* or by a shutdown that listed it; and a shutdown empties the registry    *)
(* only when every session it listed is over.                              *)
(***************************************************************************)
CONSTANTS Servers, Clients, NoClient,
          Shutdowns   \* who may shut the registry down

VARIABLES session,    \* the client that serves each server
          life,       \* of each client
          listed      \* of each shutdown: the sessions it has still to account for

vars == <<session, life, listed>>

InUse == {session[s] : s \in Servers} \ {NoClient}

NobodyServes == [s \in Servers |-> NoClient]

Init ==
  /\ session = NobodyServes
  /\ life = [c \in Clients |-> "unused"]
  /\ listed = [j \in Shutdowns |-> {}]

Open(c) ==
  /\ life[c] = "unused"
  /\ life' = [life EXCEPT ![c] = "opening"]
  /\ UNCHANGED <<session, listed>>

GiveUp(c) ==
  /\ life[c] = "opening"
  /\ life' = [life EXCEPT ![c] = "over"]
  /\ UNCHANGED <<session, listed>>

\* The server's former session, if there is one, is not closed by this.
Register(s, c) ==
  /\ life[c] = "opening"
  /\ life' = [life EXCEPT ![c] = "serving"]
  /\ session' = [session EXCEPT ![s] = c]
  /\ UNCHANGED listed

Withdraw(s) ==
  /\ session[s] # NoClient
  /\ session' = [session EXCEPT ![s] = NoClient]
  /\ UNCHANGED <<life, listed>>

Close(c) ==
  /\ life[c] = "serving"
  /\ c \notin InUse \/ \E j \in Shutdowns : c \in listed[j]
  /\ life' = [life EXCEPT ![c] = "over"]
  /\ UNCHANGED <<session, listed>>

\* A shutdown lists what is registered.
BeginShutdown(j) ==
  /\ listed[j] = {}
  /\ listed' = [listed EXCEPT ![j] = InUse]
  /\ UNCHANGED <<session, life>>

EndShutdown(j) ==
  /\ \A c \in listed[j] : life[c] = "over"
  /\ listed' = [listed EXCEPT ![j] = {}]
  /\ session' = NobodyServes
  /\ UNCHANGED life

\* The registry of a server whose configuration names no server any more.
Forget ==
  /\ session' = NobodyServes
  /\ UNCHANGED <<life, listed>>

Next ==
  \/ \E c \in Clients : Open(c) \/ GiveUp(c) \/ Close(c)
  \/ \E s \in Servers : Withdraw(s)
  \/ \E s \in Servers, c \in Clients : Register(s, c)
  \/ \E j \in Shutdowns : BeginShutdown(j) \/ EndShutdown(j)
  \/ Forget

Spec == Init /\ [][Next]_vars
=============================================================================
