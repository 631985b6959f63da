------------------------------- MODULE OneHost -------------------------------
(***************************************************************************)
(* What the direct commands promise: only a command that starts a host     *)
(* brings one up, and while commands do not overlap, only when none runs;  *)
(* stop, and whoever says that there is no host, leaves none; the code of  *)
(* run is executed once at most, and has been when run gives an answer.    *)
(***************************************************************************)
EXTENDS Naturals

CONSTANTS Commands, Pids, Ops

VARIABLES running,   \* hosts that have not been told to end
          doing,     \* of each command: what it was given, or "new" or "over"
          ran, result, calm

Init ==
  /\ running = {} /\ doing = [c \in Commands |-> "new"]
  /\ ran = [c \in Commands |-> 0] /\ result = [c \in Commands |-> ""] /\ calm = TRUE

Give(c) ==
  /\ doing[c] = "new"
  /\ \E o \in Ops : /\ doing' = [doing EXCEPT ![c] = o]
                    /\ calm' /\ o = "start" => running = {}
  /\ calm' => calm /\ \A d \in Commands : doing[d] \in {"new", "over"}
  /\ UNCHANGED <<running, ran, result>>

Launch(c) ==
  /\ doing[c] \in {"start", "restart", "run_auto"}
  /\ \E p \in Pids \ running : running' = running \cup {p}
  /\ calm => running = {}
  /\ UNCHANGED <<doing, ran, result, calm>>

HostEnds == running' \subseteq running /\ UNCHANGED <<doing, ran, result, calm>>

\* A host may come to it when run has given up.
Execute(c) ==
  /\ doing[c] \in {"run", "run_auto", "over"} /\ ran[c] = 0
  /\ ran' = [ran EXCEPT ![c] = 1]
  /\ UNCHANGED <<running, doing, result, calm>>

Finish(c) ==
  /\ doing[c] \in Ops /\ doing' = [doing EXCEPT ![c] = "over"]
  /\ \E r \in {"ok", "none", "failed", "ready", "answer"} :
       /\ result' = [result EXCEPT ![c] = r]
       /\ r = "answer" => doing[c] \in {"run", "run_auto"} /\ ran'[c] = 1
       /\ ran' = ran \/ (r = "answer" /\ ran[c] = 0 /\ ran' = [ran EXCEPT ![c] = 1])
       /\ calm /\ (r = "none" \/ doing[c] = "stop") => running = {}
  /\ UNCHANGED <<running, calm>>

\* The command is killed.
Abort(c) ==
  /\ doing[c] \in Ops /\ doing' = [doing EXCEPT ![c] = "over"]
  /\ calm' => calm
  /\ UNCHANGED <<running, ran, result>>

Next ==
  \/ HostEnds
  \/ \E c \in Commands :
       Give(c) \/ Launch(c) \/ Execute(c) \/ Finish(c) \/ Abort(c)

Spec == Init /\ [][Next]_<<running, doing, ran, result, calm>>
=============================================================================
