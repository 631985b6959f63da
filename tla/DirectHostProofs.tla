-------------------------- MODULE DirectHostProofs --------------------------
(***************************************************************************)
(* Proofs about DirectHost, for any number of commands, hosts and faults:  *)
(*   TypeCorrect     the type invariant                                    *)
(*   RunCorrect      run executes its code at most once                    *)
(*   OwnedCorrect    between commands the pid file names the host          *)
(*   OldHostCorrect  what stop, restart and status leave running           *)
(*   HostManagedCorrect  the commands manage one host (OneHost)            *)
(* RunOnce is not inductive: that nobody executed the code of a command    *)
(* that is about to execute it here follows from where it is (RunInv).     *)
(* Owned says something only between commands.  Placed says for each place *)
(* in the code which hosts may run there, in a calm history: none when a   *)
(* command is about to launch one, the one it launched until the file is   *)
(* filled, and otherwise the one the file names.                           *)
(***************************************************************************)
EXTENDS DirectHost, TLAPS

USE DEF hosts, pidfile, requests, bounds

Results == {"", "ok", "none", "failed", "ready", "answer"}

\* A command of kind o that is at x has read n.
Fits(o, x, n) ==
  /\ x \in {"read", "check"} => o \in {"stop", "restart", "status"}
  /\ x \in {"kill", "remove"} => o \in {"stop", "restart"}
  /\ x \in {"launch", "truncate", "fill", "ready"} => o \in {"start", "restart", "run_auto"}
  /\ x \in {"probe", "post", "wait", "local"} => o \in {"run", "run_auto"}
  /\ x \in {"check", "kill", "truncate", "fill", "ready"} => n \in Pids

LocalsFit ==
  /\ op \in [Commands -> Ops \cup {"none"}]
  /\ pc \in [Commands -> Active \cup {"new", "over"}]
  /\ named \in [Commands -> Pids \cup {NoPid}]
  /\ result \in [Commands -> Results]
  /\ \A c \in Commands : Fits(op[c], pc[c], named[c])

HostsTyped ==
  /\ proc \in [Pids -> {"unused", "booting", "listening", "told", "closing", "gone"}]
  /\ parent \in [Pids -> Commands \cup {NoPid}]

FileTyped ==
  /\ file \in Pids \cup {NoPid, Torn}
  /\ open \subseteq {c \in Commands : pc[c] = "fill"}
  /\ open # {} => file # NoPid

RequestsTyped ==
  /\ at \in [Commands -> Pids \cup {NoPid}]
  /\ ran \in [Commands -> 0..2]

RestTyped ==
  /\ crashes \in 0..MaxCrashes /\ aborts \in 0..MaxAborts
  /\ calm \in BOOLEAN

Typed == LocalsFit /\ HostsTyped /\ FileTyped /\ RequestsTyped /\ RestTyped

RunInv ==
  \A c \in Commands :
    /\ ran[c] \in {0, 1}
    /\ result[c] = "answer" => ran[c] = 1
    /\ pc[c] \notin {"wait", "over"} => at[c] = NoPid /\ ran[c] = 0
    /\ pc[c] # "over" => result[c] = ""

\* Which hosts may run when command c is where it is.
Placed(c) ==
  CASE pc[c] \in {"remove", "launch"} -> Running = {}
    [] pc[c] = "truncate"             -> Running \subseteq {named[c]}
    [] pc[c] = "fill"                 -> Running \subseteq {named[c]} /\ file = Torn /\ c \in open
    [] pc[c] \in {"check", "kill", "ready"} -> Running \subseteq {file} /\ named[c] = file
    [] OTHER                          -> Running \subseteq {file}

CalmInv ==
  calm =>
    /\ Owned
    /\ \A c, d \in Commands : pc[c] \in Active /\ pc[d] \in Active => c = d
    /\ \A c \in Commands : pc[c] \in Active =>
         /\ Placed(c)
         /\ pc[c] = "probe" /\ op[c] = "run_auto" => \A p \in Pids : proc[p] # "booting"
-----------------------------------------------------------------------------
\* Typing, with what each place in the code implies.
LEMMA TypedInit == Init => Typed
<1> SUFFICES ASSUME Init PROVE Typed
  OBVIOUS
<1>1. LocalsFit
  BY DEF Init, LocalsFit, Fits, Results
<1>2. HostsTyped
  BY DEF Init, HostsTyped
<1>5. RequestsTyped
  <2>1. 0 \in 0..2
    OBVIOUS
  <2> QED
    BY <2>1, Zenon DEF Init, RequestsTyped
<1>3. FileTyped
  BY DEF Init, FileTyped
<1>4. RestTyped
  <2>1. 0 \in 0..MaxCrashes /\ 0 \in 0..MaxAborts
    BY DirectConstants
  <2> QED
    BY <2>1 DEF Init, RestTyped
<1> QED
  BY <1>1, <1>2, <1>3, <1>4, <1>5 DEF Typed

\* A command that ends, or goes on to a place that fits, keeps the locals typed.
LEMMA EndFits ==
  ASSUME LocalsFit, NEW c \in Commands, NEW r \in Results, End(c, r)
  PROVE  LocalsFit'
  BY DEF LocalsFit, End, Go, Fits, Active, Ops

LEMMA ContinueFits ==
  ASSUME LocalsFit, NEW c \in Commands, NEW x \in Active, Continue(c, x),
         Fits(op[c], x, named[c])
  PROVE  LocalsFit'
  BY DEF LocalsFit, Continue, Go

\* No action leaves the types: what the commands have in their hands,
LEMMA LocalsStep == Typed /\ [Next]_vars => LocalsFit'
<1> SUFFICES ASSUME Typed, [Next]_vars PROVE LocalsFit'
  OBVIOUS
<1> USE DEF Typed
<1>1. ASSUME NEW c \in Commands, ReadPid(c) PROVE LocalsFit'
  <2>1. CASE file \in Pids
    BY <1>1, <2>1 DEF ReadPid, Go, LocalsFit, Fits, Active
  <2>2. CASE file \notin Pids
    BY <1>1, <2>2, EndFits, ContinueFits DEF ReadPid, LocalsFit, Fits, Active, Results
  <2> QED
    BY <2>1, <2>2
<1>2. ASSUME NEW c \in Commands, CheckAlive(c) PROVE LocalsFit'
  BY <1>2, EndFits, ContinueFits DEF CheckAlive, LocalsFit, Fits, Active, Results
<1>3. ASSUME NEW c \in Commands, Kill(c) PROVE LocalsFit'
  BY <1>3, EndFits, ContinueFits DEF Kill, LocalsFit, Fits, Active, Results
<1>4. ASSUME NEW c \in Commands, RemovePidFile(c) PROVE LocalsFit'
  BY <1>4, EndFits, ContinueFits DEF RemovePidFile, LocalsFit, Fits, Active, Results
<1>5. ASSUME NEW c \in Commands, Launch(c) PROVE LocalsFit'
  BY <1>5, DirectConstants DEF Launch, Go, LocalsFit, Fits, Active, Ops, Results
<1>6. ASSUME NEW c \in Commands, Truncate(c) PROVE LocalsFit'
  BY <1>6, ContinueFits DEF Truncate, LocalsFit, Fits, Active
<1>7. ASSUME NEW c \in Commands, Fill(c) PROVE LocalsFit'
  BY <1>7, ContinueFits DEF Fill, LocalsFit, Fits, Active
<1>8. ASSUME NEW c \in Commands, Ready(c) PROVE LocalsFit'
  BY <1>8, EndFits, ContinueFits DEF Ready, LocalsFit, Fits, Active, Results
<1>9. ASSUME NEW c \in Commands, NotReady(c) PROVE LocalsFit'
  BY <1>9, EndFits DEF NotReady, End, Go, Results
<1>10. ASSUME NEW c \in Commands, Probe(c) PROVE LocalsFit'
  BY <1>10, EndFits, ContinueFits DEF Probe, LocalsFit, Fits, Active, Results
<1>11. ASSUME NEW c \in Commands, Post(c) PROVE LocalsFit'
  BY <1>11, EndFits, ContinueFits DEF Post, LocalsFit, Fits, Active, Results
<1>12. ASSUME NEW c \in Commands, Answered(c) PROVE LocalsFit'
  BY <1>12, EndFits DEF Answered, End, Go, Results
<1>13. ASSUME NEW c \in Commands, RequestFails(c) PROVE LocalsFit'
  BY <1>13, EndFits DEF RequestFails, End, Go, Results
<1>14. ASSUME NEW c \in Commands, RunInProcess(c) PROVE LocalsFit'
  BY <1>14, EndFits DEF RunInProcess, End, Go, Results
<1>15. ASSUME NEW c \in Commands, Abort(c) PROVE LocalsFit'
  BY <1>15, EndFits DEF Abort, End, Go, Results
<1>16. ASSUME NEW c \in Commands, NEW o \in Ops, Arrive(c, o) PROVE LocalsFit'
  BY <1>16, DirectConstants, ZenonT(60) DEF Arrive, Go, NobodyAtWork, Running, LocalsFit, Fits,
     Active, Ops, Results
<1>17. ASSUME NEW p \in Pids, Bind(p) PROVE LocalsFit'
  BY <1>17, DirectConstants DEF Bind, Becomes, Answering, LocalsFit, Fits, Active,
     Ops, Results
<1>18. ASSUME NEW p \in Pids, BootFails(p) PROVE LocalsFit'
  BY <1>18, DirectConstants DEF BootFails, Becomes, LocalsFit, Fits, Active, Ops, Results
<1>19. ASSUME NEW p \in Pids, Close(p) PROVE LocalsFit'
  BY <1>19, DirectConstants DEF Close, Becomes, LocalsFit, Fits, Active, Ops, Results
<1>20. ASSUME NEW p \in Pids, Exit(p) PROVE LocalsFit'
  BY <1>20, DirectConstants DEF Exit, Becomes, LocalsFit, Fits, Active, Ops, Results
<1>21. ASSUME NEW p \in Pids, Crash(p) PROVE LocalsFit'
  BY <1>21, DirectConstants DEF Crash, Becomes, LocalsFit, Fits, Active, Ops, Results
<1>22. ASSUME NEW p \in Pids, NEW c \in Commands, Execute(p, c) PROVE LocalsFit'
  BY <1>22, DirectConstants DEF Execute, LocalsFit, Fits, Active, Ops, Results
<1>23. CASE UNCHANGED vars
  BY <1>23, DirectConstants DEF vars, LocalsFit, Fits, Active, Ops, Results
<1> QED
  BY <1>1, <1>2, <1>3, <1>4, <1>5, <1>6, <1>7, <1>8, <1>9, <1>10, <1>11, <1>12,
     <1>13, <1>14, <1>15, <1>16, <1>17, <1>18, <1>19, <1>20, <1>21, <1>22, <1>23 DEF
     Next, CommandStep, HostStep

\* the hosts,
LEMMA HostsStep == Typed /\ [Next]_vars => HostsTyped'
<1> SUFFICES ASSUME Typed, [Next]_vars PROVE HostsTyped'
  OBVIOUS
<1> USE DEF Typed, HostsTyped
<1>1. ASSUME NEW c \in Commands, ReadPid(c) PROVE HostsTyped'
  BY <1>1 DEF ReadPid, End, Go, Continue
<1>2. ASSUME NEW c \in Commands, CheckAlive(c) PROVE HostsTyped'
  BY <1>2 DEF CheckAlive, End, Go, Continue, Seen
<1>3. ASSUME NEW c \in Commands, Kill(c) PROVE HostsTyped'
  BY <1>3 DEF Kill, End, Go, Continue, Seen, Terminate, LocalsFit
<1>4. ASSUME NEW c \in Commands, RemovePidFile(c) PROVE HostsTyped'
  BY <1>4 DEF RemovePidFile, End, Go, Continue
<1>5. ASSUME NEW c \in Commands, Launch(c) PROVE HostsTyped'
  BY <1>5 DEF Launch, Go
<1>6. ASSUME NEW c \in Commands, Truncate(c) PROVE HostsTyped'
  BY <1>6 DEF Truncate, Go, Continue
<1>7. ASSUME NEW c \in Commands, Fill(c) PROVE HostsTyped'
  BY <1>7 DEF Fill, Go, Continue
<1>8. ASSUME NEW c \in Commands, Ready(c) PROVE HostsTyped'
  BY <1>8 DEF Ready, End, Go, Continue, Answering
<1>9. ASSUME NEW c \in Commands, NotReady(c) PROVE HostsTyped'
  BY <1>9 DEF NotReady, End, Go
<1>10. ASSUME NEW c \in Commands, Probe(c) PROVE HostsTyped'
  BY <1>10 DEF Probe, Go, Continue, Answering
<1>11. ASSUME NEW c \in Commands, Post(c) PROVE HostsTyped'
  BY <1>11 DEF Post, End, Go, Continue, Answering
<1>12. ASSUME NEW c \in Commands, Answered(c) PROVE HostsTyped'
  BY <1>12 DEF Answered, End, Go
<1>13. ASSUME NEW c \in Commands, RequestFails(c) PROVE HostsTyped'
  BY <1>13 DEF RequestFails, End, Go
<1>14. ASSUME NEW c \in Commands, RunInProcess(c) PROVE HostsTyped'
  BY <1>14 DEF RunInProcess, End, Go
<1>15. ASSUME NEW c \in Commands, Abort(c) PROVE HostsTyped'
  BY <1>15 DEF Abort, End, Go
<1>16. ASSUME NEW c \in Commands, NEW o \in Ops, Arrive(c, o) PROVE HostsTyped'
  BY <1>16 DEF Arrive, Go, NobodyAtWork, Running
<1>17. ASSUME NEW p \in Pids, Bind(p) PROVE HostsTyped'
  BY <1>17 DEF Bind, Becomes, Answering
<1>18. ASSUME NEW p \in Pids, BootFails(p) PROVE HostsTyped'
  BY <1>18 DEF BootFails, Becomes
<1>19. ASSUME NEW p \in Pids, Close(p) PROVE HostsTyped'
  BY <1>19 DEF Close, Becomes
<1>20. ASSUME NEW p \in Pids, Exit(p) PROVE HostsTyped'
  BY <1>20 DEF Exit, Becomes
<1>21. ASSUME NEW p \in Pids, Crash(p) PROVE HostsTyped'
  BY <1>21 DEF Crash, Becomes
<1>22. ASSUME NEW p \in Pids, NEW c \in Commands, Execute(p, c) PROVE HostsTyped'
  BY <1>22 DEF Execute
<1>23. CASE UNCHANGED vars
  BY <1>23 DEF vars
<1> QED
  BY <1>1, <1>2, <1>3, <1>4, <1>5, <1>6, <1>7, <1>8, <1>9, <1>10, <1>11, <1>12,
     <1>13, <1>14, <1>15, <1>16, <1>17, <1>18, <1>19, <1>20, <1>21, <1>22, <1>23 DEF
     Next, CommandStep, HostStep

\* the pid file,
LEMMA FileStep == Typed /\ [Next]_vars => FileTyped'
<1> SUFFICES ASSUME Typed, [Next]_vars PROVE FileTyped'
  OBVIOUS
<1> USE DirectConstants DEF Typed, FileTyped, LocalsFit
<1>1. ASSUME NEW c \in Commands, ReadPid(c) PROVE FileTyped'
  BY <1>1 DEF ReadPid, End, Go, Continue
<1>2. ASSUME NEW c \in Commands, CheckAlive(c) PROVE FileTyped'
  BY <1>2 DEF CheckAlive, End, Go, Continue, Seen
<1>3. ASSUME NEW c \in Commands, Kill(c) PROVE FileTyped'
  BY <1>3 DEF Kill, End, Go, Continue, Seen, Terminate
<1>4. ASSUME NEW c \in Commands, RemovePidFile(c) PROVE FileTyped'
  BY <1>4 DEF RemovePidFile, End, Go, Continue
<1>5. ASSUME NEW c \in Commands, Launch(c) PROVE FileTyped'
  BY <1>5 DEF Launch, Go
<1>6. ASSUME NEW c \in Commands, Truncate(c) PROVE FileTyped'
  BY <1>6 DEF Truncate, Go, Continue
<1>7. ASSUME NEW c \in Commands, Fill(c) PROVE FileTyped'
  BY <1>7 DEF Fill, Go, Continue, Fits
<1>8. ASSUME NEW c \in Commands, Ready(c) PROVE FileTyped'
  BY <1>8 DEF Ready, End, Go, Continue, Answering
<1>9. ASSUME NEW c \in Commands, NotReady(c) PROVE FileTyped'
  BY <1>9 DEF NotReady, End, Go
<1>10. ASSUME NEW c \in Commands, Probe(c) PROVE FileTyped'
  BY <1>10 DEF Probe, Go, Continue, Answering
<1>11. ASSUME NEW c \in Commands, Post(c) PROVE FileTyped'
  BY <1>11 DEF Post, End, Go, Continue, Answering
<1>12. ASSUME NEW c \in Commands, Answered(c) PROVE FileTyped'
  BY <1>12 DEF Answered, End, Go
<1>13. ASSUME NEW c \in Commands, RequestFails(c) PROVE FileTyped'
  BY <1>13 DEF RequestFails, End, Go
<1>14. ASSUME NEW c \in Commands, RunInProcess(c) PROVE FileTyped'
  BY <1>14 DEF RunInProcess, End, Go
<1>15. ASSUME NEW c \in Commands, Abort(c) PROVE FileTyped'
  BY <1>15 DEF Abort, End, Go
<1>16. ASSUME NEW c \in Commands, NEW o \in Ops, Arrive(c, o) PROVE FileTyped'
  BY <1>16 DEF Arrive, Go, NobodyAtWork, Running
<1>17. ASSUME NEW p \in Pids, Bind(p) PROVE FileTyped'
  BY <1>17 DEF Bind, Becomes, Answering
<1>18. ASSUME NEW p \in Pids, BootFails(p) PROVE FileTyped'
  BY <1>18 DEF BootFails, Becomes
<1>19. ASSUME NEW p \in Pids, Close(p) PROVE FileTyped'
  BY <1>19 DEF Close, Becomes
<1>20. ASSUME NEW p \in Pids, Exit(p) PROVE FileTyped'
  BY <1>20 DEF Exit, Becomes
<1>21. ASSUME NEW p \in Pids, Crash(p) PROVE FileTyped'
  BY <1>21 DEF Crash, Becomes
<1>22. ASSUME NEW p \in Pids, NEW c \in Commands, Execute(p, c) PROVE FileTyped'
  BY <1>22 DEF Execute
<1>23. CASE UNCHANGED vars
  BY <1>23 DEF vars
<1> QED
  BY <1>1, <1>2, <1>3, <1>4, <1>5, <1>6, <1>7, <1>8, <1>9, <1>10, <1>11, <1>12,
     <1>13, <1>14, <1>15, <1>16, <1>17, <1>18, <1>19, <1>20, <1>21, <1>22, <1>23 DEF
     Next, CommandStep, HostStep

\* the requests,
LEMMA RequestsStep == Typed /\ RunInv /\ [Next]_vars => RequestsTyped'
<1> SUFFICES ASSUME Typed, RunInv, [Next]_vars PROVE RequestsTyped'
  OBVIOUS
<1> USE DEF Typed, RequestsTyped, LocalsFit
<1>1. ASSUME NEW c \in Commands, ReadPid(c) PROVE RequestsTyped'
  BY <1>1 DEF ReadPid, End, Go, Continue
<1>2. ASSUME NEW c \in Commands, CheckAlive(c) PROVE RequestsTyped'
  BY <1>2 DEF CheckAlive, End, Go, Continue, Seen
<1>3. ASSUME NEW c \in Commands, Kill(c) PROVE RequestsTyped'
  BY <1>3 DEF Kill, End, Go, Continue, Seen, Terminate
<1>4. ASSUME NEW c \in Commands, RemovePidFile(c) PROVE RequestsTyped'
  BY <1>4 DEF RemovePidFile, End, Go, Continue
<1>5. ASSUME NEW c \in Commands, Launch(c) PROVE RequestsTyped'
  BY <1>5 DEF Launch, Go
<1>6. ASSUME NEW c \in Commands, Truncate(c) PROVE RequestsTyped'
  BY <1>6 DEF Truncate, Go, Continue
<1>7. ASSUME NEW c \in Commands, Fill(c) PROVE RequestsTyped'
  BY <1>7 DEF Fill, Go, Continue
<1>8. ASSUME NEW c \in Commands, Ready(c) PROVE RequestsTyped'
  BY <1>8 DEF Ready, End, Go, Continue, Answering
<1>9. ASSUME NEW c \in Commands, NotReady(c) PROVE RequestsTyped'
  BY <1>9 DEF NotReady, End, Go
<1>10. ASSUME NEW c \in Commands, Probe(c) PROVE RequestsTyped'
  BY <1>10 DEF Probe, Go, Continue, Answering
<1>11. ASSUME NEW c \in Commands, Post(c) PROVE RequestsTyped'
  BY <1>11 DEF Post, End, Go, Continue, Answering
<1>12. ASSUME NEW c \in Commands, Answered(c) PROVE RequestsTyped'
  BY <1>12 DEF Answered, End, Go
<1>13. ASSUME NEW c \in Commands, RequestFails(c) PROVE RequestsTyped'
  BY <1>13 DEF RequestFails, End, Go
<1>14. ASSUME NEW c \in Commands, RunInProcess(c) PROVE RequestsTyped'
  <2>1. ran[c] = 0 /\ at' = at
    BY <1>14 DEF RunInProcess, RunInv
  <2>2. 0 + 1 = 1 /\ 1 \in 0..2
    OBVIOUS
  <2>3. ran' = [ran EXCEPT ![c] = 1] \/ UNCHANGED ran
    BY <1>14, <2>1, <2>2, Zenon DEF RunInProcess
  <2> QED
    BY <2>1, <2>2, <2>3, Zenon
<1>15. ASSUME NEW c \in Commands, Abort(c) PROVE RequestsTyped'
  BY <1>15 DEF Abort, End, Go
<1>16. ASSUME NEW c \in Commands, NEW o \in Ops, Arrive(c, o) PROVE RequestsTyped'
  BY <1>16 DEF Arrive, Go, NobodyAtWork, Running
<1>17. ASSUME NEW p \in Pids, Bind(p) PROVE RequestsTyped'
  BY <1>17 DEF Bind, Becomes, Answering
<1>18. ASSUME NEW p \in Pids, BootFails(p) PROVE RequestsTyped'
  BY <1>18 DEF BootFails, Becomes
<1>19. ASSUME NEW p \in Pids, Close(p) PROVE RequestsTyped'
  BY <1>19 DEF Close, Becomes
<1>20. ASSUME NEW p \in Pids, Exit(p) PROVE RequestsTyped'
  BY <1>20 DEF Exit, Becomes
<1>21. ASSUME NEW p \in Pids, Crash(p) PROVE RequestsTyped'
  BY <1>21 DEF Crash, Becomes
<1>22. ASSUME NEW p \in Pids, NEW c \in Commands, Execute(p, c) PROVE RequestsTyped'
  <2>1. ran[c] = 0 /\ at' = at
    BY <1>22 DEF Execute
  <2>2. 0 + 1 = 1 /\ 1 \in 0..2
    OBVIOUS
  <2>3. ran' = [ran EXCEPT ![c] = 1]
    BY <1>22, <2>1, <2>2, Zenon DEF Execute
  <2> QED
    BY <2>1, <2>2, <2>3, Zenon
<1>23. CASE UNCHANGED vars
  BY <1>23 DEF vars
<1> QED
  BY <1>1, <1>2, <1>3, <1>4, <1>5, <1>6, <1>7, <1>8, <1>9, <1>10, <1>11, <1>12,
     <1>13, <1>14, <1>15, <1>16, <1>17, <1>18, <1>19, <1>20, <1>21, <1>22, <1>23 DEF
     Next, CommandStep, HostStep

\* and the bounds.
LEMMA RestStep == Typed /\ [Next]_vars => RestTyped'
<1> SUFFICES ASSUME Typed, [Next]_vars PROVE RestTyped'
  OBVIOUS
<1> USE DirectConstants DEF Typed, RestTyped
<1>1. ASSUME NEW c \in Commands, ReadPid(c) PROVE RestTyped'
  BY <1>1 DEF ReadPid, End, Go, Continue
<1>2. ASSUME NEW c \in Commands, CheckAlive(c) PROVE RestTyped'
  BY <1>2 DEF CheckAlive, End, Go, Continue, Seen
<1>3. ASSUME NEW c \in Commands, Kill(c) PROVE RestTyped'
  BY <1>3 DEF Kill, End, Go, Continue, Seen, Terminate
<1>4. ASSUME NEW c \in Commands, RemovePidFile(c) PROVE RestTyped'
  BY <1>4 DEF RemovePidFile, End, Go, Continue
<1>5. ASSUME NEW c \in Commands, Launch(c) PROVE RestTyped'
  BY <1>5 DEF Launch, Go
<1>6. ASSUME NEW c \in Commands, Truncate(c) PROVE RestTyped'
  BY <1>6 DEF Truncate, Go, Continue
<1>7. ASSUME NEW c \in Commands, Fill(c) PROVE RestTyped'
  BY <1>7 DEF Fill, Go, Continue
<1>8. ASSUME NEW c \in Commands, Ready(c) PROVE RestTyped'
  BY <1>8 DEF Ready, End, Go, Continue, Answering
<1>9. ASSUME NEW c \in Commands, NotReady(c) PROVE RestTyped'
  BY <1>9 DEF NotReady, End, Go
<1>10. ASSUME NEW c \in Commands, Probe(c) PROVE RestTyped'
  BY <1>10 DEF Probe, Go, Continue, Answering
<1>11. ASSUME NEW c \in Commands, Post(c) PROVE RestTyped'
  BY <1>11 DEF Post, End, Go, Continue, Answering
<1>12. ASSUME NEW c \in Commands, Answered(c) PROVE RestTyped'
  BY <1>12 DEF Answered, End, Go
<1>13. ASSUME NEW c \in Commands, RequestFails(c) PROVE RestTyped'
  BY <1>13 DEF RequestFails, End, Go
<1>14. ASSUME NEW c \in Commands, RunInProcess(c) PROVE RestTyped'
  BY <1>14 DEF RunInProcess, End, Go
<1>15. ASSUME NEW c \in Commands, Abort(c) PROVE RestTyped'
  <2>1. aborts \in 0..MaxAborts /\ MaxAborts \in Nat
    BY DirectConstants
  <2>4. aborts < MaxAborts /\ aborts' = aborts + 1
    BY <1>15, Zenon DEF Abort
  <2>2. aborts' \in 0..MaxAborts
    BY <2>1, <2>4
  <2>3. crashes' = crashes /\ calm' \in BOOLEAN
    BY <1>15 DEF Abort
  <2> QED
    BY <2>2, <2>3
<1>16. ASSUME NEW c \in Commands, NEW o \in Ops, Arrive(c, o) PROVE RestTyped'
  BY <1>16 DEF Arrive, Go, NobodyAtWork, Running
<1>17. ASSUME NEW p \in Pids, Bind(p) PROVE RestTyped'
  BY <1>17 DEF Bind, Becomes, Answering
<1>18. ASSUME NEW p \in Pids, BootFails(p) PROVE RestTyped'
  BY <1>18 DEF BootFails, Becomes
<1>19. ASSUME NEW p \in Pids, Close(p) PROVE RestTyped'
  BY <1>19 DEF Close, Becomes
<1>20. ASSUME NEW p \in Pids, Exit(p) PROVE RestTyped'
  BY <1>20 DEF Exit, Becomes
<1>21. ASSUME NEW p \in Pids, Crash(p) PROVE RestTyped'
  BY <1>21 DEF Crash, Becomes
<1>22. ASSUME NEW p \in Pids, NEW c \in Commands, Execute(p, c) PROVE RestTyped'
  BY <1>22 DEF Execute
<1>23. CASE UNCHANGED vars
  BY <1>23 DEF vars
<1> QED
  BY <1>1, <1>2, <1>3, <1>4, <1>5, <1>6, <1>7, <1>8, <1>9, <1>10, <1>11, <1>12,
     <1>13, <1>14, <1>15, <1>16, <1>17, <1>18, <1>19, <1>20, <1>21, <1>22, <1>23 DEF
     Next, CommandStep, HostStep

LEMMA TypedStep == Typed /\ RunInv /\ [Next]_vars => Typed'
  BY LocalsStep, HostsStep, FileStep, RequestsStep, RestStep DEF Typed

-----------------------------------------------------------------------------
\* What arithmetic there is.
LEMMA Once == 0 + 1 = 1 /\ ~(0 > 0)
  OBVIOUS

\* A command's code is executed by one host that has its request, or here.
LEMMA RunInit == Init => RunInv
  BY DEF Init, RunInv

\* A command that ends or goes on without a change of its request keeps this.
LEMMA RunEnds ==
  ASSUME Typed, RunInv, NEW c \in Commands, NEW r, End(c, r), r = "answer" => ran[c] = 1,
         UNCHANGED requests
  PROVE  RunInv'
  BY DEF Typed, LocalsFit, RunInv, End, Go

LEMMA RunContinues ==
  ASSUME Typed, RunInv, NEW c \in Commands, NEW x \in Active \ {"wait"}, Continue(c, x),
         pc[c] \in Active \ {"wait"}, UNCHANGED requests
  PROVE  RunInv'
  BY DEF Typed, LocalsFit, RunInv, Continue, Go, Active

\* No action executes code again.
LEMMA RunStep == Typed /\ RunInv /\ [Next]_vars => RunInv'
<1> SUFFICES ASSUME Typed, RunInv, [Next]_vars PROVE RunInv'
  OBVIOUS
<1> USE DirectConstants DEF Typed, LocalsFit, RequestsTyped, RunInv
<1>1. ASSUME NEW c \in Commands, ReadPid(c) PROVE RunInv'
  <2>1. CASE file \in Pids
    BY <1>1, <2>1 DEF ReadPid, Go
  <2>2. CASE file \notin Pids
    BY <1>1, <2>2, RunEnds, RunContinues DEF ReadPid, Active
  <2> QED
    BY <2>1, <2>2
<1>2. ASSUME NEW c \in Commands, CheckAlive(c) PROVE RunInv'
  BY <1>2, RunEnds, RunContinues DEF CheckAlive, Active
<1>3. ASSUME NEW c \in Commands, Kill(c) PROVE RunInv'
  BY <1>3, RunEnds, RunContinues DEF Kill, Active
<1>4. ASSUME NEW c \in Commands, RemovePidFile(c) PROVE RunInv'
  BY <1>4, RunEnds, RunContinues DEF RemovePidFile, Active
<1>5. ASSUME NEW c \in Commands, Launch(c) PROVE RunInv'
  BY <1>5 DEF Launch, Go
<1>6. ASSUME NEW c \in Commands, Truncate(c) PROVE RunInv'
  BY <1>6 DEF Truncate, Go, Continue
<1>7. ASSUME NEW c \in Commands, Fill(c) PROVE RunInv'
  BY <1>7 DEF Fill, Go, Continue
<1>8. ASSUME NEW c \in Commands, Ready(c) PROVE RunInv'
  BY <1>8, RunEnds, RunContinues DEF Ready, Active
<1>9. ASSUME NEW c \in Commands, NotReady(c) PROVE RunInv'
  BY <1>9, RunEnds DEF NotReady
<1>10. ASSUME NEW c \in Commands, Probe(c) PROVE RunInv'
  BY <1>10 DEF Probe, Go, Continue, Answering
<1>11. ASSUME NEW c \in Commands, Post(c) PROVE RunInv'
  <2>1. CASE Answering = {}
    BY <1>11, <2>1, RunEnds DEF Post
  <2>2. CASE Answering # {}
    BY <1>11, <2>2 DEF Post, Continue, Go
  <2> QED
    BY <2>1, <2>2
<1>12. ASSUME NEW c \in Commands, Answered(c) PROVE RunInv'
  <2>1. ran[c] = 1
    <3>1. ran[c] \in {0, 1}
      BY Zenon
    <3>2. ran[c] > 0
      BY <1>12, Zenon DEF Answered
    <3> QED
      BY <3>1, <3>2, Once, Zenon
  <2> QED
    BY <1>12, <2>1, RunEnds DEF Answered
<1>13. ASSUME NEW c \in Commands, RequestFails(c) PROVE RunInv'
  BY <1>13, RunEnds DEF RequestFails
<1>14. ASSUME NEW c \in Commands, RunInProcess(c) PROVE RunInv'
  <2>1. ran[c] = 0 /\ 0 + 1 = 1
    BY <1>14, Once, Zenon DEF RunInProcess
  <2>2. CASE ran' = [ran EXCEPT ![c] = @ + 1] /\ End(c, "answer")
    <3>1. ran' = [ran EXCEPT ![c] = 1] /\ at' = at
      BY <1>14, <2>1, <2>2, Zenon DEF RunInProcess
    <3> QED
      BY <2>2, <3>1 DEF End, Go
  <2>3. CASE UNCHANGED ran /\ End(c, "failed")
    BY <1>14, <2>3, RunEnds DEF RunInProcess
  <2> QED
    BY <1>14, <2>2, <2>3 DEF RunInProcess
<1>15. ASSUME NEW c \in Commands, Abort(c) PROVE RunInv'
  BY <1>15, RunEnds DEF Abort
<1>16. ASSUME NEW c \in Commands, NEW o \in Ops, Arrive(c, o) PROVE RunInv'
  BY <1>16 DEF Arrive, Go, NobodyAtWork, Running
<1>17. ASSUME NEW p \in Pids, Bind(p) PROVE RunInv'
  BY <1>17 DEF Bind, Becomes, Answering
<1>18. ASSUME NEW p \in Pids, BootFails(p) PROVE RunInv'
  BY <1>18 DEF BootFails, Becomes
<1>19. ASSUME NEW p \in Pids, Close(p) PROVE RunInv'
  <2>1. UNCHANGED <<pc, result, ran>>
    BY <1>19 DEF Close
  <2>2. \A c \in Commands : at'[c] \in {at[c], NoPid}
    <3>1. PICK reset : at' = [c \in Commands |-> IF c \in reset THEN NoPid ELSE at[c]]
      BY <1>19 DEF Close
    <3> QED
      BY <3>1
  <2> QED
    BY <2>1, <2>2
<1>20. ASSUME NEW p \in Pids, Exit(p) PROVE RunInv'
  BY <1>20 DEF Exit, Becomes
<1>21. ASSUME NEW p \in Pids, Crash(p) PROVE RunInv'
  BY <1>21 DEF Crash, Becomes
<1>22. ASSUME NEW p \in Pids, NEW c \in Commands, Execute(p, c) PROVE RunInv'
  <2>1. ran[c] = 0 /\ 0 + 1 = 1
    BY <1>22, Once, Zenon DEF Execute
  <2>2. ran' = [ran EXCEPT ![c] = 1] /\ UNCHANGED <<pc, result, at>>
    BY <1>22, <2>1, Zenon DEF Execute
  <2>3. at[c] # NoPid
    BY <1>22, DirectConstants DEF Execute
  <2> QED
    BY <2>1, <2>2, <2>3
<1>23. CASE UNCHANGED vars
  BY <1>23 DEF vars
<1> QED
  BY <1>1, <1>2, <1>3, <1>4, <1>5, <1>6, <1>7, <1>8, <1>9, <1>10, <1>11, <1>12,
     <1>13, <1>14, <1>15, <1>16, <1>17, <1>18, <1>19, <1>20, <1>21, <1>22, <1>23 DEF
     Next, CommandStep, HostStep

\* The type invariant.
THEOREM TypeCorrect == Spec => []TypeOK
<1>1. Typed => TypeOK
  BY DEF Typed, LocalsFit, HostsTyped, FileTyped, RequestsTyped, RestTyped, TypeOK, Results
<1> QED
  BY <1>1, TypedInit, TypedStep, RunInit, RunStep, PTL DEF Spec

\* A command's code is executed at most once.
THEOREM RunCorrect == Spec => []RunOnce
<1>1. RunInv => RunOnce
  <2>1. \A n \in {0, 1} : n <= 1
    OBVIOUS
  <2> QED
    BY <2>1, Zenon DEF RunInv, RunOnce
<1> QED
  BY <1>1, TypedInit, TypedStep, RunInit, RunStep, PTL DEF Spec
-----------------------------------------------------------------------------
\* In a calm history there is one command at work, and hosts run where they may.
LEMMA CalmInit == Init => CalmInv
  BY DEF Init, CalmInv, Owned, Running, Active

\* A command ends, and the host that runs is the one the file names.
LEMMA CalmEnds ==
  ASSUME Typed, CalmInv, calm, NEW c \in Commands, NEW r, pc[c] \in Active, End(c, r),
         Running' \subseteq {file'}
  PROVE  CalmInv'
<1>1. \A d \in Commands : pc'[d] \notin Active
  BY DEF Typed, LocalsFit, CalmInv, End, Go, Active
<1> QED
  BY <1>1 DEF CalmInv, Owned

\* A command goes on to a place where the hosts that run may run.
LEMMA CalmContinues ==
  ASSUME Typed, CalmInv, calm, NEW c \in Commands, pc[c] \in Active,
         NEW x \in Active \ {"probe"}, Go(c, x), Placed(c)'
  PROVE  CalmInv'
<1>1. \A d \in Commands : pc'[d] \in Active => d = c
  BY DEF Typed, LocalsFit, CalmInv, Go
<1>2. pc'[c] = x
  BY DEF Typed, LocalsFit, Go
<1> QED
  BY <1>1, <1>2 DEF CalmInv, Owned, NobodyAtWork

\* A host boots no further than it may or ends.
LEMMA CalmHost ==
  ASSUME Typed, CalmInv, NEW p \in Pids, NEW s, Becomes(p, s), s # "booting",
         s = "listening" => proc[p] = "booting",
         UNCHANGED <<pidfile, op, pc, named, calm>>
  PROVE  CalmInv'
<1>1. Running' \subseteq Running
  BY DEF Typed, HostsTyped, Running, Becomes
<1>2. \A q \in Pids : proc'[q] = "booting" => proc[q] = "booting"
  BY DEF Typed, HostsTyped, Becomes
<1>3. \A c \in Commands : Placed(c) => Placed(c)'
  BY <1>1 DEF Placed
<1> QED
  BY <1>1, <1>2, <1>3 DEF CalmInv, Owned, NobodyAtWork

\* What a command knows of the process it looks at.
LEMMA SeenGone ==
  ASSUME Typed, CalmInv, calm, NEW c \in Commands, pc[c] \in {"check", "kill"},
         FALSE \in Seen(named[c])
  PROVE  Running = {}
<1>1. proc[named[c]] = "gone"
  BY DEF Seen
<1>2. Running \subseteq {named[c]}
  BY DEF CalmInv, Placed, Active
<1> QED
  BY <1>1, <1>2 DEF Running

\* So it is with the process it sends a signal.
LEMMA Terminated ==
  ASSUME Typed, CalmInv, calm, NEW c \in Commands, pc[c] = "kill", Terminate(named[c])
  PROVE  Running' = {}
<1>1. Running \subseteq {named[c]} /\ named[c] \in Pids
  BY DEF CalmInv, Placed, Active, Typed, LocalsFit, Fits
<1> QED
  BY <1>1 DEF Running, Terminate, Typed, HostsTyped

\* Each step keeps the history as it must be while it stays calm.
LEMMA CalmStep == Typed /\ CalmInv /\ [Next]_vars => CalmInv'
<1> SUFFICES ASSUME Typed, CalmInv, [Next]_vars, calm' PROVE CalmInv'
  BY DEF CalmInv
<1>0. calm
  BY DEF Next, vars, CommandStep, HostStep, ReadPid, CheckAlive, Kill, RemovePidFile,
     Launch, Truncate, Fill, Ready, NotReady, Probe, Post, Answered, RequestFails,
     RunInProcess, Abort, Arrive, Bind, BootFails, Close, Exit, Crash, Execute
<1> USE <1>0
<1>1. ASSUME NEW c \in Commands, ReadPid(c) PROVE CalmInv'
  <2>1. Running' = Running /\ Running \subseteq {file} /\ file' = file
    BY <1>1 DEF ReadPid, CalmInv, Placed, Active, Running
  <2>2. CASE file \in Pids
    BY <1>1, <2>1, <2>2, CalmContinues DEF ReadPid, Placed, Go, Typed, LocalsFit, Active
  <2>3. CASE file \notin Pids
    <3>1. Running' = {} /\ Running' \subseteq {file'}
      BY <2>1, <2>3 DEF Running
    <3>2. CASE Continue(c, "launch")
      BY <1>1, <3>1, <3>2, CalmContinues DEF ReadPid, Placed, Continue, Go, Typed,
         LocalsFit, Active
    <3>3. CASE End(c, "none")
      BY <1>1, <3>1, <3>3, CalmEnds DEF ReadPid, Active
    <3> QED
      BY <1>1, <2>3, <3>2, <3>3 DEF ReadPid
  <2> QED
    BY <2>2, <2>3
<1>2. ASSUME NEW c \in Commands, CheckAlive(c) PROVE CalmInv'
  <2>1. Running' = Running /\ Running \subseteq {file} /\ file' = file /\ named[c] = file
    BY <1>2 DEF CheckAlive, CalmInv, Placed, Active, Running
  <2>2. PICK alive \in Seen(named[c]) :
          \/ op[c] = "status" /\ End(c, IF alive THEN "ok" ELSE "none")
          \/ alive /\ Continue(c, "kill")
          \/ ~alive /\ Continue(c, "remove")
    BY <1>2 DEF CheckAlive
  <2>3. CASE End(c, IF alive THEN "ok" ELSE "none")
    BY <1>2, <2>1, <2>3, CalmEnds DEF CheckAlive, Active
  <2>4. CASE Continue(c, "kill")
    BY <1>2, <2>1, <2>4, CalmContinues DEF CheckAlive, Placed, Continue, Go, Typed,
       LocalsFit, Active
  <2>5. CASE ~alive /\ Continue(c, "remove")
    <3>1. alive = FALSE
      BY <2>5 DEF Seen
    <3>2. Running' = {}
      BY <1>2, <2>1, <3>1, SeenGone DEF CheckAlive
    <3> QED
      BY <1>2, <2>5, <3>2, CalmContinues DEF CheckAlive, Placed, Continue, Go, Typed,
         LocalsFit, Active
  <2> QED
    BY <2>2, <2>3, <2>4, <2>5
<1>3. ASSUME NEW c \in Commands, Kill(c) PROVE CalmInv'
  <2>1. Running' = {}
    BY <1>3, SeenGone, Terminated DEF Kill, Seen, Running
  <2>2. CASE Continue(c, "remove")
    BY <1>3, <2>1, <2>2, CalmContinues DEF Kill, Placed, Continue, Go, Typed,
       LocalsFit, Active
  <2>3. CASE End(c, "failed")
    BY <1>3, <2>1, <2>3, CalmEnds DEF Kill, Active
  <2> QED
    BY <1>3, <2>2, <2>3 DEF Kill
<1>4. ASSUME NEW c \in Commands, RemovePidFile(c) PROVE CalmInv'
  <2>1. Running' = {}
    BY <1>4 DEF RemovePidFile, CalmInv, Placed, Active, Running
  <2>2. CASE Continue(c, "launch")
    BY <1>4, <2>1, <2>2, CalmContinues DEF RemovePidFile, Placed, Continue, Go, Typed,
       LocalsFit, Active
  <2>3. CASE End(c, "ok")
    BY <1>4, <2>1, <2>3, CalmEnds DEF RemovePidFile, Active
  <2> QED
    BY <1>4, <2>2, <2>3 DEF RemovePidFile
<1>5. ASSUME NEW c \in Commands, Launch(c) PROVE CalmInv'
  <2>1. Running = {}
    BY <1>5 DEF Launch, CalmInv, Placed, Active
  <2>2. Running' \subseteq {named'[c]}
    BY <1>5, <2>1 DEF Launch, Running, Typed, HostsTyped, LocalsFit
  <2> QED
    BY <1>5, <2>2, CalmContinues DEF Launch, Placed, Go, Typed, LocalsFit, Active
<1>6. ASSUME NEW c \in Commands, Truncate(c) PROVE CalmInv'
  <2>1. Running' \subseteq {named'[c]} /\ file' = Torn /\ c \in open'
    BY <1>6 DEF Truncate, Continue, CalmInv, Placed, Active, Running
  <2> QED
    BY <1>6, <2>1, CalmContinues DEF Truncate, Continue, Placed, Go, Typed, LocalsFit,
       Active
<1>7. ASSUME NEW c \in Commands, Fill(c) PROVE CalmInv'
  <2>1. Running' \subseteq {named[c]} /\ file = Torn /\ c \in open
    BY <1>7 DEF Fill, CalmInv, Placed, Active, Running
  <2>2. file' = named[c] /\ named' = named
    BY <1>7, <2>1 DEF Fill, Continue
  <2> QED
    BY <1>7, <2>1, <2>2, CalmContinues DEF Fill, Continue, Placed, Go, Typed, LocalsFit,
       Active
<1>8. ASSUME NEW c \in Commands, Ready(c) PROVE CalmInv'
  <2>1. Running' \subseteq {file'}
    BY <1>8 DEF Ready, CalmInv, Placed, Active, Running
  <2>2. CASE Continue(c, "post")
    BY <1>8, <2>1, <2>2, CalmContinues DEF Ready, Placed, Continue, Go, Typed, LocalsFit,
       Active
  <2>3. CASE End(c, "ready")
    BY <1>8, <2>1, <2>3, CalmEnds DEF Ready, Active
  <2> QED
    BY <1>8, <2>2, <2>3 DEF Ready
<1>9. ASSUME NEW c \in Commands, NotReady(c) PROVE CalmInv'
  <2>1. Running' \subseteq {file'}
    BY <1>9 DEF NotReady, CalmInv, Placed, Active, Running
  <2> QED
    BY <1>9, <2>1, CalmEnds DEF NotReady, Active
<1>10. ASSUME NEW c \in Commands, Probe(c) PROVE CalmInv'
  <2>1. Running' = Running /\ file' = file /\ Running \subseteq {file}
    BY <1>10 DEF Probe, CalmInv, Placed, Active, Running
  <2>2. CASE Continue(c, "post") \/ Continue(c, "local")
    BY <1>10, <2>1, <2>2, CalmContinues DEF Probe, Placed, Continue, Go, Typed,
       LocalsFit, Active
  <2>3. CASE Continue(c, "launch") /\ Answering = {} /\ op[c] = "run_auto"
    <3>1. \A p \in Pids : proc[p] # "booting" /\ proc[p] # "listening"
      BY <1>10, <2>3 DEF Probe, CalmInv, Active, Answering
    <3>2. Running' = {}
      BY <2>1, <3>1 DEF Running
    <3> QED
      BY <1>10, <2>3, <3>2, CalmContinues DEF Probe, Placed, Continue, Go, Typed,
         LocalsFit, Active
  <2> QED
    BY <1>10, <2>2, <2>3 DEF Probe
<1>11. ASSUME NEW c \in Commands, Post(c) PROVE CalmInv'
  <2>1. Running' \subseteq {file'}
    BY <1>11 DEF Post, CalmInv, Placed, Active, Running
  <2>2. CASE Continue(c, "wait")
    BY <1>11, <2>1, <2>2, CalmContinues DEF Post, Placed, Continue, Go, Typed, LocalsFit,
       Active
  <2>3. CASE End(c, "failed")
    BY <1>11, <2>1, <2>3, CalmEnds DEF Post, Active
  <2> QED
    BY <1>11, <2>2, <2>3 DEF Post
<1>12. ASSUME NEW c \in Commands, Answered(c) PROVE CalmInv'
  <2>1. Running' \subseteq {file'}
    BY <1>12 DEF Answered, CalmInv, Placed, Active, Running
  <2> QED
    BY <1>12, <2>1, CalmEnds DEF Answered, Active
<1>13. ASSUME NEW c \in Commands, RequestFails(c) PROVE CalmInv'
  <2>1. Running' \subseteq {file'}
    BY <1>13 DEF RequestFails, CalmInv, Placed, Active, Running
  <2> QED
    BY <1>13, <2>1, CalmEnds DEF RequestFails, Active
<1>14. ASSUME NEW c \in Commands, RunInProcess(c) PROVE CalmInv'
  <2>1. Running' \subseteq {file'}
    BY <1>14 DEF RunInProcess, CalmInv, Placed, Active, Running
  <2> QED
    BY <1>14, <2>1, CalmEnds DEF RunInProcess, Active
<1>15. ASSUME NEW c \in Commands, Abort(c) PROVE CalmInv'
  <2>1. Running' \subseteq {file'}
    BY <1>15 DEF Abort, CalmInv, Placed, Active, Running
  <2>2. pc[c] \in Active /\ End(c, "")
    BY <1>15, Zenon DEF Abort
  <2> QED
    BY <2>1, <2>2, CalmEnds
<1>16. ASSUME NEW c \in Commands, NEW o \in Ops, Arrive(c, o) PROVE CalmInv'
  <2>1. /\ \A d \in Commands : pc[d] \notin Active
        /\ o = "start" => Running = {}
        /\ o = "run_auto" => \A p \in Pids : proc[p] # "booting"
    BY <1>16 DEF Arrive, NobodyAtWork
  <2>2. Running' = Running /\ Running \subseteq {file} /\ file' = file
    BY <1>16, <2>1 DEF Arrive, CalmInv, Owned, NobodyAtWork, Running
  <2>3. \A d \in Commands : pc'[d] \in Active => d = c
    BY <1>16, <2>1 DEF Arrive, Go, Typed, LocalsFit
  <2>4. pc'[c] \in {"probe", "read", "launch"} /\ op'[c] = o
    BY <1>16 DEF Arrive, Go, Typed, LocalsFit
  <2>5. pc'[c] = "launch" => o = "start"
    BY <1>16 DEF Arrive, Go, Typed, LocalsFit
  <2>6. Placed(c)'
    BY <2>1, <2>2, <2>4, <2>5 DEF Placed
  <2>7. proc' = proc
    BY <1>16 DEF Arrive
  <2> QED
    BY <2>1, <2>3, <2>4, <2>6, <2>7 DEF CalmInv, Owned, NobodyAtWork, Active
<1>17. ASSUME NEW p \in Pids, Bind(p) PROVE CalmInv'
  BY <1>17, CalmHost DEF Bind
<1>18. ASSUME NEW p \in Pids, BootFails(p) PROVE CalmInv'
  BY <1>18, CalmHost DEF BootFails
<1>19. ASSUME NEW p \in Pids, Close(p) PROVE CalmInv'
  BY <1>19, CalmHost DEF Close
<1>20. ASSUME NEW p \in Pids, Exit(p) PROVE CalmInv'
  BY <1>20, CalmHost DEF Exit
<1>21. ASSUME NEW p \in Pids, Crash(p) PROVE CalmInv'
  BY <1>21, CalmHost DEF Crash
<1>22. ASSUME NEW p \in Pids, NEW c \in Commands, Execute(p, c) PROVE CalmInv'
  BY <1>22 DEF Execute, CalmInv, Owned, NobodyAtWork, Running, Placed
<1>23. CASE UNCHANGED vars
  BY <1>23 DEF vars, CalmInv, Owned, NobodyAtWork, Running, Placed
<1> QED
  BY <1>1, <1>2, <1>3, <1>4, <1>5, <1>6, <1>7, <1>8, <1>9, <1>10, <1>11, <1>12,
     <1>13, <1>14, <1>15, <1>16, <1>17, <1>18, <1>19, <1>20, <1>21, <1>22, <1>23 DEF
     Next, CommandStep, HostStep

\* Between commands the pid file names the host that runs.
THEOREM OwnedCorrect == Spec => []Owned
<1>1. CalmInv => Owned
  BY DEF CalmInv, Owned
<1> QED
  BY <1>1, TypedInit, TypedStep, RunInit, RunStep, CalmInit, CalmStep, PTL DEF Spec

\* What a command leaves behind that finds no host, stops one or restarts one.
LeavesNothing(c) ==
  calm /\ pc[c] \in Active /\ pc'[c] = "over" /\ aborts' = aborts =>
    /\ op[c] = "stop" \/ result'[c] = "none" => Running' = {}
    /\ op[c] = "restart" => Running' \subseteq {named[c]}

\* A step of one command is none of another.
LEMMA OneMoves ==
  ASSUME NEW d \in Commands, CommandStep(d)
  PROVE  \E x : Go(d, x)
  BY DEF CommandStep, ReadPid, CheckAlive, Kill, RemovePidFile, Launch, Truncate, Fill,
     Ready, NotReady, Probe, Post, Answered, RequestFails, RunInProcess, End, Continue

\* Where a command ends that comes to its end by itself, and with what.
LEMMA Ending ==
  ASSUME Typed, NEW c \in Commands, pc[c] \in Active, pc'[c] = "over", CommandStep(c)
  PROVE  \/ pc[c] = "read" /\ file \notin Pids /\ op[c] # "restart" /\ UNCHANGED proc
         \/ pc[c] = "check" /\ op[c] = "status" /\ UNCHANGED proc
              /\ (result'[c] = "none" => FALSE \in Seen(named[c]))
         \/ pc[c] = "kill" /\ op[c] = "stop" /\ FALSE \in Seen(named[c]) /\ UNCHANGED proc
         \/ pc[c] = "remove" /\ op[c] = "stop" /\ UNCHANGED proc
         \/ pc[c] = "ready" /\ op[c] # "stop" /\ result'[c] # "none" /\ UNCHANGED proc
         \/ op[c] \in {"run", "run_auto"} /\ result'[c] # "none"
<1>1. CASE ReadPid(c)
  BY <1>1 DEF ReadPid, End, Continue, Go, Typed, LocalsFit, Active
<1>2. CASE CheckAlive(c)
  BY <1>2 DEF CheckAlive, Seen, End, Continue, Go, Typed, LocalsFit, Active
<1>3. CASE Kill(c)
  BY <1>3 DEF Kill, Seen, End, Continue, Go, Typed, LocalsFit, Active
<1>4. CASE RemovePidFile(c)
  BY <1>4 DEF RemovePidFile, End, Continue, Go, Typed, LocalsFit, Active
<1>5. CASE Launch(c)
  BY <1>5 DEF Launch, Go, Typed, LocalsFit, Active
<1>6. CASE Truncate(c)
  BY <1>6 DEF Truncate, Continue, Go, Typed, LocalsFit, Active
<1>7. CASE Fill(c)
  BY <1>7 DEF Fill, Continue, Go, Typed, LocalsFit, Active
<1>8. CASE Ready(c)
  BY <1>8 DEF Ready, End, Continue, Go, Typed, LocalsFit, Fits, Active
<1>9. CASE NotReady(c)
  BY <1>9 DEF NotReady, End, Go, Typed, LocalsFit, Fits, Active
<1>10. CASE Probe(c)
  BY <1>10 DEF Probe, Continue, Go, Typed, LocalsFit, Active
<1>11. CASE Post(c)
  BY <1>11 DEF Post, End, Continue, Go, Typed, LocalsFit, Fits, Active
<1>12. CASE Answered(c)
  BY <1>12 DEF Answered, End, Go, Typed, LocalsFit, Fits, Active
<1>13. CASE RequestFails(c)
  BY <1>13 DEF RequestFails, End, Go, Typed, LocalsFit, Fits, Active
<1>14. CASE RunInProcess(c)
  BY <1>14 DEF RunInProcess, End, Go, Typed, LocalsFit, Fits, Active
<1> QED
  BY <1>1, <1>2, <1>3, <1>4, <1>5, <1>6, <1>7, <1>8, <1>9, <1>10, <1>11, <1>12, <1>13,
     <1>14 DEF CommandStep

\* So it leaves nothing behind that it should not.
LEMMA LeavesStep == Typed /\ CalmInv /\ [Next]_vars => \A c \in Commands : LeavesNothing(c)
<1> SUFFICES ASSUME Typed, CalmInv, [Next]_vars, NEW c \in Commands, calm,
                    pc[c] \in Active, pc'[c] = "over", aborts' = aborts
             PROVE  /\ op[c] = "stop" \/ result'[c] = "none" => Running' = {}
                    /\ op[c] = "restart" => Running' \subseteq {named[c]}
  BY DEF LeavesNothing
<1>1. pc'[c] # pc[c]
  BY DEF Active
<1>2. CommandStep(c)
  <2>1. \A d \in Commands : (\E x : Go(d, x)) => d = c
    BY <1>1 DEF Go, Typed, LocalsFit
  <2>2. \A d \in Commands : CommandStep(d) => d = c
    BY <2>1, OneMoves
  <2>3. ASSUME NEW d \in Commands, NEW o \in Ops, Arrive(d, o) PROVE FALSE
    BY <2>1, <2>3 DEF Arrive, Active
  <2>4. ASSUME NEW d \in Commands, Abort(d) PROVE FALSE
    <3>1. aborts \in Nat
      BY DirectConstants DEF Typed, RestTyped
    <3>2. aborts' = aborts + 1
      BY <2>4, Zenon DEF Abort
    <3> QED
      BY <3>1, <3>2
  <2>5. ASSUME NEW p \in Pids, HostStep(p) PROVE FALSE
    BY <1>1, <2>5 DEF HostStep, Bind, BootFails, Close, Exit, Crash, Execute
  <2>6. vars' # vars
    BY <1>1 DEF vars
  <2> QED
    BY <2>2, <2>3, <2>4, <2>5, <2>6 DEF Next
<1>3. Placed(c)
  BY DEF CalmInv
<1>4. CASE pc[c] = "read" /\ file \notin Pids /\ UNCHANGED proc
  BY <1>3, <1>4 DEF Placed, Running
<1>5. CASE pc[c] \in {"check", "kill"} /\ FALSE \in Seen(named[c]) /\ UNCHANGED proc
  BY <1>5, SeenGone DEF Running
<1>6. CASE pc[c] = "remove" /\ UNCHANGED proc
  BY <1>3, <1>6 DEF Placed, Running
<1>7. CASE pc[c] = "ready" /\ op[c] # "stop" /\ result'[c] # "none" /\ UNCHANGED proc
  BY <1>3, <1>7 DEF Placed, Running
<1> QED
  BY <1>2, <1>4, <1>5, <1>6, <1>7, Ending

\* What stop, restart and status say and leave running.
THEOREM OldHostCorrect == Spec => OldHostEnds
<1>1. Typed /\ CalmInv /\ [Next]_vars =>
        [\A c \in Commands : calm /\ pc[c] \in Active /\ pc'[c] = "over" /\ aborts' = aborts =>
           /\ op[c] = "stop" \/ result'[c] = "none" => Running' = {}
           /\ op[c] = "restart" => Running' \subseteq {named[c]}]_vars
  BY LeavesStep DEF LeavesNothing
<1> QED
  BY <1>1, TypedInit, TypedStep, RunInit, RunStep, CalmInit, CalmStep, PTL
     DEF Spec, OldHostEnds
-----------------------------------------------------------------------------
(***************************************************************************)
(* The commands manage one host                                            *)
(***************************************************************************)

\* What is seen of a command from outside.
Doing == [c \in Commands |-> IF pc[c] \in Active THEN op[c] ELSE pc[c]]

Unmanaged == UNCHANGED <<Running, Doing, ran, result, calm>>

LEMMA ManagedSees ==
  /\ \A c : Managed!Give(c) <=>
       /\ Doing[c] = "new"
       /\ \E o \in Ops : /\ Doing' = [Doing EXCEPT ![c] = o]
                         /\ calm' /\ o = "start" => Running = {}
       /\ calm' => calm /\ \A d \in Commands : Doing[d] \in {"new", "over"}
       /\ UNCHANGED <<Running, ran, result>>
  /\ \A c : Managed!Launch(c) <=>
       /\ Doing[c] \in {"start", "restart", "run_auto"}
       /\ \E p \in Pids \ Running : Running' = Running \cup {p}
       /\ calm => Running = {}
       /\ UNCHANGED <<Doing, ran, result, calm>>
  /\ Managed!HostEnds <=> Running' \subseteq Running /\ UNCHANGED <<Doing, ran, result, calm>>
  /\ \A c : Managed!Execute(c) <=>
       /\ Doing[c] \in {"run", "run_auto", "over"} /\ ran[c] = 0
       /\ ran' = [ran EXCEPT ![c] = 1]
       /\ UNCHANGED <<Running, Doing, result, calm>>
  /\ \A c : Managed!Finish(c) <=>
       /\ Doing[c] \in Ops /\ Doing' = [Doing EXCEPT ![c] = "over"]
       /\ \E r \in {"ok", "none", "failed", "ready", "answer"} :
            /\ result' = [result EXCEPT ![c] = r]
            /\ r = "answer" => Doing[c] \in {"run", "run_auto"} /\ ran'[c] = 1
            /\ ran' = ran \/ (r = "answer" /\ ran[c] = 0 /\ ran' = [ran EXCEPT ![c] = 1])
            /\ calm /\ (r = "none" \/ Doing[c] = "stop") => Running = {}
       /\ UNCHANGED <<Running, calm>>
  /\ \A c : Managed!Abort(c) <=>
       /\ Doing[c] \in Ops /\ Doing' = [Doing EXCEPT ![c] = "over"]
       /\ calm' => calm
       /\ UNCHANGED <<Running, ran, result>>
  /\ Managed!Next <=>
       \/ Managed!HostEnds
       \/ \E c \in Commands : \/ Managed!Give(c) \/ Managed!Launch(c) \/ Managed!Execute(c)
                              \/ Managed!Finish(c) \/ Managed!Abort(c)
  BY Zenon DEF Managed!Give, Managed!Launch, Managed!HostEnds, Managed!Execute, Managed!Finish,
     Managed!Abort, Managed!Next, Doing

\* A command that is at work does what it was given.
LEMMA AtWork ==
  ASSUME Typed, NEW c \in Commands, pc[c] \in Active
  PROVE  Doing[c] = op[c] /\ op[c] \in Ops
  BY DEF Typed, LocalsFit, Fits, Active, Ops, Doing

LEMMA DoingKept ==
  ASSUME Typed, NEW c \in Commands, pc[c] \in Active, NEW x \in Active, Go(c, x), op' = op
  PROVE  Doing' = Doing
  BY DEF Typed, LocalsFit, Go, Doing

LEMMA DoingEnds ==
  ASSUME Typed, NEW c \in Commands, NEW r, End(c, r)
  PROVE  /\ Doing' = [Doing EXCEPT ![c] = "over"] /\ pc'[c] = "over"
         /\ result' = [result EXCEPT ![c] = r] /\ result'[c] = r
  BY DEF Typed, LocalsFit, End, Go, Doing, Active

LEMMA RunningKept == proc' = proc => Running' = Running
  BY DEF Running

LEMMA RunningFewer ==
  ASSUME Typed, NEW p \in Pids, NEW s, Becomes(p, s), s = "listening" => proc[p] = "booting",
         s # "booting"
  PROVE  Running' \subseteq Running
  BY DEF Typed, HostsTyped, Running, Becomes

\* A command that comes to its end by itself, with its code executed or not.
LEMMA FinishStep ==
  ASSUME Typed, CalmInv, [Next]_vars, NEW c \in Commands, pc[c] \in Active,
         NEW r \in {"ok", "none", "failed", "ready", "answer"}, End(c, r),
         UNCHANGED <<proc, aborts, calm>>,
         r = "answer" => op[c] \in {"run", "run_auto"} /\ ran'[c] = 1,
         ran' = ran \/ (r = "answer" /\ ran[c] = 0 /\ ran' = [ran EXCEPT ![c] = 1])
  PROVE  Managed!Next
<1>1. /\ Doing[c] = op[c] /\ op[c] \in Ops /\ Running' = Running
      /\ Doing' = [Doing EXCEPT ![c] = "over"] /\ pc'[c] = "over"
      /\ result' = [result EXCEPT ![c] = r] /\ result'[c] = r
  BY AtWork, DoingEnds, RunningKept
<1>2. calm /\ (r = "none" \/ op[c] = "stop") => Running = {}
  BY <1>1, LeavesStep DEF LeavesNothing
<1>3. Managed!Finish(c)
  BY <1>1, <1>2, ManagedSees
<1> QED
  BY <1>3, ManagedSees

\* A command that goes on leaves the hosts alone, or ends some.
LEMMA GoOnStep ==
  ASSUME Typed, NEW c \in Commands, pc[c] \in Active, NEW x \in Active, Go(c, x),
         Running' \subseteq Running, UNCHANGED <<op, ran, result, calm>>
  PROVE  Managed!Next
  BY DoingKept, ManagedSees

\* What the hosts do, but for the code they execute.
LEMMA HostsOnly ==
  ASSUME Typed, Running' \subseteq Running, UNCHANGED <<pc, op, ran, result, calm>>
  PROVE  Managed!Next
<1>1. Doing' = Doing
  BY DEF Doing
<1> QED
  BY <1>1, ManagedSees

LEMMA StepManaged ==
  ASSUME Typed, RunInv, CalmInv, [Next]_vars
  PROVE  Managed!Next \/ Unmanaged
<1> DEFINE Good == Managed!Next \/ Unmanaged
<1>g. Managed!Next => Good
  OBVIOUS
<1>u. UNCHANGED vars => Good
  BY DEF vars, Unmanaged, Running, Doing
<1> HIDE DEF Good
<1>1. ASSUME NEW c \in Commands, ReadPid(c) PROVE Good
  <2>1. /\ pc[c] \in Active /\ UNCHANGED <<proc, ran, aborts, calm>>
        /\ \/ End(c, "none")
           \/ \E x \in Active : Go(c, x) /\ UNCHANGED <<op, result>>
    BY <1>1 DEF ReadPid, Continue, Active
  <2> QED
    BY <1>g, <2>1, FinishStep, GoOnStep, RunningKept
<1>2. ASSUME NEW c \in Commands, CheckAlive(c) PROVE Good
  <2>1. /\ pc[c] \in Active /\ UNCHANGED <<proc, ran, aborts, calm>>
        /\ \/ \E r \in {"ok", "none"} : End(c, r)
           \/ \E x \in Active : Go(c, x) /\ UNCHANGED <<op, result>>
    BY <1>2 DEF CheckAlive, Continue, Active
  <2> QED
    BY <1>g, <2>1, FinishStep, GoOnStep, RunningKept
<1>3. ASSUME NEW c \in Commands, Kill(c) PROVE Good
  <2>1. /\ pc[c] = "kill" /\ pc[c] \in Active /\ UNCHANGED <<ran, aborts, calm>>
        /\ \/ End(c, "failed") /\ UNCHANGED proc
           \/ /\ \E x \in Active : Go(c, x) /\ UNCHANGED <<op, result>>
              /\ proc' = proc \/ Terminate(named[c])
    BY <1>3 DEF Kill, Continue, Active
  <2>2. Terminate(named[c]) => Running' \subseteq Running
    BY DEF Terminate, Running, Typed, HostsTyped
  <2> QED
    BY <1>g, <2>1, <2>2, FinishStep, GoOnStep, RunningKept
<1>4. ASSUME NEW c \in Commands, RemovePidFile(c) PROVE Good
  <2>1. /\ pc[c] \in Active /\ UNCHANGED <<proc, ran, aborts, calm>>
        /\ \/ End(c, "ok")
           \/ \E x \in Active : Go(c, x) /\ UNCHANGED <<op, result>>
    BY <1>4 DEF RemovePidFile, Continue, Active
  <2> QED
    BY <1>g, <2>1, FinishStep, GoOnStep, RunningKept
<1>5. ASSUME NEW c \in Commands, Launch(c) PROVE Good
  <2> DEFINE p == CHOOSE q \in Pids : proc[q] = "unused"
  <2>1. /\ pc[c] = "launch" /\ pc[c] \in Active /\ Go(c, "truncate") /\ "truncate" \in Active
        /\ p \in Pids /\ proc[p] = "unused" /\ proc' = [proc EXCEPT ![p] = "booting"]
        /\ UNCHANGED <<op, ran, result, calm>>
    BY <1>5 DEF Launch, Active
  <2> HIDE DEF p
  <2>2. p \in Pids \ Running /\ Running' = Running \cup {p}
    BY <2>1 DEF Running, Typed, HostsTyped
  <2>3. Doing' = Doing /\ Doing[c] \in {"start", "restart", "run_auto"}
    BY <2>1, DoingKept, AtWork DEF Typed, LocalsFit, Fits
  <2>4. calm => Running = {}
    BY <2>1 DEF CalmInv, Placed
  <2>5. Managed!Launch(c)
    BY <2>1, <2>2, <2>3, <2>4, ManagedSees
  <2> QED
    BY <1>g, <2>5, ManagedSees
<1>6. ASSUME NEW c \in Commands, Truncate(c) \/ Fill(c) PROVE Good
  <2>1. /\ pc[c] \in Active /\ UNCHANGED <<proc, ran, calm>>
        /\ \E x \in Active : Go(c, x) /\ UNCHANGED <<op, result>>
    BY <1>6 DEF Truncate, Fill, Continue, Active
  <2> QED
    BY <1>g, <2>1, GoOnStep, RunningKept
<1>7. ASSUME NEW c \in Commands, Ready(c) \/ NotReady(c) PROVE Good
  <2>1. /\ pc[c] \in Active /\ UNCHANGED <<proc, ran, aborts, calm>>
        /\ \/ \E r \in {"ready", "failed"} : End(c, r)
           \/ \E x \in Active : Go(c, x) /\ UNCHANGED <<op, result>>
    BY <1>7 DEF Ready, NotReady, Continue, Active
  <2> QED
    BY <1>g, <2>1, FinishStep, GoOnStep, RunningKept
<1>8. ASSUME NEW c \in Commands, Probe(c) \/ Post(c) PROVE Good
  <2>1. /\ pc[c] \in Active /\ UNCHANGED <<proc, ran, aborts, calm>>
        /\ \/ End(c, "failed")
           \/ \E x \in Active : Go(c, x) /\ UNCHANGED <<op, result>>
    BY <1>8 DEF Probe, Post, Continue, Active
  <2> QED
    BY <1>g, <2>1, FinishStep, GoOnStep, RunningKept
<1>9. ASSUME NEW c \in Commands, Answered(c) PROVE Good
  <2>1. /\ pc[c] = "wait" /\ pc[c] \in Active /\ UNCHANGED <<proc, ran, aborts, calm>>
        /\ End(c, "answer") /\ ran[c] > 0
    BY <1>9 DEF Answered, Active
  <2>2. op[c] \in {"run", "run_auto"} /\ ran[c] = 1
    BY <2>1, Once DEF Typed, LocalsFit, Fits, RunInv
  <2> QED
    BY <1>g, <2>1, <2>2, FinishStep
<1>10. ASSUME NEW c \in Commands, RequestFails(c) PROVE Good
  <2>1. pc[c] \in Active /\ UNCHANGED <<proc, ran, aborts, calm>> /\ End(c, "failed")
    BY <1>10 DEF RequestFails, Active
  <2> QED
    BY <1>g, <2>1, FinishStep
<1>11. ASSUME NEW c \in Commands, RunInProcess(c) PROVE Good
  <2>1. /\ pc[c] = "local" /\ pc[c] \in Active /\ UNCHANGED <<proc, aborts, calm>>
        /\ \/ ran' = [ran EXCEPT ![c] = @ + 1] /\ End(c, "answer")
           \/ UNCHANGED ran /\ End(c, "failed")
    BY <1>11 DEF RunInProcess, Active
  <2>2. op[c] \in {"run", "run_auto"} /\ ran[c] = 0
    BY <2>1 DEF Typed, LocalsFit, Fits, RunInv
  <2>3. ran' = [ran EXCEPT ![c] = @ + 1] => ran' = [ran EXCEPT ![c] = 1] /\ ran'[c] = 1
    BY <2>2, Once DEF Typed, RequestsTyped
  <2> QED
    BY <1>g, <2>1, <2>2, <2>3, FinishStep
<1>12. ASSUME NEW c \in Commands, Abort(c) PROVE Good
  <2>1. pc[c] \in Active /\ UNCHANGED <<proc, ran>> /\ End(c, "") /\ (calm' => calm)
    BY <1>12, Zenon DEF Abort
  <2>2. result[c] = ""
    BY <2>1 DEF RunInv, Active
  <2>3. /\ Doing[c] \in Ops /\ Doing' = [Doing EXCEPT ![c] = "over"]
        /\ result' = result /\ Running' = Running
    <3>1. result' = [result EXCEPT ![c] = ""]
      BY <2>1 DEF End
    <3>2. result' = result
      BY <2>2, <3>1 DEF Typed, LocalsFit
    <3> QED
      BY <2>1, <3>2, AtWork, DoingEnds, RunningKept
  <2>4. Managed!Abort(c)
    BY <2>1, <2>3, ManagedSees
  <2> QED
    BY <1>g, <2>4, ManagedSees
<1>13. ASSUME NEW c \in Commands, NEW o \in Ops, Arrive(c, o) PROVE Good
  <2>1. /\ pc[c] = "new" /\ op' = [op EXCEPT ![c] = o]
        /\ \E x \in Active : Go(c, x)
        /\ UNCHANGED <<proc, ran, result>>
    BY <1>13, Zenon DEF Arrive, Active
  <2>2. calm' => calm /\ NobodyAtWork /\ (o = "start" => Running = {})
    BY <1>13, Zenon DEF Arrive
  <2>3. Doing[c] = "new" /\ Doing' = [Doing EXCEPT ![c] = o] /\ Running' = Running
    BY <2>1, RunningKept, ZenonT(60) DEF Doing, Go, Typed, LocalsFit, Active
  <2>4. NobodyAtWork => \A d \in Commands : Doing[d] \in {"new", "over"}
    BY DEF NobodyAtWork, Doing, Typed, LocalsFit
  <2>5. Managed!Give(c)
    BY <2>1, <2>2, <2>3, <2>4, ManagedSees
  <2> QED
    BY <1>g, <2>5, ManagedSees
<1>14. ASSUME NEW p \in Pids, Bind(p) \/ BootFails(p) \/ Close(p) \/ Exit(p) \/ Crash(p)
       PROVE Good
  <2>1. /\ UNCHANGED <<pc, op, ran, result, calm>>
        /\ \E s : Becomes(p, s) /\ s # "booting" /\ (s = "listening" => proc[p] = "booting")
    BY <1>14 DEF Bind, BootFails, Close, Exit, Crash
  <2> QED
    BY <1>g, <2>1, RunningFewer, HostsOnly
<1>15. ASSUME NEW p \in Pids, NEW c \in Commands, Execute(p, c) PROVE Good
  <2>1. /\ at[c] = p /\ ran[c] = 0 /\ ran' = [ran EXCEPT ![c] = @ + 1]
        /\ UNCHANGED <<proc, pc, op, result, calm>>
    BY <1>15 DEF Execute
  <2>2. pc[c] \in {"wait", "over"}
    BY <2>1, DirectConstants DEF RunInv
  <2>3. Doing[c] \in {"run", "run_auto", "over"}
    BY <2>2 DEF Doing, Active, Typed, LocalsFit, Fits
  <2>4. ran' = [ran EXCEPT ![c] = 1]
    BY <2>1, Once DEF Typed, RequestsTyped
  <2>5. Doing' = Doing /\ Running' = Running
    BY <2>1, RunningKept DEF Doing
  <2>6. Managed!Execute(c)
    BY <2>1, <2>3, <2>4, <2>5, ManagedSees
  <2> QED
    BY <1>g, <2>6, ManagedSees
<1>16. Good
  BY <1>1, <1>2, <1>3, <1>4, <1>5, <1>6, <1>7, <1>8, <1>9, <1>10, <1>11, <1>12, <1>13, <1>14,
     <1>15, <1>u DEF Next, CommandStep, HostStep
<1> QED
  BY <1>16 DEF Good

\* Only commands bring hosts up, one at a time while they do not overlap; none is left
\* when stop or a command that finds no host says so; and the code of run is executed
\* at most once.
THEOREM HostManagedCorrect == Spec => HostManaged
<1>1. Init => Managed!Init
  BY DEF Init, Managed!Init, Running, Active
<1>2. ASSUME Typed, RunInv, CalmInv, [Next]_vars
      PROVE  [Managed!Next]_<<Running, Doing, ran, result, calm>>
  BY <1>2, StepManaged DEF Unmanaged
<1> QED
  BY <1>1, <1>2, TypedInit, TypedStep, RunInit, RunStep, CalmInit, CalmStep, PTL
     DEF Spec, HostManaged, Managed!Spec, Doing
=============================================================================
