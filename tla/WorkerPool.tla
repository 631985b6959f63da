----------------------------- MODULE WorkerPool -----------------------------
(***************************************************************************)
(* The pool of persistent worker processes that run extension tools        *)
(* (src/src/ot/executor/worker_pool.py).  Calls come from any number of    *)
(* threads.  A call looks a worker up without the lock, may spawn one,     *)
(* writes one request line and reads one response line; neither carries an *)
(* identifier, and nothing keeps a second call off the same worker between *)
(* the two.  A reaper thread ends idle workers, processes crash, and the   *)
(* pool is shut down at exit.                                              *)
(*                                                                         *)
(* Sections under _lock are single steps.  Time is not modelled, but the   *)
(* call timeout (60 s) is shorter than the idle timeout (600 s): a worker  *)
(* is not idle while a call that refreshed it is inside its timeout.       *)
(***************************************************************************)
EXTENDS Sequences, FiniteSets

CONSTANTS Tools,    \* tool files
          Calls,    \* calls made in a run, each once
          Workers,  \* processes that can be spawned in a run
          NoWorker,
          NoCall    \* no answer

ASSUME NoneApart == NoWorker \notin Workers /\ NoCall \notin Calls

VARIABLES
  workers,  \* _workers: tool -> worker
  proc,     \* each process: whether it lives, the request lines it has not read,
            \* the response lines in its pipe and in the reader's text buffer
  tool,     \* the tool each call is for
  pc,       \* where each call is
  mine,     \* the worker it uses
  got,      \* the call whose answer it returned
  down,     \* shutdown() has run
  solo      \* history: no call has started while another to its tool was active

vars == <<workers, proc, tool, pc, mine, got, down, solo>>

Active == {"lookup", "install", "refresh", "write", "select", "readline", "evict", "kill"}

TypeOK ==
  /\ workers \in [Tools -> Workers \cup {NoWorker}]
  /\ proc \in [Workers -> [life : {"unborn", "alive", "dead"},
                           stdin : Seq(Calls), pipe : Seq(Calls), buffer : Seq(Calls)]]
  /\ tool \in [Calls -> Tools]
  /\ pc \in [Calls -> Active \cup {"new", "returned", "raised"}]
  /\ mine \in [Calls -> Workers \cup {NoWorker}]
  /\ got \in [Calls -> Calls \cup {NoCall}]
  /\ down \in BOOLEAN
  /\ solo \in BOOLEAN

Init ==
  /\ workers = [t \in Tools |-> NoWorker]
  /\ proc = [w \in Workers |->
              [life |-> "unborn", stdin |-> <<>>, pipe |-> <<>>, buffer |-> <<>>]]
  /\ tool \in [Calls -> Tools]
  /\ pc = [c \in Calls |-> "new"]
  /\ mine = [c \in Calls |-> NoWorker]
  /\ got = [c \in Calls |-> NoCall]
  /\ down = FALSE
  /\ solo = TRUE
-----------------------------------------------------------------------------
Alive(w) == w # NoWorker /\ proc[w].life = "alive"

Pooled == {workers[t] : t \in Tools} \ {NoWorker}

Go(c, p) == pc' = [pc EXCEPT ![c] = p]

\* The call is over and lets go of its worker.
Leave(c, p) == Go(c, p) /\ mine' = [mine EXCEPT ![c] = NoWorker]

\* terminate() or kill() of the live ones of W; their output stays readable.
Ended(W) ==
  [w \in Workers |-> IF w \in W /\ Alive(w)
                       THEN [proc[w] EXCEPT !.life = "dead", !.stdin = <<>>]
                       ELSE proc[w]]

(***************************************************************************)
(* Plausible bugs, each a variant of an action below                       *)
(***************************************************************************)

\* select() without its timeout
SelectForever(c) ==
  /\ pc[c] = "select"
  /\ Go(c, "readline")
  /\ UNCHANGED <<workers, proc, tool, mine, got, down, solo>>

\* everything that can be read, where one line is wanted
ReadLineAll(c) ==
  LET w == mine[c]
  IN /\ pc[c] = "readline"
     /\ proc[w].buffer \o proc[w].pipe # <<>>
     /\ proc' = [proc EXCEPT ![w].buffer = <<>>, ![w].pipe = <<>>]
     /\ got' = [got EXCEPT ![c] = proc[w].buffer \o proc[w].pipe]
     /\ Leave(c, "returned")
     /\ UNCHANGED <<workers, tool, down, solo>>

\* a line that is returned and stays in the buffer
ReadLinePeeks(c) ==
  LET w     == mine[c]
      lines == proc[w].buffer \o proc[w].pipe
  IN /\ pc[c] = "readline"
     /\ lines # <<>>
     /\ proc' = [proc EXCEPT ![w].buffer = lines, ![w].pipe = <<>>]
     /\ got' = [got EXCEPT ![c] = Head(lines)]
     /\ Leave(c, "returned")
     /\ UNCHANGED <<workers, tool, down, solo>>

\* a timeout that leaves the worker in the pool
KillNothing(c) ==
  /\ pc[c] = "kill"
  /\ Leave(c, "raised")
  /\ UNCHANGED <<workers, proc, tool, got, down, solo>>

\* a timeout that takes the worker out of the pool and lets it live
KillPopsOnly(c) ==
  /\ pc[c] = "kill"
  /\ workers' = [workers EXCEPT ![tool[c]] = NoWorker]
  /\ Leave(c, "raised")
  /\ UNCHANGED <<proc, tool, got, down, solo>>
-----------------------------------------------------------------------------
\* The calls are taken in a fixed order: they differ in their tools only.
Arrive(c) ==
  /\ pc[c] = "new"
  /\ c = CHOOSE d \in Calls : pc[d] = "new"
  /\ ~down
  /\ Go(c, "lookup")
  /\ solo' = (solo /\ \A d \in Calls : pc[d] \in Active => tool[d] # tool[c])
  /\ UNCHANGED <<workers, proc, tool, mine, got, down>>

\* The optimistic read finds a live worker.
Found(c) ==
  /\ pc[c] = "lookup"
  /\ Alive(workers[tool[c]])
  /\ mine' = [mine EXCEPT ![c] = workers[tool[c]]]
  /\ Go(c, "refresh")
  /\ UNCHANGED <<workers, proc, tool, got, down, solo>>

Spawn(c) ==
  /\ pc[c] = "lookup"
  /\ ~Alive(workers[tool[c]])
  /\ \E v \in Workers : proc[v].life = "unborn"
  /\ LET w == CHOOSE v \in Workers : proc[v].life = "unborn"
     IN /\ proc' = [proc EXCEPT ![w].life = "alive"]
        /\ mine' = [mine EXCEPT ![c] = w]
  /\ Go(c, "install")
  /\ UNCHANGED <<workers, tool, got, down, solo>>

\* Popen raises.
SpawnFails(c) ==
  /\ pc[c] = "lookup"
  /\ ~Alive(workers[tool[c]])
  /\ Leave(c, "raised")
  /\ UNCHANGED <<workers, proc, tool, got, down, solo>>

\* Under the lock: the new worker goes in unless a live one got there first.
Install(c) ==
  /\ pc[c] = "install"
  /\ Go(c, "refresh")
  /\ IF Alive(workers[tool[c]])
       THEN /\ proc' = Ended({mine[c]})
            /\ mine' = [mine EXCEPT ![c] = workers[tool[c]]]
            /\ UNCHANGED workers
       ELSE /\ workers' = [workers EXCEPT ![tool[c]] = mine[c]]
            /\ UNCHANGED <<proc, mine>>
  /\ UNCHANGED <<tool, got, down, solo>>

Refresh(c) ==
  /\ pc[c] = "refresh"
  /\ Go(c, "write")
  /\ UNCHANGED <<workers, proc, tool, mine, got, down, solo>>

Write(c) ==
  /\ pc[c] = "write"
  /\ IF Alive(mine[c])
       THEN proc' = [proc EXCEPT ![mine[c]].stdin = Append(@, c)] /\ Go(c, "select")
       ELSE Go(c, "evict") /\ UNCHANGED proc       \* BrokenPipeError
  /\ UNCHANGED <<workers, tool, mine, got, down, solo>>

\* The pipe holds a line, or end of file.  Lines already in the reader's buffer
\* do not count.
Readable(w) == proc[w].pipe # <<>> \/ ~Alive(w)

Select(c) ==
  /\ pc[c] = "select"
  /\ Go(c, IF Readable(mine[c]) THEN "readline" ELSE "kill")   \* TimeoutError
  /\ UNCHANGED <<workers, proc, tool, mine, got, down, solo>>

\* What readline() would have to return a line from.
Lines(w) == IF proc[w].buffer # <<>> THEN proc[w].buffer ELSE proc[w].pipe

\* readline() returns a line of the buffer, which it fills with all the pipe holds
\* when it is empty.  It has no timeout: with nothing to read and the process
\* alive, the call stays here.  An answer that is an error, or no JSON, is an
\* answer too.
ReadLine(c) ==
  LET w == mine[c]
  IN /\ pc[c] = "readline"
     /\ Lines(w) # <<>>
     /\ proc' = [proc EXCEPT ![w].buffer = Tail(Lines(w)),
                             ![w].pipe = IF proc[w].buffer # <<>> THEN @ ELSE <<>>]
     /\ got' = [got EXCEPT ![c] = Head(Lines(w))]
     /\ Leave(c, "returned")
     /\ UNCHANGED <<workers, tool, down, solo>>

EndOfFile(c) ==
  /\ pc[c] = "readline"
  /\ Lines(mine[c]) = <<>>
  /\ ~Alive(mine[c])
  /\ Go(c, "evict")
  /\ UNCHANGED <<workers, proc, tool, mine, got, down, solo>>

\* The worker died under the call: whatever the pool holds for the tool goes.
Evict(c) ==
  /\ pc[c] = "evict"
  /\ workers' = [workers EXCEPT ![tool[c]] = NoWorker]
  /\ Leave(c, "raised")
  /\ UNCHANGED <<proc, tool, got, down, solo>>

\* After a timeout: whatever the pool holds for the tool goes and is killed.
Kill(c) ==
  /\ pc[c] = "kill"
  /\ workers' = [workers EXCEPT ![tool[c]] = NoWorker]
  /\ proc' = Ended({workers[tool[c]]})
  /\ Leave(c, "raised")
  /\ UNCHANGED <<tool, got, down, solo>>
-----------------------------------------------------------------------------
\* last_used may be ten minutes old.
MayBeIdle(w) ==
  \A c \in Calls : mine[c] = w => pc[c] \notin {"write", "select", "evict", "kill"}

\* _reap_idle_workers, for the worker of one tool.
Reap(t) ==
  /\ ~down
  /\ workers[t] # NoWorker
  /\ MayBeIdle(workers[t]) \/ ~Alive(workers[t])
  /\ workers' = [workers EXCEPT ![t] = NoWorker]
  /\ proc' = Ended({workers[t]})
  /\ UNCHANGED <<tool, pc, mine, got, down, solo>>

\* At exit, when the threads that make calls have been joined.
Shutdown ==
  /\ ~down
  /\ \A c \in Calls : pc[c] \notin Active
  /\ down' = TRUE
  /\ proc' = Ended(Pooled)
  /\ workers' = [t \in Tools |-> NoWorker]
  /\ UNCHANGED <<tool, pc, mine, got, solo>>

\* The process of the tool: one request at a time, in order, or a crash.
WorkerAnswers(w) ==
  /\ Alive(w)
  /\ proc[w].stdin # <<>>
  /\ proc' = [proc EXCEPT ![w].stdin = Tail(@),
                          ![w].pipe = Append(@, Head(proc[w].stdin))]
  /\ UNCHANGED <<workers, tool, pc, mine, got, down, solo>>

WorkerCrashes(w) ==
  /\ Alive(w)
  /\ proc' = Ended({w})
  /\ UNCHANGED <<workers, tool, pc, mine, got, down, solo>>
-----------------------------------------------------------------------------
CallStep(c) ==
  \/ Found(c) \/ Spawn(c) \/ SpawnFails(c) \/ Install(c) \/ Refresh(c) \/ Write(c)
  \/ Select(c) \/ ReadLine(c) \/ EndOfFile(c) \/ Evict(c) \/ Kill(c)

Next ==
  \/ \E c \in Calls : Arrive(c) \/ CallStep(c)
  \/ \E t \in Tools : Reap(t)
  \/ \E w \in Workers : WorkerAnswers(w) \/ WorkerCrashes(w)
  \/ Shutdown

\* Threads are scheduled; select() ends with a line, end of file or its timeout.
\* A worker may hang: nothing makes it answer.
Spec == Init /\ [][Next]_vars /\ \A c \in Calls : WF_vars(CallStep(c))
-----------------------------------------------------------------------------
(***************************************************************************)
(* Properties                                                              *)
(***************************************************************************)

\* Even when calls share a worker and take each other's lines, one response is
\* never returned twice, and it comes from a call to the same tool.
AnswersOnce ==
  \A c, d \in Calls :
    got[c] # NoCall =>
      /\ tool[got[c]] = tool[c]
      /\ got[c] = got[d] => c = d

\* The pool is the service that IsolatedCalls describes.
Service == INSTANCE IsolatedCalls WITH
             call <- [c \in Calls |-> IF pc[c] \in Active THEN "open" ELSE pc[c]],
             live <- {w \in Workers : Alive(w)}

PoolServes == Service!Spec

\* Calls to one tool that do not overlap get their own answers, whatever crashes,
\* timeouts, reaping and respawning happen in between: a line left behind by a
\* call that gave up is never read by a later one.
SoloOwnAnswer == solo => \A c \in Calls : got[c] \in {c, NoCall}

\* Without overlap no live process is forgotten: it is in the pool, where the
\* reaper and the shutdown find it, or was just spawned by a call that is about
\* to put it there.
SoloNoOrphan ==
  solo => \A w \in Workers :
    Alive(w) => \/ w \in Pooled
                \/ \E c \in Calls : pc[c] = "install" /\ mine[c] = w

\* A call that shares its tool with no other comes back: no worker that hangs, dies
\* or is taken away blocks it.  (A call that overlaps another may find its line
\* taken between select() and readline(), and then waits without a timeout.)
CallsEnd == \A c \in Calls : pc[c] \in Active ~> (pc[c] \notin Active \/ ~solo)

\* "Returns: Result from the function" (worker_pool.py:264): a call returns the
\* answer to its own request.
OwnAnswer == \A c \in Calls : got[c] \in {c, NoCall}
=============================================================================
