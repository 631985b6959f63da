-------------------------- MODULE WorkerPoolProofs --------------------------
(***************************************************************************)
(* Proofs about WorkerPool, for any number of tools, calls and workers:    *)
(*   TypeCorrect         the type invariant                                *)
(*   AnswersOnceCorrect  a response is returned once, for its own tool     *)
(*   OwnAnswerCorrect    without overlap it is the answer to the call      *)
(*   NoOrphanCorrect     without overlap no live process is forgotten      *)
(*   PoolServesCorrect   the pool is the service of IsolatedCalls          *)
(* Request and response lines are the matter of all of them, and no        *)
(* invariant of the pool names them.  PoolInv therefore says where a line  *)
(* may be: in one place of one process that runs its call's tool (OnePlace,*)
(* OneTool), and, without overlap, only where its own call will read it or *)
(* in a process no call can reach any more (Alone).  The lemmas of the     *)
(* second part say what a step does to lines, calls and the pool; the      *)
(* third part uses those and opens an action only where it matters.        *)
(***************************************************************************)
EXTENDS WorkerPool, Integers, TLAPS

\* The lines of a sequence, and that none is there twice.
Lined(s) == {s[i] : i \in 1..Len(s)}

OnceEach(s) == \A i, j \in 1..Len(s) : s[i] = s[j] => i = j

\* The calls whose request or response is somewhere in process w.
Holds(w) == Lined(proc[w].stdin) \cup Lined(proc[w].pipe) \cup Lined(proc[w].buffer)

Tidy(w) ==
  /\ OnceEach(proc[w].stdin) /\ OnceEach(proc[w].pipe) /\ OnceEach(proc[w].buffer)
  /\ Lined(proc[w].stdin) \cap Lined(proc[w].pipe) = {}
  /\ Lined(proc[w].stdin) \cap Lined(proc[w].buffer) = {}
  /\ Lined(proc[w].pipe) \cap Lined(proc[w].buffer) = {}
(***************************************************************************)
(* The inductive invariant                                                 *)
(***************************************************************************)

\* before the request is written
Untouched == {"new", "lookup", "install", "refresh", "write"}

\* A process that is not born is unknown; a call has a worker between its look-up
\* and its end; one whose stream ended under a call stays dead.
Known ==
  /\ \A w \in Workers : proc[w].life = "unborn" =>
       Holds(w) = {} /\ w \notin Pooled /\ \A c \in Calls : mine[c] # w
  /\ \A c \in Calls : mine[c] # NoWorker <=> pc[c] \in Active \ {"lookup"}
  /\ \A c \in Calls : pc[c] = "evict" => ~Alive(mine[c])

\* A request is in one place at most, in one process at most, until its response
\* has been returned, to one call.
OnePlace ==
  /\ \A w \in Workers : Tidy(w)
  /\ \A v, w \in Workers : v # w => Holds(v) \cap Holds(w) = {}
  /\ \A c \in Calls, w \in Workers : got[c] \notin Holds(w)
  /\ \A c, d \in Calls : got[c] # NoCall /\ got[c] = got[d] => c = d
  /\ \A d \in Calls : pc[d] \in Untouched =>
       (\A w \in Workers : d \notin Holds(w)) /\ (\A c \in Calls : got[c] # d)

\* f says which tool each process runs.
Runs(f) ==
  /\ \A t \in Tools : workers[t] # NoWorker => f[workers[t]] = t
  /\ \A c \in Calls : mine[c] # NoWorker => f[mine[c]] = tool[c]
  /\ \A w \in Workers : \A d \in Holds(w) : f[w] = tool[d]

OneTool ==
  /\ \E f \in [Workers -> Tools \cup {NoWorker}] : Runs(f)
  /\ \A c \in Calls : got[c] # NoCall => tool[got[c]] = tool[c]

\* Without overlap: one active call a tool, whose worker holds no line of another
\* and is the one in the pool, if one is; and what a worker in the pool holds is of
\* the call that uses it.
Alone ==
  solo =>
    /\ \A c, d \in Calls : pc[c] \in Active /\ pc[d] \in Active /\ tool[c] = tool[d] => c = d
    /\ \A c \in Calls, w \in Workers : mine[c] = w => Holds(w) \subseteq {c}
    /\ \A w \in Workers : w \in Pooled => \A d \in Holds(w) : mine[d] = w
    /\ \A c \in Calls : pc[c] \in Active \ {"lookup", "install"} =>
         workers[tool[c]] \in {mine[c], NoWorker}

PoolInv == TypeOK /\ Known /\ OnePlace /\ OneTool /\ Alone /\ SoloOwnAnswer /\ SoloNoOrphan
-----------------------------------------------------------------------------
LEMMA NoLine == Lined(<<>>) = {} /\ OnceEach(<<>>) /\ \A S : <<>> \in Seq(S)
  BY DEF Lined, OnceEach

LEMMA LineIn ==
  ASSUME NEW S, NEW s \in Seq(S)
  PROVE  Lined(s) \subseteq S /\ (s # <<>> => Head(s) \in Lined(s))
  BY DEF Lined

LEMMA LineAdded ==
  ASSUME NEW S, NEW s \in Seq(S), NEW e \in S
  PROVE  /\ Append(s, e) \in Seq(S)
         /\ Lined(Append(s, e)) = Lined(s) \cup {e}
         /\ OnceEach(s) /\ e \notin Lined(s) => OnceEach(Append(s, e))
<1>1. Append(s, e) \in Seq(S) /\ Len(Append(s, e)) = Len(s) + 1 /\ Len(s) \in Nat
  OBVIOUS
<1>2. \A i \in 1..Len(s) : Append(s, e)[i] = s[i]
  OBVIOUS
<1>3. Append(s, e)[Len(s) + 1] = e
  OBVIOUS
<1>4. 1..(Len(s) + 1) = (1..Len(s)) \cup {Len(s) + 1}
  BY <1>1
<1>5. Lined(Append(s, e)) = Lined(s) \cup {e}
  BY <1>1, <1>2, <1>3, <1>4 DEF Lined
<1>6. ASSUME OnceEach(s), e \notin Lined(s) PROVE OnceEach(Append(s, e))
  BY <1>1, <1>2, <1>3, <1>4, <1>6 DEF OnceEach, Lined
<1> QED
  BY <1>1, <1>5, <1>6

LEMMA LineTaken ==
  ASSUME NEW S, NEW s \in Seq(S), s # <<>>
  PROVE  /\ Tail(s) \in Seq(S)
         /\ Lined(s) = Lined(Tail(s)) \cup {Head(s)}
         /\ OnceEach(s) => OnceEach(Tail(s)) /\ Head(s) \notin Lined(Tail(s))
<1>1. Tail(s) \in Seq(S) /\ Len(Tail(s)) = Len(s) - 1 /\ Len(s) \in Nat \ {0}
  OBVIOUS
<1>2. \A i \in 1..(Len(s) - 1) : Tail(s)[i] = s[i + 1]
  OBVIOUS
<1>3. Head(s) = s[1]
  OBVIOUS
<1>4. Lined(s) = Lined(Tail(s)) \cup {Head(s)}
  <2>1. ASSUME NEW i \in 1..Len(s) PROVE s[i] \in Lined(Tail(s)) \cup {Head(s)}
    <3>1. CASE i = 1
      BY <3>1, <1>3
    <3>2. CASE i # 1
      <4>1. i - 1 \in 1..(Len(s) - 1) /\ (i - 1) + 1 = i
        BY <3>2, <1>1
      <4>2. Tail(s)[i - 1] = s[i]
        BY <4>1, <1>2
      <4> QED
        BY <4>1, <4>2, <1>1 DEF Lined
    <3> QED
      BY <3>1, <3>2
  <2>2. ASSUME NEW i \in 1..(Len(s) - 1) PROVE Tail(s)[i] \in Lined(s)
    <3>1. i + 1 \in 1..Len(s)
      BY <1>1
    <3> QED
      BY <3>1, <1>2 DEF Lined
  <2>3. Head(s) \in Lined(s)
    BY <1>1, <1>3 DEF Lined
  <2> QED
    BY <2>1, <2>2, <2>3, <1>1 DEF Lined
<1>5. ASSUME OnceEach(s) PROVE OnceEach(Tail(s))
  <2>1. ASSUME NEW i \in 1..(Len(s) - 1), NEW k \in 1..(Len(s) - 1), Tail(s)[i] = Tail(s)[k]
        PROVE  i = k
    <3>1. i + 1 \in 1..Len(s) /\ k + 1 \in 1..Len(s) /\ s[i + 1] = s[k + 1]
      BY <2>1, <1>1, <1>2
    <3>2. i + 1 = k + 1
      BY <3>1, <1>5 DEF OnceEach
    <3> QED
      BY <3>2
  <2> QED
    BY <2>1, <1>1 DEF OnceEach
<1>6. ASSUME OnceEach(s) PROVE Head(s) \notin Lined(Tail(s))
  <2>1. ASSUME NEW i \in 1..(Len(s) - 1) PROVE Tail(s)[i] # Head(s)
    <3>1. i + 1 \in 1..Len(s) /\ 1 \in 1..Len(s) /\ i + 1 # 1
      BY <1>1
    <3> QED
      BY <3>1, <1>2, <1>3, <1>6 DEF OnceEach
  <2> QED
    BY <2>1, <1>1 DEF Lined
<1> QED
  BY <1>1, <1>4, <1>5, <1>6
-----------------------------------------------------------------------------
(***************************************************************************)
(* What the steps do to the lines of the processes                         *)
(***************************************************************************)

ProcRec ==
  [life : {"unborn", "alive", "dead"},
   stdin : Seq(Calls), pipe : Seq(Calls), buffer : Seq(Calls)]

ProcType == [Workers -> ProcRec]

LEMMA ProcFields ==
  ASSUME TypeOK, NEW w \in Workers
  PROVE  /\ proc \in ProcType /\ proc[w] \in ProcRec
         /\ proc[w].life \in {"unborn", "alive", "dead"}
         /\ proc[w].stdin \in Seq(Calls) /\ proc[w].pipe \in Seq(Calls)
         /\ proc[w].buffer \in Seq(Calls) /\ Holds(w) \subseteq Calls
         /\ proc[w] = [life |-> proc[w].life, stdin |-> proc[w].stdin,
                       pipe |-> proc[w].pipe, buffer |-> proc[w].buffer]
<1>1. /\ proc[w].stdin \in Seq(Calls) /\ proc[w].pipe \in Seq(Calls)
      /\ proc[w].buffer \in Seq(Calls)
  BY DEF TypeOK
<1> QED
  BY <1>1, LineIn DEF TypeOK, ProcType, ProcRec, Holds

\* Ending processes loses lines and moves none.
LEMMA EndedLines ==
  ASSUME TypeOK, NEW W, proc' = Ended(W)
  PROVE  /\ proc' \in ProcType
         /\ \A w \in Workers :
              /\ proc'[w].life = IF w \in W /\ Alive(w) THEN "dead" ELSE proc[w].life
              /\ Holds(w)' \subseteq Holds(w)
              /\ Tidy(w) => Tidy(w)'
<1>1. ASSUME NEW w \in Workers
      PROVE  /\ proc'[w] \in ProcRec
             /\ proc'[w].life = IF w \in W /\ Alive(w) THEN "dead" ELSE proc[w].life
             /\ Holds(w)' \subseteq Holds(w)
             /\ Tidy(w) => Tidy(w)'
  <2>1. CASE w \in W /\ Alive(w)
    <3>1. proc'[w] = [life |-> "dead", stdin |-> <<>>, pipe |-> proc[w].pipe,
                      buffer |-> proc[w].buffer]
      <4>1. proc'[w] = [proc[w] EXCEPT !.life = "dead", !.stdin = <<>>]
        BY <2>1 DEF Ended
      <4> QED
        BY <4>1, ProcFields
    <3>2. /\ proc'[w].life = "dead" /\ proc'[w].stdin = <<>>
          /\ proc'[w].pipe = proc[w].pipe /\ proc'[w].buffer = proc[w].buffer
      BY <3>1
    <3>3. proc'[w] \in ProcRec
      <4>1. /\ proc[w].life \in {"unborn", "alive", "dead"} /\ proc[w].stdin \in Seq(Calls)
            /\ proc[w].pipe \in Seq(Calls) /\ proc[w].buffer \in Seq(Calls)
        BY ProcFields
      <4> QED
        BY <3>1, NoLine, <4>1 DEF ProcRec
    <3>4. Holds(w)' \subseteq Holds(w)
      BY <3>2, NoLine DEF Holds
    <3>5. Tidy(w) => Tidy(w)'
      BY <3>2, NoLine DEF Tidy
    <3> QED
      BY <2>1, <3>2, <3>3, <3>4, <3>5
  <2>2. CASE ~(w \in W /\ Alive(w))
    <3>1. proc'[w] = proc[w]
      BY <2>2 DEF Ended
    <3> QED
      BY <2>2, <3>1, ProcFields DEF Holds, Tidy
  <2> QED
    BY <2>1, <2>2
<1> QED
  BY <1>1 DEF Ended, ProcType

\* A request goes to one process, once.
LEMMA WriteLines ==
  ASSUME TypeOK, NEW c \in Calls, mine[c] \in Workers,
         proc' = [proc EXCEPT ![mine[c]].stdin = Append(@, c)]
  PROVE  /\ proc' \in ProcType
         /\ \A w \in Workers :
              /\ proc'[w].life = proc[w].life
              /\ Holds(w)' = Holds(w) \cup (IF w = mine[c] THEN {c} ELSE {})
              /\ Tidy(w) /\ c \notin Holds(w) => Tidy(w)'
<1>1. ASSUME NEW w \in Workers
      PROVE  /\ proc'[w] \in ProcRec
             /\ proc'[w].life = proc[w].life
             /\ Holds(w)' = Holds(w) \cup (IF w = mine[c] THEN {c} ELSE {})
             /\ Tidy(w) /\ c \notin Holds(w) => Tidy(w)'
  <2>1. CASE w = mine[c]
    <3>1. proc'[w] = [life |-> proc[w].life, stdin |-> Append(proc[w].stdin, c),
                      pipe |-> proc[w].pipe, buffer |-> proc[w].buffer]
      <4>1. proc'[w] = [proc[w] EXCEPT !.stdin = Append(@, c)]
        BY <2>1 DEF TypeOK
      <4>2. proc[w] = [life |-> proc[w].life, stdin |-> proc[w].stdin,
                       pipe |-> proc[w].pipe, buffer |-> proc[w].buffer]
        BY ProcFields
      <4> QED
        BY <4>1, <4>2
    <3>2. /\ proc'[w].life = proc[w].life /\ proc'[w].pipe = proc[w].pipe
          /\ proc'[w].buffer = proc[w].buffer /\ proc'[w].stdin = Append(proc[w].stdin, c)
      BY <3>1
    <3>3. /\ Append(proc[w].stdin, c) \in Seq(Calls)
          /\ Lined(Append(proc[w].stdin, c)) = Lined(proc[w].stdin) \cup {c}
          /\ OnceEach(proc[w].stdin) /\ c \notin Lined(proc[w].stdin) =>
               OnceEach(Append(proc[w].stdin, c))
      BY LineAdded, ProcFields
    <3>4. proc'[w] \in ProcRec
      <4>1. /\ proc[w].life \in {"unborn", "alive", "dead"} /\ proc[w].stdin \in Seq(Calls)
            /\ proc[w].pipe \in Seq(Calls) /\ proc[w].buffer \in Seq(Calls)
        BY ProcFields
      <4> DEFINE in == Append(proc[w].stdin, c)
      <4>2. in \in Seq(Calls)
        BY <3>3
      <4>3. proc'[w] = [life |-> proc[w].life, stdin |-> in, pipe |-> proc[w].pipe,
                        buffer |-> proc[w].buffer]
        BY <3>1
      <4> HIDE DEF in
      <4> QED
        BY <4>1, <4>2, <4>3 DEF ProcRec
    <3>5. Holds(w)' = Holds(w) \cup {c}
      BY <3>2, <3>3 DEF Holds
    <3>6. Tidy(w) /\ c \notin Holds(w) => Tidy(w)'
      BY <3>2, <3>3 DEF Holds, Tidy
    <3> QED
      BY <2>1, <3>2, <3>4, <3>5, <3>6
  <2>2. CASE w # mine[c]
    <3>1. proc'[w] = proc[w]
      BY <2>2 DEF TypeOK
    <3> QED
      BY <2>2, <3>1, ProcFields DEF Holds, Tidy
  <2> QED
    BY <2>1, <2>2
<1> QED
  BY <1>1, ProcFields DEF ProcType

\* An answer follows its request, in the same process.
LEMMA AnswerLines ==
  ASSUME TypeOK, NEW v \in Workers, WorkerAnswers(v)
  PROVE  /\ proc' \in ProcType
         /\ \A w \in Workers :
              /\ proc'[w].life = proc[w].life
              /\ Tidy(w) => Holds(w)' = Holds(w) /\ Tidy(w)'
<1> DEFINE in == proc[v].stdin
<1>0. in \in Seq(Calls) /\ in # <<>> /\ Head(in) \in Calls
  <2>1. in \in Seq(Calls) /\ in # <<>>
    BY ProcFields DEF WorkerAnswers
  <2> QED
    BY <2>1, LineIn
<1>1. ASSUME NEW w \in Workers
      PROVE  /\ proc'[w] \in ProcRec
             /\ proc'[w].life = proc[w].life
             /\ Tidy(w) => Holds(w)' = Holds(w) /\ Tidy(w)'
  <2>1. CASE w = v
    <3>1. proc'[w] = [life |-> proc[w].life, stdin |-> Tail(proc[w].stdin),
                      pipe |-> Append(proc[w].pipe, Head(in)), buffer |-> proc[w].buffer]
      <4>1. proc'[w] = [proc[w] EXCEPT !.stdin = Tail(@), !.pipe = Append(@, Head(in))]
        BY <2>1 DEF WorkerAnswers, TypeOK
      <4> QED
        BY <4>1, ProcFields
    <3>2. /\ proc'[w].life = proc[w].life /\ proc'[w].pipe = Append(proc[w].pipe, Head(in))
          /\ proc'[w].buffer = proc[w].buffer /\ proc'[w].stdin = Tail(proc[w].stdin)
      BY <3>1
    <3>3. /\ Append(proc[w].pipe, Head(in)) \in Seq(Calls)
          /\ Lined(Append(proc[w].pipe, Head(in))) = Lined(proc[w].pipe) \cup {Head(in)}
          /\ OnceEach(proc[w].pipe) /\ Head(in) \notin Lined(proc[w].pipe) =>
               OnceEach(Append(proc[w].pipe, Head(in)))
      BY <1>0, LineAdded, ProcFields
    <3>4. /\ Tail(in) \in Seq(Calls) /\ Lined(in) = Lined(Tail(in)) \cup {Head(in)}
          /\ OnceEach(in) => OnceEach(Tail(in)) /\ Head(in) \notin Lined(Tail(in))
      BY <1>0, LineTaken
    <3>5. proc'[w] \in ProcRec
      <4>1. /\ proc[w].life \in {"unborn", "alive", "dead"} /\ proc[w].stdin \in Seq(Calls)
            /\ proc[w].pipe \in Seq(Calls) /\ proc[w].buffer \in Seq(Calls)
        BY ProcFields
      <4> QED
        BY <2>1, <3>1, <3>3, <3>4, <4>1 DEF ProcRec
    <3>6. Holds(w)' = Holds(w)
      BY <2>1, <3>2, <3>3, <3>4 DEF Holds
    <3>7. Tidy(w) => Tidy(w)'
      BY <2>1, <3>2, <3>3, <3>4 DEF Tidy
    <3> QED
      BY <3>2, <3>5, <3>6, <3>7
  <2>2. CASE w # v
    <3>1. proc'[w] = proc[w]
      BY <2>2 DEF WorkerAnswers, TypeOK
    <3> QED
      BY <3>1, ProcFields DEF Holds, Tidy
  <2> QED
    BY <2>1, <2>2
<1> QED
  BY <1>1, ProcFields DEF ProcType, WorkerAnswers

\* A line that is returned is gone.
LEMMA ReadLines ==
  ASSUME TypeOK, NEW c \in Calls, mine[c] \in Workers, ReadLine(c)
  PROVE  /\ proc' \in ProcType
         /\ got' = [got EXCEPT ![c] = got'[c]] /\ got'[c] \in Holds(mine[c])
         /\ \A w \in Workers :
              /\ proc'[w].life = proc[w].life
              /\ Tidy(w) => Tidy(w)'
              /\ Tidy(w) => Holds(w)' = Holds(w) \ (IF w = mine[c] THEN {got'[c]} ELSE {})
<1> DEFINE u == mine[c]
           from == Lines(u)
<1>0. /\ from \in Seq(Calls) /\ from # <<>> /\ got'[c] = Head(from)
      /\ got' = [got EXCEPT ![c] = Head(from)]
      /\ Head(from) \in Lined(from) /\ Lined(from) \subseteq Holds(u)
  <2>1. from \in Seq(Calls) /\ from # <<>>
    BY ProcFields DEF ReadLine, Lines
  <2>2. Head(from) \in Lined(from)
    BY <2>1, LineIn
  <2>3. Lined(from) \subseteq Holds(u)
    BY DEF Lines, Holds
  <2> QED
    BY <2>1, <2>2, <2>3 DEF ReadLine, TypeOK
<1>1. ASSUME NEW w \in Workers
      PROVE  /\ proc'[w] \in ProcRec
             /\ proc'[w].life = proc[w].life
             /\ Tidy(w) => Tidy(w)'
             /\ Tidy(w) => Holds(w)' = Holds(w) \ (IF w = mine[c] THEN {got'[c]} ELSE {})
  <2>1. CASE w = u
    <3>1. proc'[w] = [life |-> proc[w].life, stdin |-> proc[w].stdin, buffer |-> Tail(from),
                      pipe |-> IF proc[w].buffer # <<>> THEN proc[w].pipe ELSE <<>>]
      <4>1. proc'[w] = [proc[w] EXCEPT !.buffer = Tail(from),
                                       !.pipe = IF proc[w].buffer # <<>> THEN @ ELSE <<>>]
        BY <2>1 DEF ReadLine, TypeOK
      <4> QED
        BY <4>1, ProcFields
    <3>6. /\ proc'[w].life = proc[w].life /\ proc'[w].stdin = proc[w].stdin
          /\ proc'[w].buffer = Tail(from)
          /\ proc'[w].pipe = IF proc[w].buffer # <<>> THEN proc[w].pipe ELSE <<>>
      BY <3>1
    <3>2. /\ Tail(from) \in Seq(Calls) /\ Lined(from) = Lined(Tail(from)) \cup {Head(from)}
          /\ OnceEach(from) => OnceEach(Tail(from)) /\ Head(from) \notin Lined(Tail(from))
      BY <1>0, LineTaken
    <3>3. proc'[w] \in ProcRec
      <4>1. /\ proc[w].life \in {"unborn", "alive", "dead"} /\ proc[w].stdin \in Seq(Calls)
            /\ proc[w].pipe \in Seq(Calls) /\ proc[w].buffer \in Seq(Calls)
        BY ProcFields
      <4> QED
        BY <3>1, <3>2, NoLine, <4>1 DEF ProcRec
    <3>4. CASE proc[w].buffer # <<>>
      <4>1. from = proc[w].buffer /\ proc'[w].pipe = proc[w].pipe
        BY <2>1, <3>6, <3>4 DEF Lines
      <4> QED
        BY <1>0, <2>1, <3>6, <3>2, <3>3, <4>1 DEF Holds, Tidy
    <3>5. CASE proc[w].buffer = <<>>
      <4>1. from = proc[w].pipe /\ proc'[w].pipe = <<>>
        BY <2>1, <3>6, <3>5 DEF Lines
      <4> QED
        BY <1>0, <2>1, <3>6, <3>2, <3>3, <3>5, <4>1, NoLine DEF Holds, Tidy
    <3> QED
      BY <3>4, <3>5
  <2>2. CASE w # u
    <3>1. proc'[w] = proc[w]
      BY <2>2 DEF ReadLine, TypeOK
    <3> QED
      BY <2>2, <3>1, ProcFields DEF Holds, Tidy
  <2> QED
    BY <2>1, <2>2
<1>2. proc' \in ProcType
  BY <1>1, ProcFields DEF ProcType, ReadLine
<1> QED
  BY <1>0, <1>1, <1>2

\* A new process holds nothing.
LEMMA SpawnLines ==
  ASSUME TypeOK, NEW c \in Calls, Spawn(c)
  PROVE  \E v \in Workers :
           /\ proc[v].life = "unborn" /\ mine' = [mine EXCEPT ![c] = v]
           /\ proc' \in ProcType
           /\ \A w \in Workers :
                /\ proc'[w].life = IF w = v THEN "alive" ELSE proc[w].life
                /\ Holds(w)' = Holds(w)
                /\ Tidy(w) => Tidy(w)'
<1> DEFINE v == CHOOSE u \in Workers : proc[u].life = "unborn"
<1>1. v \in Workers /\ proc[v].life = "unborn"
  BY DEF Spawn
<1>2. mine' = [mine EXCEPT ![c] = v] /\ proc' = [proc EXCEPT ![v].life = "alive"]
  BY DEF Spawn
<1> HIDE DEF v
<1>3. ASSUME NEW w \in Workers
      PROVE  /\ proc'[w] \in ProcRec
             /\ proc'[w].life = IF w = v THEN "alive" ELSE proc[w].life
             /\ Holds(w)' = Holds(w)
             /\ Tidy(w) => Tidy(w)'
  <2>1. proc'[w] = [life |-> IF w = v THEN "alive" ELSE proc[w].life,
                    stdin |-> proc[w].stdin, pipe |-> proc[w].pipe, buffer |-> proc[w].buffer]
    <3>1. proc'[w] = [proc[w] EXCEPT !.life = IF w = v THEN "alive" ELSE @]
      BY <1>1, <1>2, ProcFields DEF ProcType
    <3> QED
      BY <3>1, ProcFields
  <2>2. /\ proc'[w].life = IF w = v THEN "alive" ELSE proc[w].life
        /\ proc'[w].stdin = proc[w].stdin /\ proc'[w].pipe = proc[w].pipe
        /\ proc'[w].buffer = proc[w].buffer
    BY <2>1
  <2>3. proc'[w] \in ProcRec
    <3>1. /\ proc[w].life \in {"unborn", "alive", "dead"} /\ proc[w].stdin \in Seq(Calls)
          /\ proc[w].pipe \in Seq(Calls) /\ proc[w].buffer \in Seq(Calls)
      BY ProcFields
    <3> QED
      BY <2>1, <3>1 DEF ProcRec
  <2> QED
    BY <2>2, <2>3 DEF Holds, Tidy
<1>4. proc' \in ProcType
  <2>1. proc' = [w \in Workers |-> proc'[w]]
    BY <1>2 DEF TypeOK
  <2> QED
    BY <2>1, <1>3 DEF ProcType
<1> QED
  BY <1>1, <1>2, <1>3, <1>4
-----------------------------------------------------------------------------
(***************************************************************************)
(* What a step does                                                        *)
(***************************************************************************)

\* A call that uses a worker uses one there is.
LEMMA UsesProcess ==
  ASSUME TypeOK, Known, NEW c \in Calls, pc[c] \in Active \ {"lookup"}
  PROVE  mine[c] \in Workers
  BY DEF TypeOK, Known

LEMMA SameLines ==
  ASSUME proc' = proc
  PROVE  \A w \in Workers : Holds(w)' = Holds(w) /\ (Tidy(w) => Tidy(w)')
  BY DEF Holds, Tidy

\* Lines are only written by their call to its worker, or handed on, or lost; a
\* process is born once and dies once.
LEMMA StepLines ==
  ASSUME TypeOK, Known, OnePlace, [Next]_vars
  PROVE  /\ proc' \in ProcType
         /\ \A w \in Workers : Tidy(w)'
         /\ \A w \in Workers : \A d \in Holds(w)' :
              d \in Holds(w) \/ (d \in Calls /\ Write(d) /\ Alive(mine[d]) /\ mine[d] = w)
         /\ \A w \in Workers :
              \/ proc'[w].life = proc[w].life
              \/ proc[w].life = "alive" /\ proc'[w].life = "dead"
              \/ /\ proc[w].life = "unborn" /\ proc'[w].life = "alive"
                 /\ \E c \in Calls : Spawn(c) /\ mine'[c] = w
<1> DEFINE Good ==
             /\ proc' \in ProcType
             /\ \A w \in Workers : Tidy(w)'
             /\ \A w \in Workers : \A d \in Holds(w)' :
                  d \in Holds(w) \/ (d \in Calls /\ Write(d) /\ Alive(mine[d]) /\ mine[d] = w)
             /\ \A w \in Workers :
                  \/ proc'[w].life = proc[w].life
                  \/ proc[w].life = "alive" /\ proc'[w].life = "dead"
                  \/ /\ proc[w].life = "unborn" /\ proc'[w].life = "alive"
                     /\ \E c \in Calls : Spawn(c) /\ mine'[c] = w
<1>a. \A w \in Workers : Tidy(w)
  BY DEF OnePlace
<1>1. ASSUME proc' = proc PROVE Good
  <2>1. proc \in ProcType
    BY DEF TypeOK, ProcType, ProcRec
  <2> QED
    BY <1>1, <1>a, <2>1, SameLines
<1>2. ASSUME NEW W, proc' = Ended(W) PROVE Good
  <2>1. /\ proc' \in ProcType
        /\ \A w \in Workers :
             /\ proc'[w].life = IF w \in W /\ Alive(w) THEN "dead" ELSE proc[w].life
             /\ Holds(w)' \subseteq Holds(w)
             /\ Tidy(w) => Tidy(w)'
    BY <1>2, EndedLines
  <2>2. \A w \in Workers : Alive(w) => proc[w].life = "alive"
    BY DEF Alive
  <2>3. ASSUME NEW w \in Workers
        PROVE  \/ proc'[w].life = proc[w].life
               \/ proc[w].life = "alive" /\ proc'[w].life = "dead"
    <3>1. proc'[w].life = IF w \in W /\ Alive(w) THEN "dead" ELSE proc[w].life
      BY <2>1
    <3> QED
      BY <2>2, <3>1
  <2> QED
    BY <1>a, <2>1, <2>3
<1>3. ASSUME NEW c \in Calls, Arrive(c) PROVE Good
  BY <1>1, <1>3 DEF Arrive
<1>4. ASSUME NEW c \in Calls, Found(c) \/ SpawnFails(c) \/ Refresh(c) \/ Select(c) \/
                              EndOfFile(c) \/ Evict(c)
      PROVE  Good
  BY <1>1, <1>4 DEF Found, SpawnFails, Refresh, Select, EndOfFile, Evict
<1>5. ASSUME NEW c \in Calls, Spawn(c) PROVE Good
  <2>1. PICK v \in Workers :
           /\ proc[v].life = "unborn" /\ mine' = [mine EXCEPT ![c] = v]
           /\ proc' \in ProcType
           /\ \A w \in Workers :
                /\ proc'[w].life = IF w = v THEN "alive" ELSE proc[w].life
                /\ Holds(w)' = Holds(w)
                /\ Tidy(w) => Tidy(w)'
    BY <1>5, SpawnLines
  <2>2. mine'[c] = v
    BY <2>1 DEF TypeOK
  <2> QED
    BY <1>5, <1>a, <2>1, <2>2
<1>6. ASSUME NEW c \in Calls, Install(c) PROVE Good
  <2>1. CASE proc' = Ended({mine[c]})
    BY <2>1, <1>2
  <2>2. CASE proc' = proc
    BY <2>2, <1>1
  <2> QED
    BY <1>6, <2>1, <2>2 DEF Install
<1>7. ASSUME NEW c \in Calls, Write(c) PROVE Good
  <2>1. CASE Alive(mine[c])
    <3>1. proc' = [proc EXCEPT ![mine[c]].stdin = Append(@, c)] /\ pc[c] = "write"
      BY <1>7, <2>1 DEF Write
    <3>2. mine[c] \in Workers
      BY <3>1, UsesProcess DEF Active
    <3>3. /\ proc' \in ProcType
          /\ \A w \in Workers :
               /\ proc'[w].life = proc[w].life
               /\ Holds(w)' = Holds(w) \cup (IF w = mine[c] THEN {c} ELSE {})
               /\ Tidy(w) /\ c \notin Holds(w) => Tidy(w)'
      BY <3>1, <3>2, WriteLines
    <3>4. \A w \in Workers : c \notin Holds(w)
      BY <3>1 DEF OnePlace, Untouched
    <3> QED
      BY <1>7, <2>1, <1>a, <3>3, <3>4
  <2>2. CASE ~Alive(mine[c])
    BY <1>7, <1>1, <2>2 DEF Write
  <2> QED
    BY <2>1, <2>2
<1>8. ASSUME NEW c \in Calls, ReadLine(c) PROVE Good
  <2>1. mine[c] \in Workers
    BY <1>8, UsesProcess DEF Active, ReadLine
  <2>2. /\ proc' \in ProcType
        /\ \A w \in Workers :
             /\ proc'[w].life = proc[w].life
             /\ Tidy(w) => Tidy(w)'
             /\ Tidy(w) => Holds(w)' = Holds(w) \ (IF w = mine[c] THEN {got'[c]} ELSE {})
    BY <1>8, <2>1, ReadLines
  <2> QED
    BY <1>a, <2>2
<1>9. ASSUME NEW c \in Calls, Kill(c) PROVE Good
  BY <1>2, <1>9 DEF Kill
<1>10. ASSUME NEW t \in Tools, Reap(t) PROVE Good
  BY <1>2, <1>10 DEF Reap
<1>11. ASSUME NEW v \in Workers, WorkerAnswers(v) PROVE Good
  <2>1. /\ proc' \in ProcType
        /\ \A w \in Workers :
             /\ proc'[w].life = proc[w].life
             /\ Tidy(w) => Holds(w)' = Holds(w) /\ Tidy(w)'
    BY <1>11, AnswerLines
  <2> QED
    BY <1>a, <2>1
<1>12. ASSUME NEW v \in Workers, WorkerCrashes(v) PROVE Good
  BY <1>2, <1>12 DEF WorkerCrashes
<1>13. ASSUME Shutdown PROVE Good
  BY <1>2, <1>13 DEF Shutdown
<1>14. ASSUME UNCHANGED vars PROVE Good
  BY <1>1, <1>14 DEF vars
<1> HIDE DEF Good
<1>15. Good
  BY <1>3, <1>4, <1>5, <1>6, <1>7, <1>8, <1>9, <1>10, <1>11, <1>12, <1>13, <1>14
     DEF Next, CallStep
<1> QED
  BY <1>15 DEF Good

\* A call returns a line that its worker held and that is nowhere afterwards.
LEMMA StepAnswers ==
  ASSUME TypeOK, Known, OnePlace, [Next]_vars, NEW c \in Calls
  PROVE  \/ got'[c] = got[c]
         \/ /\ ReadLine(c) /\ got'[c] \in Holds(mine[c]) /\ mine[c] \in Workers
            /\ \A w \in Workers : got'[c] \notin Holds(w)'
<1>1. ASSUME ReadLine(c)
      PROVE  /\ got'[c] \in Holds(mine[c]) /\ mine[c] \in Workers
             /\ \A w \in Workers : got'[c] \notin Holds(w)'
  <2>1. mine[c] \in Workers
    BY <1>1, UsesProcess DEF Active, ReadLine
  <2>2. /\ got'[c] \in Holds(mine[c])
        /\ \A w \in Workers :
             Tidy(w) => Holds(w)' = Holds(w) \ (IF w = mine[c] THEN {got'[c]} ELSE {})
    BY <1>1, <2>1, ReadLines
  <2> QED
    BY <2>1, <2>2 DEF OnePlace
<1>2. ASSUME NEW d \in Calls, d # c, ReadLine(d) PROVE got'[c] = got[c]
  BY <1>2 DEF ReadLine, TypeOK
<1> QED
  BY <1>1, <1>2 DEF Next, CallStep, vars, Arrive, Found, Spawn, SpawnFails, Install, Refresh,
     Write, Select, EndOfFile, Evict, Kill, Reap, WorkerAnswers, WorkerCrashes, Shutdown

\* The pool and the calls learn of a worker from each other, or by spawning it.
LEMMA StepRefers ==
  ASSUME TypeOK, [Next]_vars
  PROVE  /\ tool' = tool
         /\ \A t \in Tools :
              \/ workers'[t] \in {workers[t], NoWorker}
              \/ \E c \in Calls : Install(c) /\ tool[c] = t /\ workers'[t] = mine[c]
         /\ \A c \in Calls :
              \/ mine'[c] \in {mine[c], NoWorker, workers[tool[c]]}
              \/ Spawn(c)
<1>1. ASSUME NEW c \in Calls, Install(c)
      PROVE  /\ \A t \in Tools : \/ workers'[t] \in {workers[t], NoWorker}
                                 \/ tool[c] = t /\ workers'[t] = mine[c]
             /\ \A d \in Calls : mine'[d] \in {mine[d], NoWorker, workers[tool[d]]}
  BY <1>1 DEF Install, TypeOK
<1>2. ASSUME NEW c \in Calls, Spawn(c)
      PROVE  /\ \A d \in Calls : d # c => mine'[d] = mine[d]
             /\ workers' = workers
  BY <1>2 DEF Spawn, TypeOK
<1>3. ASSUME NEW c \in Calls, Arrive(c) \/ Found(c) \/ SpawnFails(c) \/ Refresh(c) \/ Write(c)
                              \/ Select(c) \/ ReadLine(c) \/ EndOfFile(c) \/ Evict(c) \/ Kill(c)
      PROVE  /\ \A t \in Tools : workers'[t] \in {workers[t], NoWorker}
             /\ \A d \in Calls : mine'[d] \in {mine[d], NoWorker, workers[tool[d]]}
  BY <1>3 DEF Arrive, Found, SpawnFails, Refresh, Write, Select, ReadLine, EndOfFile, Evict,
     Kill, Leave, TypeOK
<1>4. ASSUME \/ \E t \in Tools : Reap(t)
             \/ \E w \in Workers : WorkerAnswers(w) \/ WorkerCrashes(w)
             \/ Shutdown
             \/ UNCHANGED vars
      PROVE  /\ \A t \in Tools : workers'[t] \in {workers[t], NoWorker}
             /\ \A d \in Calls : mine'[d] \in {mine[d], NoWorker, workers[tool[d]]}
  BY <1>4 DEF Reap, WorkerAnswers, WorkerCrashes, Shutdown, vars, TypeOK
<1>5. tool' = tool
  BY DEF Next, CallStep, vars, Arrive, Found, Spawn, SpawnFails, Install, Refresh, Write,
     Select, ReadLine, EndOfFile, Evict, Kill, Reap, WorkerAnswers, WorkerCrashes, Shutdown
<1> QED
  BY <1>1, <1>2, <1>3, <1>4, <1>5 DEF Next, CallStep

\* A call that has written its request has left Untouched for good.
LEMMA StepAsks ==
  ASSUME TypeOK, [Next]_vars, NEW d \in Calls, pc'[d] \in Untouched
  PROVE  pc[d] \in Untouched /\ ~Write(d)
<1>1. ASSUME NEW c \in Calls, Arrive(c) \/ CallStep(c), c # d PROVE pc'[d] = pc[d]
  BY <1>1 DEF CallStep, Arrive, Found, Spawn, SpawnFails, Install, Refresh, Write, Select,
     ReadLine, EndOfFile, Evict, Kill, Leave, Go, TypeOK
<1>2. ASSUME Arrive(d) \/ CallStep(d) PROVE pc[d] \in Untouched /\ ~Write(d)
  BY <1>2 DEF CallStep, Arrive, Found, Spawn, SpawnFails, Install, Refresh, Write, Select,
     ReadLine, EndOfFile, Evict, Kill, Leave, Go, TypeOK, Untouched
<1>3. Write(d) => CallStep(d)
  BY DEF CallStep
<1>4. ASSUME \/ \E t \in Tools : Reap(t)
             \/ \E w \in Workers : WorkerAnswers(w) \/ WorkerCrashes(w)
             \/ Shutdown
             \/ UNCHANGED vars
      PROVE  pc'[d] = pc[d]
  BY <1>4 DEF Reap, WorkerAnswers, WorkerCrashes, Shutdown, vars
<1> QED
  BY <1>1, <1>2, <1>3, <1>4 DEF Next
-----------------------------------------------------------------------------
(***************************************************************************)
(* The parts of the invariant are preserved                                *)
(***************************************************************************)

LEMMA TypeNext ==
  ASSUME PoolInv, [Next]_vars
  PROVE  TypeOK'
<1> USE DEF PoolInv
<1>1. proc' \in ProcType
  BY StepLines
<1>2. \A c \in Calls : got'[c] = got[c] \/ got'[c] \in Calls
  <2>1. \A w \in Workers : Holds(w) \subseteq Calls
    BY ProcFields
  <2> QED
    BY <2>1, StepAnswers
<1>3. ASSUME NEW c \in Calls, Arrive(c) \/ CallStep(c)
      PROVE  /\ workers' \in [Tools -> Workers \cup {NoWorker}]
             /\ pc' \in [Calls -> Active \cup {"new", "returned", "raised"}]
             /\ mine' \in [Calls -> Workers \cup {NoWorker}]
             /\ got' = [d \in Calls |-> got'[d]]
             /\ down' \in BOOLEAN /\ solo' \in BOOLEAN /\ tool' = tool
  <2>1. CASE Spawn(c)
    <3>1. PICK v \in Workers : mine' = [mine EXCEPT ![c] = v]
      BY <2>1, SpawnLines
    <3> QED
      BY <2>1, <3>1 DEF Spawn, Go, TypeOK, Active
  <2>2. CASE Install(c)
    BY <2>2 DEF Install, Go, TypeOK, Active
  <2>3. CASE ReadLine(c)
    BY <2>3 DEF ReadLine, Leave, Go, TypeOK, Active
  <2>4. CASE Evict(c) \/ Kill(c) \/ SpawnFails(c)
    BY <2>4 DEF Evict, Kill, SpawnFails, Leave, Go, TypeOK, Active
  <2>5. CASE Arrive(c) \/ Found(c) \/ Refresh(c) \/ Write(c) \/ Select(c) \/ EndOfFile(c)
    BY <2>5 DEF Arrive, Found, Refresh, Write, Select, EndOfFile, Go, TypeOK, Active
  <2> QED
    BY <1>3, <2>1, <2>2, <2>3, <2>4, <2>5 DEF CallStep
<1>4. ASSUME \/ \E t \in Tools : Reap(t)
             \/ \E w \in Workers : WorkerAnswers(w) \/ WorkerCrashes(w)
             \/ Shutdown
             \/ UNCHANGED vars
      PROVE  /\ workers' \in [Tools -> Workers \cup {NoWorker}]
             /\ pc' = pc /\ mine' = mine /\ got' = got /\ tool' = tool
             /\ down' \in BOOLEAN /\ solo' \in BOOLEAN
  BY <1>4 DEF Reap, WorkerAnswers, WorkerCrashes, Shutdown, vars, TypeOK
<1>5. /\ workers' \in [Tools -> Workers \cup {NoWorker}]
      /\ pc' \in [Calls -> Active \cup {"new", "returned", "raised"}]
      /\ mine' \in [Calls -> Workers \cup {NoWorker}]
      /\ got' \in [Calls -> Calls \cup {NoCall}]
      /\ down' \in BOOLEAN /\ solo' \in BOOLEAN /\ tool' \in [Calls -> Tools]
  <2>1. CASE \E c \in Calls : Arrive(c) \/ CallStep(c)
    <3>1. got' = [d \in Calls |-> got'[d]]
      BY <2>1, <1>3
    <3>2. got' \in [Calls -> Calls \cup {NoCall}]
      BY <3>1, <1>2 DEF TypeOK
    <3> QED
      BY <2>1, <3>2, <1>3 DEF TypeOK
  <2>2. CASE \/ \E t \in Tools : Reap(t)
             \/ \E w \in Workers : WorkerAnswers(w) \/ WorkerCrashes(w)
             \/ Shutdown
             \/ UNCHANGED vars
    BY <2>2, <1>4 DEF TypeOK
  <2> QED
    BY <2>1, <2>2 DEF Next
<1> QED
  BY <1>1, <1>5 DEF TypeOK, ProcType, ProcRec

LEMMA OnePlaceNext ==
  ASSUME PoolInv, [Next]_vars
  PROVE  OnePlace'
<1> USE DEF PoolInv
<1>1. \A w \in Workers : Tidy(w)'
  BY StepLines
<1>2. ASSUME NEW w \in Workers, NEW d \in Holds(w)'
      PROVE  \/ d \in Holds(w)
             \/ /\ d \in Calls /\ mine[d] = w /\ pc[d] \in Untouched
                /\ \A v \in Workers : d \notin Holds(v)
                /\ \A c \in Calls : got[c] # d
  <2>1. ASSUME d \in Calls, Write(d) PROVE pc[d] \in Untouched
    BY <2>1 DEF Write, Untouched
  <2> QED
    BY <2>1, StepLines DEF OnePlace
<1>3. ASSUME NEW c \in Calls
      PROVE  \/ got'[c] = got[c]
             \/ /\ ReadLine(c) /\ got'[c] \in Holds(mine[c]) /\ mine[c] \in Workers
                /\ \A w \in Workers : got'[c] \notin Holds(w)'
  BY StepAnswers
<1>4. ASSUME NEW v \in Workers, NEW w \in Workers, v # w
      PROVE  Holds(v)' \cap Holds(w)' = {}
  BY <1>2, <1>4 DEF OnePlace
<1>5. ASSUME NEW c \in Calls, NEW w \in Workers
      PROVE  got'[c] \notin Holds(w)'
  BY <1>2, <1>3 DEF OnePlace
<1>6. ASSUME NEW c \in Calls, NEW d \in Calls, got'[c] # NoCall, got'[c] = got'[d]
      PROVE  c = d
  <2>1. ReadLine(c) /\ ReadLine(d) => c = d
    BY DEF ReadLine, Leave, Go, TypeOK
  <2> QED
    BY <1>3, <1>6, <2>1 DEF OnePlace
<1>7. ASSUME NEW d \in Calls, pc'[d] \in Untouched
      PROVE  /\ \A w \in Workers : d \notin Holds(w)'
             /\ \A c \in Calls : got'[c] # d
  <2>1. pc[d] \in Untouched /\ ~Write(d)
    BY <1>7, StepAsks
  <2>2. /\ \A w \in Workers : d \notin Holds(w)
        /\ \A c \in Calls : got[c] # d
    BY <2>1 DEF OnePlace
  <2> QED
    BY <1>3, <2>1, <2>2, StepLines
<1> QED
  BY <1>1, <1>4, <1>5, <1>6, <1>7 DEF OnePlace

LEMMA OneToolNext ==
  ASSUME PoolInv, [Next]_vars
  PROVE  OneTool'
<1> USE DEF PoolInv
<1>0. PICK f \in [Workers -> Tools \cup {NoWorker}] : Runs(f)
  BY DEF OneTool
<1>1. /\ tool' = tool /\ tool \in [Calls -> Tools]
      /\ \A t \in Tools :
           \/ workers'[t] \in {workers[t], NoWorker}
           \/ \E c \in Calls : Install(c) /\ tool[c] = t /\ workers'[t] = mine[c]
      /\ \A c \in Calls : mine'[c] \in {mine[c], NoWorker, workers[tool[c]]} \/ Spawn(c)
  BY StepRefers DEF TypeOK
<1>2. \A w \in Workers : \A d \in Holds(w)' : d \in Holds(w) \/ (d \in Calls /\ mine[d] = w)
  BY StepLines
<1>3. \A w \in Workers : \A d \in Holds(w)' : f[w] = tool[d]
  BY <1>0, <1>2, NoneApart DEF Runs
<1>4. \A t \in Tools : workers'[t] # NoWorker => f[workers'[t]] = t
  BY <1>0, <1>1 DEF Runs
<1>5. \E g \in [Workers -> Tools \cup {NoWorker}] : Runs(g)'
  <2>1. CASE \A c \in Calls : ~Spawn(c)
    <3>1. \A c \in Calls : mine'[c] # NoWorker => f[mine'[c]] = tool[c]
      BY <1>0, <1>1, <2>1 DEF Runs
    <3> QED
      BY <1>0, <1>1, <1>3, <1>4, <3>1 DEF Runs
  <2>2. ASSUME NEW c \in Calls, Spawn(c)
        PROVE  \E g \in [Workers -> Tools \cup {NoWorker}] : Runs(g)'
    <3>1. PICK v \in Workers : /\ proc[v].life = "unborn" /\ mine' = [mine EXCEPT ![c] = v]
                               /\ \A w \in Workers : Holds(w)' = Holds(w)
      BY <2>2, SpawnLines
    <3>2. Holds(v) = {} /\ v \notin Pooled /\ \A d \in Calls : mine[d] # v
      BY <3>1 DEF Known
    <3>3. workers' = workers
      BY <2>2 DEF Spawn
    <3> DEFINE g == [f EXCEPT ![v] = tool[c]]
    <3>4. /\ g \in [Workers -> Tools \cup {NoWorker}]
          /\ g[v] = tool[c] /\ \A w \in Workers : w # v => g[w] = f[w]
      BY <1>0, <1>1
    <3> HIDE DEF g
    <3>5. \A t \in Tools : workers'[t] # NoWorker => g[workers'[t]] = t
      BY <1>4, <3>2, <3>3, <3>4 DEF Pooled, TypeOK
    <3>6. \A d \in Calls : mine'[d] # NoWorker => g[mine'[d]] = tool'[d]
      BY <1>0, <1>1, <3>1, <3>2, <3>4 DEF Runs, TypeOK
    <3>7. \A w \in Workers : \A d \in Holds(w)' : g[w] = tool'[d]
      BY <1>1, <1>3, <3>1, <3>2, <3>4
    <3> QED
      BY <3>4, <3>5, <3>6, <3>7 DEF Runs
  <2> QED
    BY <2>1, <2>2
<1>6. ASSUME NEW c \in Calls, got'[c] # NoCall PROVE tool[got'[c]] = tool[c]
  <2>1. CASE got'[c] = got[c]
    BY <1>6, <2>1 DEF OneTool
  <2>2. CASE /\ ReadLine(c) /\ got'[c] \in Holds(mine[c]) /\ mine[c] \in Workers
    BY <1>0, <2>2, NoneApart DEF Runs
  <2> QED
    BY <2>1, <2>2, StepAnswers
<1> QED
  BY <1>1, <1>5, <1>6 DEF OneTool
-----------------------------------------------------------------------------
(***************************************************************************)
(* What a step does to one call, and to one place of the pool              *)
(***************************************************************************)

LEMMA StepCall ==
  ASSUME TypeOK, [Next]_vars, NEW c \in Calls
  PROVE  /\ pc'[c] \in Active => pc[c] \in Active \/ Arrive(c)
         /\ mine'[c] # mine[c] =>
              \/ Found(c) \/ Spawn(c) \/ SpawnFails(c) \/ Install(c)
              \/ ReadLine(c) \/ Evict(c) \/ Kill(c)
         /\ pc'[c] # pc[c] => Arrive(c) \/ CallStep(c)
<1>1. ASSUME NEW d \in Calls, Arrive(d) \/ CallStep(d), d # c
      PROVE  pc'[c] = pc[c] /\ mine'[c] = mine[c]
  <2>1. CASE Arrive(d) \/ Found(d) \/ Refresh(d) \/ Write(d) \/ Select(d) \/ EndOfFile(d)
    BY <1>1, <2>1 DEF Arrive, Found, Refresh, Write, Select, EndOfFile, Go, TypeOK
  <2>2. CASE Spawn(d)
    BY <1>1, <2>2 DEF Spawn, Go, TypeOK
  <2>3. CASE SpawnFails(d) \/ ReadLine(d) \/ Evict(d) \/ Kill(d)
    BY <1>1, <2>3 DEF SpawnFails, ReadLine, Evict, Kill, Leave, Go, TypeOK
  <2>4. CASE Install(d)
    BY <1>1, <2>4 DEF Install, Go, TypeOK
  <2> QED
    BY <1>1, <2>1, <2>2, <2>3, <2>4 DEF CallStep
<1>2. ASSUME \/ \E t \in Tools : Reap(t)
             \/ \E w \in Workers : WorkerAnswers(w) \/ WorkerCrashes(w)
             \/ Shutdown
             \/ UNCHANGED vars
      PROVE  pc'[c] = pc[c] /\ mine'[c] = mine[c]
  BY <1>2 DEF Reap, WorkerAnswers, WorkerCrashes, Shutdown, vars
<1>3. Refresh(c) \/ Write(c) \/ Select(c) \/ EndOfFile(c) \/ Arrive(c) => mine' = mine
  BY DEF Refresh, Write, Select, EndOfFile, Arrive
<1>4. CallStep(c) => pc[c] \in Active
  BY DEF CallStep, Found, Spawn, SpawnFails, Install, Refresh, Write, Select, ReadLine,
     EndOfFile, Evict, Kill, Active
<1>5. CASE Arrive(c) \/ CallStep(c)
  BY <1>3, <1>4, <1>5 DEF CallStep
<1>6. CASE ~(Arrive(c) \/ CallStep(c))
  <2>1. pc'[c] = pc[c] /\ mine'[c] = mine[c]
    BY <1>1, <1>2, <1>6 DEF Next
  <2> QED
    BY <2>1
<1> QED
  BY <1>5, <1>6

\* A call that is past the installation of its worker.
Settled == Active \ {"lookup", "install"}

LEMMA StepSettles ==
  ASSUME TypeOK, [Next]_vars, NEW c \in Calls, pc'[c] \in Settled
  PROVE  Found(c) \/ Install(c) \/ (pc[c] \in Settled /\ mine'[c] = mine[c])
<1>1. ASSUME Arrive(c) \/ Spawn(c) PROVE FALSE
  BY <1>1 DEF Arrive, Spawn, Go, Settled, TypeOK
<1>2. ASSUME SpawnFails(c) \/ ReadLine(c) \/ Evict(c) \/ Kill(c) PROVE FALSE
  BY <1>2 DEF SpawnFails, ReadLine, Evict, Kill, Leave, Go, Settled, Active, TypeOK
<1>3. Refresh(c) \/ Write(c) \/ Select(c) \/ EndOfFile(c) => pc[c] \in Settled
  BY DEF Refresh, Write, Select, EndOfFile, Settled, Active
<1> QED
  BY <1>1, <1>2, <1>3, StepCall DEF CallStep

LEMMA StepEvicts ==
  ASSUME TypeOK, [Next]_vars, NEW c \in Calls, pc'[c] = "evict"
  PROVE  /\ mine'[c] = mine[c]
         /\ pc[c] = "evict" \/ (~Alive(mine[c]) /\ proc' = proc)
<1>1. ASSUME pc'[c] # pc[c] PROVE ~Alive(mine[c]) /\ proc' = proc
  <2>1. CASE Arrive(c) \/ Found(c) \/ Spawn(c) \/ Install(c) \/ Refresh(c) \/ Select(c)
    BY <2>1 DEF Arrive, Found, Spawn, Install, Refresh, Select, Go, TypeOK
  <2>2. CASE SpawnFails(c) \/ ReadLine(c) \/ Evict(c) \/ Kill(c)
    BY <2>2 DEF SpawnFails, ReadLine, Evict, Kill, Leave, Go, TypeOK
  <2>3. CASE Write(c) \/ EndOfFile(c)
    BY <2>3 DEF Write, EndOfFile, Go, TypeOK
  <2> QED
    BY <1>1, <2>1, <2>2, <2>3, StepCall DEF CallStep
<1>2. pc'[c] \in Settled
  BY DEF Settled, Active
<1>3. ASSUME Found(c) \/ Install(c) PROVE FALSE
  BY <1>3 DEF Found, Install, Go, TypeOK
<1> QED
  BY <1>1, <1>2, <1>3, StepSettles

LEMMA StepPool ==
  ASSUME TypeOK, [Next]_vars, NEW t \in Tools, workers'[t] # workers[t]
  PROVE  \/ \E c \in Calls : /\ tool[c] = t
                             /\ Evict(c) \/ Kill(c) \/ (Install(c) /\ ~Alive(workers[t]))
         \/ Reap(t)
         \/ Shutdown
<1>1. ASSUME NEW c \in Calls, Arrive(c) \/ CallStep(c)
      PROVE  tool[c] = t /\ (Evict(c) \/ Kill(c) \/ (Install(c) /\ ~Alive(workers[t])))
  <2>1. CASE Evict(c) \/ Kill(c)
    BY <2>1 DEF Evict, Kill, TypeOK
  <2>2. CASE Install(c)
    BY <2>2 DEF Install, TypeOK
  <2>3. CASE Arrive(c) \/ Found(c) \/ Spawn(c) \/ SpawnFails(c) \/ Refresh(c) \/ Write(c)
             \/ Select(c) \/ ReadLine(c) \/ EndOfFile(c)
    BY <2>3 DEF Arrive, Found, Spawn, SpawnFails, Refresh, Write, Select, ReadLine, EndOfFile
  <2> QED
    BY <1>1, <2>1, <2>2, <2>3 DEF CallStep
<1>2. ASSUME NEW u \in Tools, Reap(u) PROVE u = t
  BY <1>2 DEF Reap, TypeOK
<1>3. ~ \E w \in Workers : WorkerAnswers(w) \/ WorkerCrashes(w)
  BY DEF WorkerAnswers, WorkerCrashes
<1>4. ~ UNCHANGED vars
  BY DEF vars
<1> QED
  BY <1>1, <1>2, <1>3, <1>4 DEF Next

\* A call that starts beside another to its tool ends the calm for good.
LEMMA StepSolo ==
  ASSUME TypeOK, [Next]_vars
  PROVE  /\ solo' => solo
         /\ \A c \in Calls : Arrive(c) /\ solo' =>
              \A d \in Calls : pc[d] \in Active => tool[d] # tool[c]
<1>1. ASSUME NEW c \in Calls, Arrive(c), solo'
      PROVE  solo /\ \A d \in Calls : pc[d] \in Active => tool[d] # tool[c]
  BY <1>1, Zenon DEF Arrive
<1>2. (\A c \in Calls : ~Arrive(c)) => solo' = solo
  BY DEF Next, CallStep, vars, Found, Spawn, SpawnFails, Install, Refresh, Write, Select,
     ReadLine, EndOfFile, Evict, Kill, Reap, WorkerAnswers, WorkerCrashes, Shutdown
<1> QED
  BY <1>1, <1>2
-----------------------------------------------------------------------------
LEMMA KnownNext ==
  ASSUME PoolInv, [Next]_vars
  PROVE  Known'
<1> USE DEF PoolInv
<1>1. ASSUME NEW w \in Workers, proc'[w].life = "unborn"
      PROVE  Holds(w)' = {} /\ w \notin Pooled' /\ \A c \in Calls : mine'[c] # w
  <2>1. proc[w].life = "unborn"
    BY <1>1, StepLines
  <2>2. Holds(w) = {} /\ w \notin Pooled /\ \A c \in Calls : mine[c] # w
    BY <2>1 DEF Known
  <2>3. Holds(w)' = {}
    BY <2>2, StepLines
  <2>4. \A t \in Tools : workers'[t] # w
    BY <2>2, StepRefers, NoneApart DEF Pooled
  <2>5. ASSUME NEW c \in Calls PROVE mine'[c] # w
    <3>1. CASE Spawn(c)
      <4>1. PICK v \in Workers : /\ mine' = [mine EXCEPT ![c] = v]
                                 /\ proc'[v].life = "alive"
        BY <3>1, SpawnLines
      <4> QED
        BY <1>1, <4>1 DEF TypeOK
    <3>2. CASE mine'[c] \in {mine[c], NoWorker, workers[tool[c]]}
      <4>1. workers[tool[c]] # w
        BY <2>2, NoneApart DEF Pooled, TypeOK
      <4> QED
        BY <2>2, <3>2, <4>1, NoneApart
    <3> QED
      BY <3>1, <3>2, StepRefers
  <2> QED
    BY <2>3, <2>4, <2>5 DEF Pooled
<1>2. ASSUME NEW c \in Calls PROVE mine'[c] # NoWorker <=> pc'[c] \in Active \ {"lookup"}
  <2>0. mine[c] # NoWorker <=> pc[c] \in Active \ {"lookup"}
    BY DEF Known
  <2>1. CASE Arrive(c) \/ Refresh(c) \/ Write(c) \/ Select(c) \/ EndOfFile(c)
    BY <2>0, <2>1 DEF Arrive, Refresh, Write, Select, EndOfFile, Go, TypeOK, Active
  <2>2. CASE Found(c)
    BY <2>2 DEF Found, Go, TypeOK, Active, Alive
  <2>3. CASE Spawn(c)
    <3>1. PICK v \in Workers : mine' = [mine EXCEPT ![c] = v]
      BY <2>3, SpawnLines
    <3>2. mine'[c] = v /\ pc'[c] = "install"
      BY <2>3, <3>1 DEF Spawn, Go, TypeOK
    <3> QED
      BY <3>2, NoneApart DEF Active
  <2>4. CASE SpawnFails(c) \/ ReadLine(c) \/ Evict(c) \/ Kill(c)
    BY <2>4 DEF SpawnFails, ReadLine, Evict, Kill, Leave, Go, TypeOK, Active
  <2>5. CASE Install(c)
    BY <2>0, <2>5 DEF Install, Go, TypeOK, Active, Alive
  <2>6. CASE ~(Arrive(c) \/ CallStep(c))
    <3>1. pc'[c] = pc[c] /\ mine'[c] = mine[c]
      BY <2>6, StepCall DEF CallStep
    <3> QED
      BY <2>0, <3>1
  <2> QED
    BY <2>1, <2>2, <2>3, <2>4, <2>5, <2>6 DEF CallStep
<1>3. ASSUME NEW c \in Calls, pc'[c] = "evict" PROVE ~Alive(mine[c])'
  <2>1. mine'[c] = mine[c] /\ (pc[c] = "evict" \/ (~Alive(mine[c]) /\ proc' = proc))
    BY <1>3, StepEvicts
  <2>2. CASE ~Alive(mine[c]) /\ proc' = proc
    BY <2>1, <2>2 DEF Alive
  <2>3. CASE pc[c] = "evict"
    <3>1. mine[c] \in Workers
      BY <2>3, UsesProcess DEF Active
    <3>2. proc[mine[c]].life # "alive" /\ proc[mine[c]].life # "unborn"
      BY <2>3, <3>1, NoneApart DEF Known, Alive
    <3>3. proc'[mine[c]].life # "alive"
      BY <3>1, <3>2, StepLines
    <3> QED
      BY <2>1, <3>3 DEF Alive
  <2> QED
    BY <2>1, <2>2, <2>3
<1> QED
  BY <1>1, <1>2, <1>3 DEF Known

LEMMA AloneNext ==
  ASSUME PoolInv, [Next]_vars
  PROVE  Alone'
<1> USE DEF PoolInv
<1> SUFFICES ASSUME solo'
             PROVE  /\ \A c, d \in Calls :
                         pc'[c] \in Active /\ pc'[d] \in Active /\ tool'[c] = tool'[d] => c = d
                    /\ \A c \in Calls, w \in Workers : mine'[c] = w => Holds(w)' \subseteq {c}
                    /\ \A w \in Workers : w \in Pooled' => \A d \in Holds(w)' : mine'[d] = w
                    /\ \A c \in Calls : pc'[c] \in Active \ {"lookup", "install"} =>
                         workers'[tool'[c]] \in {mine'[c], NoWorker}
  BY DEF Alone
<1>0. /\ solo /\ tool' = tool
      /\ \A c \in Calls : Arrive(c) =>
           \A d \in Calls : pc[d] \in Active => tool[d] # tool[c]
  BY StepSolo, StepRefers
<1>1. PICK f \in [Workers -> Tools \cup {NoWorker}] : Runs(f)
  BY DEF OneTool
<1>2. \A c, d \in Calls : pc[c] \in Active /\ pc[d] \in Active /\ tool[c] = tool[d] => c = d
  BY <1>0 DEF Alone
<1>3. \A c \in Calls, w \in Workers : mine[c] = w => Holds(w) \subseteq {c}
  BY <1>0 DEF Alone
<1>4. \A w \in Workers : w \in Pooled => \A d \in Holds(w) : mine[d] = w
  BY <1>0 DEF Alone
<1>5. \A c \in Calls : pc[c] \in Settled => workers[tool[c]] \in {mine[c], NoWorker}
  BY <1>0 DEF Alone, Settled
<1>6. \A w \in Workers : \A d \in Holds(w)' :
        d \in Holds(w) \/ (d \in Calls /\ Write(d) /\ mine[d] = w)
  BY StepLines
<1>7. \A w \in Workers : Holds(w) \subseteq Calls
  BY ProcFields
\* Two calls on one worker are one.
<1>8. ASSUME NEW c \in Calls, NEW d \in Calls, mine[c] # NoWorker, mine[c] = mine[d]
      PROVE  c = d
  <2>1. pc[c] \in Active /\ pc[d] \in Active
    BY <1>8 DEF Known
  <2>2. tool[c] = tool[d]
    BY <1>1, <1>8 DEF Runs
  <2> QED
    BY <1>2, <2>1, <2>2
<1>9. ASSUME NEW c \in Calls, NEW d \in Calls, pc'[c] \in Active, pc'[d] \in Active,
             tool'[c] = tool'[d]
      PROVE  c = d
  <2>1. ASSUME Arrive(c), Arrive(d) PROVE c = d
    BY <2>1 DEF Arrive
  <2>2. (pc[c] \in Active \/ Arrive(c)) /\ (pc[d] \in Active \/ Arrive(d))
    BY <1>9, StepCall
  <2> QED
    BY <1>0, <1>2, <1>9, <2>1, <2>2
<1>10. ASSUME NEW c \in Calls, NEW w \in Workers, mine'[c] = w, NEW d \in Holds(w)'
       PROVE  d = c
  <2>1. CASE d \in Calls /\ Write(d) /\ mine[d] = w
    <3>1. mine[c] = w
      BY <1>10, <2>1 DEF Write
    <3> QED
      BY <1>8, <2>1, <3>1, NoneApart
  <2>2. CASE d \in Holds(w) /\ mine[c] = w
    BY <1>3, <2>2
  <2>3. CASE d \in Holds(w) /\ Spawn(c)
    <3>1. PICK v \in Workers : proc[v].life = "unborn" /\ mine' = [mine EXCEPT ![c] = v]
      BY <2>3, SpawnLines
    <3>2. v = w
      BY <1>10, <3>1 DEF TypeOK
    <3> QED
      BY <2>3, <3>1, <3>2 DEF Known
  <2>4. CASE d \in Holds(w) /\ mine[c] # w /\ workers[tool[c]] = w
    <3>1. w \in Pooled
      BY <2>4, NoneApart DEF Pooled, TypeOK
    <3>2. mine[d] = w /\ d \in Calls
      BY <1>4, <1>7, <2>4, <3>1
    <3>3. pc[d] \in Active
      BY <3>2, NoneApart DEF Known
    <3>4. pc[c] \in Active
      <4>1. Found(c) \/ Spawn(c) \/ SpawnFails(c) \/ Install(c) \/ ReadLine(c) \/ Evict(c)
            \/ Kill(c)
        BY <1>10, <2>4, StepCall
      <4> QED
        BY <4>1 DEF Found, Spawn, SpawnFails, Install, ReadLine, Evict, Kill, Active
    <3>5. tool[d] = tool[c]
      <4>1. f[w] = tool[c] /\ f[w] = tool[d]
        BY <1>1, <2>4, NoneApart DEF Runs, TypeOK
      <4> QED
        BY <4>1
    <3> QED
      BY <1>2, <3>2, <3>3, <3>4, <3>5
  <2> QED
    BY <1>6, <1>10, <2>1, <2>2, <2>3, <2>4, StepRefers, NoneApart
<1>11. ASSUME NEW w \in Workers, w \in Pooled', NEW d \in Holds(w)'
       PROVE  mine'[d] = w
  <2>1. CASE d \in Calls /\ Write(d) /\ mine[d] = w
    BY <2>1 DEF Write
  <2>2. CASE d \in Holds(w)
    <3>0. d \in Calls /\ pc[d] \notin Untouched
      BY <1>7, <2>2 DEF OnePlace
    <3>1. PICK t \in Tools : workers'[t] = w
      BY <1>11 DEF Pooled
    <3>2. mine[d] = w
      <4>1. CASE workers[t] = w
        BY <1>4, <2>2, <4>1, NoneApart DEF Pooled
      <4>2. ASSUME NEW c \in Calls, Install(c), w = mine[c] PROVE mine[d] = w
        BY <1>3, <2>2, <4>2
      <4> QED
        BY <3>1, <4>1, <4>2, StepRefers, NoneApart
    <3>3. ASSUME mine'[d] # w PROVE FALSE
      <4>1. CASE Found(d) \/ Spawn(d) \/ SpawnFails(d) \/ Install(d)
        BY <3>0, <4>1 DEF Found, Spawn, SpawnFails, Install, Untouched
      <4>2. CASE ReadLine(d)
        <5>1. /\ got'[d] \in Holds(w)
              /\ \A v \in Workers :
                   Tidy(v) => Holds(v)' = Holds(v) \ (IF v = mine[d] THEN {got'[d]} ELSE {})
          BY <3>0, <3>2, <4>2, ReadLines
        <5>2. got'[d] = d
          BY <1>3, <3>0, <3>2, <5>1
        <5> QED
          BY <1>11, <3>2, <5>1, <5>2 DEF OnePlace
      <4>3. CASE Evict(d) \/ Kill(d)
        <5>1. workers' = [workers EXCEPT ![tool[d]] = NoWorker]
          BY <4>3 DEF Evict, Kill
        <5>2. workers[t] = w /\ t # tool[d]
          BY <3>1, <5>1, NoneApart DEF TypeOK
        <5>3. f[w] = t /\ f[w] = tool[d]
          BY <1>1, <2>2, <5>2, NoneApart DEF Runs
        <5> QED
          BY <5>2, <5>3
      <4> QED
        BY <3>0, <3>2, <3>3, <4>1, <4>2, <4>3, StepCall
    <3> QED
      BY <3>3
  <2> QED
    BY <1>6, <1>11, <2>1, <2>2
<1>12. ASSUME NEW c \in Calls, pc'[c] \in Settled
       PROVE  workers'[tool[c]] \in {mine'[c], NoWorker}
  <2>1. CASE Found(c)
    BY <2>1 DEF Found, TypeOK
  <2>2. CASE Install(c)
    BY <2>2 DEF Install, TypeOK
  <2>3. CASE ~Install(c) /\ pc[c] \in Settled /\ mine'[c] = mine[c]
    <3>1. workers[tool[c]] \in {mine[c], NoWorker}
      BY <1>5, <2>3
    <3>2. ASSUME NEW d \in Calls, Install(d), tool[d] = tool[c] PROVE FALSE
      <4>1. pc[d] \in Active /\ pc[c] \in Active
        BY <2>3, <3>2 DEF Install, Active, Settled
      <4> QED
        BY <1>2, <2>3, <3>2, <4>1
    <3>3. tool[c] \in Tools
      BY DEF TypeOK
    <3> QED
      BY <2>3, <3>1, <3>2, <3>3, StepRefers
  <2> QED
    BY <1>12, <2>1, <2>2, <2>3, StepSettles
<1> QED
  BY <1>0, <1>9, <1>10, <1>11, <1>12 DEF Settled

LEMMA OwnAnswerNext ==
  ASSUME PoolInv, [Next]_vars
  PROVE  SoloOwnAnswer'
<1> USE DEF PoolInv
<1> SUFFICES ASSUME solo', NEW c \in Calls
             PROVE  got'[c] \in {c, NoCall}
  BY DEF SoloOwnAnswer
<1>1. solo
  BY StepSolo
<1>2. CASE got'[c] = got[c]
  BY <1>1, <1>2 DEF SoloOwnAnswer
<1>3. CASE got'[c] \in Holds(mine[c]) /\ mine[c] \in Workers
  BY <1>1, <1>3 DEF Alone
<1> QED
  BY <1>2, <1>3, StepAnswers

LEMMA NoOrphanNext ==
  ASSUME PoolInv, [Next]_vars
  PROVE  SoloNoOrphan'
<1> USE DEF PoolInv
<1> SUFFICES ASSUME solo', NEW w \in Workers, Alive(w)'
             PROVE  \/ w \in Pooled'
                    \/ \E c \in Calls : pc'[c] = "install" /\ mine'[c] = w
  BY DEF SoloNoOrphan
<1>0. solo
  BY StepSolo
<1>1. proc'[w].life = "alive" /\ \A W : proc' = Ended(W) => w \notin W
  <2>1. proc'[w].life = "alive"
    BY DEF Alive
  <2>2. ASSUME NEW W, proc' = Ended(W), w \in W PROVE FALSE
    <3>1. proc'[w].life = IF w \in W /\ Alive(w) THEN "dead" ELSE proc[w].life
      BY <2>2, EndedLines
    <3> QED
      BY <2>1, <2>2, <3>1, NoneApart DEF Alive
  <2> QED
    BY <2>1, <2>2
<1>2. ASSUME NEW c \in Calls, Spawn(c), mine'[c] = w
      PROVE  pc'[c] = "install"
  BY <1>2 DEF Spawn, Go, TypeOK
<1>3. CASE w \in Pooled
  <2>1. PICK t \in Tools : workers[t] = w
    BY <1>3 DEF Pooled
  <2>2. CASE workers'[t] = w
    BY <2>2, NoneApart DEF Pooled
  <2>3. CASE workers'[t] # w
    <3>1. ASSUME NEW c \in Calls, tool[c] = t, Evict(c) PROVE Alive(w) => FALSE
      <4>1. pc[c] = "evict" /\ pc[c] \in Active \ {"lookup", "install"}
        BY <3>1 DEF Evict, Active
      <4>2. ~Alive(mine[c]) /\ workers[tool[c]] \in {mine[c], NoWorker}
        BY <1>0, <4>1 DEF Known, Alone
      <4> QED
        BY <2>1, <3>1, <4>2, NoneApart
    <3>2. ASSUME NEW c \in Calls, tool[c] = t, Kill(c) PROVE FALSE
      BY <1>1, <2>1, <3>2 DEF Kill
    <3>3. ASSUME Reap(t) PROVE FALSE
      BY <1>1, <2>1, <3>3 DEF Reap
    <3>4. ASSUME Shutdown PROVE FALSE
      BY <1>1, <1>3, <3>4 DEF Shutdown
    <3>5. ASSUME ~Alive(w) PROVE \E c \in Calls : Spawn(c) /\ mine'[c] = w
      <4>1. proc[w].life # "alive"
        BY <3>5, NoneApart DEF Alive
      <4> QED
        BY <1>1, <4>1, StepLines
    <3> QED
      BY <1>2, <2>1, <2>3, <3>1, <3>2, <3>3, <3>4, <3>5, StepPool
  <2> QED
    BY <2>2, <2>3
<1>4. ASSUME NEW c \in Calls, pc[c] = "install", mine[c] = w
      PROVE  w \in Pooled' \/ (pc'[c] = "install" /\ mine'[c] = w)
  <2>1. CASE Install(c)
    <3>1. workers' = [workers EXCEPT ![tool[c]] = mine[c]]
      BY <1>1, <1>4, <2>1 DEF Install
    <3>2. workers'[tool[c]] = w /\ tool[c] \in Tools
      BY <1>4, <3>1 DEF TypeOK
    <3> QED
      BY <3>2, NoneApart DEF Pooled
  <2>2. CASE ~Install(c)
    <3>1. ~Arrive(c) /\ ~CallStep(c)
      BY <1>4, <2>2 DEF CallStep, Arrive, Found, Spawn, SpawnFails, Refresh, Write, Select,
         ReadLine, EndOfFile, Evict, Kill
    <3>2. pc'[c] = pc[c] /\ mine'[c] = mine[c]
      BY <3>1, StepCall DEF CallStep
    <3> QED
      BY <1>4, <3>2
  <2> QED
    BY <2>1, <2>2
<1>5. CASE ~Alive(w)
  <2>1. proc[w].life # "alive"
    BY <1>5, NoneApart DEF Alive
  <2> QED
    BY <1>1, <1>2, <2>1, StepLines
<1> QED
  BY <1>0, <1>3, <1>4, <1>5 DEF SoloNoOrphan
-----------------------------------------------------------------------------
(***************************************************************************)
(* The theorems                                                            *)
(***************************************************************************)

LEMMA InitPool == Init => PoolInv
<1> SUFFICES ASSUME Init PROVE PoolInv
  OBVIOUS
<1>1. TypeOK
  BY NoLine DEF Init, TypeOK
<1>2. \A w \in Workers : Holds(w) = {} /\ Tidy(w)
  BY NoLine DEF Init, Holds, Tidy
<1>3. Known
  BY <1>2, NoneApart DEF Init, Known, Pooled, Active
<1>4. OnePlace
  BY <1>2, NoneApart DEF Init, OnePlace
<1>5. OneTool
  <2> DEFINE f == [w \in Workers |-> NoWorker]
  <2>1. Runs(f)
    BY <1>2 DEF Init, Runs
  <2> QED
    BY <2>1 DEF Init, OneTool
<1>6. Alone
  BY <1>2, NoneApart DEF Init, Alone, Active
<1>7. SoloOwnAnswer /\ SoloNoOrphan
  BY DEF Init, SoloOwnAnswer, SoloNoOrphan, Alive
<1> QED
  BY <1>1, <1>3, <1>4, <1>5, <1>6, <1>7 DEF PoolInv

\* The inductive invariant holds in every reachable state.
THEOREM PoolInvCorrect == Spec => []PoolInv
<1>1. ASSUME PoolInv, [Next]_vars PROVE PoolInv'
  BY <1>1, TypeNext, KnownNext, OnePlaceNext, OneToolNext, AloneNext, OwnAnswerNext,
     NoOrphanNext DEF PoolInv
<1> QED
  BY <1>1, InitPool, PTL DEF Spec

\* The type invariant.
THEOREM TypeCorrect == Spec => []TypeOK
<1>1. PoolInv => TypeOK
  BY DEF PoolInv
<1> QED
  BY <1>1, PoolInvCorrect, PTL

\* One response is returned once, and to a call of the tool it is an answer of, even
\* when calls share a worker and take each other's lines.
THEOREM AnswersOnceCorrect == Spec => []AnswersOnce
<1>1. PoolInv => AnswersOnce
  BY DEF PoolInv, OnePlace, OneTool, AnswersOnce
<1> QED
  BY <1>1, PoolInvCorrect, PTL

\* Calls to one tool that do not overlap get their own answers, through crashes,
\* time-outs, reaping and respawning: what a call that gave up leaves behind is in a
\* process that no later call uses.
THEOREM OwnAnswerCorrect == Spec => []SoloOwnAnswer
<1>1. PoolInv => SoloOwnAnswer
  BY DEF PoolInv
<1> QED
  BY <1>1, PoolInvCorrect, PTL

\* Without overlap no live process is forgotten: the reaper and the shutdown find it.
THEOREM NoOrphanCorrect == Spec => []SoloNoOrphan
<1>1. PoolInv => SoloNoOrphan
  BY DEF PoolInv
<1> QED
  BY <1>1, PoolInvCorrect, PTL
-----------------------------------------------------------------------------
(***************************************************************************)
(* The pool implements the service                                         *)
(***************************************************************************)

\* What the service sees of calls and processes.
Phase == [c \in Calls |-> IF pc[c] \in Active THEN "open" ELSE pc[c]]

Live == {w \in Workers : Alive(w)}

Unserved == UNCHANGED <<tool, Phase, got, Live, down, solo>>

LEMMA LiveStep ==
  ASSUME NEW S \in SUBSET Workers,
         \A w \in Workers : proc'[w].life = "alive" <=> proc[w].life = "alive" \/ w \in S
  PROVE  Live' = Live \cup S
  BY NoneApart DEF Live, Alive

LEMMA LiveKept ==
  ASSUME \A w \in Workers : proc'[w].life = proc[w].life
  PROVE  Live' = Live
  BY NoneApart DEF Live, Alive

LEMMA LiveEnded ==
  ASSUME TypeOK, NEW W, proc' = Ended(W)
  PROVE  Live' \subseteq Live
<1>1. \A w \in Workers : proc'[w].life = IF w \in W /\ Alive(w) THEN "dead" ELSE proc[w].life
  BY EndedLines
<1> QED
  BY <1>1 DEF Live, Alive

\* A call that goes on is open, and one that leaves is not.
LEMMA PhaseKept ==
  ASSUME TypeOK, NEW c \in Calls, NEW p \in Active, pc[c] \in Active, Go(c, p)
  PROVE  Phase' = Phase
  BY DEF Go, Phase, TypeOK

LEMMA PhaseMoves ==
  ASSUME TypeOK, NEW c \in Calls, NEW p, Go(c, p)
  PROVE  Phase' = [Phase EXCEPT ![c] = IF p \in Active THEN "open" ELSE p]
  BY DEF Go, Phase, TypeOK

LEMMA OpenCalls ==
  ASSUME TypeOK
  PROVE  /\ Service!Open = {c \in Calls : pc[c] \in Active}
         /\ \A c \in Calls : (Phase[c] = "new" <=> pc[c] = "new")
  BY DEF Service!Open, TypeOK, Phase, Active

LEMMA ServiceSees ==
  /\ \A c : Service!Begin(c) <=>
       /\ Phase[c] = "new" /\ ~down
       /\ Phase' = [Phase EXCEPT ![c] = "open"]
       /\ solo' = (solo /\ \A d \in Service!Open : tool[d] # tool[c])
       /\ UNCHANGED <<tool, got, Live, down>>
  /\ \A c : Service!Return(c) <=>
       \E d \in Calls :
         /\ c \in Service!Open /\ Phase' = [Phase EXCEPT ![c] = "returned"]
         /\ got' = [got EXCEPT ![c] = d]
         /\ tool[d] = tool[c] /\ Phase[d] # "new" /\ \A e \in Calls : got[e] # d
         /\ solo => d = c
         /\ UNCHANGED <<tool, Live, down, solo>>
  /\ \A c : Service!Raise(c) <=>
       /\ c \in Service!Open /\ Phase' = [Phase EXCEPT ![c] = "raised"]
       /\ Live' \subseteq Live
       /\ UNCHANGED <<tool, got, down, solo>>
  /\ \A w : Service!Start(w) <=>
       /\ Service!Open # {} /\ w \notin Live
       /\ Live' = Live \cup {w}
       /\ UNCHANGED <<tool, Phase, got, down, solo>>
  /\ Service!End <=> Live' \subseteq Live /\ UNCHANGED <<tool, Phase, got, down, solo>>
  /\ Service!Shutdown <=>
       /\ ~down /\ Service!Open = {}
       /\ down' = TRUE
       /\ Live' \subseteq Live /\ (solo => Live' = {})
       /\ UNCHANGED <<tool, Phase, got, solo>>
  /\ Service!Next <=>
       \/ Service!End \/ Service!Shutdown
       \/ \E c \in Calls : Service!Begin(c) \/ Service!Return(c) \/ Service!Raise(c)
       \/ \E w \in Live' : Service!Start(w)
  BY Zenon DEF Service!Begin, Service!Return, Service!Raise, Service!Start, Service!End,
     Service!Shutdown,
     Service!Next, Phase, Live

\* A response is returned to one call of its tool, and its own call was made.
LEMMA ReturnsAnswer ==
  ASSUME PoolInv, [Next]_vars, NEW c \in Calls, ReadLine(c)
  PROVE  Service!Return(c)
<1> USE DEF PoolInv
<1> DEFINE d == got'[c]
<1>1. pc[c] = "readline" /\ mine[c] \in Workers
  BY UsesProcess DEF ReadLine, Active
<1>2. /\ got' = [got EXCEPT ![c] = d] /\ d \in Holds(mine[c]) /\ d \in Calls
      /\ Live' = Live
  BY <1>1, ReadLines, ProcFields, LiveKept
<1> HIDE DEF d
<1>3. tool[d] = tool[c]
  <2>1. PICK f \in [Workers -> Tools \cup {NoWorker}] : Runs(f)
    BY DEF OneTool
  <2>2. mine[c] # NoWorker
    BY <1>1, NoneApart
  <2> QED
    BY <1>1, <1>2, <2>1, <2>2 DEF Runs
<1>4. pc[d] # "new" /\ \A e \in Calls : got[e] # d
  BY <1>1, <1>2 DEF OnePlace, Untouched
<1>5. solo => d = c
  BY <1>1, <1>2 DEF Alone
<1>6. Phase' = [Phase EXCEPT ![c] = "returned"]
  BY PhaseMoves DEF ReadLine, Leave, Active
<1>7. c \in Service!Open /\ Phase[d] # "new"
  BY <1>1, <1>2, <1>4, OpenCalls DEF Active
<1>8. UNCHANGED <<tool, Live, down, solo>>
  BY <1>2 DEF ReadLine
<1> QED
  BY <1>2, <1>3, <1>4, <1>5, <1>6, <1>7, <1>8, ServiceSees

\* Shutdown reaches every process, as none is being installed.
LEMMA ShutdownEndsAll ==
  ASSUME PoolInv, Shutdown
  PROVE  Service!Shutdown
<1> USE DEF PoolInv
<1>1. /\ ~down /\ down' = TRUE /\ \A c \in Calls : pc[c] \notin Active
      /\ proc' = Ended(Pooled) /\ UNCHANGED <<tool, pc, mine, got, solo>>
  BY DEF Shutdown
<1>2. Live' \subseteq Live
  BY <1>1, LiveEnded
<1>3. Service!Open = {}
  BY <1>1, OpenCalls
<1>4. ASSUME solo PROVE Live' = {}
  <2>1. ASSUME NEW w \in Workers, Alive(w) PROVE w \in Pooled
    <3>1. ~ \E c \in Calls : pc[c] = "install"
      BY <1>1 DEF Active
    <3> QED
      BY <1>4, <2>1, <3>1 DEF SoloNoOrphan
  <2>2. \A w \in Workers :
          proc'[w].life = IF w \in Pooled /\ Alive(w) THEN "dead" ELSE proc[w].life
    BY <1>1, EndedLines
  <2> QED
    BY <2>1, <2>2 DEF Live, Alive
<1>5. Phase' = Phase
  BY <1>1 DEF Phase
<1> QED
  BY <1>1, <1>2, <1>3, <1>4, <1>5, ServiceSees

LEMMA StepService ==
  ASSUME PoolInv, [Next]_vars
  PROVE  Service!Next \/ Unserved
<1> USE DEF PoolInv
<1> DEFINE Served == Service!Next \/ Unserved
<1>a. ASSUME NEW c \in Calls, Service!Begin(c) \/ Service!Return(c) \/ Service!Raise(c)
      PROVE  Served
  BY <1>a, ServiceSees
<1>b. ASSUME Live' \subseteq Live, Phase' = Phase, UNCHANGED <<tool, got, down, solo>>
      PROVE  Served
  BY <1>b, ServiceSees
<1>c. Service!Shutdown => Served
  BY ServiceSees
<1>d. ASSUME proc' = proc PROVE Live' = Live
  BY <1>d, LiveKept
<1>e. ASSUME NEW c \in Calls, pc[c] \in Active, Leave(c, "raised"), Live' \subseteq Live,
             UNCHANGED <<tool, got, down, solo>>
      PROVE  Served
  <2>1. Phase' = [Phase EXCEPT ![c] = "raised"]
    BY <1>e, PhaseMoves DEF Leave, Active
  <2>2. c \in Service!Open
    BY <1>e, OpenCalls
  <2>3. Service!Raise(c)
    BY <1>e, <2>1, <2>2, ServiceSees
  <2> QED
    BY <1>a, <2>3
<1> HIDE DEF Served
<1>1. ASSUME NEW c \in Calls, Arrive(c) PROVE Served
  <2>1. /\ pc[c] = "new" /\ ~down /\ Go(c, "lookup") /\ "lookup" \in Active
        /\ UNCHANGED <<tool, got, proc, down>>
        /\ solo' = (solo /\ \A d \in Calls : pc[d] \in Active => tool[d] # tool[c])
    BY <1>1, Zenon DEF Arrive, Active
  <2>2. Phase[c] = "new" /\ Live' = Live
    BY <1>d, <2>1, OpenCalls
  <2>3. Phase' = [Phase EXCEPT ![c] = "open"]
    BY <2>1, PhaseMoves
  <2>4. solo' = (solo /\ \A d \in Service!Open : tool[d] # tool[c])
    BY <2>1, OpenCalls
  <2>5. UNCHANGED <<tool, got, Live, down>>
    BY <2>1, <2>2
  <2>6. Service!Begin(c)
    BY <2>1, <2>2, <2>3, <2>4, <2>5, ServiceSees, Zenon
  <2> QED
    BY <1>a, <2>6
<1>2. ASSUME NEW c \in Calls, Found(c) \/ Refresh(c) \/ Select(c) \/ EndOfFile(c) PROVE Served
  <2>1. /\ pc[c] \in Active /\ \E p \in Active : Go(c, p)
        /\ proc' = proc /\ UNCHANGED <<tool, got, down, solo>>
    BY <1>2 DEF Found, Refresh, Select, EndOfFile, Active
  <2> QED
    BY <1>b, <1>d, <2>1, PhaseKept
<1>3. ASSUME NEW c \in Calls, Write(c) PROVE Served
  <2>1. /\ pc[c] = "write" /\ \E p \in Active : Go(c, p)
        /\ UNCHANGED <<tool, got, down, solo>>
        /\ proc' = proc \/ proc' = [proc EXCEPT ![mine[c]].stdin = Append(@, c)]
    BY <1>3 DEF Write, Active
  <2>2. mine[c] \in Workers /\ pc[c] \in Active
    BY <2>1, UsesProcess DEF Active
  <2>3. Live' = Live
    BY <1>d, <2>1, <2>2, WriteLines, LiveKept
  <2> QED
    BY <1>b, <2>1, <2>2, <2>3, PhaseKept
<1>4. ASSUME NEW c \in Calls, Spawn(c) PROVE Served
  <2>1. /\ pc[c] = "lookup" /\ Go(c, "install") /\ {"lookup", "install"} \subseteq Active
        /\ UNCHANGED <<tool, got, down, solo>>
    BY <1>4 DEF Spawn, Active
  <2>2. PICK v \in Workers :
          /\ proc[v].life = "unborn"
          /\ \A w \in Workers : proc'[w].life = IF w = v THEN "alive" ELSE proc[w].life
    BY <1>4, SpawnLines
  <2>3. Live' = Live \cup {v} /\ v \notin Live
    BY <2>2, LiveStep DEF Live, Alive
  <2>4. Phase' = Phase /\ Service!Open # {}
    BY <2>1, PhaseKept, OpenCalls
  <2>5. Service!Start(v)
    BY <2>1, <2>3, <2>4, ServiceSees
  <2> QED
    BY <2>3, <2>5, ServiceSees DEF Served
<1>5. ASSUME NEW c \in Calls, Install(c) PROVE Served
  <2>1. /\ pc[c] = "install" /\ Go(c, "refresh") /\ {"install", "refresh"} \subseteq Active
        /\ proc' = proc \/ proc' = Ended({mine[c]})
        /\ UNCHANGED <<tool, got, down, solo>>
    BY <1>5 DEF Install, Active
  <2> QED
    BY <1>b, <1>d, <2>1, LiveEnded, PhaseKept
<1>6. ASSUME NEW c \in Calls, SpawnFails(c) \/ Evict(c) \/ Kill(c) PROVE Served
  <2>1. /\ pc[c] \in Active /\ Leave(c, "raised")
        /\ proc' = proc \/ proc' = Ended({workers[tool[c]]})
        /\ UNCHANGED <<tool, got, down, solo>>
    BY <1>6 DEF SpawnFails, Evict, Kill, Active
  <2> QED
    BY <1>d, <1>e, <2>1, LiveEnded
<1>7. ASSUME NEW c \in Calls, ReadLine(c) PROVE Served
  BY <1>7, <1>a, ReturnsAnswer
<1>8. ASSUME \/ \E t \in Tools : Reap(t)
             \/ \E w \in Workers : WorkerAnswers(w) \/ WorkerCrashes(w)
             \/ UNCHANGED vars
      PROVE  Served
  <2>1. pc' = pc /\ UNCHANGED <<tool, got, down, solo>>
    BY <1>8 DEF Reap, WorkerAnswers, WorkerCrashes, vars
  <2>2. Phase' = Phase
    BY <2>1 DEF Phase
  <2>3. Live' \subseteq Live
    <3>1. ASSUME NEW t \in Tools, Reap(t) PROVE Live' \subseteq Live
      BY <3>1, LiveEnded DEF Reap
    <3>2. ASSUME NEW w \in Workers, WorkerCrashes(w) PROVE Live' \subseteq Live
      BY <3>2, LiveEnded DEF WorkerCrashes
    <3>3. ASSUME NEW w \in Workers, WorkerAnswers(w) PROVE Live' \subseteq Live
      BY <3>3, AnswerLines, LiveKept
    <3>4. ASSUME UNCHANGED vars PROVE Live' \subseteq Live
      BY <1>d, <3>4 DEF vars
    <3> QED
      BY <1>8, <3>1, <3>2, <3>3, <3>4
  <2> QED
    BY <1>b, <2>1, <2>2, <2>3
<1>9. ASSUME Shutdown PROVE Served
  BY <1>9, <1>c, ShutdownEndsAll
<1>10. Served
  BY <1>1, <1>2, <1>3, <1>4, <1>5, <1>6, <1>7, <1>8, <1>9 DEF Next, CallStep
<1> QED
  BY <1>10 DEF Served

\* The pool is the service: a call is answered once at most, by the response to a call
\* of its own tool and to itself while calls to one tool do not overlap, and a shutdown
\* then leaves no process behind.
THEOREM PoolServesCorrect == Spec => PoolServes
<1>1. Init => Service!Init
  BY NoneApart DEF Init, Service!Init, Active, Alive
<1>2. ASSUME PoolInv, [Next]_vars
      PROVE  [Service!Next]_<<tool, Phase, got, Live, down, solo>>
  BY <1>2, StepService DEF Unserved
<1> QED
  BY <1>1, <1>2, PoolInvCorrect, PTL DEF Spec, PoolServes, Service!Spec, Phase, Live
=============================================================================
