-------------------------- MODULE StatsWriterProofs --------------------------
(***************************************************************************)
(* Proofs about StatsWriter, for any number of records, threads and        *)
(* failures and any limit of the list:                                     *)
(*   TypeCorrect         the type invariant and the bound of the list      *)
(*   KeptCorrect         no record is lost before an overflow              *)
(*   OnceInOrderCorrect  the file is in order while no write is disturbed  *)
(*   StopWritesCorrect   stop() has written what came before it            *)
(*   FileIsLogCorrect    the file is the log of StatsLog                   *)
(* The invariants say nothing of the copy that is being written, on which  *)
(* they depend: WriterInv adds where it stands in the list (Kept: at the   *)
(* front, element by element; Sorted: behind the file and before the rest, *)
(* whatever has been dropped meanwhile) and how far the thread is          *)
(* (Writing).  Room counts, for the bound, only the records that may still *)
(* delete something.  Whole keeps, for the log, what WriterInv forgets of  *)
(* the copy of a write that was cut off and goes on.                       *)
(***************************************************************************)
EXTENDS StatsWriter, FiniteSetTheorems, TLAPS

Rising(s) ==
  /\ \A i, j \in 1..Len(s) : i < j => s[i] < s[j]
  /\ \A i \in 1..Len(s) : i <= s[i]

\* Without an overflow: how many records have left the list.
Before == made - Len(buffer)

Flushing(f) == IF f = "task" THEN task = "writing" ELSE stop = "writing"

\* Records that will delete nothing any more.
Spent == {r \in 1..Records : rec[r] = "drop" /\ overflow[r] <= 0}

Typed ==
  /\ buffer \in Seq(1..Records)
  /\ made \in 0..Records
  /\ rec \in [1..Records -> {"new", "check", "measure", "drop", "done"}]
  /\ overflow \in [1..Records -> Int]
  /\ task \in {"sleep", "writing", "ended"}
  /\ stop \in {"no", "cancelling", "writing", "done", "failed"}
  /\ batch \in [Flushers -> Seq(1..Records)]
  /\ thread \in [Flushers -> {"off", "running", "ok", "failed"}]
  /\ wrote \in [Flushers -> Nat]
  /\ file \in Seq(1..Records)
  /\ faults \in 0..MaxFaults
  /\ early \in 0..Records
  /\ overflowed \in BOOLEAN
  /\ repeated \in BOOLEAN

\* What TypeOK says of the length, strong enough to be kept: a thread that measured
\* no excess has given its place back.
Room == Len(buffer) <= MaxBuffer + Cardinality(Appending \ Spent)

Recording ==
  /\ \A r \in 1..Records : r > made => rec[r] = "new"
  /\ \A r \in 1..Records : rec[r] \in {"measure", "drop"} => overflowed

InOrder ==
  /\ Rising(buffer) /\ Len(buffer) <= made
  /\ \A i \in 1..Len(buffer) : buffer[i] <= made
  /\ \A i \in 1..Len(file) : file[i] <= made
  /\ \A f \in Flushers : /\ Rising(batch[f]) /\ Len(batch[f]) <= made
                         /\ \A i \in 1..Len(batch[f]) : batch[f][i] <= made

Writing ==
  /\ \A f \in Flushers :
       /\ wrote[f] <= Len(batch[f])
       /\ thread[f] = "ok" => wrote[f] = Len(batch[f])
       /\ \A i \in 1..wrote[f] : batch[f][i] \in ToSet(file)
       /\ Flushing(f) => thread[f] # "off"
  /\ stop \in {"writing", "done", "failed"} => task = "ended"
  /\ early <= made

\* Without an overflow the list is the records after the first Before, which are in
\* the file, and what is being written is the front of the list.
Kept ==
  ~overflowed =>
    /\ \A i \in 1..Len(buffer) : buffer[i] = Before + i
    /\ \A r \in 1..Before : r \in ToSet(file)
    /\ \A f \in Flushers : Flushing(f) =>
         /\ Len(batch[f]) <= Len(buffer)
         /\ \A i \in 1..Len(batch[f]) : batch[f][i] = Before + i
    /\ stop = "writing" => early <= Before + Len(batch["stop"])
    /\ stop = "done" => early <= Before

\* Without a failed or cancelled write the file ends before what is to be written,
\* and that before what a finished write leaves in the list.
Sorted ==
  ~repeated =>
    /\ \A i, j \in 1..Len(file) : i < j => file[i] < file[j]
    /\ \A f \in Flushers : ~Flushing(f) => thread[f] = "off"
    /\ (\A f \in Flushers : ~Flushing(f)) =>
         \A i \in 1..Len(file), j \in 1..Len(buffer) : file[i] < buffer[j]
    /\ \A f \in Flushers : Flushing(f) =>
         /\ \A i \in 1..Len(file), j \in 1..Len(batch[f]) :
              j > wrote[f] => file[i] < batch[f][j]
         /\ \A i \in 1..Len(file), j \in 1..Len(buffer) :
              j > Len(batch[f]) => file[i] < buffer[j]
         /\ \A i \in 1..Len(batch[f]), j \in 1..Len(buffer) :
              j > Len(batch[f]) => batch[f][i] < buffer[j]

WriterInv == Typed /\ Room /\ Recording /\ InOrder /\ Writing /\ Kept /\ Sorted
-----------------------------------------------------------------------------
(***************************************************************************)
(* The list and the file                                                   *)
(***************************************************************************)

LEMMA Element ==
  ASSUME NEW S, NEW s \in Seq(S)
  PROVE  Len(s) \in Nat /\ \A i \in 1..Len(s) : s[i] \in S
  OBVIOUS

LEMMA Appended ==
  ASSUME NEW S, NEW s \in Seq(S), NEW e \in S
  PROVE  /\ Append(s, e) \in Seq(S) /\ Len(Append(s, e)) = Len(s) + 1
         /\ \A i \in 1..Len(s) : Append(s, e)[i] = s[i]
         /\ Append(s, e)[Len(s) + 1] = e
         /\ ToSet(Append(s, e)) = ToSet(s) \cup {e}
<1>1. /\ Append(s, e) \in Seq(S) /\ Len(Append(s, e)) = Len(s) + 1 /\ Len(s) \in Nat
      /\ \A i \in 1..Len(s) : Append(s, e)[i] = s[i]
      /\ Append(s, e)[Len(s) + 1] = e
  OBVIOUS
<1>2. 1..(Len(s) + 1) = (1..Len(s)) \cup {Len(s) + 1}
  BY <1>1
<1>3. DOMAIN Append(s, e) = 1..(Len(s) + 1) /\ DOMAIN s = 1..Len(s)
  BY <1>1
<1>4. ToSet(Append(s, e)) = ToSet(s) \cup {e}
  BY <1>1, <1>2, <1>3 DEF ToSet
<1> QED
  BY <1>1, <1>4

\* How many elements a deletion takes away.
Taken(s, n) == LET k == IF n >= 0 THEN n ELSE IF Len(s) + n >= 0 THEN Len(s) + n ELSE 0
               IN  IF k <= Len(s) THEN k ELSE Len(s)

LEMMA Deleted ==
  ASSUME NEW S, NEW s \in Seq(S), NEW n \in Int
  PROVE  /\ DelFront(s, n) \in Seq(S)
         /\ Taken(s, n) \in 0..Len(s)
         /\ Len(DelFront(s, n)) = Len(s) - Taken(s, n)
         /\ \A i \in 1..(Len(s) - Taken(s, n)) : DelFront(s, n)[i] = s[i + Taken(s, n)]
<1> DEFINE k == Max({0, IF n >= 0 THEN n ELSE Len(s) + n})
<1>1. Len(s) \in Nat
  OBVIOUS
<1>2. k = IF n >= 0 THEN n ELSE IF Len(s) + n >= 0 THEN Len(s) + n ELSE 0
  <2> DEFINE a == IF n >= 0 THEN n ELSE Len(s) + n
             b == IF a >= 0 THEN a ELSE 0
  <2>1. a \in Int
    BY <1>1
  <2> HIDE DEF a
  <2>2. b \in {0, a} /\ \A y \in {0, a} : b >= y
    BY <2>1
  <2>3. \A x \in {0, a} : (\A y \in {0, a} : x >= y) => x = b
    BY <2>1
  <2>4. Max({0, a}) = b
    BY <2>2, <2>3 DEF Max
  <2> QED
    BY <2>4, <1>1 DEF a
<1>3. k \in Nat
  BY <1>1, <1>2
<1>4. DelFront(s, n) = SubSeq(s, k + 1, Len(s))
  BY DEF DelFront
<1> HIDE DEF k
<1>5. Taken(s, n) = IF k <= Len(s) THEN k ELSE Len(s)
  BY <1>2 DEF Taken
<1>6. CASE k <= Len(s)
  <2>1. /\ SubSeq(s, k + 1, Len(s)) \in Seq(S) /\ Len(SubSeq(s, k + 1, Len(s))) = Len(s) - k
        /\ \A i \in 1..(Len(s) - k) : SubSeq(s, k + 1, Len(s))[i] = s[i + k]
    BY <1>1, <1>3, <1>6
  <2> QED
    BY <1>1, <1>3, <1>4, <1>5, <1>6, <2>1
<1>7. CASE ~(k <= Len(s))
  <2>1. SubSeq(s, k + 1, Len(s)) = <<>>
    BY <1>1, <1>3, <1>7
  <2>2. Len(s) - Taken(s, n) = 0 /\ Taken(s, n) = Len(s)
    BY <1>1, <1>5, <1>7
  <2>3. <<>> \in Seq(S) /\ Len(<<>>) = 0
    OBVIOUS
  <2>4. DelFront(s, n) \in Seq(S) /\ Len(DelFront(s, n)) = 0
    BY <1>4, <2>1, <2>3
  <2>5. Taken(s, n) \in 0..Len(s)
    BY <1>1, <2>2
  <2> QED
    BY <2>2, <2>4, <2>5
<1> QED
  BY <1>6, <1>7
-----------------------------------------------------------------------------
(***************************************************************************)
(* What the steps do to the list, the copies and the file                  *)
(***************************************************************************)

LEMMA ListGrows ==
  ASSUME Typed, NEW r \in 1..Records, AppendRecord(r)
  PROVE  /\ buffer' \in Seq(1..Records) /\ Len(buffer') = Len(buffer) + 1
         /\ \A i \in 1..Len(buffer) : buffer'[i] = buffer[i]
         /\ buffer'[Len(buffer) + 1] = made + 1 /\ made' = made + 1 /\ made' = r
  BY Appended DEF Typed, AppendRecord

LEMMA ListCut ==
  ASSUME Typed, NEW n \in Int, buffer' = DelFront(buffer, n)
  PROVE  /\ buffer' \in Seq(1..Records) /\ Taken(buffer, n) \in 0..Len(buffer)
         /\ Len(buffer') = Len(buffer) - Taken(buffer, n)
         /\ \A i \in 1..(Len(buffer) - Taken(buffer, n)) :
              buffer'[i] = buffer[i + Taken(buffer, n)]
  BY Deleted, ZenonT(60) DEF Typed

LEMMA FileGrows ==
  ASSUME Typed, NEW f \in Flushers, WriteLine(f)
  PROVE  /\ wrote[f] + 1 \in 1..Len(batch[f])
         /\ batch[f][wrote[f] + 1] \in 1..Records
         /\ file' \in Seq(1..Records) /\ Len(file') = Len(file) + 1
         /\ \A i \in 1..Len(file) : file'[i] = file[i]
         /\ file'[Len(file) + 1] = batch[f][wrote[f] + 1]
         /\ ToSet(file') = ToSet(file) \cup {batch[f][wrote[f] + 1]}
<1>1. batch[f] \in Seq(1..Records) /\ wrote[f] \in Nat /\ wrote[f] < Len(batch[f])
  BY DEF Typed, WriteLine
<1>2. wrote[f] + 1 \in 1..Len(batch[f]) /\ batch[f][wrote[f] + 1] \in 1..Records
  <2> DEFINE b == batch[f]
             n == wrote[f] + 1
  <2>1. b \in Seq(1..Records) /\ n \in 1..Len(b)
    BY <1>1
  <2> HIDE DEF b, n
  <2>2. b[n] \in 1..Records
    BY <2>1, Element
  <2> QED
    BY <2>1, <2>2 DEF b, n
<1>3. file' = Append(file, batch[f][wrote[f] + 1]) /\ file \in Seq(1..Records)
  BY DEF Typed, WriteLine
<1> DEFINE e == batch[f][wrote[f] + 1]
<1>4. e \in 1..Records /\ file' = Append(file, e)
  BY <1>2, <1>3
<1> HIDE DEF e
<1>5. /\ file' \in Seq(1..Records) /\ Len(file') = Len(file) + 1
      /\ \A i \in 1..Len(file) : file'[i] = file[i]
      /\ file'[Len(file) + 1] = e /\ ToSet(file') = ToSet(file) \cup {e}
  <2> DEFINE S == 1..Records
  <2>1. e \in S /\ file \in Seq(S) /\ file' = Append(file, e)
    BY <1>3, <1>4
  <2> HIDE DEF S
  <2>2. /\ file' \in Seq(S) /\ Len(file') = Len(file) + 1
        /\ \A i \in 1..Len(file) : file'[i] = file[i]
        /\ file'[Len(file) + 1] = e /\ ToSet(file') = ToSet(file) \cup {e}
    BY <2>1, Appended
  <2> QED
    BY <2>2 DEF S
<1> QED
  BY <1>2, <1>5 DEF e

\* Every length is a natural number, every element a record.
LEMMA Lengths ==
  ASSUME Typed
  PROVE  /\ Len(buffer) \in Nat /\ \A i \in 1..Len(buffer) : buffer[i] \in 1..Records
         /\ Len(file) \in Nat /\ \A i \in 1..Len(file) : file[i] \in 1..Records
         /\ \A f \in Flushers :
              Len(batch[f]) \in Nat /\ \A i \in 1..Len(batch[f]) : batch[f][i] \in 1..Records
         /\ made \in Nat /\ Records \in Nat /\ early \in Nat /\ MaxBuffer \in Nat
<1>1. ASSUME NEW s \in Seq(1..Records)
      PROVE  Len(s) \in Nat /\ \A i \in 1..Len(s) : s[i] \in 1..Records
  BY Element
<1>2. /\ buffer \in Seq(1..Records) /\ file \in Seq(1..Records)
      /\ \A f \in Flushers : batch[f] \in Seq(1..Records)
  BY DEF Typed
<1>3. made \in Nat /\ Records \in Nat /\ early \in Nat /\ MaxBuffer \in Nat
  BY Limits DEF Typed
<1> QED
  BY <1>1, <1>2, <1>3

\* The end of a write deletes what was copied, or nothing.
LEMMA WriteEnds ==
  ASSUME Typed, NEW f \in Flushers, FinishWrite(f)
  PROVE  /\ \/ thread[f] = "ok" /\ buffer' = DelFront(buffer, Len(batch[f]))
            \/ thread[f] # "ok" /\ buffer' = buffer
         /\ batch' = [batch EXCEPT ![f] = <<>>]
         /\ thread' = [thread EXCEPT ![f] = "off"]
         /\ wrote' = [wrote EXCEPT ![f] = 0]
         /\ repeated' = (repeated \/ thread[f] = "failed")
  BY DEF FinishWrite
-----------------------------------------------------------------------------
(***************************************************************************)
(* The parts of the invariant are preserved                                *)
(***************************************************************************)

LEMMA TypedNext ==
  ASSUME WriterInv, [Next]_vars
  PROVE  Typed'
<1> USE Limits DEF WriterInv
<1>0. "task" \in Flushers /\ "stop" \in Flushers /\ <<>> \in Seq(1..Records)
  BY DEF Flushers
<1>1. ASSUME NEW r \in 1..Records, AppendRecord(r) PROVE Typed'
  <2>1. buffer' \in Seq(1..Records)
    BY <1>1, ListGrows
  <2> QED
    BY <1>1, <2>1 DEF AppendRecord, Typed, writes
<1>2. ASSUME NEW r \in 1..Records, Check(r) PROVE Typed'
  BY <1>2 DEF Check, Typed, writes
<1>3. ASSUME NEW r \in 1..Records, Measure(r) PROVE Typed'
  <2>1. Len(buffer) - MaxBuffer \in Int
    BY Lengths
  <2> QED
    BY <1>3, <2>1 DEF Measure, Typed, writes
<1>4. ASSUME NEW r \in 1..Records, DropOldest(r) PROVE Typed'
  <2>1. buffer' \in Seq(1..Records)
    BY <1>4, ListCut DEF DropOldest, Typed
  <2> QED
    BY <1>4, <2>1 DEF DropOldest, Typed, writes
<1>5. ASSUME NEW f \in Flushers, StartWrite(f)
      PROVE  /\ batch' \in [Flushers -> Seq(1..Records)]
             /\ thread' \in [Flushers -> {"off", "running", "ok", "failed"}]
             /\ wrote' \in [Flushers -> Nat]
  BY <1>5 DEF StartWrite, Typed
<1>6. ASSUME NEW f \in Flushers, FinishWrite(f)
      PROVE  /\ buffer' \in Seq(1..Records)
             /\ batch' \in [Flushers -> Seq(1..Records)]
             /\ thread' \in [Flushers -> {"off", "running", "ok", "failed"}]
             /\ wrote' \in [Flushers -> Nat]
             /\ repeated' \in BOOLEAN
  <2>1. buffer' \in Seq(1..Records)
    BY <1>6, WriteEnds, ListCut, Lengths DEF Typed
  <2>2. batch' \in [Flushers -> Seq(1..Records)]
    BY <1>0, <1>6, WriteEnds DEF Typed
  <2> QED
    BY <1>6, <2>1, <2>2 DEF FinishWrite, Typed
<1>7. CASE TaskWakes
  <2>1. StartWrite("task")
    BY <1>7 DEF TaskWakes
  <2> QED
    BY <1>0, <1>5, <1>7, <2>1 DEF TaskWakes, Typed, appends
<1>8. CASE TaskResumes
  <2>1. FinishWrite("task")
    BY <1>8 DEF TaskResumes
  <2> QED
    BY <1>0, <1>6, <1>8, <2>1 DEF TaskResumes, Typed, appends
<1>9. CASE StopCalled
  BY <1>9 DEF StopCalled, Typed, appends, writes
<1>10. CASE TaskCancelled
  BY <1>10 DEF TaskCancelled, Typed, appends, writes
<1>11. CASE StopFlushes
  <2>1. StartWrite("stop") \/ UNCHANGED writes
    BY <1>11 DEF StopFlushes
  <2>2. /\ batch' \in [Flushers -> Seq(1..Records)]
        /\ thread' \in [Flushers -> {"off", "running", "ok", "failed"}]
        /\ wrote' \in [Flushers -> Nat]
    BY <1>0, <1>5, <2>1 DEF writes, Typed
  <2> QED
    BY <1>11, <2>2 DEF StopFlushes, Typed, appends
<1>12. CASE StopResumes
  <2>1. FinishWrite("stop")
    BY <1>12 DEF StopResumes
  <2> QED
    BY <1>0, <1>6, <1>12, <2>1 DEF StopResumes, Typed, appends
<1>13. ASSUME NEW f \in Flushers, WriteLine(f) PROVE Typed'
  <2>1. file' \in Seq(1..Records)
    BY <1>13, FileGrows
  <2> QED
    <3>1. wrote' \in [Flushers -> Nat]
      BY <1>13, SMTT(30) DEF WriteLine, Typed
    <3> QED
      BY <1>13, <2>1, <3>1 DEF WriteLine, Typed, appends
<1>14. ASSUME NEW f \in Flushers, ThreadEnds(f) \/ ThreadFails(f) PROVE Typed'
  <2>1. faults' \in 0..MaxFaults
    BY <1>14 DEF ThreadEnds, ThreadFails, Typed
  <2>2. thread' \in [Flushers -> {"off", "running", "ok", "failed"}]
    BY <1>14 DEF ThreadEnds, ThreadFails, Typed
  <2> QED
    BY <1>14, <2>1, <2>2 DEF ThreadEnds, ThreadFails, Typed, appends
<1>15. CASE UNCHANGED vars
  BY <1>15 DEF Typed, vars, appends, writes
<1> QED
  BY <1>1, <1>2, <1>3, <1>4, <1>7, <1>8, <1>9, <1>10, <1>11, <1>12, <1>13, <1>14, <1>15
     DEF Next, RecordStep, WriterStep

\* A step records, or shortens the list from the front, or leaves it.
LEMMA StepList ==
  ASSUME Typed, [Next]_vars
  PROVE  \/ \E r \in 1..Records : AppendRecord(r)
         \/ /\ made' = made
            /\ buffer' = buffer \/ \E n \in Int : buffer' = DelFront(buffer, n)
<1> DEFINE Shorter == /\ made' = made
                      /\ buffer' = buffer \/ \E n \in Int : buffer' = DelFront(buffer, n)
<1>1. ASSUME NEW r \in 1..Records, RecordStep(r) PROVE Shorter
  <2>1. overflow[r] \in Int
    BY DEF Typed
  <2> QED
    BY <1>1, <2>1 DEF RecordStep, Check, Measure, DropOldest
<1>2. ASSUME NEW f \in Flushers, FinishWrite(f), made' = made PROVE Shorter
  <2>1. Len(batch[f]) \in Int
    BY Lengths
  <2> QED
    BY <1>2, <2>1 DEF FinishWrite
<1>3. ASSUME TaskResumes \/ StopResumes PROVE Shorter
  <2>1. made' = made /\ "task" \in Flushers /\ "stop" \in Flushers
    BY <1>3 DEF TaskResumes, StopResumes, appends, Flushers
  <2> QED
    BY <1>2, <1>3, <2>1 DEF TaskResumes, StopResumes
<1>4. ASSUME \/ StopCalled \/ TaskWakes \/ TaskCancelled \/ StopFlushes \/ UNCHANGED vars
             \/ \E f \in Flushers : WriteLine(f) \/ ThreadEnds(f) \/ ThreadFails(f)
      PROVE  Shorter
  BY <1>4 DEF StopCalled, TaskWakes, TaskCancelled, StopFlushes, WriteLine, ThreadEnds,
     ThreadFails, vars, appends
<1> QED
  BY <1>1, <1>3, <1>4 DEF Next, WriterStep

LEMMA StepFile ==
  ASSUME [Next]_vars
  PROVE  file' = file \/ \E f \in Flushers : WriteLine(f)
  BY DEF Next, RecordStep, WriterStep, AppendRecord, Check, Measure, DropOldest, TaskWakes,
     TaskResumes, StopCalled, TaskCancelled, StopFlushes, StopResumes, ThreadEnds,
     ThreadFails, vars

\* A copy is of the whole list.
LEMMA StepBatch ==
  ASSUME Typed, [Next]_vars, NEW f \in Flushers
  PROVE  batch'[f] \in {batch[f], <<>>} \/ (batch'[f] = buffer /\ made' = made)
<1>1. ASSUME TaskWakes \/ StopFlushes
      PROVE  batch'[f] = batch[f] \/ (batch'[f] = buffer /\ made' = made)
  BY <1>1 DEF TaskWakes, StopFlushes, StartWrite, writes, appends, Typed
<1>2. ASSUME TaskResumes \/ StopResumes PROVE batch'[f] \in {batch[f], <<>>}
  BY <1>2 DEF TaskResumes, StopResumes, FinishWrite, Typed
<1>3. ASSUME \/ \E r \in 1..Records : AppendRecord(r) \/ RecordStep(r)
             \/ StopCalled \/ TaskCancelled \/ UNCHANGED vars
             \/ \E g \in Flushers : WriteLine(g) \/ ThreadEnds(g) \/ ThreadFails(g)
      PROVE  batch' = batch
  BY <1>3 DEF AppendRecord, RecordStep, Check, Measure, DropOldest, StopCalled,
     TaskCancelled, WriteLine, ThreadEnds, ThreadFails, vars, writes
<1> QED
  BY <1>1, <1>2, <1>3 DEF Next, WriterStep

LEMMA RecordingNext ==
  ASSUME WriterInv, [Next]_vars
  PROVE  Recording'
<1> USE DEF WriterInv
<1>1. ASSUME NEW r \in 1..Records, AppendRecord(r) PROVE Recording'
  <2>1. made' = r /\ r = made + 1 /\ rec' = [rec EXCEPT ![r] = "check"]
        /\ overflowed' = overflowed /\ made \in Nat
    BY <1>1, Lengths DEF AppendRecord
  <2> QED
    BY <2>1 DEF Recording, Typed
<1>2. ASSUME NEW r \in 1..Records, Check(r) PROVE Recording'
  BY <1>2 DEF Check, Recording, Typed
<1>3. ASSUME NEW r \in 1..Records, Measure(r) \/ DropOldest(r) PROVE Recording'
  BY <1>3 DEF Measure, DropOldest, Recording, Typed
<1>4. ASSUME StopCalled \/ WriterStep \/ UNCHANGED vars PROVE Recording'
  BY <1>4 DEF WriterStep, StopCalled, TaskWakes, TaskResumes, TaskCancelled, StopFlushes,
     StopResumes, WriteLine, ThreadEnds, ThreadFails, vars, appends, Recording
<1> QED
  BY <1>1, <1>2, <1>3, <1>4 DEF Next, RecordStep

LEMMA InOrderNext ==
  ASSUME WriterInv, [Next]_vars
  PROVE  InOrder'
<1> USE DEF WriterInv
<1>0. /\ made \in Nat /\ made' \in Nat /\ made' >= made
      /\ \A i \in 1..Len(buffer) : buffer[i] \in 1..Records
      /\ \A f \in Flushers : \A i \in 1..Len(batch[f]) : batch[f][i] \in 1..Records
      /\ \A i \in 1..Len(file) : file[i] \in 1..Records
      /\ Len(buffer) \in Nat /\ Len(file) \in Nat /\ \A f \in Flushers : Len(batch[f]) \in Nat
  <2>1. made' = made \/ made' = made + 1
    BY StepList, ListGrows
  <2> QED
    BY <2>1, Lengths
<1>1. Rising(buffer') /\ Len(buffer') <= made' /\ \A i \in 1..Len(buffer') : buffer'[i] <= made'
  <2>1. ASSUME NEW r \in 1..Records, AppendRecord(r)
        PROVE  /\ Rising(buffer') /\ Len(buffer') <= made'
               /\ \A i \in 1..Len(buffer') : buffer'[i] <= made'
    <3>1. /\ Len(buffer') = Len(buffer) + 1 /\ made' = made + 1
          /\ \A i \in 1..Len(buffer) : buffer'[i] = buffer[i]
          /\ buffer'[Len(buffer) + 1] = made + 1
      BY <2>1, ListGrows
    <3>2. \A i \in 1..Len(buffer') : i = Len(buffer) + 1 \/ i \in 1..Len(buffer)
      BY <1>0, <3>1
    <3> QED
      BY <1>0, <3>1, <3>2, SMTT(30) DEF InOrder, Rising
  <2>2. ASSUME made' = made, NEW n \in Int, buffer' = DelFront(buffer, n)
        PROVE  /\ Rising(buffer') /\ Len(buffer') <= made'
               /\ \A i \in 1..Len(buffer') : buffer'[i] <= made'
    <3> DEFINE m == Taken(buffer, n)
    <3>1. /\ m \in 0..Len(buffer) /\ Len(buffer') = Len(buffer) - m
          /\ \A i \in 1..(Len(buffer) - m) : buffer'[i] = buffer[i + m]
      BY <2>2, ListCut
    <3> HIDE DEF m
    <3>2. \A i \in 1..Len(buffer') :
            i + m \in 1..Len(buffer) /\ buffer'[i] = buffer[i + m]
            /\ buffer[i + m] \in 1..Records
      BY <1>0, <3>1
    <3>3. m \in Nat /\ Len(buffer') \in Nat
      BY <1>0, <3>1
    <3>4. ASSUME NEW i \in 1..Len(buffer'), NEW j \in 1..Len(buffer'), i < j
          PROVE  buffer'[i] < buffer'[j]
      <4>1. i + m < j + m /\ i + m \in 1..Len(buffer) /\ j + m \in 1..Len(buffer)
        BY <3>2, <3>3, <3>4
      <4> QED
        BY <3>2, <4>1 DEF InOrder, Rising
    <3>5. ASSUME NEW i \in 1..Len(buffer') PROVE i <= buffer'[i] /\ buffer'[i] <= made'
      <4>1. i + m <= buffer[i + m] /\ buffer[i + m] <= made
        BY <3>2 DEF InOrder, Rising
      <4> QED
        BY <2>2, <3>2, <3>3, <4>1
    <3>6. Len(buffer') <= made'
      BY <1>0, <2>2, <3>1, <3>3 DEF InOrder
    <3> QED
      BY <3>4, <3>5, <3>6 DEF Rising
  <2>3. ASSUME made' = made, buffer' = buffer
        PROVE  /\ Rising(buffer') /\ Len(buffer') <= made'
               /\ \A i \in 1..Len(buffer') : buffer'[i] <= made'
    BY <2>3 DEF InOrder
  <2> QED
    BY <2>1, <2>2, <2>3, StepList
<1>2. \A i \in 1..Len(file') : file'[i] <= made'
  <2>1. CASE file' = file
    BY <1>0, <2>1 DEF InOrder
  <2>2. ASSUME NEW f \in Flushers, WriteLine(f) PROVE \A i \in 1..Len(file') : file'[i] <= made'
    <3> DEFINE e == batch[f][wrote[f] + 1]
    <3>1. /\ Len(file') = Len(file) + 1 /\ \A i \in 1..Len(file) : file'[i] = file[i]
          /\ file'[Len(file) + 1] = e /\ e <= made /\ e \in 1..Records
      BY <2>2, FileGrows DEF InOrder
    <3> HIDE DEF e
    <3>2. \A i \in 1..Len(file') : i = Len(file) + 1 \/ i \in 1..Len(file)
      BY <1>0, <3>1
    <3>3. made' = made
      BY <2>2 DEF WriteLine, appends
    <3> QED
      BY <3>1, <3>2, <3>3 DEF InOrder
  <2> QED
    BY <2>1, <2>2, StepFile
<1>3. ASSUME NEW f \in Flushers
      PROVE  /\ Rising(batch'[f]) /\ Len(batch'[f]) <= made'
             /\ \A i \in 1..Len(batch'[f]) : batch'[f][i] <= made'
  <2>1. CASE batch'[f] = batch[f]
    BY <1>0, <2>1 DEF InOrder
  <2>2. CASE batch'[f] = <<>>
    <3>1. Len(batch'[f]) = 0
      BY <2>2
    <3> QED
      BY <1>0, <3>1 DEF Rising
  <2>3. CASE batch'[f] = buffer /\ made' = made
    BY <2>3 DEF InOrder
  <2> QED
    BY <2>1, <2>2, <2>3, StepBatch
<1> QED
  BY <1>1, <1>2, <1>3 DEF InOrder, Rising

LEMMA RoomNext ==
  ASSUME WriterInv, [Next]_vars
  PROVE  Room'
<1> USE DEF WriterInv
<1> DEFINE A == Appending \ Spent
           B == (Appending \ Spent)'
<1>0. /\ A \subseteq 1..Records /\ B \subseteq 1..Records
      /\ IsFiniteSet(A) /\ IsFiniteSet(B)
      /\ Cardinality(A) \in Nat /\ Cardinality(B) \in Nat
      /\ Len(buffer) \in Nat /\ MaxBuffer \in Nat /\ made \in Nat
      /\ Len(buffer) <= MaxBuffer + Cardinality(A)
  <2>1. IsFiniteSet(1..Records)
    BY Limits, FS_Interval
  <2>2. A \subseteq 1..Records /\ B \subseteq 1..Records
    BY DEF Appending
  <2> QED
    BY <2>1, <2>2, FS_Subset, FS_CardinalityType, Lengths DEF Room
<1>1. ASSUME B = A, Len(buffer') <= Len(buffer), Len(buffer') \in Nat PROVE Room'
  <2>0. Cardinality(B) = Cardinality(A)
    BY <1>1, Zenon
  <2>1. Len(buffer') <= MaxBuffer + Cardinality(B)
    BY <1>0, <1>1, <2>0
  <2> QED
    BY <2>1 DEF Room
<1>2. ASSUME buffer' = buffer, Len(buffer) <= MaxBuffer PROVE Room'
  <2>1. Len(buffer') <= MaxBuffer + Cardinality(B)
    BY <1>0, <1>2
  <2> QED
    BY <2>1 DEF Room
<1>3. ASSUME NEW r \in 1..Records, AppendRecord(r) PROVE Room'
  <2>1. /\ r = made + 1 /\ rec' = [rec EXCEPT ![r] = "check"] /\ overflow' = overflow
        /\ Len(buffer') = Len(buffer) + 1 /\ rec[r] = "new"
    BY <1>0, <1>3, ListGrows DEF AppendRecord, Recording
  <2>2. B = A \cup {r} /\ r \notin A
    BY <2>1 DEF Appending, Spent, Typed
  <2>3. Cardinality(B) = Cardinality(A) + 1
    BY <1>0, <2>2, FS_AddElement
  <2>4. Len(buffer') <= MaxBuffer + Cardinality(B)
    BY <1>0, <2>1, <2>3
  <2> QED
    BY <2>4 DEF Room
<1>4. ASSUME NEW r \in 1..Records, Check(r) PROVE Room'
  <2>1. CASE Len(buffer) > MaxBuffer
    <3>1. rec' = [rec EXCEPT ![r] = "measure"] /\ overflow' = overflow /\ buffer' = buffer
          /\ rec[r] = "check"
      BY <1>4, <2>1 DEF Check
    <3>2. B = A
      BY <3>1 DEF Appending, Spent, Typed
    <3> QED
      BY <1>0, <1>1, <3>1, <3>2
  <2>2. CASE ~(Len(buffer) > MaxBuffer)
    BY <1>0, <1>2, <1>4, <2>2 DEF Check
  <2> QED
    BY <2>1, <2>2
<1>5. ASSUME NEW r \in 1..Records, Measure(r) PROVE Room'
  <2>0. /\ rec' = [rec EXCEPT ![r] = "drop"] /\ buffer' = buffer /\ rec[r] = "measure"
        /\ overflow' = [overflow EXCEPT ![r] = Len(buffer) - MaxBuffer]
    BY <1>5 DEF Measure
  <2>1. CASE Len(buffer) > MaxBuffer
    <3>1. Len(buffer) - MaxBuffer \in Int /\ ~(Len(buffer) - MaxBuffer <= 0)
      BY <1>0, <2>1
    <3>2. B = A
      BY <2>0, <3>1 DEF Appending, Spent, Typed
    <3> QED
      BY <1>0, <1>1, <2>0, <3>2
  <2>2. CASE ~(Len(buffer) > MaxBuffer)
    BY <1>0, <1>2, <2>0, <2>2
  <2> QED
    BY <2>1, <2>2
<1>6. ASSUME NEW r \in 1..Records, DropOldest(r) PROVE Room'
  <2> DEFINE m == Taken(buffer, overflow[r])
  <2>0. /\ rec' = [rec EXCEPT ![r] = "done"] /\ rec[r] = "drop"
        /\ overflow' = [overflow EXCEPT ![r] = 0] /\ overflow[r] \in Int
        /\ m \in 0..Len(buffer) /\ Len(buffer') = Len(buffer) - m
    BY <1>6, ListCut DEF DropOldest, Typed
  <2>1. CASE overflow[r] <= 0
    <3>1. B = A
      BY <2>0, <2>1 DEF Appending, Spent, Typed
    <3>2. Len(buffer') <= Len(buffer) /\ Len(buffer') \in Nat
      BY <1>0, <2>0
    <3> QED
      BY <1>1, <3>1, <3>2
  <2>2. CASE ~(overflow[r] <= 0)
    <3>1. B = A \ {r} /\ r \in A
      BY <2>0, <2>2 DEF Appending, Spent, Typed
    <3>2. Cardinality(B) = Cardinality(A) - 1
      BY <1>0, <3>1, FS_RemoveElement
    <3>3. m >= 1 \/ Len(buffer) = 0
      BY <1>0, <2>0, <2>2 DEF Taken
    <3>4. Len(buffer') <= MaxBuffer + Cardinality(B)
      BY <1>0, <2>0, <3>2, <3>3
    <3> QED
      BY <3>4 DEF Room
  <2> QED
    BY <2>1, <2>2
<1>7. ASSUME StopCalled \/ WriterStep \/ UNCHANGED vars PROVE Room'
  <2>1. rec' = rec /\ overflow' = overflow /\ made' = made
    BY <1>7 DEF WriterStep, StopCalled, TaskWakes, TaskResumes, TaskCancelled, StopFlushes,
       StopResumes, WriteLine, ThreadEnds, ThreadFails, vars, appends
  <2>2. B = A
    BY <2>1 DEF Appending, Spent
  <2>3. Len(buffer') <= Len(buffer) /\ Len(buffer') \in Nat
    <3>1. CASE buffer' = buffer
      BY <1>0, <3>1
    <3>2. ASSUME NEW n \in Int, buffer' = DelFront(buffer, n)
          PROVE  Len(buffer') <= Len(buffer) /\ Len(buffer') \in Nat
      BY <1>0, <3>2, ListCut
    <3>3. ~ \E r \in 1..Records : AppendRecord(r)
      BY <1>0, <2>1, ListGrows
    <3> QED
      BY <3>1, <3>2, <3>3, StepList
  <2> QED
    BY <1>1, <2>2, <2>3
<1> QED
  BY <1>3, <1>4, <1>5, <1>6, <1>7 DEF Next, RecordStep

\* The file only grows.
LEMMA FileKeeps ==
  ASSUME Typed, [Next]_vars
  PROVE  ToSet(file) \subseteq ToSet(file')
  BY StepFile, FileGrows

\* What a good write deletes: its copy, or all there is.
LEMMA GoodEnd ==
  ASSUME Typed, NEW f \in Flushers, FinishWrite(f), thread[f] = "ok", NEW m,
         m = IF Len(batch[f]) <= Len(buffer) THEN Len(batch[f]) ELSE Len(buffer)
  PROVE  /\ m \in 0..Len(buffer) /\ Len(buffer') = Len(buffer) - m
         /\ \A i \in 1..(Len(buffer) - m) : buffer'[i] = buffer[i + m]
<1>1. buffer' = DelFront(buffer, Len(batch[f])) /\ Len(batch[f]) \in Int
  BY WriteEnds, Lengths
<1>2. Taken(buffer, Len(batch[f])) = m
  BY Lengths DEF Taken
<1> QED
  BY <1>1, <1>2, ListCut

LEMMA WritingNext ==
  ASSUME WriterInv, [Next]_vars
  PROVE  Writing'
<1> USE DEF WriterInv
<1>0. /\ ToSet(file) \subseteq ToSet(file') /\ "task" \in Flushers /\ "stop" \in Flushers
      /\ \A f \in Flushers : f = "task" \/ f = "stop"
      /\ \A f \in Flushers : Len(batch[f]) \in Nat /\ wrote[f] \in Nat
      /\ Len(buffer) \in Nat /\ made \in Nat /\ early \in Nat
  BY FileKeeps, Lengths DEF Flushers, Typed
<1>1. ASSUME batch' = batch, thread' = thread, wrote' = wrote, task' = task, stop' = stop,
             early' = early, made' >= made, made' \in Nat
      PROVE  Writing'
  BY <1>0, <1>1 DEF Writing, Flushing
<1>2. ASSUME NEW r \in 1..Records, AppendRecord(r) \/ RecordStep(r) PROVE Writing'
  <2>1. made' >= made /\ made' \in Nat
    BY <1>0, <1>2, ListGrows DEF RecordStep, Check, Measure, DropOldest
  <2> QED
    BY <1>1, <1>2, <2>1 DEF AppendRecord, RecordStep, Check, Measure, DropOldest, writes
<1>3. ASSUME NEW f \in Flushers, StartWrite(f)
      PROVE  \A g \in Flushers :
               /\ wrote'[g] <= Len(batch'[g])
               /\ thread'[g] = "ok" => wrote'[g] = Len(batch'[g])
               /\ \A i \in 1..wrote'[g] : batch'[g][i] \in ToSet(file')
               /\ g = f => thread'[g] # "off"
               /\ g # f => thread'[g] = thread[g]
  <2>1. ASSUME NEW g \in Flushers, g # f
        PROVE  wrote'[g] = wrote[g] /\ batch'[g] = batch[g] /\ thread'[g] = thread[g]
    BY <1>3, <2>1 DEF StartWrite, Typed
  <2>2. wrote'[f] = 0 /\ batch'[f] = buffer /\ thread'[f] = "running"
    BY <1>3 DEF StartWrite, Typed
  <2> QED
    BY <1>0, <2>1, <2>2 DEF Writing
<1>4. ASSUME NEW f \in Flushers, FinishWrite(f)
      PROVE  \A g \in Flushers :
               /\ wrote'[g] <= Len(batch'[g])
               /\ thread'[g] = "ok" => wrote'[g] = Len(batch'[g])
               /\ \A i \in 1..wrote'[g] : batch'[g][i] \in ToSet(file')
               /\ g # f => thread'[g] = thread[g]
  <2>1. ASSUME NEW g \in Flushers, g # f
        PROVE  wrote'[g] = wrote[g] /\ batch'[g] = batch[g] /\ thread'[g] = thread[g]
    BY <1>4, <2>1 DEF FinishWrite, Typed
  <2>2. wrote'[f] = 0 /\ batch'[f] = <<>> /\ thread'[f] = "off"
    BY <1>4 DEF FinishWrite, Typed
  <2>3. Len(batch'[f]) = 0
    BY <2>2
  <2> QED
    BY <1>0, <2>1, <2>2, <2>3 DEF Writing
<1>5. CASE TaskWakes
  BY <1>0, <1>3, <1>5 DEF TaskWakes, Writing, Flushing, appends
<1>6. CASE TaskResumes
  BY <1>0, <1>4, <1>6 DEF TaskResumes, Writing, Flushing, appends
<1>7. CASE StopCalled
  BY <1>0, <1>7 DEF StopCalled, Writing, Flushing, appends, writes
<1>8. CASE TaskCancelled
  BY <1>0, <1>8 DEF TaskCancelled, Writing, Flushing, appends, writes
<1>9. CASE StopFlushes
  <2>1. CASE stop' = "done" /\ UNCHANGED writes
    BY <1>0, <1>9, <2>1 DEF StopFlushes, Writing, Flushing, appends, writes
  <2>2. CASE stop' = "writing" /\ StartWrite("stop")
    BY <1>0, <1>3, <1>9, <2>2 DEF StopFlushes, Writing, Flushing, appends
  <2> QED
    BY <1>9, <2>1, <2>2 DEF StopFlushes
<1>10. CASE StopResumes
  BY <1>0, <1>4, <1>10 DEF StopResumes, Writing, Flushing, appends
<1>11. ASSUME NEW f \in Flushers, WriteLine(f) PROVE Writing'
  <2>1. /\ wrote' = [wrote EXCEPT ![f] = wrote[f] + 1] /\ batch' = batch /\ thread' = thread
        /\ task' = task /\ stop' = stop /\ early' = early /\ made' = made
        /\ thread[f] = "running"
    BY <1>11 DEF WriteLine, appends
  <2>2. wrote[f] + 1 \in 1..Len(batch[f]) /\ batch[f][wrote[f] + 1] \in ToSet(file')
    BY <1>11, FileGrows
  <2>3. ASSUME NEW g \in Flushers
        PROVE  /\ wrote'[g] <= Len(batch[g])
               /\ thread[g] = "ok" => wrote'[g] = Len(batch[g])
               /\ \A i \in 1..wrote'[g] : batch[g][i] \in ToSet(file')
    <3>1. CASE g = f
      <4>1. wrote'[g] = wrote[f] + 1
        BY <2>1, <3>1 DEF Typed
      <4>2. \A i \in 1..wrote'[g] : i = wrote[f] + 1 \/ i \in 1..wrote[f]
        BY <1>0, <4>1
      <4>3. \A i \in 1..wrote[f] : batch[f][i] \in ToSet(file')
        BY <1>0 DEF Writing
      <4>4. thread[g] # "ok" /\ wrote'[g] <= Len(batch[g])
        BY <1>0, <2>1, <2>2, <3>1, <4>1
      <4> QED
        BY <2>2, <3>1, <4>2, <4>3, <4>4
    <3>2. CASE g # f
      <4>1. wrote'[g] = wrote[g]
        BY <2>1, <3>2 DEF Typed
      <4> QED
        BY <1>0, <4>1 DEF Writing
    <3> QED
      BY <3>1, <3>2
  <2> QED
    BY <2>1, <2>3 DEF Writing, Flushing
<1>12. ASSUME NEW f \in Flushers, ThreadEnds(f) \/ ThreadFails(f) PROVE Writing'
  <2>1. /\ batch' = batch /\ wrote' = wrote /\ task' = task /\ stop' = stop
        /\ early' = early /\ made' = made
    BY <1>12 DEF ThreadEnds, ThreadFails, appends
  <2>2. \A g \in Flushers : \/ thread'[g] = thread[g]
                            \/ thread'[g] = "failed"
                            \/ thread'[g] = "ok" /\ wrote[g] = Len(batch[g])
    BY <1>12 DEF ThreadEnds, ThreadFails, Typed
  <2> QED
    BY <1>0, <2>1, <2>2 DEF Writing, Flushing
<1>13. CASE UNCHANGED vars
  BY <1>0, <1>1, <1>13 DEF vars, writes, appends
<1> QED
  BY <1>2, <1>5, <1>6, <1>7, <1>8, <1>9, <1>10, <1>11, <1>12, <1>13 DEF Next, WriterStep

LEMMA KeptNext ==
  ASSUME WriterInv, [Next]_vars
  PROVE  Kept'
<1> USE DEF WriterInv
<1>0. /\ ToSet(file) \subseteq ToSet(file') /\ "task" \in Flushers /\ "stop" \in Flushers
      /\ \A f \in Flushers : f = "task" \/ f = "stop"
      /\ \A f \in Flushers : Len(batch[f]) \in Nat
      /\ Len(buffer) \in Nat /\ made \in Nat /\ early \in Nat /\ early <= made
      /\ Len(buffer) <= made /\ overflowed \in BOOLEAN
  BY FileKeeps, Lengths DEF Flushers, InOrder, Writing, Typed
<1>1. ASSUME buffer' = buffer, made' = made, batch' = batch, ~overflowed' => ~overflowed,
             \A f \in Flushers : Flushing(f)' => Flushing(f),
             stop' \in {"writing", "done"} => stop' = stop /\ early' = early
      PROVE  Kept'
  BY <1>0, <1>1 DEF Kept, Before
<1>2. ASSUME NEW r \in 1..Records, AppendRecord(r) PROVE Kept'
  <2>1. /\ Len(buffer') = Len(buffer) + 1 /\ made' = made + 1
        /\ \A i \in 1..Len(buffer) : buffer'[i] = buffer[i]
        /\ buffer'[Len(buffer) + 1] = made + 1
    BY <1>2, ListGrows
  <2>2. /\ batch' = batch /\ task' = task /\ stop' = stop /\ overflowed' = overflowed
        /\ early' = early /\ Before' = Before
    BY <1>0, <1>2, <2>1 DEF AppendRecord, writes, Before
  <2>3. \A i \in 1..Len(buffer') : i \in 1..Len(buffer) \/ i = Len(buffer) + 1
    BY <1>0, <2>1
  <2>4. Before + (Len(buffer) + 1) = made + 1
    BY <1>0 DEF Before
  <2>5. ~overflowed => \A i \in 1..Len(buffer') : buffer'[i] = Before + i
    BY <2>1, <2>3, <2>4 DEF Kept
  <2>6. \A f \in Flushers : Len(batch[f]) <= Len(buffer) => Len(batch[f]) <= Len(buffer')
    BY <1>0, <2>1
  <2> QED
    BY <1>0, <2>2, <2>5, <2>6 DEF Kept, Flushing
<1>3. ASSUME NEW r \in 1..Records, Check(r) PROVE Kept'
  BY <1>1, <1>3 DEF Check, writes, Flushing
<1>4. ASSUME NEW r \in 1..Records, Measure(r) \/ DropOldest(r) PROVE Kept'
  BY <1>4 DEF Measure, DropOldest, Recording, Kept
\* A write that starts copies the whole list.
<1>5. ASSUME NEW f \in Flushers, StartWrite(f), buffer' = buffer, made' = made,
             overflowed' = overflowed, \A g \in Flushers : g # f => ~Flushing(g)',
             stop' = "writing" => f = "stop" /\ early' = early, stop' # "done"
      PROVE  Kept'
  <2>1. batch'[f] = buffer
    BY <1>5 DEF StartWrite, Typed
  <2>2. Before + Len(buffer) = made
    BY <1>0 DEF Before
  <2> QED
    BY <1>0, <1>5, <2>1, <2>2 DEF Kept, Before
\* A good write deletes what it has written.
<1>6. ASSUME NEW f \in Flushers, FinishWrite(f), thread[f] = "ok", Flushing(f),
             made' = made, overflowed' = overflowed, \A g \in Flushers : ~Flushing(g)',
             stop' # "writing", stop' = "done" => f = "stop" /\ early' = early
      PROVE  Kept'
  <2> SUFFICES ASSUME ~overflowed' PROVE Kept'
    BY DEF Kept
  <2> DEFINE m == Len(batch[f])
  <2>1. /\ m \in Nat /\ m <= Len(buffer) /\ \A i \in 1..m : batch[f][i] = Before + i
        /\ \A i \in 1..Len(buffer) : buffer[i] = Before + i
        /\ \A r \in 1..Before : r \in ToSet(file)
        /\ stop = "writing" => early <= Before + Len(batch["stop"])
    BY <1>0, <1>6 DEF Kept
  <2>2. /\ Len(buffer') = Len(buffer) - m
        /\ \A i \in 1..(Len(buffer) - m) : buffer'[i] = buffer[i + m]
    <3>1. m = IF Len(batch[f]) <= Len(buffer) THEN Len(batch[f]) ELSE Len(buffer)
      BY <2>1
    <3> QED
      BY <1>6, <3>1, GoodEnd
  <2>3. \A i \in 1..m : batch[f][i] \in ToSet(file)
    BY <1>6 DEF Writing
  <2> HIDE DEF m
  <2>4. Before' = Before + m /\ Before \in Nat
    BY <1>0, <1>6, <2>1, <2>2 DEF Before
  <2>5. ASSUME NEW i \in 1..Len(buffer') PROVE buffer'[i] = Before' + i
    <3>1. i + m \in 1..Len(buffer) /\ i \in 1..(Len(buffer) - m)
      BY <1>0, <2>1, <2>2
    <3>2. buffer'[i] = Before + (i + m)
      BY <2>1, <2>2, <3>1
    <3> QED
      BY <2>1, <2>4, <3>1, <3>2
  <2>6. ASSUME NEW r \in 1..Before' PROVE r \in ToSet(file')
    <3>1. CASE r \in 1..Before
      BY <1>0, <2>1, <3>1
    <3>2. CASE ~(r \in 1..Before)
      <4>1. r - Before \in 1..m /\ Before + (r - Before) = r
        BY <2>1, <2>4, <3>2
      <4>2. batch[f][r - Before] = r
        BY <2>1, <4>1
      <4> QED
        BY <1>0, <2>3, <4>1, <4>2
    <3> QED
      BY <3>1, <3>2
  <2>7. ASSUME stop' = "done" PROVE early' <= Before'
    <3>1. f = "stop" /\ stop = "writing" /\ early' = early
      BY <1>6, <2>7 DEF Flushing
    <3> QED
      BY <2>1, <2>4, <3>1 DEF m
  <2> QED
    BY <1>6, <2>5, <2>6, <2>7 DEF Kept
<1>7. CASE TaskWakes
  <2>1. StartWrite("task") /\ buffer' = buffer /\ made' = made /\ overflowed' = overflowed
        /\ stop' = "no" /\ ~Flushing("stop")'
    BY <1>7 DEF TaskWakes, appends, Flushing
  <2> QED
    BY <1>0, <1>5, <2>1
<1>8. CASE TaskResumes
  <2>1. /\ FinishWrite("task") /\ made' = made /\ overflowed' = overflowed /\ stop' = "no"
        /\ Flushing("task") /\ \A g \in Flushers : ~Flushing(g)'
    BY <1>8 DEF TaskResumes, appends, Flushing
  <2>2. CASE thread["task"] = "ok"
    BY <1>0, <1>6, <2>1, <2>2
  <2>3. CASE thread["task"] # "ok"
    <3>1. buffer' = buffer
      BY <1>0, <2>1, <2>3, WriteEnds
    <3> QED
      BY <1>0, <2>1, <3>1 DEF Kept, Before
  <2> QED
    BY <2>2, <2>3
<1>9. CASE StopCalled
  BY <1>1, <1>9 DEF StopCalled, appends, writes, Flushing
<1>10. CASE TaskCancelled
  BY <1>1, <1>10 DEF TaskCancelled, appends, writes, Flushing
<1>11. CASE StopFlushes
  <2>0. /\ buffer' = buffer /\ made' = made /\ overflowed' = overflowed /\ early' = early
        /\ ~Flushing("task")'
    BY <1>11 DEF StopFlushes, appends, Flushing
  <2>1. CASE buffer = <<>> /\ stop' = "done"
    <3>1. Before = made /\ Before' = Before
      BY <1>0, <2>0, <2>1 DEF Before
    <3>2. \A f \in Flushers : ~Flushing(f)'
      BY <1>0, <2>0, <2>1 DEF Flushing
    <3> QED
      BY <1>0, <2>0, <2>1, <3>1, <3>2 DEF Kept
  <2>2. CASE stop' = "writing" /\ StartWrite("stop")
    BY <1>0, <1>5, <2>0, <2>2
  <2> QED
    BY <1>11, <2>1, <2>2 DEF StopFlushes
<1>12. CASE StopResumes
  <2>1. /\ FinishWrite("stop") /\ made' = made /\ overflowed' = overflowed /\ early' = early
        /\ Flushing("stop") /\ \A g \in Flushers : ~Flushing(g)'
        /\ stop' = IF thread["stop"] = "ok" THEN "done" ELSE "failed"
    <3>1. task = "ended" /\ task' = task
      BY <1>12 DEF StopResumes, Writing
    <3> QED
      BY <1>12, <3>1 DEF StopResumes, appends, Flushing
  <2>2. CASE thread["stop"] = "ok"
    BY <1>0, <1>6, <2>1, <2>2
  <2>3. CASE thread["stop"] # "ok"
    <3>1. buffer' = buffer /\ stop' = "failed"
      BY <1>0, <2>1, <2>3, WriteEnds
    <3> QED
      BY <1>0, <2>1, <3>1 DEF Kept, Before
  <2> QED
    BY <2>2, <2>3
<1>13. ASSUME NEW f \in Flushers, WriteLine(f) \/ ThreadEnds(f) \/ ThreadFails(f)
       PROVE  Kept'
  BY <1>1, <1>13 DEF WriteLine, ThreadEnds, ThreadFails, appends, Flushing
<1>14. CASE UNCHANGED vars
  BY <1>1, <1>14 DEF vars, writes, appends, Flushing
<1> QED
  BY <1>2, <1>3, <1>4, <1>7, <1>8, <1>9, <1>10, <1>11, <1>12, <1>13, <1>14
     DEF Next, RecordStep, WriterStep

LEMMA SortedNext ==
  ASSUME WriterInv, [Next]_vars
  PROVE  Sorted'
<1> USE DEF WriterInv
<1>0. /\ "task" \in Flushers /\ "stop" \in Flushers
      /\ \A f \in Flushers : f = "task" \/ f = "stop"
      /\ \A f \in Flushers : Len(batch[f]) \in Nat /\ wrote[f] \in Nat
      /\ \A f \in Flushers : \A i \in 1..Len(batch[f]) : batch[f][i] \in 1..Records
      /\ \A i \in 1..Len(file) : file[i] \in 1..Records
      /\ \A i \in 1..Len(buffer) : buffer[i] \in 1..Records
      /\ Len(file) \in Nat /\ Len(buffer) \in Nat /\ made \in Nat /\ repeated \in BOOLEAN
  BY Lengths DEF Flushers, Typed
<1>1. ASSUME buffer' = buffer, batch' = batch, wrote' = wrote, file' = file,
             ~repeated' => ~repeated,
             ~repeated' => \A f \in Flushers :
               (Flushing(f)' <=> Flushing(f)) /\ (~Flushing(f) => thread'[f] = thread[f])
      PROVE  Sorted'
  BY <1>1 DEF Sorted
<1>2. ASSUME NEW r \in 1..Records, AppendRecord(r) PROVE Sorted'
  <2>1. /\ Len(buffer') = Len(buffer) + 1
        /\ \A i \in 1..Len(buffer) : buffer'[i] = buffer[i]
        /\ buffer'[Len(buffer) + 1] = made + 1
    BY <1>2, ListGrows
  <2>2. /\ batch' = batch /\ task' = task /\ stop' = stop /\ repeated' = repeated
        /\ file' = file /\ thread' = thread /\ wrote' = wrote
    BY <1>2 DEF AppendRecord, writes
  <2>3. \A j \in 1..Len(buffer') : j \in 1..Len(buffer) \/ j = Len(buffer) + 1
    BY <1>0, <2>1
  <2>4. \A i \in 1..Len(file) : file[i] < made + 1
    BY <1>0 DEF InOrder
  <2>5. \A f \in Flushers : \A i \in 1..Len(batch[f]) : batch[f][i] < made + 1
    BY <1>0 DEF InOrder
  <2> QED
    BY <2>1, <2>2, <2>3, <2>4, <2>5 DEF Sorted, Flushing
<1>3. ASSUME NEW r \in 1..Records, Check(r) \/ Measure(r) PROVE Sorted'
  BY <1>1, <1>3 DEF Check, Measure, writes, Flushing
<1>4. ASSUME NEW r \in 1..Records, DropOldest(r) PROVE Sorted'
  <2> DEFINE m == Taken(buffer, overflow[r])
  <2>1. /\ m \in 0..Len(buffer) /\ Len(buffer') = Len(buffer) - m
        /\ \A i \in 1..(Len(buffer) - m) : buffer'[i] = buffer[i + m]
    BY <1>4, ListCut DEF DropOldest, Typed
  <2>2. /\ batch' = batch /\ task' = task /\ stop' = stop /\ repeated' = repeated
        /\ file' = file /\ thread' = thread /\ wrote' = wrote
    BY <1>4 DEF DropOldest, writes
  <2> HIDE DEF m
  <2>3. \A j \in 1..Len(buffer') :
          j + m \in 1..Len(buffer) /\ j + m >= j /\ buffer'[j] = buffer[j + m]
    BY <1>0, <2>1
  <2>4. ASSUME ~repeated, \A f \in Flushers : ~Flushing(f),
               NEW i \in 1..Len(file), NEW j \in 1..Len(buffer')
        PROVE  file[i] < buffer'[j]
    BY <2>3, <2>4 DEF Sorted
  <2>5. ASSUME ~repeated, NEW f \in Flushers, Flushing(f), NEW j \in 1..Len(buffer'),
               j > Len(batch[f])
        PROVE  /\ \A i \in 1..Len(file) : file[i] < buffer'[j]
               /\ \A i \in 1..Len(batch[f]) : batch[f][i] < buffer'[j]
    <3>1. j + m > Len(batch[f])
      BY <1>0, <2>1, <2>5
    <3> QED
      BY <2>3, <2>5, <3>1 DEF Sorted
  <2> QED
    BY <2>2, <2>4, <2>5 DEF Sorted, Flushing
\* A write that starts is the only one, of what is all behind the file.
<1>5. ASSUME NEW f \in Flushers, StartWrite(f), buffer' = buffer, file' = file,
             repeated' = repeated, \A g \in Flushers : ~Flushing(g), Flushing(f)',
             \A g \in Flushers : g # f => ~Flushing(g)'
      PROVE  Sorted'
  <2>1. batch'[f] = buffer /\ \A g \in Flushers : g # f => thread'[g] = thread[g]
    BY <1>5 DEF StartWrite, Typed
  <2>2. \A j \in 1..Len(buffer) : ~(j > Len(buffer))
    BY <1>0
  <2> QED
    BY <1>0, <1>5, <2>1, <2>2 DEF Sorted
\* What a good write leaves in the list is behind what it has written.
<1>6. ASSUME NEW f \in Flushers, FinishWrite(f), thread[f] \in {"ok", "failed"}, Flushing(f),
             file' = file, \A g \in Flushers : ~Flushing(g)',
             \A g \in Flushers : g # f => ~Flushing(g)
      PROVE  Sorted'
  <2> SUFFICES ASSUME ~repeated' PROVE Sorted'
    BY DEF Sorted
  <2>1. thread[f] = "ok" /\ ~repeated
    BY <1>6, WriteEnds
  <2> DEFINE m == IF Len(batch[f]) <= Len(buffer) THEN Len(batch[f]) ELSE Len(buffer)
  <2>2. /\ m \in 0..Len(buffer) /\ Len(buffer') = Len(buffer) - m
        /\ \A i \in 1..(Len(buffer) - m) : buffer'[i] = buffer[i + m]
    BY <1>6, <2>1, GoodEnd
  <2>3. \A j \in 1..Len(buffer') :
          j + m \in 1..Len(buffer) /\ j + m > Len(batch[f]) /\ buffer'[j] = buffer[j + m]
    <3>1. Len(batch[f]) \in Nat
      BY <1>0
    <3>2. m = Len(batch[f]) \/ m = Len(buffer)
      OBVIOUS
    <3> HIDE DEF m
    <3> SUFFICES ASSUME NEW j \in 1..Len(buffer')
                 PROVE  /\ j + m \in 1..Len(buffer) /\ j + m > Len(batch[f])
                        /\ buffer'[j] = buffer[j + m]
      OBVIOUS
    <3>3. j \in 1..(Len(buffer) - m) /\ m \in Nat
      BY <1>0, <2>2
    <3>4. m = Len(batch[f])
      BY <1>0, <3>2, <3>3
    <3>5. buffer'[j] = buffer[j + m]
      BY <2>2, <3>3
    <3>6. j + m \in 1..Len(buffer)
      <4>1. Len(buffer) \in Nat
        BY <1>0
      <4> QED
        BY <3>3, <4>1
    <3>7. j + m > Len(batch[f])
      BY <3>1, <3>3, <3>4
    <3> QED
      BY <3>5, <3>6, <3>7
  <2>4. \A i \in 1..Len(file), j \in 1..Len(buffer') : file[i] < buffer'[j]
    BY <1>6, <2>1, <2>3 DEF Sorted
  <2>5. \A g \in Flushers : thread'[g] = "off"
    BY <1>6, <2>1 DEF FinishWrite, Typed, Sorted
  <2>6. \A i, j \in 1..Len(file) : i < j => file[i] < file[j]
    BY <2>1 DEF Sorted
  <2> QED
    BY <1>6, <2>4, <2>5, <2>6 DEF Sorted
<1>7. CASE TaskWakes
  <2>1. /\ StartWrite("task") /\ buffer' = buffer /\ file' = file /\ repeated' = repeated
        /\ \A g \in Flushers : ~Flushing(g)
        /\ Flushing("task")' /\ ~Flushing("stop")'
    BY <1>7 DEF TaskWakes, Flushing
  <2> QED
    BY <1>0, <1>5, <2>1
<1>8. CASE TaskResumes
  <2>1. /\ FinishWrite("task") /\ thread["task"] \in {"ok", "failed"} /\ file' = file
        /\ Flushing("task") /\ ~Flushing("stop") /\ \A g \in Flushers : ~Flushing(g)'
    BY <1>8 DEF TaskResumes, Flushing
  <2> QED
    BY <1>0, <1>6, <2>1
<1>9. CASE StopCalled
  BY <1>1, <1>9 DEF StopCalled, writes, Flushing
<1>10. CASE TaskCancelled
  <2>1. /\ buffer' = buffer /\ batch' = batch /\ wrote' = wrote /\ file' = file
        /\ thread' = thread /\ task' = "ended" /\ stop' = stop
        /\ repeated' = (repeated \/ task = "writing")
    BY <1>10 DEF TaskCancelled, writes
  <2>2. ~repeated' => ~repeated /\ task # "writing"
    BY <2>1
  <2> QED
    BY <1>1, <2>1, <2>2 DEF Flushing
<1>11. CASE StopFlushes
  <2>0. /\ buffer' = buffer /\ file' = file /\ repeated' = repeated /\ task' = task
        /\ \A g \in Flushers : ~Flushing(g)
        /\ ~Flushing("task")'
    BY <1>11 DEF StopFlushes, Flushing
  <2>1. CASE stop' = "done" /\ UNCHANGED writes
    BY <1>1, <2>0, <2>1 DEF writes, Flushing
  <2>2. CASE stop' = "writing" /\ StartWrite("stop")
    <3>1. Flushing("stop")'
      BY <2>2 DEF Flushing
    <3> QED
      BY <1>0, <1>5, <2>0, <2>2, <3>1
  <2> QED
    BY <1>11, <2>1, <2>2 DEF StopFlushes
<1>12. CASE StopResumes
  <2>1. task = "ended" /\ task' = task
    BY <1>12 DEF StopResumes, Writing
  <2>2. /\ FinishWrite("stop") /\ thread["stop"] \in {"ok", "failed"} /\ file' = file
        /\ Flushing("stop") /\ ~Flushing("task") /\ \A g \in Flushers : ~Flushing(g)'
    BY <1>12, <2>1 DEF StopResumes, Flushing
  <2> QED
    BY <1>0, <1>6, <2>2
<1>13. ASSUME NEW f \in Flushers, WriteLine(f) PROVE Sorted'
  <2> SUFFICES ASSUME ~repeated PROVE Sorted'
    BY <1>13 DEF WriteLine, Sorted
  <2> DEFINE e == batch[f][wrote[f] + 1]
  <2>1. /\ wrote' = [wrote EXCEPT ![f] = wrote[f] + 1] /\ batch' = batch /\ thread' = thread
        /\ task' = task /\ stop' = stop /\ repeated' = repeated /\ buffer' = buffer
        /\ thread[f] = "running"
    BY <1>13 DEF WriteLine
  <2>2. /\ wrote[f] + 1 \in 1..Len(batch[f]) /\ e \in 1..Records
        /\ Len(file') = Len(file) + 1 /\ \A i \in 1..Len(file) : file'[i] = file[i]
        /\ file'[Len(file) + 1] = e
    BY <1>13, FileGrows
  <2>3. Flushing(f) /\ \A g \in Flushers : Flushing(g) => g = f
    <3>1. Flushing(f)
      BY <2>1 DEF Sorted
    <3> QED
      BY <1>0, <3>1 DEF Flushing, Writing
  <2>4. /\ \A i \in 1..Len(file) : file[i] < e
        /\ \A j \in 1..Len(batch[f]) : j > wrote[f] + 1 => e < batch[f][j]
        /\ \A j \in 1..Len(buffer) : j > Len(batch[f]) => e < buffer[j]
    <3>1. wrote[f] + 1 > wrote[f] /\ wrote[f] + 1 \in 1..Len(batch[f])
      BY <1>0, <2>2
    <3> QED
      BY <2>3, <3>1 DEF Sorted, InOrder, Rising
  <2> HIDE DEF e
  <2>5. \A i \in 1..Len(file') : i \in 1..Len(file) \/ i = Len(file) + 1
    BY <1>0, <2>2
  <2>6. wrote'[f] = wrote[f] + 1
    BY <2>1 DEF Typed
  <2>7. \A i, j \in 1..Len(file') : i < j => file'[i] < file'[j]
    <3> SUFFICES ASSUME NEW i \in 1..Len(file'), NEW j \in 1..Len(file'), i < j
                 PROVE  file'[i] < file'[j]
      OBVIOUS
    <3>1. i \in 1..Len(file)
      BY <1>0, <2>2
    <3> QED
      BY <2>2, <2>4, <2>5, <3>1 DEF Sorted
  <2>8. \A i \in 1..Len(file'), j \in 1..Len(batch[f]) :
          j > wrote'[f] => file'[i] < batch[f][j]
    <3> SUFFICES ASSUME NEW i \in 1..Len(file'), NEW j \in 1..Len(batch[f]), j > wrote'[f]
                 PROVE  file'[i] < batch[f][j]
      OBVIOUS
    <3>1. j > wrote[f] + 1 /\ j > wrote[f]
      BY <1>0, <2>6
    <3> QED
      BY <2>2, <2>3, <2>4, <2>5, <3>1 DEF Sorted
  <2>9. \A i \in 1..Len(file'), j \in 1..Len(buffer) :
          j > Len(batch[f]) => file'[i] < buffer[j]
    BY <2>2, <2>3, <2>4, <2>5 DEF Sorted
  <2>10. \A g \in Flushers : Flushing(g)' <=> Flushing(g)
    BY <2>1 DEF Flushing
  <2> QED
    BY <2>1, <2>3, <2>7, <2>8, <2>9, <2>10 DEF Sorted
<1>14. ASSUME NEW f \in Flushers, ThreadEnds(f) \/ ThreadFails(f) PROVE Sorted'
  <2>1. /\ buffer' = buffer /\ batch' = batch /\ wrote' = wrote /\ file' = file
        /\ repeated' = repeated /\ task' = task /\ stop' = stop /\ thread[f] = "running"
        /\ \A g \in Flushers : g # f => thread'[g] = thread[g]
    BY <1>14 DEF ThreadEnds, ThreadFails, Typed
  <2>2. ~repeated => Flushing(f)
    BY <2>1 DEF Sorted
  <2> QED
    BY <1>1, <2>1, <2>2 DEF Flushing
<1>15. CASE UNCHANGED vars
  BY <1>1, <1>15 DEF vars, writes, Flushing
<1> QED
  BY <1>2, <1>3, <1>4, <1>7, <1>8, <1>9, <1>10, <1>11, <1>12, <1>13, <1>14, <1>15
     DEF Next, RecordStep, WriterStep
-----------------------------------------------------------------------------
(***************************************************************************)
(* The theorems                                                            *)
(***************************************************************************)

LEMMA InitWriter == Init => WriterInv
<1> SUFFICES ASSUME Init PROVE WriterInv
  OBVIOUS
<1>0. <<>> \in Seq(1..Records) /\ Len(<<>>) = 0 /\ (\A i \in 1..0 : FALSE)
      /\ Records \in Nat /\ MaxBuffer \in Nat /\ MaxFaults \in Nat
  BY Limits
<1>1. Typed
  <2>1. batch \in [Flushers -> Seq(1..Records)]
    BY <1>0 DEF Init
  <2>2. /\ made \in 0..Records /\ faults \in 0..MaxFaults /\ early \in 0..Records
        /\ overflow \in [1..Records -> Int] /\ wrote \in [Flushers -> Nat]
    BY <1>0 DEF Init
  <2> QED
    BY <1>0, <2>1, <2>2 DEF Init, Typed
<1>2. Room
  <2>1. Appending \ Spent = {}
    BY DEF Init, Appending
  <2>2. Cardinality(Appending \ Spent) = 0
    BY <2>1, FS_EmptySet
  <2>3. Len(buffer) = 0
    BY DEF Init
  <2> QED
    BY <1>0, <2>2, <2>3 DEF Room
<1>3. Recording
  BY DEF Init, Recording
<1>4. \A f \in Flushers : batch[f] = <<>> /\ thread[f] = "off" /\ wrote[f] = 0 /\ ~Flushing(f)
  BY DEF Init, Flushing
<1>5. InOrder
  BY <1>0, <1>4 DEF Init, InOrder, Rising
<1>6. Writing
  BY <1>0, <1>4 DEF Init, Writing
<1>7. Kept
  BY <1>0, <1>4 DEF Init, Kept, Before
<1>8. Sorted
  BY <1>0, <1>4 DEF Init, Sorted
<1> QED
  BY <1>1, <1>2, <1>3, <1>5, <1>6, <1>7, <1>8 DEF WriterInv

\* The inductive invariant holds in every reachable state.
THEOREM WriterInvCorrect == Spec => []WriterInv
<1>1. ASSUME WriterInv, [Next]_vars PROVE WriterInv'
  BY <1>1, TypedNext, RoomNext, RecordingNext, InOrderNext, WritingNext, KeptNext, SortedNext
     DEF WriterInv
<1> QED
  BY <1>1, InitWriter, PTL DEF Spec

\* The type invariant and the limit of the list: however threads that record and
\* flushes interleave, it is exceeded by no more than the records being appended.
THEOREM TypeCorrect == Spec => []TypeOK
<1>1. ASSUME WriterInv PROVE TypeOK
  <2> USE <1>1 DEF WriterInv
  <2>1. IsFiniteSet(Appending) /\ Cardinality(Appending \ Spent) <= Cardinality(Appending)
    <3>1. IsFiniteSet(1..Records)
      BY Limits, FS_Interval
    <3>2. Appending \subseteq 1..Records /\ (Appending \ Spent) \subseteq Appending
      BY DEF Appending
    <3> QED
      BY <3>1, <3>2, FS_Subset
  <2>2. /\ Cardinality(Appending) \in Nat /\ Cardinality(Appending \ Spent) \in Nat
    <3>1. IsFiniteSet(Appending \ Spent)
      BY <2>1, FS_Subset
    <3> QED
      BY <2>1, <3>1, FS_CardinalityType
  <2>3. Len(buffer) <= MaxBuffer + Cardinality(Appending)
    BY <2>1, <2>2, Lengths DEF Room
  <2>4. ASSUME NEW f \in Flushers PROVE wrote[f] \in 0..Records
    BY Lengths DEF Writing, InOrder, Typed
  <2>5. wrote \in [Flushers -> 0..Records]
    BY <2>4 DEF Typed
  <2> QED
    BY <2>3, <2>5 DEF Typed, TypeOK
<1> QED
  BY <1>1, WriterInvCorrect, PTL

\* Until the list overflows no record is lost: what has left it is in the file.
THEOREM KeptCorrect == Spec => []KeptUnlessOverflow
<1>1. ASSUME WriterInv PROVE KeptUnlessOverflow
  <2> USE <1>1 DEF WriterInv
  <2> SUFFICES ASSUME ~overflowed, NEW r \in 1..made
               PROVE  r \in ToSet(buffer) \cup ToSet(file)
    BY DEF KeptUnlessOverflow
  <2>1. /\ Len(buffer) \in Nat /\ made \in Nat /\ Len(buffer) <= made
        /\ DOMAIN buffer = 1..Len(buffer)
    BY Lengths DEF InOrder, Typed
  <2>2. CASE r \in 1..Before
    BY <2>2 DEF Kept
  <2>3. CASE ~(r \in 1..Before)
    <3>1. r - Before \in 1..Len(buffer) /\ Before + (r - Before) = r
      BY <2>1, <2>3 DEF Before
    <3>2. buffer[r - Before] = r
      BY <3>1 DEF Kept
    <3> QED
      BY <2>1, <3>1, <3>2 DEF ToSet
  <2> QED
    BY <2>2, <2>3
<1> QED
  BY <1>1, WriterInvCorrect, PTL

\* Without a failed or cancelled write the file has each record once, in the order
\* of recording, even if the list overflows during a write.
THEOREM OnceInOrderCorrect == Spec => []OnceInOrder
<1>1. ASSUME WriterInv PROVE OnceInOrder
  <2>1. DOMAIN file = 1..Len(file)
    BY <1>1 DEF WriterInv, Typed
  <2> QED
    BY <1>1, <2>1 DEF WriterInv, Sorted, OnceInOrder
<1> QED
  BY <1>1, WriterInvCorrect, PTL

\* What was recorded before stop() is in the file when stop() has come back well.
THEOREM StopWritesCorrect == Spec => []StopWritesAll
<1>1. ASSUME WriterInv PROVE StopWritesAll
  <2> USE <1>1 DEF WriterInv
  <2> SUFFICES ASSUME stop = "done", ~overflowed, NEW r \in 1..early PROVE r \in ToSet(file)
    BY DEF StopWritesAll
  <2>1. early <= Before /\ early \in Nat /\ Before \in Int
    BY Lengths DEF Kept, Before
  <2>2. r \in 1..Before
    BY <2>1
  <2> QED
    BY <2>2 DEF Kept
<1> QED
  BY <1>1, WriterInvCorrect, PTL
-----------------------------------------------------------------------------
(***************************************************************************)
(* The file implements the log                                             *)
(***************************************************************************)

\* The copies once they are no longer the front of the list: without an overflow they
\* are records in a row, none of which is missing before them, and what the cancelled
\* task was writing had been recorded when stop() was called.
Whole ==
  /\ ~overflowed => \A f \in Flushers : \A i \in 1..Len(batch[f]) :
       batch[f][i] = batch[f][1] + (i - 1) /\ batch[f][1] <= Before + 1
  /\ stop # "no" => \A i \in 1..Len(batch["task"]) : batch["task"][i] <= early
  /\ stop # "writing" => thread["stop"] = "off"

\* Records leave the list, and never come back.
LEMMA BeforeGrows ==
  ASSUME Typed, [Next]_vars
  PROVE  Before' >= Before /\ (overflowed => overflowed')
<1>1. Before' >= Before
  <2>1. Len(buffer) \in Nat /\ made \in Nat
    BY Lengths
  <2>2. ASSUME NEW r \in 1..Records, AppendRecord(r) PROVE Before' >= Before
    BY <2>1, <2>2, ListGrows DEF Before
  <2>3. ASSUME made' = made, NEW n \in Int, buffer' = DelFront(buffer, n)
        PROVE  Before' >= Before
    <3>1. Taken(buffer, n) \in 0..Len(buffer) /\ Len(buffer') = Len(buffer) - Taken(buffer, n)
      BY <2>3, ListCut
    <3> QED
      BY <2>1, <2>3, <3>1 DEF Before
  <2>4. ASSUME made' = made, buffer' = buffer PROVE Before' >= Before
    BY <2>1, <2>4 DEF Before
  <2> QED
    BY <2>2, <2>3, <2>4, StepList
<1>2. overflowed => overflowed'
  BY DEF Next, RecordStep, WriterStep, AppendRecord, Check, Measure, DropOldest, TaskWakes,
     TaskResumes, StopCalled, TaskCancelled, StopFlushes, StopResumes, WriteLine, ThreadEnds,
     ThreadFails, vars, appends
<1> QED
  BY <1>1, <1>2

\* After stop() is called the task copies nothing more.
LEMMA StopEnds ==
  ASSUME Typed, [Next]_vars
  PROVE  /\ stop = "no" /\ stop' # "no" => early' = made /\ batch' = batch
         /\ stop # "no" => /\ stop' # "no" /\ early' = early
                           /\ batch'["task"] = batch["task"]
         /\ stop' # "writing" => thread'["stop"] = "off" \/ (stop # "writing"
                                                             /\ thread["stop"] # "off")
<1> DEFINE Goal ==
         /\ stop = "no" /\ stop' # "no" => early' = made /\ batch' = batch
         /\ stop # "no" => /\ stop' # "no" /\ early' = early
                           /\ batch'["task"] = batch["task"]
         /\ stop' # "writing" => thread'["stop"] = "off" \/ (stop # "writing"
                                                             /\ thread["stop"] # "off")
<1>0. "task" \in Flushers /\ "stop" \in Flushers
  BY DEF Flushers
<1>1. ASSUME \/ \E r \in 1..Records : AppendRecord(r) \/ RecordStep(r)
             \/ StopCalled \/ TaskCancelled \/ UNCHANGED vars
      PROVE  Goal
  BY <1>1 DEF AppendRecord, RecordStep, Check, Measure, DropOldest, StopCalled,
     TaskCancelled, vars, writes
<1>2. CASE TaskWakes
  BY <1>0, <1>2 DEF TaskWakes, StartWrite, Typed
<1>3. CASE TaskResumes
  BY <1>0, <1>3 DEF TaskResumes, FinishWrite, Typed
<1>4. CASE StopFlushes
  BY <1>0, <1>4 DEF StopFlushes, StartWrite, writes, Typed
<1>5. CASE StopResumes
  BY <1>0, <1>5 DEF StopResumes, FinishWrite, Typed
<1>6. ASSUME NEW f \in Flushers, WriteLine(f) \/ ThreadEnds(f) \/ ThreadFails(f)
      PROVE  Goal
  <2>1. /\ stop' = stop /\ early' = early /\ batch' = batch
        /\ thread' = thread \/ (thread[f] = "running"
                                /\ \A g \in Flushers : g # f => thread'[g] = thread[g])
    BY <1>6 DEF WriteLine, ThreadEnds, ThreadFails, Typed
  <2> QED
    BY <1>0, <2>1
<1> QED
  BY <1>1, <1>2, <1>3, <1>4, <1>5, <1>6 DEF Next, WriterStep

LEMMA WholeNext ==
  ASSUME WriterInv, Whole, [Next]_vars
  PROVE  Whole'
<1> USE DEF WriterInv
<1>0. /\ Len(buffer) \in Nat /\ made \in Nat /\ Before \in Int /\ Before' >= Before
      /\ overflowed => overflowed'
      /\ \A f \in Flushers : Len(batch[f]) \in Nat
      /\ \A f \in Flushers : \A i \in 1..Len(batch[f]) : batch[f][i] \in 1..Records
      /\ "task" \in Flushers /\ "stop" \in Flushers /\ Before' \in Int
  <2>1. buffer' \in Seq(1..Records) /\ made' \in 0..Records
    BY TypedNext DEF Typed
  <2>2. Len(buffer') \in Nat /\ made' \in Nat
    BY <2>1, Element, Limits
  <2> QED
    BY <2>2, Lengths, BeforeGrows DEF Before, Flushers
<1>1. ASSUME ~overflowed', NEW f \in Flushers, NEW i \in 1..Len(batch'[f])
      PROVE  batch'[f][i] = batch'[f][1] + (i - 1) /\ batch'[f][1] <= Before' + 1
  <2>1. CASE batch'[f] = batch[f]
    <3>1. i \in 1..Len(batch[f]) /\ 1 \in 1..Len(batch[f])
      BY <1>0, <2>1
    <3>2. batch[f][i] = batch[f][1] + (i - 1) /\ batch[f][1] <= Before + 1
      BY <1>0, <1>1, <3>1 DEF Whole
    <3>3. batch[f][1] \in 1..Records
      BY <1>0, <3>1
    <3>4. batch[f][1] <= Before' + 1
      BY <1>0, <3>2, <3>3
    <3> QED
      BY <2>1, <3>2, <3>4
  <2>2. CASE batch'[f] = <<>>
    BY <2>2
  <2>3. CASE batch'[f] = buffer /\ made' = made
    <3>1. i \in 1..Len(buffer) /\ 1 \in 1..Len(buffer)
      BY <1>0, <2>3
    <3>2. buffer[i] = Before + i /\ buffer[1] = Before + 1
      BY <1>0, <1>1, <3>1 DEF Kept
    <3> QED
      BY <1>0, <2>3, <3>1, <3>2
  <2> QED
    BY <2>1, <2>2, <2>3, StepBatch
<1>2. ASSUME stop' # "no", NEW i \in 1..Len(batch'["task"])
      PROVE  batch'["task"][i] <= early'
  <2>1. CASE stop = "no"
    BY <1>0, <1>2, <2>1, StopEnds DEF InOrder
  <2>2. CASE stop # "no"
    BY <1>2, <2>2, StopEnds DEF Whole
  <2> QED
    BY <2>1, <2>2
<1>3. stop' # "writing" => thread'["stop"] = "off"
  BY StopEnds DEF Whole
<1> QED
  BY <1>1, <1>2, <1>3 DEF Whole

LEMMA InitWhole == Init => Whole
  BY DEF Init, Whole, Flushers

Called(s) == IF s \in {"cancelling", "writing"} THEN "called" ELSE s

\* A step that leaves alone what the log is made of.
Unlogged == UNCHANGED <<made, file, Called(stop), early, overflowed, repeated>>

\* The next line of a write is a record that has been made; unless something went wrong
\* it comes after all that are in the file and misses out none.
LEMMA LineWritten ==
  ASSUME WriterInv, Whole, NEW f \in Flushers, WriteLine(f)
  PROVE  Log!Write
<1> USE DEF WriterInv
<1> DEFINE r == batch[f][wrote[f] + 1]
<1>0. /\ wrote[f] + 1 \in 1..Len(batch[f]) /\ r \in 1..Records /\ wrote[f] \in Nat
      /\ Len(batch[f]) \in Nat /\ made \in Nat /\ Len(buffer) \in Nat /\ early \in Nat
      /\ \A i \in 1..Len(batch[f]) : batch[f][i] \in 1..Records
      /\ DOMAIN file = 1..Len(file)
  <2>1. wrote[f] + 1 \in 1..Len(batch[f]) /\ r \in 1..Records
    BY FileGrows
  <2>2. wrote[f] \in Nat /\ DOMAIN file = 1..Len(file)
    BY DEF Typed
  <2>3. /\ Len(batch[f]) \in Nat /\ made \in Nat /\ Len(buffer) \in Nat /\ early \in Nat
        /\ \A i \in 1..Len(batch[f]) : batch[f][i] \in 1..Records
    BY Lengths
  <2> QED
    BY <2>1, <2>2, <2>3
<1>1. r \in 1..made
  BY <1>0 DEF InOrder
<1>2. file' = Append(file, r) /\ thread[f] = "running"
      /\ UNCHANGED <<made, stop, early, overflowed, repeated>>
  BY DEF WriteLine, appends
<1> HIDE DEF r
<1>3. stop = "done" => f = "task"
  BY <1>2 DEF Whole, Flushers
<1>4. ASSUME ~repeated
      PROVE  stop # "done" /\ \A i \in DOMAIN file : file[i] < r
  <2>1. Flushing(f)
    BY <1>2, <1>4 DEF Sorted
  <2>2. stop # "done"
    BY <1>3, <2>1 DEF Flushing, Writing
  <2>3. wrote[f] + 1 > wrote[f]
    BY <1>0
  <2> QED
    BY <1>0, <1>4, <2>1, <2>2, <2>3 DEF Sorted, r
<1>5. ASSUME ~overflowed, NEW q \in 1..(r - 1)
      PROVE  q \in ToSet(file)
  <2>1. 1 \in 1..Len(batch[f]) /\ batch[f][1] \in 1..Records
    BY <1>0
  <2>2. r = batch[f][1] + wrote[f] /\ batch[f][1] <= Before + 1
    BY <1>0, <1>5 DEF Whole, r
  <2>3. CASE q < batch[f][1]
    <3>1. q \in 1..Before
      BY <1>0, <1>5, <2>1, <2>2, <2>3 DEF Before
    <3> QED
      BY <1>5, <3>1 DEF Kept
  <2>4. CASE ~(q < batch[f][1])
    <3> DEFINE i == q - batch[f][1] + 1
    <3>0. \A b \in 1..Records, w, n \in Nat :
            r = b + w /\ ~(q < b) /\ w + 1 \in 1..n =>
              /\ q - b + 1 \in 1..w /\ q - b + 1 \in 1..n /\ b + ((q - b + 1) - 1) = q
      BY <1>0, <1>1
    <3>1. i \in 1..wrote[f] /\ i \in 1..Len(batch[f]) /\ batch[f][1] + (i - 1) = q
      BY <1>0, <2>1, <2>2, <2>4, <3>0
    <3> HIDE DEF i
    <3>2. batch[f][i] = batch[f][1] + (i - 1)
      BY <1>5, <3>1 DEF Whole
    <3>3. batch[f][i] \in ToSet(file)
      BY <3>1 DEF Writing
    <3> QED
      BY <3>1, <3>2, <3>3
  <2> QED
    BY <2>3, <2>4
<1>6. ASSUME ~overflowed, stop = "done" PROVE r \in ToSet(file)
  <2>1. r <= early
    BY <1>0, <1>3, <1>6 DEF Whole, r
  <2>2. early <= Before
    BY <1>6 DEF Kept
  <2>3. r \in 1..Before
    BY <1>0, <2>1, <2>2 DEF Before
  <2> QED
    BY <1>6, <2>3 DEF Kept
<1>7. Called(stop) = "done" <=> stop = "done"
  BY DEF Called
<1> QED
  BY <1>1, <1>2, <1>4, <1>5, <1>6, <1>7 DEF Log!Write, Log!ToSet, ToSet, Called

\* What stop() has when it comes back well.
LEMMA StopIsOver ==
  ASSUME WriterInv, [Next]_vars, stop' = "done"
  PROVE  overflowed' \/ 1..early' \subseteq ToSet(file')
<1>1. Typed' /\ Kept'
  BY TypedNext, KeptNext DEF WriterInv
<1> SUFFICES ASSUME ~overflowed' PROVE 1..early' \subseteq ToSet(file')
  OBVIOUS
<1>2. early' <= Before' /\ \A r \in 1..Before' : r \in ToSet(file')
  BY <1>1 DEF Kept
<1>3. early' \in Nat /\ Before' \in Int
  <2>1. buffer' \in Seq(1..Records) /\ made' \in 0..Records /\ early' \in 0..Records
    BY <1>1 DEF Typed
  <2> QED
    BY <2>1, Element, Limits DEF Before
<1> HIDE DEF Before
<1>4. \A r \in 1..early' : r \in 1..Before'
  BY <1>2, <1>3
<1> QED
  BY <1>2, <1>4

LEMMA StepLog ==
  ASSUME WriterInv, Whole, [Next]_vars
  PROVE  Log!Next \/ Unlogged
<1> USE DEF WriterInv
<1>1. ASSUME NEW r \in 1..Records, AppendRecord(r) PROVE Log!Record
  BY <1>1 DEF AppendRecord, Log!Record
<1>2. ASSUME NEW r \in 1..Records, Check(r) PROVE Log!Overflow \/ Unlogged
  BY <1>2 DEF Check, Log!Overflow, Unlogged
<1>3. ASSUME NEW r \in 1..Records, Measure(r) \/ DropOldest(r) PROVE Unlogged
  BY <1>3 DEF Measure, DropOldest, Unlogged
<1>4. CASE StopCalled
  BY <1>4 DEF StopCalled, appends, Log!Stop, Log!Next
<1>5. CASE TaskWakes
  BY <1>5 DEF TaskWakes, appends, Unlogged
<1>6. ASSUME NEW f \in Flushers, FinishWrite(f), UNCHANGED <<appends, file, early>>,
             Called(stop') = Called(stop)
      PROVE  Log!Disturb \/ Unlogged
  <2>1. repeated' = repeated \/ repeated' = TRUE
    BY <1>6 DEF FinishWrite, Typed
  <2> QED
    BY <1>6, <2>1 DEF appends, Log!Disturb, Unlogged, Called
<1>7. CASE TaskResumes
  <2>1. FinishWrite("task") /\ "task" \in Flushers
        /\ UNCHANGED <<appends, file, early>> /\ stop' = stop
    BY <1>7 DEF TaskResumes, Flushers
  <2> QED
    BY <1>6, <2>1 DEF Log!Next
<1>8. CASE TaskCancelled
  <2>1. repeated' = repeated \/ repeated' = TRUE
    BY <1>8 DEF TaskCancelled, Typed
  <2>2. UNCHANGED <<made, file, stop, early, overflowed>>
    BY <1>8 DEF TaskCancelled, appends
  <2> QED
    BY <2>1, <2>2 DEF Log!Disturb, Log!Next, Unlogged, Called
<1>9. CASE StopFlushes
  <2>1. UNCHANGED <<made, file, early, overflowed, repeated>> /\ stop = "cancelling"
    BY <1>9 DEF StopFlushes, appends
  <2>2. CASE stop' = "writing"
    BY <2>1, <2>2 DEF Unlogged, Called
  <2>3. CASE stop' = "done"
    <3>1. overflowed \/ 1..early \subseteq ToSet(file)
      BY <2>1, <2>3, StopIsOver
    <3> QED
      BY <2>1, <2>3, <3>1 DEF Log!Stopped, Log!Next, Log!ToSet, ToSet
  <2> QED
    BY <1>9, <2>2, <2>3 DEF StopFlushes
<1>10. CASE StopResumes
  <2>1. UNCHANGED <<made, file, early, overflowed>> /\ stop = "writing"
        /\ repeated' = (repeated \/ thread["stop"] = "failed")
        /\ \/ thread["stop"] = "ok" /\ stop' = "done"
           \/ thread["stop"] = "failed" /\ stop' = "failed"
    BY <1>10 DEF StopResumes, FinishWrite, appends
  <2>2. CASE stop' = "done"
    <3>1. overflowed \/ 1..early \subseteq ToSet(file)
      BY <2>1, <2>2, StopIsOver
    <3>2. repeated' = repeated
      BY <2>1, <2>2 DEF Typed
    <3> QED
      BY <2>1, <2>2, <3>1, <3>2 DEF Log!Stopped, Log!Next, Log!ToSet, ToSet
  <2>3. CASE stop' = "failed"
    BY <2>1, <2>3 DEF Log!Stopped, Log!Next, Log!ToSet, ToSet
  <2> QED
    BY <2>1, <2>2, <2>3
<1>11. ASSUME NEW f \in Flushers, ThreadEnds(f) \/ ThreadFails(f) PROVE Unlogged
  BY <1>11 DEF ThreadEnds, ThreadFails, appends, Unlogged
<1>12. CASE UNCHANGED vars
  BY <1>12 DEF vars, appends, Unlogged
<1> QED
  BY <1>1, <1>2, <1>3, <1>4, <1>5, <1>7, <1>8, <1>9, <1>10, <1>11, <1>12, LineWritten
     DEF Next, RecordStep, WriterStep, Log!Next

\* The file is a log: whatever is recorded, dropped, written and cancelled at the same
\* time, it grows only by the next record, unless the list overflowed or a write was
\* disturbed, and stop() closes it.
THEOREM FileIsLogCorrect == Spec => FileIsLog
<1>1. Init => Log!Init
  BY DEF Init, Log!Init
<1>2. ASSUME WriterInv, Whole, [Next]_vars
      PROVE  [Log!Next]_<<made, file, Called(stop), early, overflowed, repeated>>
  BY <1>2, StepLog DEF Unlogged
<1>3. ASSUME Whole, WriterInv, [Next]_vars PROVE Whole'
  BY <1>3, WholeNext
<1> QED
  BY <1>1, <1>2, <1>3, InitWhole, WriterInvCorrect, PTL
     DEF Spec, FileIsLog, Log!Spec, Called
=============================================================================
