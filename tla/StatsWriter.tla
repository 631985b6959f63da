----------------------------- MODULE StatsWriter -----------------------------
(***************************************************************************)
(* The buffered writer of run and tool statistics                          *)
(* (src/src/ot/stats/jsonl_writer.py).  Tool calls record from their       *)
(* threads into a list; a task on the event loop copies the list now and   *)
(* then, has a thread append the copy to a file, and deletes as many       *)
(* records from the front of the list as it had copied.  stop() cancels    *)
(* the task, which does not stop the thread, and flushes once more.        *)
(*                                                                         *)
(* The asyncio lock is never held across an await, so what it protects is  *)
(* one step of the loop.  Records are numbered in the order they are made. *)
(***************************************************************************)
EXTENDS Integers, SequencesExt

CONSTANTS Records,     \* how many records are made
          MaxBuffer,   \* max_buffer_records
          Threads,     \* how many threads record at the same time
          MaxFaults    \* how many writes may fail (bound of the instance)

ASSUME Limits ==
  /\ Records \in Nat /\ Threads \in Nat \ {0}
  /\ MaxBuffer \in Nat \ {0} /\ MaxFaults \in Nat

VARIABLES
  buffer,      \* _buffer
  made,        \* records made so far
  rec,         \* where _append_record of each record is
  overflow,    \* its local variable
  task, stop,  \* where the flush task and stop() are
  batch,       \* what each of them copied last
  thread,      \* the thread that writes it
  wrote,       \* how many lines of it are written
  file,        \* the lines of the JSONL file
  faults,      \* writes that failed
  early,       \* history: the records made when stop() was called
  overflowed,  \* history: the list has been over its limit
  repeated     \* history: a write failed, or was cancelled under way

appends == <<made, rec, overflow, overflowed>>
writes  == <<batch, thread, wrote>>
vars    == <<buffer, appends, task, stop, writes, file, faults, early, repeated>>

Flushers == {"task", "stop"}

\* Records whose _append_record is not over.
Appending == {r \in 1..Records : rec[r] \in {"check", "measure", "drop"}}

\* The list exceeds its limit by no more than the records whose _append_record is
\* not over, however threads and flushes interleave.
TypeOK ==
  /\ buffer \in Seq(1..Records)
  /\ Len(buffer) <= MaxBuffer + Cardinality(Appending)
  /\ made \in 0..Records
  /\ rec \in [1..Records -> {"new", "check", "measure", "drop", "done"}]
  /\ overflow \in [1..Records -> Int]
  /\ task \in {"sleep", "writing", "ended"}
  /\ stop \in {"no", "cancelling", "writing", "done", "failed"}
  /\ batch \in [Flushers -> Seq(1..Records)]
  /\ thread \in [Flushers -> {"off", "running", "ok", "failed"}]
  /\ wrote \in [Flushers -> 0..Records]
  /\ file \in Seq(1..Records)
  /\ faults \in 0..MaxFaults
  /\ early \in 0..Records
  /\ overflowed \in BOOLEAN
  /\ repeated \in BOOLEAN

\* start() has run.
Init ==
  /\ buffer = <<>>
  /\ made = 0
  /\ rec = [r \in 1..Records |-> "new"]
  /\ overflow = [r \in 1..Records |-> 0]
  /\ task = "sleep"
  /\ stop = "no"
  /\ batch = [f \in Flushers |-> <<>>]
  /\ thread = [f \in Flushers |-> "off"]
  /\ wrote = [f \in Flushers |-> 0]
  /\ file = <<>>
  /\ faults = 0
  /\ early = 0
  /\ overflowed = FALSE
  /\ repeated = FALSE
-----------------------------------------------------------------------------
(***************************************************************************)
(* Plausible bugs, each a variant of a definition below                    *)
(***************************************************************************)

\* a limit that one record may exceed
MeasureShort(r) ==
  /\ rec[r] = "measure"
  /\ overflow' = [overflow EXCEPT ![r] = Len(buffer) - MaxBuffer - 1]
  /\ rec' = [rec EXCEPT ![r] = "drop"]
  /\ UNCHANGED <<buffer, made, overflowed, task, stop, writes, file,
                 faults, early, repeated>>

\* the list cleared after a write
FinishWriteClears(f) ==
  /\ buffer' = IF thread[f] = "ok" THEN <<>> ELSE buffer
  /\ repeated' = (repeated \/ thread[f] = "failed")
  /\ thread' = [thread EXCEPT ![f] = "off"]
  /\ batch' = [batch EXCEPT ![f] = <<>>]
  /\ wrote' = [wrote EXCEPT ![f] = 0]

\* nothing deleted after a write
FinishWriteKeeps(f) ==
  /\ repeated' = (repeated \/ thread[f] = "failed")
  /\ thread' = [thread EXCEPT ![f] = "off"]
  /\ batch' = [batch EXCEPT ![f] = <<>>]
  /\ wrote' = [wrote EXCEPT ![f] = 0]
  /\ UNCHANGED buffer

\* a failed write ends the task
TaskResumesOnce ==
  /\ task = "writing" /\ stop = "no"
  /\ thread["task"] \in {"ok", "failed"}
  /\ buffer' = IF thread["task"] = "ok"
                 THEN SubSeq(buffer, Len(batch["task"]) + 1, Len(buffer)) ELSE buffer
  /\ repeated' = (repeated \/ thread["task"] = "failed")
  /\ thread' = [thread EXCEPT !["task"] = "off"]
  /\ batch' = [batch EXCEPT !["task"] = <<>>]
  /\ wrote' = [wrote EXCEPT !["task"] = 0]
  /\ task' = IF thread["task"] = "ok" THEN "sleep" ELSE "ended"
  /\ UNCHANGED <<appends, stop, file, faults, early>>

\* no final flush
StopFlushesNothing ==
  /\ stop = "cancelling" /\ task = "ended"
  /\ stop' = "done"
  /\ UNCHANGED <<buffer, appends, task, writes, file, faults, early, repeated>>

-----------------------------------------------------------------------------
(***************************************************************************)
(* _append_record, in any thread: other threads run between its bytecodes  *)
(***************************************************************************)

\* del s[:n], where a negative n counts from the end.
DelFront(s, n) ==
  SubSeq(s, Max({0, IF n >= 0 THEN n ELSE Len(s) + n}) + 1, Len(s))


AppendRecord(r) ==
  /\ r = made + 1
  /\ stop \notin {"done", "failed"}
  /\ Cardinality(Appending) < Threads
  /\ made' = r
  /\ buffer' = Append(buffer, r)
  /\ rec' = [rec EXCEPT ![r] = "check"]
  /\ UNCHANGED <<overflow, overflowed, task, stop, writes, file, faults,
                 early, repeated>>

Check(r) ==
  /\ rec[r] = "check"
  /\ IF Len(buffer) > MaxBuffer
       THEN rec' = [rec EXCEPT ![r] = "measure"] /\ overflowed' = TRUE
       ELSE rec' = [rec EXCEPT ![r] = "done"] /\ UNCHANGED overflowed
  /\ UNCHANGED <<buffer, made, overflow, task, stop, writes, file, faults,
                 early, repeated>>

Measure(r) ==
  /\ rec[r] = "measure"
  /\ overflow' = [overflow EXCEPT ![r] = Len(buffer) - MaxBuffer]
  /\ rec' = [rec EXCEPT ![r] = "drop"]
  /\ UNCHANGED <<buffer, made, overflowed, task, stop, writes, file,
                 faults, early, repeated>>

DropOldest(r) ==
  /\ rec[r] = "drop"
  /\ buffer' = DelFront(buffer, overflow[r])
  /\ overflow' = [overflow EXCEPT ![r] = 0]
  /\ rec' = [rec EXCEPT ![r] = "done"]
  /\ UNCHANGED <<made, overflowed, task, stop, writes, file, faults, early,
                 repeated>>
-----------------------------------------------------------------------------
(***************************************************************************)
(* _flush, by the task and by stop()                                       *)
(***************************************************************************)

\* The list is copied and a thread starts to write the copy.
StartWrite(f) ==
  /\ batch' = [batch EXCEPT ![f] = buffer]
  /\ thread' = [thread EXCEPT ![f] = "running"]
  /\ wrote' = [wrote EXCEPT ![f] = 0]

\* The write is over; after a good one the records are deleted.
FinishWrite(f) ==
  /\ buffer' = IF thread[f] = "ok" THEN DelFront(buffer, Len(batch[f])) ELSE buffer
  /\ repeated' = (repeated \/ thread[f] = "failed")
  /\ thread' = [thread EXCEPT ![f] = "off"]
  /\ batch' = [batch EXCEPT ![f] = <<>>]
  /\ wrote' = [wrote EXCEPT ![f] = 0]

TaskWakes ==
  /\ task = "sleep" /\ stop = "no"
  /\ buffer # <<>>
  /\ StartWrite("task")
  /\ task' = "writing"
  /\ UNCHANGED <<buffer, appends, stop, file, faults, early, repeated>>

TaskResumes ==
  /\ task = "writing" /\ stop = "no"
  /\ thread["task"] \in {"ok", "failed"}
  /\ FinishWrite("task")
  /\ task' = "sleep"
  /\ UNCHANGED <<appends, stop, file, faults, early>>

StopCalled ==
  /\ stop = "no"
  /\ stop' = "cancelling"
  /\ early' = made
  /\ UNCHANGED <<buffer, appends, task, writes, file, faults, repeated>>

\* The task leaves its await by CancelledError; a thread it waits for goes on, and
\* what that thread writes, or has written, stays in the list.
TaskCancelled ==
  /\ stop = "cancelling" /\ task # "ended"
  /\ repeated' = (repeated \/ task = "writing")
  /\ task' = "ended"
  /\ UNCHANGED <<buffer, appends, stop, writes, file, faults, early>>

StopFlushes ==
  /\ stop = "cancelling" /\ task = "ended"
  /\ IF buffer = <<>>
       THEN stop' = "done" /\ UNCHANGED writes
       ELSE stop' = "writing" /\ StartWrite("stop")
  /\ UNCHANGED <<buffer, appends, task, file, faults, early, repeated>>

StopResumes ==
  /\ stop = "writing"
  /\ thread["stop"] \in {"ok", "failed"}
  /\ FinishWrite("stop")
  /\ stop' = IF thread["stop"] = "ok" THEN "done" ELSE "failed"
  /\ UNCHANGED <<appends, task, file, faults, early>>

WriteLine(f) ==
  /\ thread[f] = "running"
  /\ wrote[f] < Len(batch[f])
  /\ file' = Append(file, batch[f][wrote[f] + 1])
  /\ wrote' = [wrote EXCEPT ![f] = @ + 1]
  /\ UNCHANGED <<buffer, appends, task, stop, batch, thread, faults, early, repeated>>

ThreadEnds(f) ==
  /\ thread[f] = "running"
  /\ wrote[f] = Len(batch[f])
  /\ thread' = [thread EXCEPT ![f] = "ok"]
  /\ UNCHANGED <<buffer, appends, task, stop, batch, wrote, file, faults, early,
                 repeated>>

\* mkdir, open or write raises; what was written before stays in the file.
ThreadFails(f) ==
  /\ thread[f] = "running"
  /\ faults < MaxFaults
  /\ faults' = faults + 1
  /\ thread' = [thread EXCEPT ![f] = "failed"]
  /\ UNCHANGED <<buffer, appends, task, stop, batch, wrote, file, early, repeated>>
-----------------------------------------------------------------------------
RecordStep(r) == Check(r) \/ Measure(r) \/ DropOldest(r)

WriterStep ==
  \/ TaskWakes \/ TaskResumes \/ TaskCancelled \/ StopFlushes \/ StopResumes
  \/ \E f \in Flushers : WriteLine(f) \/ ThreadEnds(f) \/ ThreadFails(f)

Next ==
  \/ \E r \in 1..Records : AppendRecord(r) \/ RecordStep(r)
  \/ StopCalled
  \/ WriterStep

\* The loop runs its tasks and a write ends, well or not.
Spec == Init /\ [][Next]_vars /\ WF_vars(WriterStep)
-----------------------------------------------------------------------------
(***************************************************************************)
(* Properties                                                              *)
(***************************************************************************)

\* As long as the list has not been over its limit, every record is in it or in
\* the file, whatever writes fail or are cancelled and whatever is recorded
\* while one is under way.
KeptUnlessOverflow ==
  ~overflowed => 1..made \subseteq ToSet(buffer) \cup ToSet(file)

Log == INSTANCE StatsLog WITH
         stop <- IF stop \in {"cancelling", "writing"} THEN "called" ELSE stop,
         full <- overflowed, broken <- repeated

\* The file is the log that StatsLog describes.
FileIsLog == Log!Spec

\* Without a failed or cancelled write no record is written twice and the file is
\* in the order of recording, also when records are dropped during a write.
OnceInOrder ==
  ~repeated => \A i, j \in DOMAIN file : i < j => file[i] < file[j]

\* When stop() is over and its write was good, what was recorded before it was
\* called is in the file: the cancelled task has taken nothing with it.
StopWritesAll ==
  stop = "done" /\ ~overflowed => 1..early \subseteq ToSet(file)

\* A record reaches the file while the task runs, if the list never overflows, and
\* stop() comes back.
WriterProgresses ==
  /\ \A r \in 1..Records :
       r <= made ~> (r \in ToSet(file) \/ overflowed \/ stop # "no")
  /\ stop # "no" ~> stop \in {"done", "failed"}

\* "Clear buffer only after successful write to prevent data loss"
\* (jsonl_writer.py:241): the records that a flush deletes from the list are in
\* the file.
FlushLosesNothing ==
  [][TaskResumes \/ StopResumes =>
       ToSet(buffer) \ ToSet(buffer') \subseteq ToSet(file)]_vars
=============================================================================
