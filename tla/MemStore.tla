------------------------------ MODULE MemStore ------------------------------
(***************************************************************************)
(* The memory store of the mem pack (src/src/otutil/tools/_mem): one       *)
(* SQLite connection shared by all threads (src/src/ot/utils/              *)
(* sqlite_pool.py), a history of the contents a memory had, and a          *)
(* background thread that computes embeddings.                             *)
(*                                                                         *)
(* Tool calls run in threads of their own when a server is connected       *)
(* (ServerControl), so they interleave with each other and with the        *)
(* embedding thread.  use() calls get(), which rolls an open transaction   *)
(* back, and only then takes the lock for the whole operation; mem.read()  *)
(* calls get() alone and goes on without the lock.  There is one           *)
(* transaction for all of them: the connection's.                          *)
(*                                                                         *)
(* A content is the set of the calls it stems from, {} is the text of a    *)
(* file that mem.write() is given.  A memory is named by its id, and all   *)
(* of them are in one topic.                                               *)
(***************************************************************************)
EXTENDS Naturals, Sequences, FiniteSets

CONSTANTS Mems,      \* ids that can be in use in a run
          Calls,     \* calls made in a run, each once
          QueueSize, \* maxsize of _embedding_queue
          MaxRetries,\* max_retries of the embedding worker
          MaxCrashes,\* how often the process may be killed (bound of the instance)
          Unborn, Gone,   \* no such row: not yet, not any more
          NoVector,  \* embedding IS NULL
          Worker, Nobody

ASSUME MemConstants ==
  /\ Mems # {}
  /\ QueueSize \in Nat \ {0} /\ MaxRetries \in Nat \ {0} /\ MaxCrashes \in Nat
  /\ {Worker, Nobody} \cap Calls = {} /\ Worker # Nobody /\ Unborn # Gone
  /\ \A x \in SUBSET Calls : x \notin {Unborn, Gone, NoVector}

VARIABLES
  mode,      \* embeddings_enabled and embeddings_async
  db,        \* what is committed
  work,      \* what the connection sees
  intx,      \* conn.in_transaction
  torn,      \* history: memories of whose delete() only the first half is committed
  holder,    \* who holds the pool's lock
  op, pc,    \* of each call: what it is, and where it is
  mem, old,  \* the memory it works on, the content it has read
  queue,     \* _embedding_queue
  wpc, wmem, \* the embedding worker: where it is, the job it has taken
  retries,
  forgotten, \* history: memories whose job was dropped, given up, or lost
  crashes,
  acked,     \* history: the contents each memory had according to its callers
  raced      \* history: the operations that have overlapped another call

store == <<db, work, intx, torn>>
calls == <<op, mem, old>>
jobs  == <<queue, wpc, wmem, retries, forgotten>>
vars  == <<mode, store, holder, calls, pc, jobs, crashes, acked, raced>>

Contents == SUBSET Calls

Ops == {"none", "write", "update", "append", "delete", "read", "refresh",
        "reindex", "flush"}

Active == {"get", "lock", "select", "file", "reget", "relock", "write", "commit",
           "rcommit", "join", "forget", "remove"}

Rows == [content : {Unborn, Gone} \cup Contents, vector : {NoVector} \cup Contents,
         history : SUBSET Contents]

\* Two operations are told apart from the others in what may be lost when they race.
Class(o) == IF o \in {"refresh", "reindex"} THEN o ELSE "other"

TypeOK ==
  /\ mode \in {"off", "sync", "async"}
  /\ db \in [Mems -> Rows]
  /\ work \in [Mems -> Rows]
  /\ intx \in BOOLEAN
  /\ torn \subseteq Mems
  /\ holder \in Calls \cup {Worker, Nobody}
  /\ op \in [Calls -> Ops]
  /\ pc \in [Calls -> Active \cup {"new", "over"}]
  /\ mem \in [Calls -> Mems]
  /\ old \in [Calls -> Contents]
  /\ queue \in Seq(Mems) /\ Len(queue) <= QueueSize
  /\ wpc \in {"idle", "get", "lock", "commit"}
  /\ wmem \in Mems
  /\ retries \in 0..MaxRetries
  /\ forgotten \subseteq Mems
  /\ crashes \in 0..MaxCrashes
  /\ acked \in [Mems -> SUBSET Contents]
  /\ raced \subseteq {Class(o) : o \in Ops}

Row(c, v, h) == [content |-> c, vector |-> v, history |-> h]

There(d, m) == d[m].content \notin {Unborn, Gone}

First == CHOOSE m \in Mems : TRUE

\* One memory is stored, from a time without embeddings.
Init ==
  /\ mode \in {"off", "sync", "async"}
  /\ db = [m \in Mems |-> Row(IF m = First THEN {} ELSE Unborn, NoVector, {})]
  /\ forgotten = {First}
  /\ work = db
  /\ intx = FALSE
  /\ torn = {}
  /\ holder = Nobody
  /\ op = [c \in Calls |-> "none"]
  /\ pc = [c \in Calls |-> "new"]
  /\ mem = [c \in Calls |-> First]
  /\ old = [c \in Calls |-> {}]
  /\ queue = <<>>
  /\ wpc = "idle"
  /\ wmem = First
  /\ retries = 0
  /\ crashes = 0
  /\ acked = [m \in Mems |-> IF m = First THEN {{}} ELSE {}]
  /\ raced = {}
-----------------------------------------------------------------------------
(***************************************************************************)
(* The connection                                                          *)
(***************************************************************************)

Go(c, p) == pc' = [pc EXCEPT ![c] = p]

\* The call is over, and what it has read is gone.
End(c) ==
  /\ Go(c, "over")
  /\ op' = [op EXCEPT ![c] = "none"]
  /\ mem' = [mem EXCEPT ![c] = First]
  /\ old' = [old EXCEPT ![c] = {}]

\* A statement that writes: it opens a transaction or joins the one that is open.
Execute(w) == work' = w /\ intx' = TRUE /\ UNCHANGED <<db, torn>>

Stored == {m \in Mems : There(work, m)}

\* What a delete() that is between its two statements has still to delete from.
Half ==
  {m \in Mems : \E c \in Calls : (pc[c] = "forget" /\ m = mem[c])
                              \/ (pc[c] = "remove" /\ m \in Stored)}

Commit ==
  /\ db' = work /\ intx' = FALSE /\ UNCHANGED work
  /\ torn' = {m \in torn \cup Half : There(work, m) \/ work[m].history # {}}

Rollback == work' = db /\ intx' = FALSE /\ UNCHANGED <<db, torn>>

\* SqlitePool.use(): the lock is taken after get() has given it back.
Lock(c, p) == pc[c] = p /\ holder = Nobody

\* The row is not there, or nothing is to be done: the lock is given back.
Nothing(c) == End(c) /\ UNCHANGED <<store, holder>>

NewContent(c) ==
  CASE op[c] = "write"  -> {}
    [] op[c] = "append" -> old[c] \cup {c}
    [] OTHER            -> {c}

\* The call itself computes the embedding in synchronous mode.
Vector(content) == IF mode = "sync" THEN content ELSE NoVector
-----------------------------------------------------------------------------
(***************************************************************************)
(* Plausible bugs, each a variant of a definition below                    *)
(***************************************************************************)

\* the stuck transaction is left open
GetConnectionKeeps(c) ==
  /\ pc[c] \in {"get", "reget"}
  /\ holder = Nobody
  /\ Go(c, IF pc[c] = "reget" THEN "relock"
           ELSE IF op[c] \in {"read", "reindex"} THEN "select" ELSE "lock")
  /\ UNCHANGED <<mode, store, holder, calls, jobs, crashes, acked, raced>>

\* a queue without a bound
EnqueueUnbounded(m) ==
  IF mode = "async"
    THEN /\ queue' = Append(queue, m)
         /\ forgotten' = forgotten \ {m}
         /\ UNCHANGED <<wpc, wmem, retries>>
    ELSE /\ forgotten' = forgotten \cup {m}
         /\ UNCHANGED <<queue, wpc, wmem, retries>>

\* no history entry
BeginChangeUnsaved(c) ==
  /\ op[c] \in {"update", "append"}
  /\ Lock(c, "lock")
  /\ IF There(work, mem[c])
       THEN /\ holder' = c
            /\ old' = [old EXCEPT ![c] = work[mem[c]].content]
            /\ Go(c, "write")
            /\ UNCHANGED <<store, op, mem>>
       ELSE Nothing(c)
  /\ UNCHANGED <<mode, jobs, crashes, acked, raced>>

\* get() without the lock
GetConnectionUnlocked(c) ==
  /\ pc[c] \in {"get", "reget"}
  /\ Rollback
  /\ Go(c, IF pc[c] = "reget" THEN "relock"
           ELSE IF op[c] \in {"read", "reindex"} THEN "select" ELSE "lock")
  /\ UNCHANGED <<mode, holder, calls, jobs, crashes, acked, raced>>

\* the history is left behind
ForgetKeepsHistory(c) ==
  /\ pc[c] = "forget"
  /\ Go(c, "commit")
  /\ UNCHANGED <<mode, store, holder, calls, jobs, crashes, acked, raced>>

\* the vector stays until the worker replaces it
ChangeKeepsVector(c) ==
  /\ pc[c] = "write"
  /\ Execute([work EXCEPT ![mem[c]].content = NewContent(c)])
  /\ Go(c, "commit")
  /\ UNCHANGED <<mode, holder, calls, jobs, crashes, acked, raced>>

\* the lock is kept
EmbedRaisesHolding(c) ==
  /\ pc[c] = "write"
  /\ mode = "sync"
  /\ End(c)
  /\ UNCHANGED <<mode, store, holder, jobs, crashes, acked, raced>>

\* the worker never gives up
WorkerFailsForever ==
  /\ wpc = "lock"
  /\ holder = Nobody
  /\ There(work, wmem)
  /\ wpc' = "get"
  /\ UNCHANGED <<mode, store, holder, calls, pc, queue, wmem, retries, forgotten,
                 crashes, acked, raced>>
-----------------------------------------------------------------------------
(***************************************************************************)
(* Calls and the lock                                                      *)
(***************************************************************************)

\* SqlitePool.get(): under the lock, a stuck transaction is rolled back.
GetConnection(c) ==
  /\ pc[c] \in {"get", "reget"}
  /\ holder = Nobody
  /\ Rollback
  /\ Go(c, IF pc[c] = "reget" THEN "relock"
           ELSE IF op[c] \in {"read", "reindex"} THEN "select" ELSE "lock")
  /\ UNCHANGED <<mode, holder, calls, jobs, crashes, acked, raced>>

\* _maybe_embed, without an embedding: a job is queued, or dropped.
Enqueue(m) ==
  IF mode = "async" /\ Len(queue) < QueueSize
    THEN /\ queue' = Append(queue, m)
         /\ forgotten' = forgotten \ {m}
         /\ UNCHANGED <<wpc, wmem, retries>>
    ELSE /\ forgotten' = forgotten \cup {m}
         /\ UNCHANGED <<queue, wpc, wmem, retries>>

-----------------------------------------------------------------------------
(***************************************************************************)
(* Calls                                                                   *)
(***************************************************************************)

\* Calls are taken in a fixed order.
Arrive(c, o, m) ==
  /\ pc[c] = "new"
  /\ c = CHOOSE d \in Calls : pc[d] = "new"
  /\ o = "reindex" => mode # "off"
  /\ IF o \in {"flush", "write"} THEN m = First ELSE m = First \/ There(db, m)
  /\ op' = [op EXCEPT ![c] = o]
  /\ mem' = [mem EXCEPT ![c] = m]
  /\ Go(c, IF o = "flush" THEN "join" ELSE "get")
  /\ LET others == {d \in Calls : pc[d] \in Active}
     IN raced' = IF others = {} THEN raced
                   ELSE raced \cup {Class(x) : x \in {o} \cup {op[d] : d \in others}}
  /\ UNCHANGED <<mode, store, holder, old, jobs, crashes, acked>>

\* update() and append(): the content that is read goes into the history.
BeginChange(c) ==
  /\ op[c] \in {"update", "append"}
  /\ Lock(c, "lock")
  /\ IF There(work, mem[c])
       THEN /\ holder' = c
            /\ old' = [old EXCEPT ![c] = work[mem[c]].content]
            /\ Execute([work EXCEPT ![mem[c]].history = @ \cup {work[mem[c]].content}])
            /\ Go(c, "write")
            /\ UNCHANGED <<op, mem>>
       ELSE Nothing(c)
  /\ UNCHANGED <<mode, jobs, crashes, acked, raced>>

\* write(): a content the topic has already is a duplicate.  A new row takes the next
\* unused id (there are enough of them in the instance).
BeginWrite(c) ==
  /\ op[c] = "write"
  /\ Lock(c, "lock")
  /\ IF \E m \in Mems : work[m].content = {}
       THEN Nothing(c)
       ELSE /\ \E m \in Mems : work[m].content = Unborn
            /\ mem' = [mem EXCEPT ![c] =
                         CHOOSE m \in Mems : work[m].content = Unborn]
            /\ holder' = c
            /\ Go(c, "write")
            /\ UNCHANGED <<store, op, old>>
  /\ UNCHANGED <<mode, jobs, crashes, acked, raced>>

\* delete() by id: the memory goes first.
Delete(c) ==
  /\ op[c] = "delete"
  /\ Lock(c, "lock")
  /\ IF There(work, mem[c])
       THEN /\ holder' = c
            /\ Execute([work EXCEPT ![mem[c]] = Row(Gone, NoVector, @.history)])
            /\ Go(c, "forget")
            /\ UNCHANGED calls
       ELSE Nothing(c)
  /\ UNCHANGED <<mode, jobs, crashes, acked, raced>>

\* Then its history.
Forget(c) ==
  /\ pc[c] = "forget"
  /\ Execute([work EXCEPT ![mem[c]].history = {}])
  /\ Go(c, "commit")
  /\ UNCHANGED <<mode, holder, calls, jobs, crashes, acked, raced>>

\* delete() by topic: the histories go first.  None matches, or several do and it was
\* not confirmed: nothing is deleted.
DeleteTopic(c) ==
  /\ op[c] = "delete"
  /\ Lock(c, "lock")
  /\ \/ /\ Stored # {}
        /\ holder' = c
        /\ Execute([m \in Mems |-> IF m \in Stored
                                     THEN Row(work[m].content, work[m].vector, {})
                                     ELSE work[m]])
        /\ Go(c, "remove")
        /\ UNCHANGED calls
     \/ Cardinality(Stored) # 1 /\ Nothing(c)
  /\ UNCHANGED <<mode, jobs, crashes, acked, raced>>

\* Then the memories.
Remove(c) ==
  /\ pc[c] = "remove"
  /\ Execute([m \in Mems |-> IF m \in Stored THEN Row(Gone, NoVector, work[m].history)
                                             ELSE work[m]])
  /\ Go(c, "commit")
  /\ UNCHANGED <<mode, holder, calls, jobs, crashes, acked, raced>>

\* refresh(), first use(): the rows are read.
SelectStale(c) ==
  /\ op[c] = "refresh"
  /\ Lock(c, "lock")
  /\ IF There(work, mem[c])
       THEN /\ old' = [old EXCEPT ![c] = work[mem[c]].content]
            /\ Go(c, "file")
            /\ UNCHANGED <<store, holder, op, mem>>
       ELSE Nothing(c)
  /\ UNCHANGED <<mode, jobs, crashes, acked, raced>>

\* The source file has changed; or it has not, is missing or cannot be read.
ReadFile(c) ==
  /\ pc[c] = "file"
  /\ \/ Go(c, "reget") /\ UNCHANGED calls
     \/ End(c)
  /\ UNCHANGED <<mode, store, holder, jobs, crashes, acked, raced>>

\* refresh(), second use(): what was read before goes into the history.
SaveOld(c) ==
  /\ op[c] = "refresh"
  /\ Lock(c, "relock")
  /\ holder' = c
  /\ Execute([work EXCEPT ![mem[c]].history = @ \cup {old[c]}])
  /\ Go(c, "write")
  /\ UNCHANGED <<mode, calls, jobs, crashes, acked, raced>>

\* The job is queued or the embedding computed, and the row written.
Change(c) ==
  LET m == mem[c]
  IN /\ pc[c] = "write"
     /\ Execute(IF op[c] = "write" \/ There(work, m)
                  THEN [work EXCEPT ![m] = Row(NewContent(c), Vector(NewContent(c)),
                                               work[m].history)]
                  ELSE work)
     /\ Enqueue(m)
     /\ Go(c, "commit")
     /\ UNCHANGED <<mode, holder, calls, crashes, acked, raced>>

\* The embedding API raises: the lock is given back, the transaction stays open.
EmbedRaises(c) ==
  /\ pc[c] = "write"
  /\ mode = "sync"
  /\ holder' = Nobody
  /\ End(c)
  /\ UNCHANGED <<mode, store, jobs, crashes, acked, raced>>

CommitChange(c) ==
  /\ pc[c] = "commit"
  /\ Commit
  /\ holder' = Nobody
  /\ End(c)
  /\ acked' = CASE op[c] \in {"write", "update", "append", "refresh"}
                     /\ There(work, mem[c]) -> [acked EXCEPT ![mem[c]] = @ \cup {NewContent(c)}]
                [] op[c] = "delete" -> [m \in Mems |-> IF m \in Stored THEN acked[m] ELSE {}]
                [] OTHER -> acked
  /\ UNCHANGED <<mode, jobs, crashes, raced>>

\* read(), without the lock: the access count is written, then committed.
Read(c) ==
  /\ op[c] = "read"
  /\ pc[c] = "select"
  /\ IF There(work, mem[c]) THEN Execute(work) /\ Go(c, "rcommit") /\ UNCHANGED calls
                            ELSE UNCHANGED store /\ End(c)
  /\ UNCHANGED <<mode, holder, jobs, crashes, acked, raced>>

CommitRead(c) ==
  /\ pc[c] = "rcommit"
  /\ Commit
  /\ End(c)
  /\ UNCHANGED <<mode, holder, jobs, crashes, acked, raced>>

\* reindex(), without the lock: the contents of rows that have no vector are read.
SelectMissing(c) ==
  /\ op[c] = "reindex"
  /\ pc[c] = "select"
  /\ IF There(work, mem[c]) /\ work[mem[c]].vector = NoVector
       THEN /\ old' = [old EXCEPT ![c] = work[mem[c]].content]
            /\ Go(c, "reget")
            /\ UNCHANGED <<op, mem>>
       ELSE End(c)
  /\ UNCHANGED <<mode, store, holder, jobs, crashes, acked, raced>>

\* With the lock: the vectors of these contents are computed and written.
Reindex(c) ==
  LET m == mem[c]
  IN /\ op[c] = "reindex"
     /\ Lock(c, "relock")
     /\ holder' = c
     /\ Execute(IF There(work, m) THEN [work EXCEPT ![m].vector = old[c]] ELSE work)
     /\ Go(c, "commit")
     /\ UNCHANGED <<mode, calls, jobs, crashes, acked, raced>>

ReindexRaises(c) ==
  /\ op[c] = "reindex"
  /\ Lock(c, "relock")
  /\ End(c)
  /\ UNCHANGED <<mode, store, holder, jobs, crashes, acked, raced>>

\* flush(): _embedding_queue.join().
Flush(c) ==
  /\ pc[c] = "join"
  /\ queue = <<>> /\ wpc = "idle"
  /\ End(c)
  /\ UNCHANGED <<mode, store, holder, jobs, crashes, acked, raced>>
-----------------------------------------------------------------------------
(***************************************************************************)
(* The embedding worker, and the death of the process                      *)
(***************************************************************************)

Idle == wpc' = "idle" /\ wmem' = First /\ retries' = 0

WorkerTakes ==
  /\ wpc = "idle"
  /\ queue # <<>>
  /\ wmem' = Head(queue)
  /\ queue' = Tail(queue)
  /\ wpc' = "get"
  /\ UNCHANGED <<mode, store, holder, calls, pc, retries, forgotten, crashes, acked, raced>>

WorkerGets ==
  /\ wpc = "get"
  /\ holder = Nobody
  /\ Rollback
  /\ wpc' = "lock"
  /\ UNCHANGED <<mode, holder, calls, pc, queue, wmem, retries, forgotten, crashes,
                 acked, raced>>

\* The memory was deleted before the worker got to it.
WorkerSkips ==
  /\ wpc = "lock"
  /\ holder = Nobody
  /\ ~There(work, wmem)
  /\ Idle
  /\ UNCHANGED <<mode, store, holder, calls, pc, queue, forgotten, crashes, acked,
                 raced>>

\* It holds the lock while it reads the content, has it embedded and writes.
WorkerEmbeds ==
  /\ wpc = "lock"
  /\ holder = Nobody
  /\ There(work, wmem)
  /\ holder' = Worker
  /\ Execute([work EXCEPT ![wmem].vector = work[wmem].content])
  /\ wpc' = "commit"
  /\ UNCHANGED <<mode, calls, pc, queue, wmem, retries, forgotten, crashes, acked,
                 raced>>

WorkerFails ==
  /\ wpc = "lock"
  /\ holder = Nobody
  /\ There(work, wmem)
  /\ IF retries + 1 < MaxRetries
       THEN retries' = retries + 1 /\ wpc' = "get" /\ UNCHANGED <<wmem, forgotten>>
       ELSE Idle /\ forgotten' = forgotten \cup {wmem}
  /\ UNCHANGED <<mode, store, holder, calls, pc, queue, crashes, acked, raced>>

WorkerCommits ==
  /\ wpc = "commit"
  /\ Commit
  /\ holder' = Nobody
  /\ Idle
  /\ UNCHANGED <<mode, calls, pc, queue, forgotten, crashes, acked, raced>>

\* Everything but the file is lost, and the process is started again.
Crash ==
  /\ crashes < MaxCrashes
  /\ crashes' = crashes + 1
  /\ Rollback
  /\ holder' = Nobody
  /\ pc' = [c \in Calls |-> IF pc[c] \in Active THEN "over" ELSE pc[c]]
  /\ op' = [c \in Calls |-> "none"]
  /\ mem' = [c \in Calls |-> First]
  /\ old' = [c \in Calls |-> {}]
  /\ queue' = <<>>
  /\ Idle
  /\ forgotten' = Mems
  /\ UNCHANGED <<mode, acked, raced>>
-----------------------------------------------------------------------------
CallStep(c) ==
  \/ GetConnection(c) \/ BeginChange(c) \/ BeginWrite(c)
  \/ Delete(c) \/ Forget(c) \/ DeleteTopic(c) \/ Remove(c)
  \/ SelectStale(c) \/ ReadFile(c) \/ SaveOld(c) \/ Change(c) \/ EmbedRaises(c)
  \/ CommitChange(c) \/ Read(c) \/ CommitRead(c) \/ SelectMissing(c) \/ Reindex(c)
  \/ ReindexRaises(c) \/ Flush(c)

WorkerStep ==
  \/ WorkerTakes \/ WorkerGets \/ WorkerSkips \/ WorkerEmbeds \/ WorkerFails
  \/ WorkerCommits

Next ==
  \/ \E c \in Calls : CallStep(c)
  \/ \E c \in Calls, o \in Ops \ {"none"}, m \in Mems : Arrive(c, o, m)
  \/ WorkerStep
  \/ Crash

\* Threads are scheduled and a call of the embedding API returns or raises.
Spec ==
  /\ Init /\ [][Next]_vars
  /\ WF_vars(WorkerStep) /\ \A c \in Calls : WF_vars(CallStep(c))
-----------------------------------------------------------------------------
(***************************************************************************)
(* Properties                                                              *)
(***************************************************************************)

\* What a caller was told is stored is the content of the memory or in its history,
\* whatever other updates, reads that commit for them, embeddings, failures and
\* crashes happen, unless refresh() ran at the same time, or a read() has committed half
\* of a delete() of this memory.
HistoryComplete ==
  \A m \in Mems :
    There(db, m) => acked[m] \subseteq {db[m].content} \cup db[m].history
                    \/ "refresh" \in raced \/ m \in torn

\* When calls do not overlap, the history holds former contents only: one that
\* fails in the middle leaves nothing that a later one commits.
HistoryExact ==
  raced = {} => \A m \in Mems : db[m].content \notin db[m].history

\* A vector was computed from the content it stands beside, unless reindex() ran
\* at the same time as other calls.
VectorFresh ==
  \A m \in Mems :
    db[m].vector \in {NoVector, db[m].content} \/ "reindex" \in raced

\* A deleted memory leaves no history behind, also when its delete() overlaps update() or
\* append() or the process is killed, unless refresh() ran at the same time, or a read()
\* has committed half of that delete().
NoOrphanHistory ==
  \A m \in Mems :
    ~There(db, m) => db[m].history = {} \/ "refresh" \in raced \/ m \in torn

\* Each commit, whoever makes it, is one whole call, or the first half of a delete() that a
\* read() overlaps, and each append() is to the content that is there: what Memories
\* promises of the rows.
Promised == INSTANCE Memories WITH rows <- db

CallsAtomic == Promised!Spec

\* write() stores a text once, however many calls write it at the same time.
Deduplicated ==
  \A m, n \in Mems : db[m].content = {} /\ db[n].content = {} => m = n

\* Every call comes back: none is stuck behind a lock that an exception kept, and
\* flush() sees the queue empty.  (Calls are finite: all are back again and again.)
CallsEnd == []<>(\A c \in Calls : pc[c] \notin Active)

\* The embedding thread gets to every memory it was given: in the end a memory has
\* a vector unless its job was given up.
VectorArrives ==
  mode = "async" => []<>(\A m \in Mems :
                           There(db, m) /\ db[m].vector = NoVector => m \in forgotten)

\* "Preserves history (same as update)" (refresh.py:37): refresh() or not, no
\* content that was stored is lost without a trace.  (A delete() is meant to lose it.)
HistoryPreserved ==
  \A m \in Mems :
    There(db, m) => acked[m] \subseteq {db[m].content} \cup db[m].history \/ m \in torn
=============================================================================
