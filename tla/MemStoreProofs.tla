--------------------------- MODULE MemStoreProofs ---------------------------
(***************************************************************************)
(* Proofs about MemStore, for any number of memories, calls, crashes and   *)
(* retries and any size of the queue:                                      *)
(*   TypeCorrect             the type invariant, the bound of the queue    *)
(*   HistoryCompleteCorrect  nothing that was stored is lost               *)
(*   HistoryExactCorrect     the history holds former contents only        *)
(*   VectorFreshCorrect      a vector belongs to the content beside it     *)
(*   NoOrphanCorrect         a deleted memory leaves no history            *)
(*   DeduplicatedCorrect     a text is stored once                         *)
(*   CallsAtomicCorrect      each commit is one whole call, or half of a   *)
(*                           delete(): a refinement                        *)
(* The properties are about what is committed.  Any thread may commit what *)
(* another has written and any get() may roll it back, so the inductive    *)
(* invariant MemInv claims them of the open transaction too (Stores), and  *)
(* adds what a call relies on between two of its steps: under the lock     *)
(* (Held), from one lock to the next (Unraced), and before it has written  *)
(* (New).  Alone is about the transaction that a failed embedding leaves   *)
(* open: whoever comes next rolls it back before anything is committed.    *)
(* For the refinement Ahead says how far the transaction may be from what  *)
(* is committed: a call, half of a delete(), and what others that failed   *)
(* have left.                                                              *)
(***************************************************************************)
EXTENDS MemStore, TLAPS

Changes == {"write", "update", "append", "refresh"}

\* A call has the lock while it writes, and does what it came for.
Locked == {"write", "commit", "forget", "remove"}

Locks ==
  /\ \A c \in Calls : pc[c] \in Locked <=> holder = c
  /\ \A c \in Calls : pc[c] \in {"forget", "remove"} => op[c] = "delete"
  /\ wpc = "commit" <=> holder = Worker
  /\ \A c \in Calls : pc[c] = "write" => op[c] \in Changes
  /\ mode # "async" => queue = <<>> /\ wpc = "idle"

\* What the properties say of what is committed, of any state of the rows, the
\* contents a memory had, the operations that have raced and the memories that are half
\* deleted.
StoreOK(d, a, r, t) ==
  /\ \A m, n \in Mems : d[m].content = {} /\ d[n].content = {} => m = n
  /\ \A m \in Mems : ~There(d, m) => d[m].history = {} \/ "refresh" \in r \/ m \in t
  /\ \A m \in Mems : d[m].vector \in {NoVector, d[m].content} \/ "reindex" \in r
  /\ \A m \in Mems :
       There(d, m) => a[m] \subseteq {d[m].content} \cup d[m].history \/ "refresh" \in r
                      \/ m \in t
  /\ \A m \in Mems :
       d[m].content = Unborn => a[m] = {} /\ (d[m].history = {} \/ "refresh" \in r)

Stores == StoreOK(db, acked, raced, torn) /\ StoreOK(work, acked, raced, torn \cup Half)

\* The content is in the history.
Saved(m) == There(work, m) /\ work[m].content \in work[m].history

\* What a call relies on between two of its steps under the lock.
HeldBy(c) ==
  /\ pc[c] = "write" /\ op[c] = "write" =>
       work[mem[c]].content = Unborn /\ \A m \in Mems : work[m].content # {}
  /\ pc[c] = "write" /\ op[c] = "refresh" => Saved(mem[c]) \/ "refresh" \in raced
  /\ pc[c] = "write" /\ op[c] \in {"update", "append"} => Saved(mem[c])
  /\ pc[c] = "commit" /\ op[c] \in Changes /\ There(work, mem[c]) =>
       work[mem[c]].content = NewContent(c)
  /\ pc[c] = "forget" => work[mem[c]].content = Gone /\ work[mem[c]].vector = NoVector
  /\ pc[c] = "remove" => \A m \in Stored : work[m].history = {}

Held == \A c \in Calls : HeldBy(c)

SameContents == \A m \in Mems : work[m].content = db[m].content

\* refresh() and reindex(), from one lock to the next, while no call overlaps them.
Unseen(c) == op[c] \in {"refresh", "reindex"} /\ pc[c] \in Active /\ op[c] \notin raced

Unraced ==
  \A c \in Calls : Unseen(c) =>
    /\ \A d \in Calls : pc[d] \in Active => d = c
    /\ pc[c] \in {"lock", "select", "file", "reget", "relock"} => SameContents
    /\ pc[c] \in {"file", "reget", "relock"} => old[c] = work[mem[c]].content

\* A content that a call has not written yet is nowhere.
Fresh(c, d) ==
  \A m \in Mems : /\ There(d, m) => c \notin d[m].content
                  /\ \A h \in d[m].history : c \notin h

NewTo(c) == Fresh(c, db) /\ Fresh(c, work) /\ \A d \in Calls : c \notin old[d]

New == \A c \in Calls : pc[c] \notin {"commit", "over"} => NewTo(c)

\* While no calls overlap, the history entry of a change that failed is rolled back
\* before anything is committed.
Behind(d, m) == d[m].content \notin d[m].history

Single == \A c, d \in Calls : pc[c] \in Active /\ pc[d] \in Active => c = d

DbBehind   == \A m \in Mems : Behind(db, m)
WorkBehind == \A m \in Mems : Behind(work, m)

\* A change has put the content of its row into the history, and will replace it.
Pending ==
  \E c \in Calls : pc[c] = "write" /\ \A m \in Mems \ {mem[c]} : Behind(work, m)

\* A change has failed at that point; the next call begins with get().
Stuck ==
  mode = "sync" /\ \A c \in Calls : pc[c] \in Active => pc[c] \in {"get", "join"}

Alone == raced = {} => Single /\ DbBehind /\ (WorkBehind \/ Pending \/ Stuck)

\* The inductive invariant.
MemInv == TypeOK /\ Locks /\ Stores /\ Held /\ Unraced /\ New /\ Alone

-----------------------------------------------------------------------------
(***************************************************************************)
(* Rows                                                                    *)
(***************************************************************************)

LEMMA FirstMem == First \in Mems
BY MemConstants DEF First

LEMMA Apart ==
  ASSUME NEW x \in Contents
  PROVE  x # Unborn /\ x # Gone /\ x # NoVector
BY MemConstants DEF Contents

\* w is d with one row replaced.
Put(w, d, m, x, v, h) ==
  /\ w \in [Mems -> Rows]
  /\ \A n \in Mems : n # m => w[n] = d[n]
  /\ w[m].content = x
  /\ w[m].vector = v
  /\ w[m].history = h

RowTyped(x, v, h) ==
  /\ x \in {Unborn, Gone} \cup Contents
  /\ v \in {NoVector} \cup Contents
  /\ h \in SUBSET Contents

LEMMA RowIsTyped ==
  ASSUME NEW d \in [Mems -> Rows], NEW m \in Mems
  PROVE  RowTyped(d[m].content, d[m].vector, d[m].history)
<1>1. d[m] \in Rows
  OBVIOUS
<1> QED
  BY <1>1 DEF Rows, RowTyped

LEMMA PutRow ==
  ASSUME NEW d \in [Mems -> Rows], NEW m \in Mems, NEW x, NEW v, NEW h,
         RowTyped(x, v, h)
  PROVE  Put([d EXCEPT ![m] = Row(x, v, h)], d, m, x, v, h)
<1>1. Row(x, v, h) \in Rows
  BY DEF Row, Rows, RowTyped
<1>2. Row(x, v, h).content = x /\ Row(x, v, h).vector = v /\ Row(x, v, h).history = h
  BY DEF Row
<1> HIDE DEF Row
<1> QED
  BY <1>1, <1>2 DEF Put

LEMMA PutHistory ==
  ASSUME NEW d \in [Mems -> Rows], NEW m \in Mems, NEW h \in SUBSET Contents
  PROVE  Put([d EXCEPT ![m].history = h], d, m, d[m].content, d[m].vector, h)
<1>1. d[m] \in [content : {Unborn, Gone} \cup Contents,
                vector : {NoVector} \cup Contents, history : SUBSET Contents]
  BY DEF Rows
<1>2. [d[m] EXCEPT !.history = h] \in Rows
  BY <1>1 DEF Rows
<1>3. /\ [d[m] EXCEPT !.history = h].content = d[m].content
      /\ [d[m] EXCEPT !.history = h].vector = d[m].vector
      /\ [d[m] EXCEPT !.history = h].history = h
  BY <1>1
<1>4. [d EXCEPT ![m].history = h] = [d EXCEPT ![m] = [d[m] EXCEPT !.history = h]]
  OBVIOUS
<1> DEFINE r == [d[m] EXCEPT !.history = h]
<1>5. r \in Rows /\ r.content = d[m].content /\ r.vector = d[m].vector /\ r.history = h
  BY <1>2, <1>3
<1> HIDE DEF r
<1>6. Put([d EXCEPT ![m] = r], d, m, d[m].content, d[m].vector, h)
  BY <1>5 DEF Put
<1> QED
  BY <1>4, <1>6 DEF r

LEMMA PutVector ==
  ASSUME NEW d \in [Mems -> Rows], NEW m \in Mems, NEW v \in {NoVector} \cup Contents
  PROVE  Put([d EXCEPT ![m].vector = v], d, m, d[m].content, v, d[m].history)
<1>1. d[m] \in [content : {Unborn, Gone} \cup Contents,
                vector : {NoVector} \cup Contents, history : SUBSET Contents]
  BY DEF Rows
<1>2. [d[m] EXCEPT !.vector = v] \in Rows
  BY <1>1 DEF Rows
<1>3. /\ [d[m] EXCEPT !.vector = v].content = d[m].content
      /\ [d[m] EXCEPT !.vector = v].vector = v
      /\ [d[m] EXCEPT !.vector = v].history = d[m].history
  BY <1>1
<1>4. [d EXCEPT ![m].vector = v] = [d EXCEPT ![m] = [d[m] EXCEPT !.vector = v]]
  OBVIOUS
<1> DEFINE r == [d[m] EXCEPT !.vector = v]
<1>5. r \in Rows /\ r.content = d[m].content /\ r.vector = v /\ r.history = d[m].history
  BY <1>2, <1>3
<1> HIDE DEF r
<1>6. Put([d EXCEPT ![m] = r], d, m, d[m].content, v, d[m].history)
  BY <1>5 DEF Put
<1> QED
  BY <1>4, <1>6 DEF r

-----------------------------------------------------------------------------
(***************************************************************************)
(* What the steps that write do to the rows                                *)
(***************************************************************************)

LEMMA BeginChangePuts ==
  ASSUME TypeOK, NEW c \in Calls, BeginChange(c), There(work, mem[c])
  PROVE  Put(work', work, mem[c], work[mem[c]].content, work[mem[c]].vector,
             work[mem[c]].history \cup {work[mem[c]].content})
<1>1. work \in [Mems -> Rows] /\ mem[c] \in Mems
  BY DEF TypeOK
<1>2. RowTyped(work[mem[c]].content, work[mem[c]].vector, work[mem[c]].history)
  BY <1>1, RowIsTyped
<1>3. work[mem[c]].history \cup {work[mem[c]].content} \in SUBSET Contents
  BY <1>2 DEF RowTyped, There
<1>4. work' = [work EXCEPT ![mem[c]].history =
                 work[mem[c]].history \cup {work[mem[c]].content}]
  BY DEF BeginChange, Execute
<1> QED
  BY <1>1, <1>3, <1>4, PutHistory

LEMMA DeletePuts ==
  ASSUME TypeOK, NEW c \in Calls, Delete(c), There(work, mem[c])
  PROVE  Put(work', work, mem[c], Gone, NoVector, work[mem[c]].history)
<1>1. work \in [Mems -> Rows] /\ mem[c] \in Mems
  BY DEF TypeOK
<1>2. RowTyped(Gone, NoVector, work[mem[c]].history)
  BY <1>1, RowIsTyped DEF RowTyped
<1>3. work' = [work EXCEPT ![mem[c]] = Row(Gone, NoVector, work[mem[c]].history)]
  BY DEF Delete, Execute
<1> QED
  BY <1>1, <1>2, <1>3, PutRow

LEMMA ForgetPuts ==
  ASSUME TypeOK, NEW c \in Calls, Forget(c)
  PROVE  Put(work', work, mem[c], work[mem[c]].content, work[mem[c]].vector, {})
<1>1. work \in [Mems -> Rows] /\ mem[c] \in Mems
  BY DEF TypeOK
<1>2. work' = [work EXCEPT ![mem[c]].history = {}]
  BY DEF Forget, Execute
<1> QED
  BY <1>1, <1>2, PutHistory

\* w is d without the histories of the memories that are there, or without these memories.
Emptied(w, d) ==
  /\ w \in [Mems -> Rows]
  /\ \A m \in Mems : /\ w[m].content = d[m].content
                     /\ w[m].vector = d[m].vector
                     /\ w[m].history = IF There(d, m) THEN {} ELSE d[m].history

Vanished(w, d) ==
  /\ w \in [Mems -> Rows]
  /\ \A m \in Mems : /\ w[m].content = IF There(d, m) THEN Gone ELSE d[m].content
                     /\ w[m].vector = IF There(d, m) THEN NoVector ELSE d[m].vector
                     /\ w[m].history = d[m].history

LEMMA RowReads ==
  ASSUME NEW x, NEW v, NEW h, RowTyped(x, v, h)
  PROVE  /\ Row(x, v, h) \in Rows
         /\ Row(x, v, h).content = x
         /\ Row(x, v, h).vector = v
         /\ Row(x, v, h).history = h
BY DEF Row, Rows, RowTyped

LEMMA StoredThere ==
  ASSUME NEW m \in Mems
  PROVE  m \in Stored <=> There(work, m)
BY DEF Stored

LEMMA TopicPuts ==
  ASSUME TypeOK, NEW c \in Calls, DeleteTopic(c), ~Nothing(c)
  PROVE  /\ Emptied(work', work) /\ holder' = c /\ Go(c, "remove")
         /\ UNCHANGED <<db, torn, op, mem, old>>
<1> DEFINE r(m) == Row(work[m].content, work[m].vector, {})
<1>1. /\ work' = [m \in Mems |-> IF m \in Stored THEN r(m) ELSE work[m]]
      /\ UNCHANGED <<db, torn, op, mem, old>> /\ holder' = c /\ Go(c, "remove")
  BY DEF DeleteTopic, Execute, calls
<1>2. work \in [Mems -> Rows]
  BY DEF TypeOK
<1>3. ASSUME NEW m \in Mems
      PROVE  /\ r(m) \in Rows /\ r(m).content = work[m].content
             /\ r(m).vector = work[m].vector /\ r(m).history = {}
  <2>1. RowTyped(work[m].content, work[m].vector, {})
    BY <1>2, RowIsTyped DEF RowTyped
  <2> QED
    BY <2>1, RowReads
<1> HIDE DEF r
<1> QED
  BY <1>1, <1>2, <1>3, StoredThere DEF Emptied

LEMMA RemovePuts ==
  ASSUME TypeOK, NEW c \in Calls, Remove(c)
  PROVE  Vanished(work', work)
<1> DEFINE r(m) == Row(Gone, NoVector, work[m].history)
<1>1. work' = [m \in Mems |-> IF m \in Stored THEN r(m) ELSE work[m]]
  BY DEF Remove, Execute
<1>2. work \in [Mems -> Rows]
  BY DEF TypeOK
<1>3. ASSUME NEW m \in Mems
      PROVE  /\ r(m) \in Rows /\ r(m).content = Gone
             /\ r(m).vector = NoVector /\ r(m).history = work[m].history
  <2>1. RowTyped(Gone, NoVector, work[m].history)
    BY <1>2, RowIsTyped DEF RowTyped
  <2> QED
    BY <2>1, RowReads
<1> HIDE DEF r
<1> QED
  BY <1>1, <1>2, <1>3, StoredThere DEF Vanished

LEMMA SaveOldPuts ==
  ASSUME TypeOK, NEW c \in Calls, SaveOld(c)
  PROVE  Put(work', work, mem[c], work[mem[c]].content, work[mem[c]].vector,
             work[mem[c]].history \cup {old[c]})
<1>1. work \in [Mems -> Rows] /\ mem[c] \in Mems /\ old[c] \in Contents
  BY DEF TypeOK
<1>2. RowTyped(work[mem[c]].content, work[mem[c]].vector, work[mem[c]].history)
  BY <1>1, RowIsTyped
<1>3. work[mem[c]].history \cup {old[c]} \in SUBSET Contents
  BY <1>1, <1>2 DEF RowTyped
<1>4. work' = [work EXCEPT ![mem[c]].history = work[mem[c]].history \cup {old[c]}]
  BY DEF SaveOld, Execute
<1> QED
  BY <1>1, <1>3, <1>4, PutHistory

LEMMA NewIsContent ==
  ASSUME TypeOK, NEW c \in Calls
  PROVE  /\ NewContent(c) \in Contents
         /\ Vector(NewContent(c)) \in {NoVector} \cup Contents
BY DEF TypeOK, NewContent, Contents, Vector

LEMMA ChangePuts ==
  ASSUME TypeOK, NEW c \in Calls, Change(c), op[c] = "write" \/ There(work, mem[c])
  PROVE  Put(work', work, mem[c], NewContent(c), Vector(NewContent(c)),
             work[mem[c]].history)
<1>1. work \in [Mems -> Rows] /\ mem[c] \in Mems
  BY DEF TypeOK
<1>2. RowTyped(NewContent(c), Vector(NewContent(c)), work[mem[c]].history)
  BY <1>1, RowIsTyped, NewIsContent DEF RowTyped
<1>3. work' = [work EXCEPT ![mem[c]] =
                 Row(NewContent(c), Vector(NewContent(c)), work[mem[c]].history)]
  BY DEF Change, Execute
<1> QED
  BY <1>1, <1>2, <1>3, PutRow

LEMMA ReindexPuts ==
  ASSUME TypeOK, NEW c \in Calls, Reindex(c), There(work, mem[c])
  PROVE  Put(work', work, mem[c], work[mem[c]].content, old[c], work[mem[c]].history)
<1>1. work \in [Mems -> Rows] /\ mem[c] \in Mems /\ old[c] \in Contents
  BY DEF TypeOK
<1>2. work' = [work EXCEPT ![mem[c]].vector = old[c]]
  BY DEF Reindex, Execute
<1> QED
  BY <1>1, <1>2, PutVector

LEMMA WorkerPuts ==
  ASSUME TypeOK, WorkerEmbeds
  PROVE  Put(work', work, wmem, work[wmem].content, work[wmem].content,
             work[wmem].history)
<1>1. work \in [Mems -> Rows] /\ wmem \in Mems
  BY DEF TypeOK
<1>2. work[wmem].content \in Contents
  BY <1>1, RowIsTyped DEF RowTyped, There, WorkerEmbeds
<1>3. work' = [work EXCEPT ![wmem].vector = work[wmem].content]
  BY DEF WorkerEmbeds, Execute
<1> QED
  BY <1>1, <1>2, <1>3, PutVector


-----------------------------------------------------------------------------
(***************************************************************************)
(* Types                                                                   *)
(***************************************************************************)

RowsTyped == db \in [Mems -> Rows] /\ work \in [Mems -> Rows] /\ torn \subseteq Mems

LEMMA RowsTypeStep ==
  ASSUME TypeOK, [Next]_vars
  PROVE  RowsTyped'
<1>1. ASSUME NEW c \in Calls, GetConnection(c) PROVE RowsTyped'
  BY <1>1 DEF GetConnection, RowsTyped, TypeOK, Rollback
<1>2. ASSUME NEW c \in Calls, BeginChange(c) PROVE RowsTyped'
  BY <1>2, BeginChangePuts DEF BeginChange, RowsTyped, TypeOK, Put, Execute, Nothing, store
<1>3. ASSUME NEW c \in Calls, BeginWrite(c) PROVE RowsTyped'
  BY <1>3 DEF BeginWrite, RowsTyped, TypeOK, Nothing, store
<1>4. ASSUME NEW c \in Calls, Delete(c) PROVE RowsTyped'
  BY <1>4, DeletePuts DEF Delete, RowsTyped, TypeOK, Put, Execute, Nothing, store
<1>5. ASSUME NEW c \in Calls, SelectStale(c) PROVE RowsTyped'
  BY <1>5 DEF SelectStale, RowsTyped, TypeOK, Nothing, store
<1>6. ASSUME NEW c \in Calls, ReadFile(c) PROVE RowsTyped'
  BY <1>6 DEF ReadFile, RowsTyped, TypeOK, store
<1>7. ASSUME NEW c \in Calls, SaveOld(c) PROVE RowsTyped'
  BY <1>7, SaveOldPuts DEF SaveOld, RowsTyped, TypeOK, Put, Execute
<1>8. ASSUME NEW c \in Calls, Change(c) PROVE RowsTyped'
  BY <1>8, ChangePuts DEF Change, RowsTyped, TypeOK, Put, Execute
<1>9. ASSUME NEW c \in Calls, EmbedRaises(c) PROVE RowsTyped'
  BY <1>9 DEF EmbedRaises, RowsTyped, TypeOK, store
<1>10. ASSUME NEW c \in Calls, CommitChange(c) PROVE RowsTyped'
  BY <1>10 DEF CommitChange, RowsTyped, TypeOK, Commit, Half
<1>11. ASSUME NEW c \in Calls, Read(c) PROVE RowsTyped'
  BY <1>11 DEF Read, RowsTyped, TypeOK, Execute, store
<1>12. ASSUME NEW c \in Calls, CommitRead(c) PROVE RowsTyped'
  BY <1>12 DEF CommitRead, RowsTyped, TypeOK, Commit, Half
<1>13. ASSUME NEW c \in Calls, SelectMissing(c) PROVE RowsTyped'
  BY <1>13 DEF SelectMissing, RowsTyped, TypeOK, store
<1>14. ASSUME NEW c \in Calls, Reindex(c) PROVE RowsTyped'
  BY <1>14, ReindexPuts DEF Reindex, RowsTyped, TypeOK, Put, Execute
<1>15. ASSUME NEW c \in Calls, ReindexRaises(c) PROVE RowsTyped'
  BY <1>15 DEF ReindexRaises, RowsTyped, TypeOK, store
<1>16. ASSUME NEW c \in Calls, Flush(c) PROVE RowsTyped'
  BY <1>16 DEF Flush, RowsTyped, TypeOK, store
<1>17. ASSUME NEW c \in Calls, NEW o \in Ops \ {"none"}, NEW m \in Mems,
             Arrive(c, o, m) PROVE RowsTyped'
  BY <1>17 DEF Arrive, RowsTyped, TypeOK, store
<1>18. ASSUME WorkerTakes PROVE RowsTyped'
  BY <1>18 DEF WorkerTakes, RowsTyped, TypeOK, store
<1>19. ASSUME WorkerGets PROVE RowsTyped'
  BY <1>19 DEF WorkerGets, RowsTyped, TypeOK, Rollback
<1>20. ASSUME WorkerSkips PROVE RowsTyped'
  BY <1>20 DEF WorkerSkips, RowsTyped, TypeOK, store
<1>21. ASSUME WorkerEmbeds PROVE RowsTyped'
  BY <1>21, WorkerPuts DEF WorkerEmbeds, RowsTyped, TypeOK, Put, Execute
<1>22. ASSUME WorkerFails PROVE RowsTyped'
  BY <1>22 DEF WorkerFails, RowsTyped, TypeOK, store
<1>23. ASSUME WorkerCommits PROVE RowsTyped'
  BY <1>23 DEF WorkerCommits, RowsTyped, TypeOK, Commit, Half
<1>24. ASSUME Crash PROVE RowsTyped'
  BY <1>24 DEF Crash, RowsTyped, TypeOK, Rollback
<1>25. ASSUME UNCHANGED vars PROVE RowsTyped'
  BY <1>25 DEF RowsTyped, TypeOK, vars, store
<1>26. ASSUME NEW c \in Calls, Forget(c) PROVE RowsTyped'
  BY <1>26, ForgetPuts DEF Forget, RowsTyped, TypeOK, Put, Execute
<1>27. ASSUME NEW c \in Calls, DeleteTopic(c) PROVE RowsTyped'
  <2>1. CASE ~Nothing(c)
    BY <1>27, <2>1, TopicPuts DEF RowsTyped, TypeOK, Emptied
  <2>2. CASE Nothing(c)
    BY <2>2 DEF RowsTyped, TypeOK, Nothing, store
  <2> QED
    BY <2>1, <2>2
<1>28. ASSUME NEW c \in Calls, Remove(c) PROVE RowsTyped'
  BY <1>28, RemovePuts DEF Remove, RowsTyped, TypeOK, Vanished, Execute
<1> QED
  BY <1>1, <1>2, <1>3, <1>4, <1>5, <1>6, <1>7, <1>8, <1>9, <1>10, <1>11, <1>12,
     <1>13, <1>14, <1>15, <1>16, <1>17, <1>18, <1>19, <1>20, <1>21, <1>22, <1>23, <1>24,
     <1>25, <1>26, <1>27, <1>28 DEF Next, CallStep, WorkerStep


CallsTyped ==
  /\ holder \in Calls \cup {Worker, Nobody}
  /\ op \in [Calls -> Ops]
  /\ pc \in [Calls -> Active \cup {"new", "over"}]
  /\ mem \in [Calls -> Mems]

LEMMA CallsTypeStep ==
  ASSUME TypeOK, [Next]_vars
  PROVE  CallsTyped'
<1>1. ASSUME NEW c \in Calls, GetConnection(c) PROVE CallsTyped'
  BY <1>1, FirstMem DEF GetConnection, CallsTyped, TypeOK, Ops, Active, Go, calls, jobs
<1>2. ASSUME NEW c \in Calls, BeginChange(c) PROVE CallsTyped'
  BY <1>2, FirstMem DEF BeginChange, CallsTyped, TypeOK, Ops, Active, Go, End, Nothing,
     Lock, jobs
<1>3. ASSUME NEW c \in Calls, BeginWrite(c) PROVE CallsTyped'
  BY <1>3, FirstMem, SMTT(30) DEF BeginWrite, CallsTyped, TypeOK, Ops, Active, Go, End, Nothing,
     Lock, jobs
<1>4. ASSUME NEW c \in Calls, Delete(c) PROVE CallsTyped'
  BY <1>4, FirstMem DEF Delete, CallsTyped, TypeOK, Ops, Active, Go, End, Nothing, Lock,
     calls, jobs
<1>5. ASSUME NEW c \in Calls, SelectStale(c) PROVE CallsTyped'
  BY <1>5, FirstMem DEF SelectStale, CallsTyped, TypeOK, Ops, Active, Go, End, Nothing,
     Lock, jobs
<1>6. ASSUME NEW c \in Calls, ReadFile(c) PROVE CallsTyped'
  BY <1>6, FirstMem, ZenonT(60) DEF ReadFile, CallsTyped, TypeOK, Ops, Active, Go, End, calls,
     jobs
<1>7. ASSUME NEW c \in Calls, SaveOld(c) PROVE CallsTyped'
  BY <1>7, FirstMem DEF SaveOld, CallsTyped, TypeOK, Ops, Active, Go, Lock, calls, jobs
<1>8. ASSUME NEW c \in Calls, Change(c) PROVE CallsTyped'
  BY <1>8, FirstMem DEF Change, CallsTyped, TypeOK, Ops, Active, Go, calls
<1>9. ASSUME NEW c \in Calls, EmbedRaises(c) PROVE CallsTyped'
  BY <1>9, FirstMem DEF EmbedRaises, CallsTyped, TypeOK, Ops, Active, Go, End, jobs
<1>10. ASSUME NEW c \in Calls, CommitChange(c) PROVE CallsTyped'
  BY <1>10, FirstMem DEF CommitChange, CallsTyped, TypeOK, Ops, Active, Go, End, jobs
<1>11. ASSUME NEW c \in Calls, Read(c) PROVE CallsTyped'
  BY <1>11, FirstMem DEF Read, CallsTyped, TypeOK, Ops, Active, Go, End, calls, jobs
<1>12. ASSUME NEW c \in Calls, CommitRead(c) PROVE CallsTyped'
  BY <1>12, FirstMem DEF CommitRead, CallsTyped, TypeOK, Ops, Active, Go, End, jobs
<1>13. ASSUME NEW c \in Calls, SelectMissing(c) PROVE CallsTyped'
  BY <1>13, FirstMem DEF SelectMissing, CallsTyped, TypeOK, Ops, Active, Go, End, jobs
<1>14. ASSUME NEW c \in Calls, Reindex(c) PROVE CallsTyped'
  BY <1>14, FirstMem DEF Reindex, CallsTyped, TypeOK, Ops, Active, Go, Lock, calls, jobs
<1>15. ASSUME NEW c \in Calls, ReindexRaises(c) PROVE CallsTyped'
  BY <1>15, FirstMem DEF ReindexRaises, CallsTyped, TypeOK, Ops, Active, Go, End, Lock, jobs
<1>16. ASSUME NEW c \in Calls, Flush(c) PROVE CallsTyped'
  BY <1>16, FirstMem DEF Flush, CallsTyped, TypeOK, Ops, Active, Go, End, jobs
<1>17. ASSUME NEW c \in Calls, NEW o \in Ops \ {"none"}, NEW m \in Mems,
             Arrive(c, o, m) PROVE CallsTyped'
  BY <1>17, FirstMem DEF Arrive, CallsTyped, TypeOK, Ops, Active, Go, jobs
<1>18. ASSUME WorkerTakes PROVE CallsTyped'
  BY <1>18, FirstMem DEF WorkerTakes, CallsTyped, TypeOK, Ops, Active, calls
<1>19. ASSUME WorkerGets PROVE CallsTyped'
  BY <1>19, FirstMem DEF WorkerGets, CallsTyped, TypeOK, Ops, Active, calls
<1>20. ASSUME WorkerSkips PROVE CallsTyped'
  BY <1>20, FirstMem DEF WorkerSkips, CallsTyped, TypeOK, Ops, Active, calls, Idle
<1>21. ASSUME WorkerEmbeds PROVE CallsTyped'
  BY <1>21, FirstMem DEF WorkerEmbeds, CallsTyped, TypeOK, Ops, Active, calls
<1>22. ASSUME WorkerFails PROVE CallsTyped'
  BY <1>22, FirstMem DEF WorkerFails, CallsTyped, TypeOK, Ops, Active, calls, Idle
<1>23. ASSUME WorkerCommits PROVE CallsTyped'
  BY <1>23, FirstMem DEF WorkerCommits, CallsTyped, TypeOK, Ops, Active, calls, Idle
<1>24. ASSUME Crash PROVE CallsTyped'
  BY <1>24, FirstMem DEF Crash, CallsTyped, TypeOK, Ops, Active, Idle
<1>25. ASSUME UNCHANGED vars PROVE CallsTyped'
  BY <1>25 DEF CallsTyped, TypeOK, vars, calls
<1>26. ASSUME NEW c \in Calls, Forget(c) PROVE CallsTyped'
  BY <1>26 DEF Forget, CallsTyped, TypeOK, Ops, Active, Go, calls, jobs
<1>27. ASSUME NEW c \in Calls, DeleteTopic(c) PROVE CallsTyped'
  <2>1. CASE ~Nothing(c)
    BY <1>27, <2>1, TopicPuts DEF CallsTyped, TypeOK, Ops, Active, Go
  <2>2. CASE Nothing(c)
    BY <2>2, FirstMem DEF CallsTyped, TypeOK, Ops, Active, Go, End, Nothing
  <2> QED
    BY <2>1, <2>2
<1>28. ASSUME NEW c \in Calls, Remove(c) PROVE CallsTyped'
  BY <1>28 DEF Remove, CallsTyped, TypeOK, Ops, Active, Go, calls, jobs
<1> QED
  BY <1>1, <1>2, <1>3, <1>4, <1>5, <1>6, <1>7, <1>8, <1>9, <1>10, <1>11, <1>12,
     <1>13, <1>14, <1>15, <1>16, <1>17, <1>18, <1>19, <1>20, <1>21, <1>22, <1>23, <1>24,
     <1>25, <1>26, <1>27, <1>28 DEF Next, CallStep, WorkerStep


OldTyped == old \in [Calls -> Contents]


LEMMA WorkReads ==
  ASSUME TypeOK, NEW c \in Calls, There(work, mem[c])
  PROVE  work[mem[c]].content \in Contents
BY RowIsTyped DEF TypeOK, RowTyped, There

LEMMA OldTypeStep ==
  ASSUME TypeOK, [Next]_vars
  PROVE  OldTyped'
<1>1. ASSUME NEW c \in Calls, GetConnection(c) PROVE OldTyped'
  BY <1>1 DEF GetConnection, OldTyped, TypeOK, calls, Contents
<1>2. ASSUME NEW c \in Calls, BeginChange(c) PROVE OldTyped'
  BY <1>2, WorkReads DEF BeginChange, OldTyped, TypeOK, End, Nothing, Contents
<1>3. ASSUME NEW c \in Calls, BeginWrite(c) PROVE OldTyped'
  BY <1>3 DEF BeginWrite, OldTyped, TypeOK, End, Nothing, Contents
<1>4. ASSUME NEW c \in Calls, Delete(c) PROVE OldTyped'
  BY <1>4 DEF Delete, OldTyped, TypeOK, End, Nothing, calls, Contents
<1>5. ASSUME NEW c \in Calls, SelectStale(c) PROVE OldTyped'
  BY <1>5, WorkReads DEF SelectStale, OldTyped, TypeOK, End, Nothing, Contents
<1>6. ASSUME NEW c \in Calls, ReadFile(c) PROVE OldTyped'
  BY <1>6 DEF ReadFile, OldTyped, TypeOK, End, calls, Contents
<1>7. ASSUME NEW c \in Calls, SaveOld(c) PROVE OldTyped'
  BY <1>7 DEF SaveOld, OldTyped, TypeOK, calls, Contents
<1>8. ASSUME NEW c \in Calls, Change(c) PROVE OldTyped'
  BY <1>8 DEF Change, OldTyped, TypeOK, calls, Contents
<1>9. ASSUME NEW c \in Calls, EmbedRaises(c) PROVE OldTyped'
  BY <1>9 DEF EmbedRaises, OldTyped, TypeOK, End, Contents
<1>10. ASSUME NEW c \in Calls, CommitChange(c) PROVE OldTyped'
  BY <1>10 DEF CommitChange, OldTyped, TypeOK, End, Contents
<1>11. ASSUME NEW c \in Calls, Read(c) PROVE OldTyped'
  BY <1>11 DEF Read, OldTyped, TypeOK, End, calls, Contents
<1>12. ASSUME NEW c \in Calls, CommitRead(c) PROVE OldTyped'
  BY <1>12 DEF CommitRead, OldTyped, TypeOK, End, Contents
<1>13. ASSUME NEW c \in Calls, SelectMissing(c) PROVE OldTyped'
  BY <1>13, WorkReads DEF SelectMissing, OldTyped, TypeOK, End, Contents
<1>14. ASSUME NEW c \in Calls, Reindex(c) PROVE OldTyped'
  BY <1>14 DEF Reindex, OldTyped, TypeOK, calls, Contents
<1>15. ASSUME NEW c \in Calls, ReindexRaises(c) PROVE OldTyped'
  BY <1>15 DEF ReindexRaises, OldTyped, TypeOK, End, Contents
<1>16. ASSUME NEW c \in Calls, Flush(c) PROVE OldTyped'
  BY <1>16 DEF Flush, OldTyped, TypeOK, End, Contents
<1>17. ASSUME NEW c \in Calls, NEW o \in Ops \ {"none"}, NEW m \in Mems,
             Arrive(c, o, m) PROVE OldTyped'
  BY <1>17 DEF Arrive, OldTyped, TypeOK, Contents
<1>18. ASSUME WorkerTakes PROVE OldTyped'
  BY <1>18 DEF WorkerTakes, OldTyped, TypeOK, calls, Contents
<1>19. ASSUME WorkerGets PROVE OldTyped'
  BY <1>19 DEF WorkerGets, OldTyped, TypeOK, calls, Contents
<1>20. ASSUME WorkerSkips PROVE OldTyped'
  BY <1>20 DEF WorkerSkips, OldTyped, TypeOK, calls, Contents
<1>21. ASSUME WorkerEmbeds PROVE OldTyped'
  BY <1>21 DEF WorkerEmbeds, OldTyped, TypeOK, calls, Contents
<1>22. ASSUME WorkerFails PROVE OldTyped'
  BY <1>22 DEF WorkerFails, OldTyped, TypeOK, calls, Contents
<1>23. ASSUME WorkerCommits PROVE OldTyped'
  BY <1>23 DEF WorkerCommits, OldTyped, TypeOK, calls, Contents
<1>24. ASSUME Crash PROVE OldTyped'
  BY <1>24 DEF Crash, OldTyped, TypeOK, Contents
<1>25. ASSUME UNCHANGED vars PROVE OldTyped'
  BY <1>25 DEF OldTyped, TypeOK, vars, calls
<1>26. ASSUME NEW c \in Calls, Forget(c) PROVE OldTyped'
  BY <1>26 DEF Forget, OldTyped, TypeOK, calls, Contents
<1>27. ASSUME NEW c \in Calls, DeleteTopic(c) PROVE OldTyped'
  <2>1. CASE ~Nothing(c)
    BY <1>27, <2>1, TopicPuts DEF OldTyped, TypeOK
  <2>2. CASE Nothing(c)
    BY <2>2 DEF OldTyped, TypeOK, End, Nothing, Contents
  <2> QED
    BY <2>1, <2>2
<1>28. ASSUME NEW c \in Calls, Remove(c) PROVE OldTyped'
  BY <1>28 DEF Remove, OldTyped, TypeOK, calls, Contents
<1> QED
  BY <1>1, <1>2, <1>3, <1>4, <1>5, <1>6, <1>7, <1>8, <1>9, <1>10, <1>11, <1>12,
     <1>13, <1>14, <1>15, <1>16, <1>17, <1>18, <1>19, <1>20, <1>21, <1>22, <1>23, <1>24,
     <1>25, <1>26, <1>27, <1>28 DEF Next, CallStep, WorkerStep


JobsTyped ==
  /\ mode \in {"off", "sync", "async"}
  /\ intx \in BOOLEAN
  /\ queue \in Seq(Mems) /\ Len(queue) <= QueueSize
  /\ wpc \in {"idle", "get", "lock", "commit"}
  /\ wmem \in Mems
  /\ retries \in 0..MaxRetries
  /\ forgotten \subseteq Mems
  /\ crashes \in 0..MaxCrashes
  /\ raced \subseteq {Class(o) : o \in Ops}


LEMMA IdleTyped ==
  ASSUME Idle
  PROVE  /\ wpc' \in {"idle", "get", "lock", "commit"}
         /\ wmem' \in Mems
         /\ retries' \in 0..MaxRetries
BY FirstMem, MemConstants DEF Idle

LEMMA EnqueueTyped ==
  ASSUME TypeOK, NEW m \in Mems, Enqueue(m)
  PROVE  /\ queue' \in Seq(Mems) /\ Len(queue') <= QueueSize
         /\ forgotten' \subseteq Mems
         /\ UNCHANGED <<wpc, wmem, retries>>
<1>1. CASE mode = "async" /\ Len(queue) < QueueSize
  <2>1. queue' = Append(queue, m) /\ forgotten' = forgotten \ {m}
        /\ UNCHANGED <<wpc, wmem, retries>>
    BY <1>1 DEF Enqueue
  <2>2. queue \in Seq(Mems) /\ forgotten \subseteq Mems
    BY DEF TypeOK
  <2>3. Append(queue, m) \in Seq(Mems) /\ Len(Append(queue, m)) = Len(queue) + 1
    BY <2>2
  <2>4. Len(queue) \in Nat /\ QueueSize \in Nat
    BY <2>2, MemConstants
  <2> QED
    BY <1>1, <2>1, <2>2, <2>3, <2>4
<1>2. CASE ~(mode = "async" /\ Len(queue) < QueueSize)
  BY <1>2 DEF TypeOK, Enqueue
<1> QED
  BY <1>1, <1>2

LEMMA JobsTypeStep ==
  ASSUME TypeOK, [Next]_vars
  PROVE  JobsTyped'
<1>1. ASSUME NEW c \in Calls, GetConnection(c) PROVE JobsTyped'
  BY <1>1, FirstMem, MemConstants DEF GetConnection, JobsTyped, TypeOK, jobs, Rollback
<1>2. ASSUME NEW c \in Calls, BeginChange(c) PROVE JobsTyped'
  BY <1>2, FirstMem, MemConstants DEF BeginChange, JobsTyped, TypeOK, jobs, store,
     Execute, Nothing
<1>3. ASSUME NEW c \in Calls, BeginWrite(c) PROVE JobsTyped'
  BY <1>3, FirstMem, MemConstants DEF BeginWrite, JobsTyped, TypeOK, jobs, store, Nothing
<1>4. ASSUME NEW c \in Calls, Delete(c) PROVE JobsTyped'
  BY <1>4, FirstMem, MemConstants DEF Delete, JobsTyped, TypeOK, jobs, store, Execute, Nothing
<1>5. ASSUME NEW c \in Calls, SelectStale(c) PROVE JobsTyped'
  BY <1>5, FirstMem, MemConstants DEF SelectStale, JobsTyped, TypeOK, jobs, store, Nothing
<1>6. ASSUME NEW c \in Calls, ReadFile(c) PROVE JobsTyped'
  BY <1>6, FirstMem, MemConstants DEF ReadFile, JobsTyped, TypeOK, jobs, store
<1>7. ASSUME NEW c \in Calls, SaveOld(c) PROVE JobsTyped'
  BY <1>7, FirstMem, MemConstants DEF SaveOld, JobsTyped, TypeOK, jobs, Execute
<1>8. ASSUME NEW c \in Calls, Change(c) PROVE JobsTyped'
  BY <1>8, EnqueueTyped, mem[c] \in Mems DEF Change, JobsTyped, TypeOK, Execute
<1>9. ASSUME NEW c \in Calls, EmbedRaises(c) PROVE JobsTyped'
  BY <1>9, FirstMem, MemConstants DEF EmbedRaises, JobsTyped, TypeOK, jobs, store
<1>10. ASSUME NEW c \in Calls, CommitChange(c) PROVE JobsTyped'
  BY <1>10, FirstMem, MemConstants DEF CommitChange, JobsTyped, TypeOK, jobs, Commit
<1>11. ASSUME NEW c \in Calls, Read(c) PROVE JobsTyped'
  BY <1>11, FirstMem, MemConstants DEF Read, JobsTyped, TypeOK, jobs, store, Execute
<1>12. ASSUME NEW c \in Calls, CommitRead(c) PROVE JobsTyped'
  BY <1>12, FirstMem, MemConstants DEF CommitRead, JobsTyped, TypeOK, jobs, Commit
<1>13. ASSUME NEW c \in Calls, SelectMissing(c) PROVE JobsTyped'
  BY <1>13, FirstMem, MemConstants DEF SelectMissing, JobsTyped, TypeOK, jobs, store
<1>14. ASSUME NEW c \in Calls, Reindex(c) PROVE JobsTyped'
  BY <1>14, FirstMem, MemConstants DEF Reindex, JobsTyped, TypeOK, jobs, Execute
<1>15. ASSUME NEW c \in Calls, ReindexRaises(c) PROVE JobsTyped'
  BY <1>15, FirstMem, MemConstants DEF ReindexRaises, JobsTyped, TypeOK, jobs, store
<1>16. ASSUME NEW c \in Calls, Flush(c) PROVE JobsTyped'
  BY <1>16, FirstMem, MemConstants DEF Flush, JobsTyped, TypeOK, jobs, store
<1>17. ASSUME NEW c \in Calls, NEW o \in Ops \ {"none"}, NEW m \in Mems,
             Arrive(c, o, m) PROVE JobsTyped'
  BY <1>17, FirstMem, MemConstants DEF Arrive, JobsTyped, TypeOK, jobs, store
<1>18. ASSUME WorkerTakes PROVE JobsTyped'
  BY <1>18, FirstMem, MemConstants DEF WorkerTakes, JobsTyped, TypeOK, store
<1>19. ASSUME WorkerGets PROVE JobsTyped'
  BY <1>19, FirstMem, MemConstants DEF WorkerGets, JobsTyped, TypeOK, Rollback
<1>20. ASSUME WorkerSkips PROVE JobsTyped'
  BY <1>20, IdleTyped DEF WorkerSkips, JobsTyped, TypeOK, store
<1>21. ASSUME WorkerEmbeds PROVE JobsTyped'
  BY <1>21, FirstMem, MemConstants DEF WorkerEmbeds, JobsTyped, TypeOK, Execute
<1>22. ASSUME WorkerFails PROVE JobsTyped'
  BY <1>22, FirstMem, MemConstants DEF WorkerFails, JobsTyped, TypeOK, Idle, store
<1>23. ASSUME WorkerCommits PROVE JobsTyped'
  BY <1>23, IdleTyped DEF WorkerCommits, JobsTyped, TypeOK, Commit
<1>24. ASSUME Crash PROVE JobsTyped'
  <2>1. queue' = <<>> /\ Len(queue') <= QueueSize
    BY <1>24, MemConstants DEF Crash
  <2>2. crashes' \in 0..MaxCrashes
    BY <1>24, MemConstants DEF Crash, TypeOK
  <2>3. UNCHANGED <<mode, raced>> /\ intx' = FALSE /\ forgotten' = Mems /\ Idle
    BY <1>24 DEF Crash, Rollback
  <2>4. mode' \in {"off", "sync", "async"} /\ raced' \subseteq {Class(o) : o \in Ops}
    BY <2>3 DEF TypeOK
  <2>5. queue' \in Seq(Mems) /\ intx' \in BOOLEAN /\ forgotten' \subseteq Mems
    <3>1. queue' \in Seq(Mems)
      BY <2>1
    <3> QED
      BY <3>1, <2>3
  <2> QED
    BY <2>1, <2>2, <2>3, <2>4, <2>5, IdleTyped DEF JobsTyped
<1>25. ASSUME UNCHANGED vars PROVE JobsTyped'
  BY <1>25 DEF JobsTyped, TypeOK, vars, store, jobs
<1>26. ASSUME NEW c \in Calls, Forget(c) PROVE JobsTyped'
  BY <1>26 DEF Forget, JobsTyped, TypeOK, jobs, Execute
<1>27. ASSUME NEW c \in Calls, DeleteTopic(c) PROVE JobsTyped'
  BY <1>27 DEF DeleteTopic, JobsTyped, TypeOK, jobs, store, Execute, Nothing
<1>28. ASSUME NEW c \in Calls, Remove(c) PROVE JobsTyped'
  BY <1>28 DEF Remove, JobsTyped, TypeOK, jobs, Execute
<1> QED
  BY <1>1, <1>2, <1>3, <1>4, <1>5, <1>6, <1>7, <1>8, <1>9, <1>10, <1>11, <1>12,
     <1>13, <1>14, <1>15, <1>16, <1>17, <1>18, <1>19, <1>20, <1>21, <1>22, <1>23, <1>24,
     <1>25, <1>26, <1>27, <1>28 DEF Next, CallStep, WorkerStep


AckedTyped == acked \in [Mems -> SUBSET Contents]

LEMMA AckedTypeStep ==
  ASSUME TypeOK, [Next]_vars
  PROVE  AckedTyped'
<1>1. ASSUME NEW c \in Calls, GetConnection(c) PROVE AckedTyped'
  BY <1>1 DEF GetConnection, AckedTyped, TypeOK
<1>2. ASSUME NEW c \in Calls, BeginChange(c) PROVE AckedTyped'
  BY <1>2 DEF BeginChange, AckedTyped, TypeOK
<1>3. ASSUME NEW c \in Calls, BeginWrite(c) PROVE AckedTyped'
  BY <1>3 DEF BeginWrite, AckedTyped, TypeOK
<1>4. ASSUME NEW c \in Calls, Delete(c) PROVE AckedTyped'
  BY <1>4 DEF Delete, AckedTyped, TypeOK
<1>5. ASSUME NEW c \in Calls, SelectStale(c) PROVE AckedTyped'
  BY <1>5 DEF SelectStale, AckedTyped, TypeOK
<1>6. ASSUME NEW c \in Calls, ReadFile(c) PROVE AckedTyped'
  BY <1>6 DEF ReadFile, AckedTyped, TypeOK
<1>7. ASSUME NEW c \in Calls, SaveOld(c) PROVE AckedTyped'
  BY <1>7 DEF SaveOld, AckedTyped, TypeOK
<1>8. ASSUME NEW c \in Calls, Change(c) PROVE AckedTyped'
  BY <1>8 DEF Change, AckedTyped, TypeOK
<1>9. ASSUME NEW c \in Calls, EmbedRaises(c) PROVE AckedTyped'
  BY <1>9 DEF EmbedRaises, AckedTyped, TypeOK
<1>10. ASSUME NEW c \in Calls, CommitChange(c) PROVE AckedTyped'
  BY <1>10, NewIsContent DEF CommitChange, AckedTyped, TypeOK
<1>11. ASSUME NEW c \in Calls, Read(c) PROVE AckedTyped'
  BY <1>11 DEF Read, AckedTyped, TypeOK
<1>12. ASSUME NEW c \in Calls, CommitRead(c) PROVE AckedTyped'
  BY <1>12 DEF CommitRead, AckedTyped, TypeOK
<1>13. ASSUME NEW c \in Calls, SelectMissing(c) PROVE AckedTyped'
  BY <1>13 DEF SelectMissing, AckedTyped, TypeOK
<1>14. ASSUME NEW c \in Calls, Reindex(c) PROVE AckedTyped'
  BY <1>14 DEF Reindex, AckedTyped, TypeOK
<1>15. ASSUME NEW c \in Calls, ReindexRaises(c) PROVE AckedTyped'
  BY <1>15 DEF ReindexRaises, AckedTyped, TypeOK
<1>16. ASSUME NEW c \in Calls, Flush(c) PROVE AckedTyped'
  BY <1>16 DEF Flush, AckedTyped, TypeOK
<1>17. ASSUME NEW c \in Calls, NEW o \in Ops \ {"none"}, NEW m \in Mems,
             Arrive(c, o, m) PROVE AckedTyped'
  BY <1>17 DEF Arrive, AckedTyped, TypeOK
<1>18. ASSUME WorkerTakes PROVE AckedTyped'
  BY <1>18 DEF WorkerTakes, AckedTyped, TypeOK
<1>19. ASSUME WorkerGets PROVE AckedTyped'
  BY <1>19 DEF WorkerGets, AckedTyped, TypeOK
<1>20. ASSUME WorkerSkips PROVE AckedTyped'
  BY <1>20 DEF WorkerSkips, AckedTyped, TypeOK
<1>21. ASSUME WorkerEmbeds PROVE AckedTyped'
  BY <1>21 DEF WorkerEmbeds, AckedTyped, TypeOK
<1>22. ASSUME WorkerFails PROVE AckedTyped'
  BY <1>22 DEF WorkerFails, AckedTyped, TypeOK
<1>23. ASSUME WorkerCommits PROVE AckedTyped'
  BY <1>23 DEF WorkerCommits, AckedTyped, TypeOK
<1>24. ASSUME Crash PROVE AckedTyped'
  BY <1>24 DEF Crash, AckedTyped, TypeOK
<1>25. ASSUME UNCHANGED vars PROVE AckedTyped'
  BY <1>25 DEF AckedTyped, TypeOK, vars
<1>26. ASSUME NEW c \in Calls, Forget(c) PROVE AckedTyped'
  BY <1>26 DEF Forget, AckedTyped, TypeOK
<1>27. ASSUME NEW c \in Calls, DeleteTopic(c) PROVE AckedTyped'
  BY <1>27 DEF DeleteTopic, AckedTyped, TypeOK
<1>28. ASSUME NEW c \in Calls, Remove(c) PROVE AckedTyped'
  BY <1>28 DEF Remove, AckedTyped, TypeOK
<1> QED
  BY <1>1, <1>2, <1>3, <1>4, <1>5, <1>6, <1>7, <1>8, <1>9, <1>10, <1>11, <1>12,
     <1>13, <1>14, <1>15, <1>16, <1>17, <1>18, <1>19, <1>20, <1>21, <1>22, <1>23, <1>24,
     <1>25, <1>26, <1>27, <1>28 DEF Next, CallStep, WorkerStep


LEMMA TypeStep ==
  ASSUME TypeOK, [Next]_vars
  PROVE  TypeOK'
BY RowsTypeStep, CallsTypeStep, OldTypeStep, JobsTypeStep, AckedTypeStep
   DEF TypeOK, RowsTyped, CallsTyped, OldTyped, JobsTyped, AckedTyped

LEMMA LocksStep ==
  ASSUME TypeOK, Locks, [Next]_vars
  PROVE  Locks'
<1>1. ASSUME NEW c \in Calls, GetConnection(c) PROVE Locks'
  BY <1>1, MemConstants DEF Locked, GetConnection, Locks, TypeOK, Active, Changes, Go, calls, jobs
<1>2. ASSUME NEW c \in Calls, BeginChange(c) PROVE Locks'
  BY <1>2, MemConstants DEF Locked, BeginChange, Locks, TypeOK, Active, Changes, Go, End, Nothing,
     Lock, jobs
<1>3. ASSUME NEW c \in Calls, BeginWrite(c) PROVE Locks'
  <2>1. CASE \E m \in Mems : work[m].content = {}
    <3>1. Nothing(c) /\ UNCHANGED <<mode, queue, wpc>>
      BY <1>3, <2>1 DEF Locked, BeginWrite, jobs
    <3> QED
      BY <3>1, <1>3 DEF Locked, Locks, TypeOK, Nothing, End, Go, BeginWrite, Lock
  <2>2. CASE ~ \E m \in Mems : work[m].content = {}
    <3>1. /\ pc' = [pc EXCEPT ![c] = "write"] /\ pc[c] = "lock" /\ op[c] = "write"
          /\ holder' = c /\ holder = Nobody /\ UNCHANGED <<op, mode, queue, wpc>>
      BY <1>3, <2>2 DEF Locked, BeginWrite, jobs, Lock, Go
    <3> QED
      BY <3>1, <1>3, MemConstants DEF Locked, Locks, TypeOK, Changes
  <2> QED
    BY <2>1, <2>2
<1>4. ASSUME NEW c \in Calls, Delete(c) PROVE Locks'
  BY <1>4, MemConstants DEF Locked, Delete, Locks, TypeOK, Active, Changes, Go, End, Nothing,
     Lock, calls, jobs
<1>5. ASSUME NEW c \in Calls, SelectStale(c) PROVE Locks'
  BY <1>5, MemConstants DEF Locked, SelectStale, Locks, TypeOK, Active, Changes, Go, End, Nothing,
     Lock, jobs
<1>6. ASSUME NEW c \in Calls, ReadFile(c) PROVE Locks'
  BY <1>6, MemConstants DEF Locked, ReadFile, Locks, TypeOK, Active, Changes, Go, End, calls, jobs
<1>7. ASSUME NEW c \in Calls, SaveOld(c) PROVE Locks'
  BY <1>7, MemConstants DEF Locked, SaveOld, Locks, TypeOK, Active, Changes, Go, Lock, calls, jobs
<1>8. ASSUME NEW c \in Calls, Change(c) PROVE Locks'
  BY <1>8, MemConstants DEF Locked, Change, Locks, TypeOK, Active, Changes, Go, calls, Enqueue
<1>9. ASSUME NEW c \in Calls, EmbedRaises(c) PROVE Locks'
  BY <1>9, MemConstants DEF Locked, EmbedRaises, Locks, TypeOK, Active, Changes, Go, End, jobs
<1>10. ASSUME NEW c \in Calls, CommitChange(c) PROVE Locks'
  BY <1>10, MemConstants DEF Locked, CommitChange, Locks, TypeOK, Active, Changes, Go, End, jobs
<1>11. ASSUME NEW c \in Calls, Read(c) PROVE Locks'
  BY <1>11, MemConstants DEF Locked, Read, Locks, TypeOK, Active, Changes, Go, End, calls, jobs
<1>12. ASSUME NEW c \in Calls, CommitRead(c) PROVE Locks'
  BY <1>12, MemConstants DEF Locked, CommitRead, Locks, TypeOK, Active, Changes, Go, End, jobs
<1>13. ASSUME NEW c \in Calls, SelectMissing(c) PROVE Locks'
  BY <1>13, MemConstants DEF Locked, SelectMissing, Locks, TypeOK, Active, Changes, Go, End, jobs
<1>14. ASSUME NEW c \in Calls, Reindex(c) PROVE Locks'
  BY <1>14, MemConstants DEF Locked, Reindex, Locks, TypeOK, Active, Changes, Go, Lock, calls, jobs
<1>15. ASSUME NEW c \in Calls, ReindexRaises(c) PROVE Locks'
  BY <1>15, MemConstants DEF Locked, ReindexRaises, Locks, TypeOK, Active, Changes, Go, End, Lock, jobs
<1>16. ASSUME NEW c \in Calls, Flush(c) PROVE Locks'
  BY <1>16, MemConstants DEF Locked, Flush, Locks, TypeOK, Active, Changes, Go, End, jobs
<1>17. ASSUME NEW c \in Calls, NEW o \in Ops \ {"none"}, NEW m \in Mems,
             Arrive(c, o, m) PROVE Locks'
  BY <1>17, MemConstants DEF Locked, Arrive, Locks, TypeOK, Active, Changes, Go, jobs
<1>18. ASSUME WorkerTakes PROVE Locks'
  BY <1>18, MemConstants DEF Locked, WorkerTakes, Locks, TypeOK, Active, Changes, calls
<1>19. ASSUME WorkerGets PROVE Locks'
  BY <1>19, MemConstants DEF Locked, WorkerGets, Locks, TypeOK, Active, Changes, calls
<1>20. ASSUME WorkerSkips PROVE Locks'
  BY <1>20, MemConstants DEF Locked, WorkerSkips, Locks, TypeOK, Active, Changes, calls, Idle
<1>21. ASSUME WorkerEmbeds PROVE Locks'
  BY <1>21, MemConstants DEF Locked, WorkerEmbeds, Locks, TypeOK, Active, Changes, calls
<1>22. ASSUME WorkerFails PROVE Locks'
  BY <1>22, MemConstants DEF Locked, WorkerFails, Locks, TypeOK, Active, Changes, calls, Idle
<1>23. ASSUME WorkerCommits PROVE Locks'
  BY <1>23, MemConstants DEF Locked, WorkerCommits, Locks, TypeOK, Active, Changes, calls, Idle
<1>24. ASSUME Crash PROVE Locks'
  BY <1>24, MemConstants DEF Locked, Crash, Locks, TypeOK, Active, Changes, Idle
<1>25. ASSUME UNCHANGED vars PROVE Locks'
  BY <1>25 DEF Locked, Locks, vars, calls, jobs
<1>26. ASSUME NEW c \in Calls, Forget(c) PROVE Locks'
  BY <1>26 DEF Forget, Locked, Locks, TypeOK, Changes, Go, calls, jobs
<1>27. ASSUME NEW c \in Calls, DeleteTopic(c) PROVE Locks'
  <2>1. CASE ~Nothing(c)
    <3>1. /\ pc' = [pc EXCEPT ![c] = "remove"] /\ holder' = c /\ holder = Nobody
          /\ op[c] = "delete" /\ UNCHANGED <<op, mode, queue, wpc>>
      BY <1>27, <2>1, TopicPuts DEF DeleteTopic, jobs, Lock, Go
    <3> QED
      BY <3>1, <1>27, MemConstants DEF Locked, Locks, TypeOK, Changes
  <2>2. CASE Nothing(c)
    BY <1>27, <2>2 DEF DeleteTopic, Locked, Locks, TypeOK, Changes, Nothing, End, Go, Lock, jobs
  <2> QED
    BY <2>1, <2>2
<1>28. ASSUME NEW c \in Calls, Remove(c) PROVE Locks'
  BY <1>28 DEF Remove, Locked, Locks, TypeOK, Changes, Go, calls, jobs
<1> QED
  BY <1>1, <1>2, <1>3, <1>4, <1>5, <1>6, <1>7, <1>8, <1>9, <1>10, <1>11, <1>12,
     <1>13, <1>14, <1>15, <1>16, <1>17, <1>18, <1>19, <1>20, <1>21, <1>22, <1>23, <1>24,
     <1>25, <1>26, <1>27, <1>28 DEF Next, CallStep, WorkerStep

-----------------------------------------------------------------------------
(***************************************************************************)
(* The rows                                                                *)
(***************************************************************************)

LEMMA HalfNone ==
  ASSUME \A c \in Calls : pc[c] \notin {"forget", "remove"}
  PROVE  Half = {}
BY DEF Half

LEMMA HalfFree ==
  ASSUME Locks, holder \notin Calls
  PROVE  Half = {}
BY HalfNone DEF Locks, Locked

LEMMA HalfOther ==
  ASSUME Locks, NEW c \in Calls, pc[c] \in {"write", "commit"}
  PROVE  Half = {}
BY HalfNone DEF Locks, Locked

LEMMA HalfOne ==
  ASSUME TypeOK, Locks, NEW c \in Calls
  PROVE  /\ pc[c] = "forget" => Half = {mem[c]}
         /\ pc[c] = "remove" => Half = Stored
BY DEF Half, Locks, Locked, Stored, TypeOK

LEMMA HalfKept ==
  ASSUME work' = work,
         \A c \in Calls : pc[c] \in {"forget", "remove"} =>
                          pc'[c] = pc[c] /\ mem'[c] = mem[c]
  PROVE  Half \subseteq Half'
<1>1. Stored' = Stored
  BY DEF Stored, There
<1> QED
  BY <1>1 DEF Half

LEMMA StoreMore ==
  ASSUME NEW d, NEW a, NEW r, NEW s, NEW t, NEW u,
         StoreOK(d, a, r, t), r \subseteq s, t \subseteq u
  PROVE  StoreOK(d, a, s, u)
BY DEF StoreOK

LEMMA StoresKept ==
  ASSUME Stores, UNCHANGED <<db, work, acked, torn>>, raced \subseteq raced',
         \A c \in Calls : pc[c] \in {"forget", "remove"} =>
                          pc'[c] = pc[c] /\ mem'[c] = mem[c]
  PROVE  Stores'
<1>1. Half \subseteq Half'
  BY HalfKept
<1>2. StoreOK(db, acked, raced', torn) /\ StoreOK(work, acked, raced', torn \cup Half')
  BY <1>1, StoreMore DEF Stores
<1>3. StoreOK(db', acked', raced', torn') /\ StoreOK(work', acked', raced', torn' \cup Half')
  BY <1>2
<1> QED
  BY <1>3 DEF Stores

LEMMA StoresWritten ==
  ASSUME Stores, UNCHANGED <<db, acked, raced, torn>>, NEW t, t \subseteq torn \cup Half',
         StoreOK(work', acked, raced, t)
  PROVE  Stores'
<1>1. StoreOK(work', acked, raced, torn \cup Half')
  BY StoreMore
<1>2. StoreOK(db', acked', raced', torn') /\ StoreOK(work', acked', raced', torn' \cup Half')
  BY <1>1 DEF Stores
<1> QED
  BY <1>2 DEF Stores

LEMMA StoresBack ==
  ASSUME Stores, Rollback, UNCHANGED <<acked, raced>>
  PROVE  Stores'
<1>1. StoreOK(db, acked, raced, torn \cup Half')
  BY StoreMore DEF Stores
<1>2. StoreOK(db', acked', raced', torn') /\ StoreOK(work', acked', raced', torn' \cup Half')
  BY <1>1 DEF Stores, Rollback
<1> QED
  BY <1>2 DEF Stores

LEMMA StoresCommit ==
  ASSUME TypeOK, StoreOK(work, acked', raced, torn \cup Half), Commit, raced' = raced
  PROVE  Stores'
<1> DEFINE t == {m \in torn \cup Half : There(work, m) \/ work[m].history # {}}
<1>1. torn \cup Half \subseteq Mems
  BY DEF TypeOK, Half
<1>2. StoreOK(work, acked', raced, t)
  BY <1>1 DEF StoreOK
<1>3. torn' = t /\ db' = work /\ work' = work
  BY DEF Commit
<1> HIDE DEF t
<1>4. StoreOK(work, acked', raced, torn' \cup Half')
  BY <1>2, <1>3, StoreMore
<1>5. StoreOK(db', acked', raced', torn') /\ StoreOK(work', acked', raced', torn' \cup Half')
  BY <1>2, <1>3, <1>4
<1> QED
  BY <1>5 DEF Stores

LEMMA PutStore ==
  ASSUME NEW d, NEW w, NEW a, NEW r, NEW t, NEW m \in Mems, NEW x, NEW v, NEW h,
         StoreOK(d, a, r, t), Put(w, d, m, x, v, h),
         x = {} => \A n \in Mems : n # m => d[n].content # {},
         x \in {Unborn, Gone} => h = {} \/ "refresh" \in r \/ m \in t,
         v \in {NoVector, x} \/ "reindex" \in r,
         x \notin {Unborn, Gone} => a[m] \subseteq {x} \cup h \/ "refresh" \in r \/ m \in t,
         x = Unborn => a[m] = {} /\ (h = {} \/ "refresh" \in r)
  PROVE  StoreOK(w, a, r, t)
BY DEF StoreOK, Put, There

LEMMA BeginChangeStores ==
  ASSUME TypeOK, Stores, Half = {}, NEW c \in Calls, BeginChange(c), There(work, mem[c])
  PROVE  StoreOK(work', acked, raced, torn)
<1> DEFINE m == mem[c]
<1>1. m \in Mems
  BY DEF TypeOK
<1>2. Put(work', work, m, work[m].content, work[m].vector,
          work[m].history \cup {work[m].content})
  BY BeginChangePuts
<1>3. StoreOK(work, acked, raced, torn)
  BY DEF Stores
<1>4. work[m].content = {} => \A n \in Mems : n # m => work[n].content # {}
  BY <1>1, <1>3 DEF StoreOK
<1>5. work[m].content \notin {Unborn, Gone}
  BY DEF There
<1>6. work[m].vector \in {NoVector, work[m].content} \/ "reindex" \in raced
  BY <1>1, <1>3 DEF StoreOK
<1>7. acked[m] \subseteq {work[m].content} \cup (work[m].history \cup {work[m].content})
      \/ "refresh" \in raced \/ m \in torn
  BY <1>1, <1>3 DEF StoreOK
<1> DEFINE x == work[m].content
           v == work[m].vector
           h == work[m].history \cup {work[m].content}
<1>8. /\ Put(work', work, m, x, v, h)
      /\ x = {} => \A n \in Mems : n # m => work[n].content # {}
      /\ x \in {Unborn, Gone} => h = {} \/ "refresh" \in raced
      /\ v \in {NoVector, x} \/ "reindex" \in raced
      /\ x \notin {Unborn, Gone} => acked[m] \subseteq {x} \cup h \/ "refresh" \in raced \/ m \in torn
      /\ x = Unborn => acked[m] = {} /\ (h = {} \/ "refresh" \in raced)
  BY <1>2, <1>4, <1>5, <1>6, <1>7
<1> HIDE DEF m, x, v, h
<1> QED
  BY <1>1, <1>3, <1>8, PutStore

LEMMA DeleteStores ==
  ASSUME TypeOK, Stores, Half = {}, NEW c \in Calls, Delete(c), There(work, mem[c])
  PROVE  StoreOK(work', acked, raced, torn \cup {mem[c]})
<1> DEFINE t == torn \cup {mem[c]}
           h == work[mem[c]].history
<1>1. mem[c] \in Mems
  BY DEF TypeOK
<1>2. Put(work', work, mem[c], Gone, NoVector, h)
  BY DeletePuts
<1>3. StoreOK(work, acked, raced, torn)
  BY DEF Stores
<1>4. Gone # {} /\ Gone # Unborn
  BY MemConstants
<1>5. StoreOK(work, acked, raced, t) /\ mem[c] \in t
  BY <1>3, StoreMore
<1> HIDE DEF t, h
<1>6. StoreOK(work', acked, raced, t)
  BY <1>1, <1>2, <1>4, <1>5, PutStore
<1> QED
  BY <1>6 DEF t

\* The memory is gone, and now its history.
LEMMA PutGone ==
  ASSUME NEW d, NEW w, NEW a, NEW r, NEW t, NEW m \in Mems,
         StoreOK(d, a, r, t \cup {m}), Put(w, d, m, Gone, NoVector, {})
  PROVE  StoreOK(w, a, r, t)
<1>1. Gone # {} /\ Gone # Unborn
  BY MemConstants
<1> QED
  BY <1>1 DEF StoreOK, Put, There

LEMMA ForgetStores ==
  ASSUME TypeOK, Locks, Stores, Held, NEW c \in Calls, Forget(c)
  PROVE  StoreOK(work', acked, raced, torn)
<1>1. pc[c] = "forget" /\ mem[c] \in Mems
  BY DEF Forget, TypeOK
<1>2. StoreOK(work, acked, raced, torn \cup {mem[c]})
  BY <1>1, HalfOne DEF Stores
<1>3. Put(work', work, mem[c], Gone, NoVector, {})
  BY <1>1, ForgetPuts DEF Held, HeldBy
<1> QED
  BY <1>1, <1>2, <1>3, PutGone

LEMMA EmptiedStore ==
  ASSUME NEW d, NEW w, NEW a, NEW r, NEW t, StoreOK(d, a, r, t), Emptied(w, d)
  PROVE  StoreOK(w, a, r, t \cup {m \in Mems : There(w, m)})
BY DEF StoreOK, Emptied, There

LEMMA VanishedStore ==
  ASSUME NEW d, NEW w, NEW a, NEW r, NEW t,
         StoreOK(d, a, r, t \cup {m \in Mems : There(d, m)}), Vanished(w, d),
         \A m \in Mems : There(d, m) => d[m].history = {}
  PROVE  StoreOK(w, a, r, t)
<1>1. Gone # {} /\ Gone # Unborn /\ {} # Unborn
  BY MemConstants
<1> QED
  BY <1>1 DEF StoreOK, Vanished, There

LEMMA RemoveStores ==
  ASSUME TypeOK, Locks, Stores, Held, NEW c \in Calls, Remove(c)
  PROVE  StoreOK(work', acked, raced, torn)
<1>1. pc[c] = "remove"
  BY DEF Remove
<1>2. StoreOK(work, acked, raced, torn \cup {m \in Mems : There(work, m)})
  BY <1>1, HalfOne DEF Stores, Stored
<1>3. \A m \in Mems : There(work, m) => work[m].history = {}
  BY <1>1 DEF Held, HeldBy, Stored
<1> QED
  BY <1>2, <1>3, RemovePuts, VanishedStore

LEMMA SaveOldStores ==
  ASSUME TypeOK, Stores, Half = {}, Unraced, NEW c \in Calls, SaveOld(c)
  PROVE  StoreOK(work', acked, raced, torn)
<1> DEFINE m == mem[c]
<1>1. m \in Mems /\ old[c] \in Contents
  BY DEF TypeOK
<1>2. Put(work', work, m, work[m].content, work[m].vector, work[m].history \cup {old[c]})
  BY SaveOldPuts
<1>3. StoreOK(work, acked, raced, torn)
  BY DEF Stores
<1>4. work[m].content = {} => \A n \in Mems : n # m => work[n].content # {}
  BY <1>1, <1>3 DEF StoreOK
<1>5. work[m].content \notin {Unborn, Gone} \/ "refresh" \in raced
  <2>1. pc[c] = "relock" /\ op[c] = "refresh"
    BY DEF SaveOld, Lock
  <2>2. "refresh" \notin raced => old[c] = work[m].content
    BY <2>1 DEF Unraced, Unseen, Active
  <2> QED
    BY <1>1, <2>2, Apart
<1>6. work[m].vector \in {NoVector, work[m].content} \/ "reindex" \in raced
  BY <1>1, <1>3 DEF StoreOK
<1>7. work[m].content \notin {Unborn, Gone} =>
        acked[m] \subseteq {work[m].content} \cup (work[m].history \cup {old[c]})
        \/ "refresh" \in raced \/ m \in torn
  BY <1>1, <1>3 DEF StoreOK, There
<1>8. work[m].content = Unborn =>
        acked[m] = {} /\ (work[m].history \cup {old[c]} = {} \/ "refresh" \in raced)
  BY <1>1, <1>3, <1>5 DEF StoreOK
<1> DEFINE x == work[m].content
           v == work[m].vector
           h == work[m].history \cup {old[c]}
<1>9. /\ Put(work', work, m, x, v, h)
      /\ x = {} => \A n \in Mems : n # m => work[n].content # {}
      /\ x \in {Unborn, Gone} => h = {} \/ "refresh" \in raced
      /\ v \in {NoVector, x} \/ "reindex" \in raced
      /\ x \notin {Unborn, Gone} => acked[m] \subseteq {x} \cup h \/ "refresh" \in raced \/ m \in torn
      /\ x = Unborn => acked[m] = {} /\ (h = {} \/ "refresh" \in raced)
  BY <1>2, <1>4, <1>5, <1>6, <1>7, <1>8
<1> HIDE DEF m, x, v, h
<1> QED
  BY <1>1, <1>3, <1>9, PutStore

LEMMA ChangeStores ==
  ASSUME TypeOK, Locks, Stores, Half = {}, Held, NEW c \in Calls, Change(c)
  PROVE  StoreOK(work', acked, raced, torn)
<1> DEFINE m == mem[c]
<1> DEFINE x == NewContent(c)
<1>1. m \in Mems /\ x \in Contents
  BY NewIsContent DEF TypeOK
<1>2. StoreOK(work, acked, raced, torn)
  BY DEF Stores
<1>3. CASE ~(op[c] = "write" \/ There(work, m))
  BY <1>2, <1>3 DEF Change, Execute
<1>4. CASE op[c] = "write" \/ There(work, m)
  <2>1. Put(work', work, m, x, Vector(x), work[m].history)
    BY <1>4, ChangePuts
  <2>2. pc[c] = "write" /\ op[c] \in Changes
    BY DEF Change, Locks
  <2>3. x = {} => \A n \in Mems : n # m => work[n].content # {}
    <3>1. op[c] = "write" => \A n \in Mems : work[n].content # {}
      BY <2>2 DEF Held, HeldBy
    <3>2. op[c] # "write" => c \in x
      BY DEF NewContent
    <3> QED
      BY <3>1, <3>2
  <2>4. x \notin {Unborn, Gone}
    BY <1>1, Apart
  <2>5. Vector(x) \in {NoVector, x}
    BY DEF Vector
  <2>6. acked[m] \subseteq {x} \cup work[m].history \/ "refresh" \in raced \/ m \in torn
    <3>1. CASE op[c] = "write"
      <4>1. work[m].content = Unborn
        BY <2>2, <3>1 DEF Held, HeldBy
      <4> QED
        BY <1>1, <1>2, <4>1 DEF StoreOK
    <3>2. CASE op[c] # "write"
      <4>1. Saved(m) \/ "refresh" \in raced
        BY <2>2, <3>2 DEF Held, HeldBy, Changes
      <4> QED
        BY <1>1, <1>2, <4>1 DEF StoreOK, Saved
    <3> QED
      BY <3>1, <3>2
  <2>7. x # Unborn
    BY <2>4
  <2> HIDE DEF m, x
  <2> QED
    BY <1>1, <1>2, <2>1, <2>3, <2>4, <2>5, <2>6, <2>7, PutStore, ZenonT(60)
<1> QED
  BY <1>3, <1>4

LEMMA ReindexStores ==
  ASSUME TypeOK, Stores, Half = {}, Unraced, NEW c \in Calls, Reindex(c)
  PROVE  StoreOK(work', acked, raced, torn)
<1> DEFINE m == mem[c]
<1>1. m \in Mems /\ old[c] \in Contents
  BY DEF TypeOK
<1>2. StoreOK(work, acked, raced, torn)
  BY DEF Stores
<1>3. CASE ~There(work, m)
  BY <1>2, <1>3 DEF Reindex, Execute
<1>4. CASE There(work, m)
  <2>1. Put(work', work, m, work[m].content, old[c], work[m].history)
    BY <1>4, ReindexPuts
  <2>2. work[m].content = {} => \A n \in Mems : n # m => work[n].content # {}
    BY <1>1, <1>2 DEF StoreOK
  <2>3. work[m].content \notin {Unborn, Gone}
    BY <1>4 DEF There
  <2>4. old[c] = work[m].content \/ "reindex" \in raced
    <3>1. pc[c] = "relock" /\ op[c] = "reindex"
      BY DEF Reindex, Lock
    <3> QED
      BY <3>1 DEF Unraced, Unseen, Active
  <2>5. acked[m] \subseteq {work[m].content} \cup work[m].history \/ "refresh" \in raced \/ m \in torn
    BY <1>1, <1>2, <1>4 DEF StoreOK
  <2> DEFINE x == work[m].content
             v == old[c]
             h == work[m].history
  <2>6. /\ Put(work', work, m, x, v, h)
        /\ x = {} => \A n \in Mems : n # m => work[n].content # {}
        /\ x \notin {Unborn, Gone}
        /\ v \in {NoVector, x} \/ "reindex" \in raced
        /\ acked[m] \subseteq {x} \cup h \/ "refresh" \in raced \/ m \in torn
    BY <2>1, <2>2, <2>3, <2>4, <2>5
  <2> HIDE DEF m, x, v, h
  <2> QED
    BY <1>1, <1>2, <2>6, PutStore
<1> QED
  BY <1>3, <1>4

LEMMA WorkerStores ==
  ASSUME TypeOK, Stores, Half = {}, WorkerEmbeds
  PROVE  StoreOK(work', acked, raced, torn)
<1> DEFINE m == wmem
<1>1. m \in Mems
  BY DEF TypeOK
<1>2. StoreOK(work, acked, raced, torn)
  BY DEF Stores
<1>3. Put(work', work, m, work[m].content, work[m].content, work[m].history)
  BY WorkerPuts
<1>4. work[m].content = {} => \A n \in Mems : n # m => work[n].content # {}
  BY <1>1, <1>2 DEF StoreOK
<1>5. There(work, m)
  BY DEF WorkerEmbeds
<1>6. work[m].content \notin {Unborn, Gone}
  BY <1>5 DEF There
<1>7. acked[m] \subseteq {work[m].content} \cup work[m].history \/ "refresh" \in raced \/ m \in torn
  BY <1>1, <1>2, <1>5 DEF StoreOK
<1> DEFINE x == work[m].content
           h == work[m].history
<1>8. /\ Put(work', work, m, x, x, h)
      /\ x = {} => \A n \in Mems : n # m => work[n].content # {}
      /\ x \notin {Unborn, Gone}
      /\ acked[m] \subseteq {x} \cup h \/ "refresh" \in raced \/ m \in torn
  BY <1>3, <1>4, <1>6, <1>7
<1> HIDE DEF m, x, h
<1> QED
  BY <1>1, <1>2, <1>8, PutStore

LEMMA CommitStores ==
  ASSUME TypeOK, Stores, Held, NEW c \in Calls, CommitChange(c)
  PROVE  StoreOK(work, acked', raced, torn \cup Half)
<1> DEFINE m == mem[c]
<1>1. m \in Mems /\ acked \in [Mems -> SUBSET Contents]
  BY DEF TypeOK
<1>2. StoreOK(work, acked, raced, torn \cup Half)
  BY DEF Stores
<1>3. CASE op[c] \in Changes /\ There(work, m)
  <2>1. work[m].content = NewContent(c)
    BY <1>3 DEF Held, HeldBy, CommitChange
  <2>2. acked' = [acked EXCEPT ![m] = acked[m] \cup {work[m].content}]
    BY <1>3, <2>1 DEF CommitChange, Changes
  <2> HIDE DEF m
  <2> QED
    BY <1>1, <1>2, <1>3, <2>2 DEF StoreOK, There
<1>4. CASE op[c] = "delete"
  <2>1. acked' = [n \in Mems |-> IF n \in Stored THEN acked[n] ELSE {}]
    BY <1>4 DEF CommitChange, Changes
  <2> QED
    BY <1>2, <2>1, StoredThere DEF StoreOK, There
<1>5. CASE ~(op[c] \in Changes /\ There(work, m)) /\ op[c] # "delete"
  <2>1. acked' = acked
    BY <1>5 DEF CommitChange, Changes
  <2> QED
    BY <1>2, <2>1
<1> QED
  BY <1>3, <1>4, <1>5


LEMMA StoresStep ==
  ASSUME TypeOK, Locks, Stores, Held, Unraced, [Next]_vars
  PROVE  Stores'
<1>1. ASSUME NEW c \in Calls, GetConnection(c) PROVE Stores'
  BY <1>1, StoresBack DEF GetConnection
<1>2. ASSUME NEW c \in Calls, BeginChange(c) PROVE Stores'
  <2>1. Half = {} /\ UNCHANGED <<db, acked, raced, torn>>
    BY <1>2, HalfFree, MemConstants DEF BeginChange, Lock, Execute, Nothing, store
  <2>2. CASE There(work, mem[c])
    BY <1>2, <2>1, <2>2, BeginChangeStores, StoresWritten
  <2>3. CASE ~There(work, mem[c])
    BY <1>2, <2>1, <2>3, StoresKept DEF BeginChange, Lock, Nothing, End, Go, store, TypeOK
  <2> QED
    BY <2>2, <2>3
<1>3. ASSUME NEW c \in Calls, BeginWrite(c) PROVE Stores'
  BY <1>3, StoresKept DEF BeginWrite, Lock, Nothing, End, Go, store, TypeOK
<1>4. ASSUME NEW c \in Calls, Delete(c) PROVE Stores'
  <2>1. Half = {} /\ UNCHANGED <<db, acked, raced, torn>>
    BY <1>4, HalfFree, MemConstants DEF Delete, Lock, Execute, Nothing, store
  <2>2. CASE There(work, mem[c])
    <3>1. pc'[c] = "forget" /\ mem' = mem /\ mem[c] \in Mems
      BY <1>4, <2>2 DEF Delete, Go, calls, TypeOK
    <3>2. mem[c] \in Half'
      BY <3>1 DEF Half
    <3> QED
      BY <1>4, <2>1, <2>2, <3>2, DeleteStores, StoresWritten
  <2>3. CASE ~There(work, mem[c])
    BY <1>4, <2>1, <2>3, StoresKept DEF Delete, Lock, Nothing, End, Go, store, TypeOK
  <2> QED
    BY <2>2, <2>3
<1>5. ASSUME NEW c \in Calls, SelectStale(c) PROVE Stores'
  BY <1>5, StoresKept DEF SelectStale, Lock, Nothing, End, Go, store, TypeOK
<1>6. ASSUME NEW c \in Calls, ReadFile(c) PROVE Stores'
  BY <1>6, StoresKept DEF ReadFile, End, Go, calls, store, TypeOK
<1>7. ASSUME NEW c \in Calls, SaveOld(c) PROVE Stores'
  <2>1. Half = {} /\ UNCHANGED <<db, acked, raced, torn>>
    BY <1>7, HalfFree, MemConstants DEF SaveOld, Lock, Execute
  <2> QED
    BY <1>7, <2>1, SaveOldStores, StoresWritten
<1>8. ASSUME NEW c \in Calls, Change(c) PROVE Stores'
  <2>1. Half = {} /\ UNCHANGED <<db, acked, raced, torn>>
    BY <1>8, HalfOther DEF Change, Execute
  <2> QED
    BY <1>8, <2>1, ChangeStores, StoresWritten
<1>9. ASSUME NEW c \in Calls, EmbedRaises(c) PROVE Stores'
  BY <1>9, StoresKept DEF EmbedRaises, End, Go, store, TypeOK
<1>10. ASSUME NEW c \in Calls, CommitChange(c) PROVE Stores'
  BY <1>10, CommitStores, StoresCommit DEF CommitChange
<1>11. ASSUME NEW c \in Calls, Read(c) PROVE Stores'
  BY <1>11, StoresKept DEF Read, Execute, End, Go, calls, store, TypeOK
<1>12. ASSUME NEW c \in Calls, CommitRead(c) PROVE Stores'
  BY <1>12, StoresCommit DEF CommitRead, Stores
<1>13. ASSUME NEW c \in Calls, SelectMissing(c) PROVE Stores'
  BY <1>13, StoresKept DEF SelectMissing, End, Go, store, TypeOK
<1>14. ASSUME NEW c \in Calls, Reindex(c) PROVE Stores'
  <2>1. Half = {} /\ UNCHANGED <<db, acked, raced, torn>>
    BY <1>14, HalfFree, MemConstants DEF Reindex, Lock, Execute
  <2> QED
    BY <1>14, <2>1, ReindexStores, StoresWritten
<1>15. ASSUME NEW c \in Calls, ReindexRaises(c) PROVE Stores'
  BY <1>15, StoresKept DEF ReindexRaises, Lock, End, Go, store, TypeOK
<1>16. ASSUME NEW c \in Calls, Flush(c) PROVE Stores'
  BY <1>16, StoresKept DEF Flush, End, Go, store, TypeOK
<1>17. ASSUME NEW c \in Calls, NEW o \in Ops \ {"none"}, NEW m \in Mems,
             Arrive(c, o, m) PROVE Stores'
  BY <1>17, StoresKept DEF Arrive, Go, store, TypeOK
<1>18. ASSUME WorkerTakes PROVE Stores'
  BY <1>18, StoresKept DEF WorkerTakes, calls, store
<1>19. ASSUME WorkerGets PROVE Stores'
  BY <1>19, StoresBack DEF WorkerGets
<1>20. ASSUME WorkerSkips PROVE Stores'
  BY <1>20, StoresKept DEF WorkerSkips, calls, store
<1>21. ASSUME WorkerEmbeds PROVE Stores'
  <2>1. Half = {} /\ UNCHANGED <<db, acked, raced, torn>>
    BY <1>21, HalfFree, MemConstants DEF WorkerEmbeds, Execute
  <2> QED
    BY <1>21, <2>1, WorkerStores, StoresWritten
<1>22. ASSUME WorkerFails PROVE Stores'
  BY <1>22, StoresKept DEF WorkerFails, calls, store
<1>23. ASSUME WorkerCommits PROVE Stores'
  BY <1>23, StoresCommit DEF WorkerCommits, Stores
<1>24. ASSUME Crash PROVE Stores'
  BY <1>24, StoresBack DEF Crash
<1>25. ASSUME UNCHANGED vars PROVE Stores'
  BY <1>25, StoresKept DEF vars, calls, store
<1>26. ASSUME NEW c \in Calls, Forget(c) PROVE Stores'
  BY <1>26, ForgetStores, StoresWritten DEF Forget, Execute
<1>27. ASSUME NEW c \in Calls, DeleteTopic(c) PROVE Stores'
  <2>1. Half = {} /\ UNCHANGED <<acked, raced>>
    BY <1>27, HalfFree, MemConstants DEF DeleteTopic, Lock
  <2>2. CASE ~Nothing(c)
    <3>1. Emptied(work', work) /\ Go(c, "remove") /\ UNCHANGED <<db, torn>>
      BY <1>27, <2>2, TopicPuts
    <3>2. StoreOK(work', acked, raced, torn \cup {m \in Mems : There(work', m)})
      BY <2>1, <3>1, EmptiedStore DEF Stores
    <3>3. pc'[c] = "remove"
      BY <3>1 DEF Go, TypeOK
    <3>4. {m \in Mems : There(work', m)} \subseteq Half'
      BY <3>3 DEF Half, Stored, There
    <3> QED
      BY <2>1, <3>1, <3>2, <3>4, StoresWritten
  <2>3. CASE Nothing(c)
    BY <1>27, <2>1, <2>3, StoresKept DEF DeleteTopic, Lock, Nothing, End, Go, store, TypeOK
  <2> QED
    BY <2>2, <2>3
<1>28. ASSUME NEW c \in Calls, Remove(c) PROVE Stores'
  BY <1>28, RemoveStores, StoresWritten DEF Remove, Execute
<1> QED
  BY <1>1, <1>2, <1>3, <1>4, <1>5, <1>6, <1>7, <1>8, <1>9, <1>10, <1>11, <1>12,
     <1>13, <1>14, <1>15, <1>16, <1>17, <1>18, <1>19, <1>20, <1>21, <1>22, <1>23, <1>24,
     <1>25, <1>26, <1>27, <1>28 DEF Next, CallStep, WorkerStep

-----------------------------------------------------------------------------
(***************************************************************************)
(* What a call relies on under the lock                                    *)
(***************************************************************************)

LEMMA HeldKept ==
  ASSUME NEW c \in Calls, HeldBy(c), work' = work, raced \subseteq raced',
         pc'[c] = pc[c], op'[c] = op[c], mem'[c] = mem[c], old'[c] = old[c]
  PROVE  HeldBy(c)'
BY DEF HeldBy, Saved, Stored, There, NewContent

LEMMA NotHeld ==
  ASSUME NEW c \in Calls, pc'[c] \notin Locked
  PROVE  HeldBy(c)'
BY DEF HeldBy, Locked

\* Nobody has the lock.
LEMMA FreeHeld ==
  ASSUME Locks, holder = Nobody, UNCHANGED pc
  PROVE  Held'
<1>1. \A c \in Calls : pc[c] \notin Locked
  BY MemConstants DEF Locks
<1> QED
  BY <1>1, NotHeld DEF Held

LEMMA OthersFree ==
  ASSUME TypeOK, Locks, holder = Nobody, NEW c \in Calls, NEW p,
         pc' = [pc EXCEPT ![c] = p], HeldBy(c)'
  PROVE  Held'
<1>1. \A d \in Calls : pc[d] \notin Locked
  BY MemConstants DEF Locks
<1>2. \A d \in Calls : d # c => pc'[d] \notin Locked
  BY <1>1 DEF TypeOK
<1> QED
  BY <1>2, NotHeld DEF Held

LEMMA GetConnectionHeld ==
  ASSUME TypeOK, Locks, NEW c \in Calls, GetConnection(c)
  PROVE  Held'
<1>1. PICK p \in {"relock", "select", "lock"} : pc' = [pc EXCEPT ![c] = p]
  BY DEF GetConnection, Go
<1>2. HeldBy(c)'
  BY <1>1, NotHeld DEF TypeOK, Locked
<1> QED
  BY <1>1, <1>2, OthersFree DEF GetConnection

LEMMA BeginChangeHeld ==
  ASSUME TypeOK, Locks, NEW c \in Calls, BeginChange(c)
  PROVE  Held'
<1>1. holder = Nobody
  BY DEF BeginChange, Lock
<1>2. CASE There(work, mem[c])
  <2>1. Put(work', work, mem[c], work[mem[c]].content, work[mem[c]].vector,
            work[mem[c]].history \cup {work[mem[c]].content})
    BY <1>2, BeginChangePuts
  <2>2. Saved(mem[c])'
    BY <1>2, <2>1 DEF Put, Saved, There, BeginChange
  <2>3. pc' = [pc EXCEPT ![c] = "write"] /\ op'[c] \in {"update", "append"}
    BY <1>2 DEF BeginChange, Go
  <2>4. pc'[c] = "write"
    BY <2>3 DEF TypeOK
  <2>5. HeldBy(c)'
    BY <2>2, <2>3, <2>4 DEF HeldBy
  <2> QED
    BY <1>1, <2>3, <2>5, OthersFree
<1>3. CASE ~There(work, mem[c])
  <2>1. pc' = [pc EXCEPT ![c] = "over"]
    BY <1>3 DEF BeginChange, Nothing, End, Go
  <2> QED
    BY <1>1, <2>1, NotHeld, OthersFree DEF TypeOK, Locked
<1> QED
  BY <1>2, <1>3

LEMMA BeginWriteHeld ==
  ASSUME TypeOK, Locks, NEW c \in Calls, BeginWrite(c)
  PROVE  Held'
<1>1. holder = Nobody /\ op[c] = "write"
  BY DEF BeginWrite, Lock
<1>2. CASE \E m \in Mems : work[m].content = {}
  <2>1. pc' = [pc EXCEPT ![c] = "over"]
    BY <1>2 DEF BeginWrite, Nothing, End, Go
  <2> QED
    BY <1>1, <2>1, NotHeld, OthersFree DEF TypeOK, Locked
<1>3. CASE ~ \E m \in Mems : work[m].content = {}
  <2> DEFINE u == CHOOSE m \in Mems : work[m].content = Unborn
  <2>1. u \in Mems /\ work[u].content = Unborn
    BY <1>3 DEF BeginWrite
  <2>2. mem' = [mem EXCEPT ![c] = u]
    BY <1>3 DEF BeginWrite
  <2> HIDE DEF u
  <2>3. mem'[c] = u
    BY <2>1, <2>2 DEF TypeOK
  <2>4. work' = work /\ op' = op /\ pc' = [pc EXCEPT ![c] = "write"]
    BY <1>3 DEF BeginWrite, store, Go
  <2>5. HeldBy(c)'
    BY <1>1, <1>3, <2>1, <2>3, <2>4 DEF HeldBy, TypeOK
  <2> QED
    BY <1>1, <2>4, <2>5, OthersFree
<1> QED
  BY <1>2, <1>3

LEMMA DeleteHeld ==
  ASSUME TypeOK, Locks, NEW c \in Calls, Delete(c)
  PROVE  Held'
<1>1. holder = Nobody
  BY DEF Delete, Lock
<1>2. CASE There(work, mem[c])
  <2>1. pc' = [pc EXCEPT ![c] = "forget"] /\ mem' = mem
    BY <1>2 DEF Delete, Go, calls
  <2>2. Put(work', work, mem[c], Gone, NoVector, work[mem[c]].history)
    BY <1>2, DeletePuts
  <2>3. HeldBy(c)'
    BY <2>1, <2>2 DEF HeldBy, Put, TypeOK
  <2> QED
    BY <1>1, <2>1, <2>3, OthersFree
<1>3. CASE ~There(work, mem[c])
  <2>1. pc' = [pc EXCEPT ![c] = "over"]
    BY <1>3 DEF Delete, Nothing, End, Go
  <2> QED
    BY <1>1, <2>1, NotHeld, OthersFree DEF TypeOK, Locked
<1> QED
  BY <1>2, <1>3

\* A delete() that is about to commit relies on nothing, and nobody else has the lock.
LEMMA DeletedHeld ==
  ASSUME TypeOK, Locks, NEW c \in Calls, pc[c] \in {"forget", "remove"}, Go(c, "commit"), op' = op
  PROVE  Held'
<1>1. HeldBy(c)'
  BY DEF HeldBy, Locks, Changes, Go, TypeOK
<1>2. \A d \in Calls : d # c => pc'[d] \notin Locked
  BY DEF Locks, Locked, Go, TypeOK
<1> QED
  BY <1>1, <1>2, NotHeld DEF Held

LEMMA DeleteTopicHeld ==
  ASSUME TypeOK, Locks, NEW c \in Calls, DeleteTopic(c)
  PROVE  Held'
<1>1. holder = Nobody
  BY DEF DeleteTopic, Lock
<1>2. CASE ~Nothing(c)
  <2>1. Emptied(work', work) /\ pc' = [pc EXCEPT ![c] = "remove"]
    BY <1>2, TopicPuts DEF Go
  <2>2. \A m \in Stored' : work'[m].history = {}
    BY <2>1 DEF Emptied, Stored, There
  <2>3. HeldBy(c)'
    BY <2>1, <2>2 DEF HeldBy, TypeOK
  <2> QED
    BY <1>1, <2>1, <2>3, OthersFree
<1>3. CASE Nothing(c)
  <2>1. pc' = [pc EXCEPT ![c] = "over"]
    BY <1>3 DEF Nothing, End, Go
  <2> QED
    BY <1>1, <2>1, NotHeld, OthersFree DEF TypeOK, Locked
<1> QED
  BY <1>2, <1>3

LEMMA SaveOldHeld ==
  ASSUME TypeOK, Locks, Unraced, NEW c \in Calls, SaveOld(c)
  PROVE  Held'
<1> DEFINE m == mem[c]
<1>1. holder = Nobody /\ op[c] = "refresh" /\ pc[c] = "relock"
  BY DEF SaveOld, Lock
<1>2. pc' = [pc EXCEPT ![c] = "write"] /\ UNCHANGED <<op, mem, raced>>
  BY DEF SaveOld, Go, calls
<1>3. Saved(m)' \/ "refresh" \in raced
  <2>1. Put(work', work, m, work[m].content, work[m].vector, work[m].history \cup {old[c]})
    BY SaveOldPuts
  <2>2. "refresh" \notin raced => old[c] = work[m].content
    BY <1>1 DEF Unraced, Unseen, Active
  <2>3. old[c] # Unborn /\ old[c] # Gone
    BY Apart DEF TypeOK
  <2> QED
    BY <1>2, <2>1, <2>2, <2>3 DEF Put, Saved, There
<1>4. HeldBy(c)'
  BY <1>1, <1>2, <1>3 DEF HeldBy, TypeOK
<1> QED
  BY <1>1, <1>2, <1>4, OthersFree

LEMMA ChangeHeld ==
  ASSUME TypeOK, Locks, Held, NEW c \in Calls, Change(c)
  PROVE  Held'
<1> DEFINE m == mem[c]
<1>1. pc' = [pc EXCEPT ![c] = "commit"] /\ UNCHANGED <<op, mem, old>> /\ pc[c] = "write"
  BY DEF Change, Go, calls
<1>2. CASE op[c] = "write" \/ There(work, m)
  <2>1. Put(work', work, m, NewContent(c), Vector(NewContent(c)), work[m].history)
    BY <1>2, ChangePuts
  <2>2. NewContent(c)' = NewContent(c)
    BY <1>1 DEF NewContent
  <2>3. work'[mem'[c]].content = NewContent(c)'
    BY <1>1, <2>1, <2>2 DEF Put
  <2> QED
    <3>1. HeldBy(c)'
      BY <1>1, <2>3 DEF HeldBy, TypeOK
    <3>2. \A d \in Calls : d # c => pc'[d] \notin Locked
      BY <1>1 DEF TypeOK, Locks, Locked
    <3> QED
      BY <3>1, <3>2, NotHeld DEF Held
<1>3. CASE ~(op[c] = "write" \/ There(work, m))
  <2>1. work' = work
    BY <1>3 DEF Change, Execute
  <2>2. HeldBy(c)'
    BY <1>1, <1>3, <2>1 DEF HeldBy, There, TypeOK
  <2>3. \A d \in Calls : d # c => pc'[d] \notin Locked
    BY <1>1 DEF TypeOK, Locks, Locked
  <2> QED
    BY <2>2, <2>3, NotHeld DEF Held
<1> QED
  BY <1>2, <1>3

LEMMA ReindexHeld ==
  ASSUME TypeOK, Locks, NEW c \in Calls, Reindex(c)
  PROVE  Held'
<1>1. holder = Nobody /\ op[c] = "reindex"
  BY DEF Reindex, Lock
<1>2. pc' = [pc EXCEPT ![c] = "commit"] /\ op' = op
  BY DEF Reindex, Go, calls
<1>3. HeldBy(c)'
  BY <1>1, <1>2 DEF HeldBy, Changes, TypeOK
<1> QED
  BY <1>1, <1>2, <1>3, OthersFree


LEMMA HeldStep ==
  ASSUME TypeOK, Locks, Held, Unraced, [Next]_vars
  PROVE  Held'
<1>1. ASSUME NEW c \in Calls, GetConnection(c) PROVE Held'
  BY <1>1, GetConnectionHeld
<1>2. ASSUME NEW c \in Calls, BeginChange(c) PROVE Held'
  BY <1>2, BeginChangeHeld
<1>3. ASSUME NEW c \in Calls, BeginWrite(c) PROVE Held'
  BY <1>3, BeginWriteHeld
<1>4. ASSUME NEW c \in Calls, Delete(c) PROVE Held'
  BY <1>4, DeleteHeld
<1>5. ASSUME NEW c \in Calls, SelectStale(c) PROVE Held'
  BY <1>5, HeldKept, NotHeld DEF SelectStale, Held, Locked, TypeOK, Active, Go, End, Nothing, store
<1>6. ASSUME NEW c \in Calls, ReadFile(c) PROVE Held'
  BY <1>6, HeldKept, NotHeld DEF ReadFile, Held, Locked, TypeOK, Active, Go, End, calls, store
<1>7. ASSUME NEW c \in Calls, SaveOld(c) PROVE Held'
  BY <1>7, SaveOldHeld
<1>8. ASSUME NEW c \in Calls, Change(c) PROVE Held'
  BY <1>8, ChangeHeld
<1>9. ASSUME NEW c \in Calls, EmbedRaises(c) PROVE Held'
  BY <1>9, HeldKept, NotHeld DEF EmbedRaises, Held, Locked, TypeOK, Active, Go, End, store
<1>10. ASSUME NEW c \in Calls, CommitChange(c) PROVE Held'
  BY <1>10, HeldKept, NotHeld DEF CommitChange, Held, Locked, TypeOK, Active, Go, End, Commit
<1>11. ASSUME NEW c \in Calls, Read(c) PROVE Held'
  BY <1>11, HeldKept, NotHeld DEF Read, Held, Locked, TypeOK, Active, Go, End, calls, store, Execute
<1>12. ASSUME NEW c \in Calls, CommitRead(c) PROVE Held'
  BY <1>12, HeldKept, NotHeld DEF CommitRead, Held, Locked, TypeOK, Active, Go, End, Commit
<1>13. ASSUME NEW c \in Calls, SelectMissing(c) PROVE Held'
  BY <1>13, HeldKept, NotHeld DEF SelectMissing, Held, Locked, TypeOK, Active, Go, End, store
<1>14. ASSUME NEW c \in Calls, Reindex(c) PROVE Held'
  BY <1>14, ReindexHeld
<1>15. ASSUME NEW c \in Calls, ReindexRaises(c) PROVE Held'
  BY <1>15, HeldKept, NotHeld DEF ReindexRaises, Held, Locked, TypeOK, Active, Go, End, store
<1>16. ASSUME NEW c \in Calls, Flush(c) PROVE Held'
  BY <1>16, HeldKept, NotHeld DEF Flush, Held, Locked, TypeOK, Active, Go, End, store
<1>17. ASSUME NEW c \in Calls, NEW o \in Ops \ {"none"}, NEW m \in Mems,
             Arrive(c, o, m) PROVE Held'
  BY <1>17, HeldKept, NotHeld DEF Arrive, Held, Locked, TypeOK, Active, Go, store
<1>18. ASSUME WorkerTakes PROVE Held'
  BY <1>18, HeldKept, NotHeld DEF WorkerTakes, Held, Locked, TypeOK, Active, calls, store
<1>19. ASSUME WorkerGets PROVE Held'
  BY <1>19, FreeHeld DEF WorkerGets, calls
<1>20. ASSUME WorkerSkips PROVE Held'
  BY <1>20, HeldKept, NotHeld DEF WorkerSkips, Held, Locked, TypeOK, Active, calls, store
<1>21. ASSUME WorkerEmbeds PROVE Held'
  BY <1>21, FreeHeld, MemConstants DEF WorkerEmbeds, Execute, calls
<1>22. ASSUME WorkerFails PROVE Held'
  BY <1>22, HeldKept, NotHeld DEF WorkerFails, Held, Locked, TypeOK, Active, calls, store
<1>23. ASSUME WorkerCommits PROVE Held'
  BY <1>23, HeldKept, NotHeld DEF WorkerCommits, Held, Locked, TypeOK, Active, calls, Commit
<1>24. ASSUME Crash PROVE Held'
  BY <1>24, HeldKept, NotHeld DEF Crash, Held, Locked, TypeOK, Active
<1>25. ASSUME UNCHANGED vars PROVE Held'
  BY <1>25, HeldKept DEF Held, vars, store, calls
<1>26. ASSUME NEW c \in Calls, Forget(c) PROVE Held'
  BY <1>26, DeletedHeld DEF Forget, calls
<1>27. ASSUME NEW c \in Calls, DeleteTopic(c) PROVE Held'
  BY <1>27, DeleteTopicHeld
<1>28. ASSUME NEW c \in Calls, Remove(c) PROVE Held'
  BY <1>28, DeletedHeld DEF Remove, calls
<1> QED
  BY <1>1, <1>2, <1>3, <1>4, <1>5, <1>6, <1>7, <1>8, <1>9, <1>10, <1>11, <1>12,
     <1>13, <1>14, <1>15, <1>16, <1>17, <1>18, <1>19, <1>20, <1>21, <1>22, <1>23, <1>24,
     <1>25, <1>26, <1>27, <1>28 DEF Next, CallStep, WorkerStep

-----------------------------------------------------------------------------
(***************************************************************************)
(* refresh() and reindex() while no call overlaps them                     *)
(***************************************************************************)

\* The step of a call: the others are where they were, and are in no refresh() or
\* reindex() that no call overlaps.
LEMMA CallUnraced ==
  ASSUME TypeOK, Unraced, NEW c \in Calls, NEW p, pc[c] \in Active,
         pc' = [pc EXCEPT ![c] = p], raced' = raced,
         \A d \in Calls : d # c => op'[d] = op[d],
         p \in Active => op'[c] = op[c],
         p \in {"lock", "select", "file", "reget", "relock"} /\ Unseen(c) => SameContents',
         p \in {"file", "reget", "relock"} /\ Unseen(c) => old'[c] = work'[mem'[c]].content
  PROVE  Unraced'
<1>1. pc'[c] = p /\ \A d \in Calls : d # c => pc'[d] = pc[d]
  BY DEF TypeOK
<1>2. ASSUME NEW d \in Calls, Unseen(d)'
      PROVE  /\ d = c /\ Unseen(c) /\ \A e \in Calls : pc'[e] \in Active => e = d
  <2>1. pc[d] \in Active /\ Unseen(d)
    BY <1>1, <1>2 DEF Unseen
  <2>2. d = c
    BY <2>1 DEF Unraced
  <2> QED
    BY <1>1, <2>1, <2>2 DEF Unraced
<1>3. p \in Active => pc'[c] = p
  BY <1>1
<1> QED
  BY <1>1, <1>2 DEF Unraced, Unseen

LEMMA WorkerUnraced ==
  ASSUME TypeOK, Unraced, UNCHANGED <<pc, calls, raced>>,
         SameContents => SameContents' /\ \A m \in Mems : work'[m].content = work[m].content
  PROVE  Unraced'
BY DEF TypeOK, Unraced, Unseen, calls

LEMMA ArriveUnraced ==
  ASSUME TypeOK, Unraced, NEW c \in Calls, NEW o \in Ops \ {"none"}, NEW m \in Mems,
         Arrive(c, o, m)
  PROVE  Unraced'
<1> DEFINE others == {d \in Calls : pc[d] \in Active}
<1>1. /\ pc[c] = "new" /\ pc'[c] \in {"join", "get"} /\ op'[c] = o
      /\ \A d \in Calls : d # c => pc'[d] = pc[d] /\ op'[d] = op[d]
  BY DEF Arrive, Go, TypeOK
<1>2. others # {} => {Class(x) : x \in {o} \cup {op[d] : d \in others}} \subseteq raced'
  BY DEF Arrive
<1>3. \A x \in {"refresh", "reindex"} : Class(x) = x
  BY DEF Class
<1>4. ASSUME NEW d \in Calls, Unseen(d)' PROVE d = c /\ others = {}
  <2>1. CASE d = c
    <3>1. others # {} => o \in raced'
      BY <1>1, <1>2, <1>3, <1>4, <2>1 DEF Unseen
    <3> QED
      BY <1>1, <1>4, <2>1, <3>1 DEF Unseen
  <2>2. CASE d # c
    <3>1. d \in others /\ op'[d] = op[d] /\ op[d] \in {"refresh", "reindex"}
      BY <1>1, <1>4, <2>2 DEF Unseen
    <3>2. op[d] \in raced'
      BY <1>2, <1>3, <3>1
    <3> QED
      BY <1>4, <3>1, <3>2 DEF Unseen
  <2> QED
    BY <2>1, <2>2
<1>5. ASSUME NEW d \in Calls, Unseen(d)', NEW e \in Calls, pc'[e] \in Active PROVE e = d
  <2>1. d = c /\ others = {}
    BY <1>4, <1>5
  <2> QED
    BY <1>1, <1>5, <2>1
<1>6. \A d \in Calls : Unseen(d)' => pc'[d] \in {"join", "get"}
  BY <1>1, <1>4
<1> QED
  BY <1>5, <1>6 DEF Unraced

LEMMA GetConnectionUnraced ==
  ASSUME TypeOK, Unraced, NEW c \in Calls, GetConnection(c)
  PROVE  Unraced'
<1>1. /\ pc[c] \in {"get", "reget"} /\ pc[c] \in Active
      /\ UNCHANGED <<op, mem, old, raced>> /\ work' = db /\ db' = db
  BY DEF GetConnection, Rollback, calls, Active
<1>2. SameContents'
  BY <1>1 DEF SameContents
<1>3. CASE pc[c] = "get"
  <2>1. PICK p \in {"select", "lock"} : pc' = [pc EXCEPT ![c] = p]
    BY <1>3 DEF GetConnection, Go
  <2> QED
    BY <1>1, <1>2, <2>1, CallUnraced
<1>4. CASE pc[c] = "reget"
  <2>1. pc' = [pc EXCEPT ![c] = "relock"]
    BY <1>4 DEF GetConnection, Go
  <2>2. Unseen(c) => SameContents /\ old[c] = work[mem[c]].content
    BY <1>4 DEF Unraced
  <2>3. Unseen(c) => old'[c] = work'[mem'[c]].content
    BY <1>1, <2>2 DEF SameContents, TypeOK
  <2> QED
    BY <1>1, <1>2, <2>1, <2>3, CallUnraced
<1> QED
  BY <1>1, <1>3, <1>4

LEMMA SelectStaleUnraced ==
  ASSUME TypeOK, Unraced, NEW c \in Calls, SelectStale(c)
  PROVE  Unraced'
<1>1. pc[c] = "lock" /\ pc[c] \in Active /\ UNCHANGED <<work, db, raced>>
  BY DEF SelectStale, Lock, Nothing, store, Active
<1>2. CASE There(work, mem[c])
  <2>1. /\ pc' = [pc EXCEPT ![c] = "file"] /\ UNCHANGED <<op, mem>>
        /\ old' = [old EXCEPT ![c] = work[mem[c]].content]
    BY <1>2 DEF SelectStale, Go
  <2>2. Unseen(c) => SameContents
    BY <1>1 DEF Unraced
  <2>3. SameContents => SameContents'
    BY <1>1 DEF SameContents
  <2>4. old'[c] = work'[mem'[c]].content
    BY <1>1, <2>1 DEF TypeOK
  <2> QED
    BY <1>1, <2>1, <2>2, <2>3, <2>4, CallUnraced
<1>3. CASE ~There(work, mem[c])
  <2>1. pc' = [pc EXCEPT ![c] = "over"] /\ op' = [op EXCEPT ![c] = "none"]
    BY <1>3 DEF SelectStale, Nothing, End, Go
  <2>2. "over" \notin Active
    BY DEF Active
  <2> QED
    BY <1>1, <2>1, <2>2, CallUnraced DEF TypeOK
<1> QED
  BY <1>2, <1>3

LEMMA SelectMissingUnraced ==
  ASSUME TypeOK, Unraced, NEW c \in Calls, SelectMissing(c)
  PROVE  Unraced'
<1>1. pc[c] = "select" /\ pc[c] \in Active /\ UNCHANGED <<work, db, raced>>
  BY DEF SelectMissing, Lock, Nothing, store, Active
<1>2. CASE (There(work, mem[c]) /\ work[mem[c]].vector = NoVector)
  <2>1. /\ pc' = [pc EXCEPT ![c] = "reget"] /\ UNCHANGED <<op, mem>>
        /\ old' = [old EXCEPT ![c] = work[mem[c]].content]
    BY <1>2 DEF SelectMissing, Go
  <2>2. Unseen(c) => SameContents
    BY <1>1 DEF Unraced
  <2>3. SameContents => SameContents'
    BY <1>1 DEF SameContents
  <2>4. old'[c] = work'[mem'[c]].content
    BY <1>1, <2>1 DEF TypeOK
  <2> QED
    BY <1>1, <2>1, <2>2, <2>3, <2>4, CallUnraced
<1>3. CASE ~(There(work, mem[c]) /\ work[mem[c]].vector = NoVector)
  <2>1. pc' = [pc EXCEPT ![c] = "over"] /\ op' = [op EXCEPT ![c] = "none"]
    BY <1>3 DEF SelectMissing, Nothing, End, Go
  <2>2. "over" \notin Active
    BY DEF Active
  <2> QED
    BY <1>1, <2>1, <2>2, CallUnraced DEF TypeOK
<1> QED
  BY <1>2, <1>3

LEMMA ReadFileUnraced ==
  ASSUME TypeOK, Unraced, NEW c \in Calls, ReadFile(c)
  PROVE  Unraced'
<1>1. pc[c] = "file" /\ pc[c] \in Active /\ UNCHANGED <<work, db, raced>>
  BY DEF ReadFile, store, Active
<1>2. CASE pc' = [pc EXCEPT ![c] = "reget"] /\ UNCHANGED calls
  <2>1. Unseen(c) => SameContents /\ old[c] = work[mem[c]].content
    BY <1>1 DEF Unraced
  <2>2. SameContents => SameContents'
    BY <1>1 DEF SameContents
  <2>3. UNCHANGED <<op, mem, old>>
    BY <1>2 DEF calls
  <2> QED
    BY <1>1, <1>2, <2>1, <2>2, <2>3, CallUnraced
<1>3. CASE End(c)
  <2>1. "over" \notin Active
    BY DEF Active
  <2> QED
    BY <1>1, <1>3, <2>1, CallUnraced DEF End, Go, TypeOK
<1> QED
  BY <1>2, <1>3 DEF ReadFile, Go

LEMMA EndUnraced ==
  ASSUME TypeOK, Unraced, NEW c \in Calls, pc[c] \in Active, End(c), raced' = raced
  PROVE  Unraced'
<1>1. "over" \notin Active
  BY DEF Active
<1> QED
  BY <1>1, CallUnraced DEF End, Go, TypeOK

LEMMA GoUnraced ==
  ASSUME TypeOK, Unraced, NEW c \in Calls, pc[c] \in Active,
         NEW p \in {"write", "commit", "rcommit", "forget", "remove"}, Go(c, p), op' = op, raced' = raced
  PROVE  Unraced'
BY CallUnraced DEF Go


LEMMA UnracedStep ==
  ASSUME TypeOK, Unraced, [Next]_vars
  PROVE  Unraced'
<1>1. ASSUME NEW c \in Calls, GetConnection(c) PROVE Unraced'
  BY <1>1, GetConnectionUnraced
<1>2. ASSUME NEW c \in Calls, BeginChange(c) PROVE Unraced'
  BY <1>2, EndUnraced, GoUnraced DEF BeginChange, Lock, Nothing, Active
<1>3. ASSUME NEW c \in Calls, BeginWrite(c) PROVE Unraced'
  BY <1>3, EndUnraced, GoUnraced DEF BeginWrite, Lock, Nothing, Active
<1>4. ASSUME NEW c \in Calls, Delete(c) PROVE Unraced'
  BY <1>4, EndUnraced, GoUnraced DEF Delete, Lock, Nothing, calls, Active
<1>5. ASSUME NEW c \in Calls, SelectStale(c) PROVE Unraced'
  BY <1>5, SelectStaleUnraced
<1>6. ASSUME NEW c \in Calls, ReadFile(c) PROVE Unraced'
  BY <1>6, ReadFileUnraced
<1>7. ASSUME NEW c \in Calls, SaveOld(c) PROVE Unraced'
  BY <1>7, EndUnraced, GoUnraced DEF SaveOld, Lock, calls, Active
<1>8. ASSUME NEW c \in Calls, Change(c) PROVE Unraced'
  BY <1>8, EndUnraced, GoUnraced DEF Change, calls, Active
<1>9. ASSUME NEW c \in Calls, EmbedRaises(c) PROVE Unraced'
  BY <1>9, EndUnraced, GoUnraced DEF EmbedRaises, Active
<1>10. ASSUME NEW c \in Calls, CommitChange(c) PROVE Unraced'
  BY <1>10, EndUnraced, GoUnraced DEF CommitChange, Active
<1>11. ASSUME NEW c \in Calls, Read(c) PROVE Unraced'
  BY <1>11, EndUnraced, GoUnraced DEF Read, calls, Active
<1>12. ASSUME NEW c \in Calls, CommitRead(c) PROVE Unraced'
  BY <1>12, EndUnraced, GoUnraced DEF CommitRead, Active
<1>13. ASSUME NEW c \in Calls, SelectMissing(c) PROVE Unraced'
  BY <1>13, SelectMissingUnraced
<1>14. ASSUME NEW c \in Calls, Reindex(c) PROVE Unraced'
  BY <1>14, EndUnraced, GoUnraced DEF Reindex, Lock, calls, Active
<1>15. ASSUME NEW c \in Calls, ReindexRaises(c) PROVE Unraced'
  BY <1>15, EndUnraced, GoUnraced DEF ReindexRaises, Lock, Active
<1>16. ASSUME NEW c \in Calls, Flush(c) PROVE Unraced'
  BY <1>16, EndUnraced, GoUnraced DEF Flush, Active
<1>17. ASSUME NEW c \in Calls, NEW o \in Ops \ {"none"}, NEW m \in Mems,
             Arrive(c, o, m) PROVE Unraced'
  BY <1>17, ArriveUnraced
<1>18. ASSUME WorkerTakes PROVE Unraced'
  BY <1>18, WorkerUnraced DEF WorkerTakes, store, SameContents
<1>19. ASSUME WorkerGets PROVE Unraced'
  BY <1>19, WorkerUnraced DEF WorkerGets, Rollback, SameContents
<1>20. ASSUME WorkerSkips PROVE Unraced'
  BY <1>20, WorkerUnraced DEF WorkerSkips, store, SameContents
<1>21. ASSUME WorkerEmbeds PROVE Unraced'
  <2>1. \A m \in Mems : work'[m].content = work[m].content
    BY <1>21, WorkerPuts DEF Put
  <2> QED
    BY <1>21, <2>1, WorkerUnraced DEF WorkerEmbeds, Execute, SameContents
<1>22. ASSUME WorkerFails PROVE Unraced'
  BY <1>22, WorkerUnraced DEF WorkerFails, store, SameContents
<1>23. ASSUME WorkerCommits PROVE Unraced'
  BY <1>23, WorkerUnraced DEF WorkerCommits, Commit, SameContents
<1>24. ASSUME Crash PROVE Unraced'
  BY <1>24 DEF Crash, Unraced, Unseen
<1>25. ASSUME UNCHANGED vars PROVE Unraced'
  BY <1>25, WorkerUnraced DEF vars, store, SameContents
<1>26. ASSUME NEW c \in Calls, Forget(c) PROVE Unraced'
  BY <1>26, GoUnraced DEF Forget, calls, Active
<1>27. ASSUME NEW c \in Calls, DeleteTopic(c) PROVE Unraced'
  <2>1. CASE ~Nothing(c)
    BY <1>27, <2>1, TopicPuts, GoUnraced DEF DeleteTopic, Lock, Active
  <2>2. CASE Nothing(c)
    BY <1>27, <2>2, EndUnraced DEF DeleteTopic, Lock, Nothing, Active
  <2> QED
    BY <2>1, <2>2
<1>28. ASSUME NEW c \in Calls, Remove(c) PROVE Unraced'
  BY <1>28, GoUnraced DEF Remove, calls, Active
<1> QED
  BY <1>1, <1>2, <1>3, <1>4, <1>5, <1>6, <1>7, <1>8, <1>9, <1>10, <1>11, <1>12,
     <1>13, <1>14, <1>15, <1>16, <1>17, <1>18, <1>19, <1>20, <1>21, <1>22, <1>23, <1>24,
     <1>25, <1>26, <1>27, <1>28 DEF Next, CallStep, WorkerStep

-----------------------------------------------------------------------------
(***************************************************************************)
(* What a call has not written yet                                         *)
(***************************************************************************)

\* A call that has still to write had still to write before.
Forward ==
  \A c \in Calls : pc'[c] \notin {"commit", "over"} => pc[c] \notin {"commit", "over"}

OldNew ==
  \A c \in Calls : pc[c] \notin {"commit", "over"} => \A d \in Calls : c \notin old[d]

StoreNew ==
  \A c \in Calls : pc[c] \notin {"commit", "over"} => Fresh(c, db) /\ Fresh(c, work)


LEMMA ForwardStep ==
  ASSUME TypeOK, [Next]_vars
  PROVE  Forward
<1>1. ASSUME NEW c \in Calls, GetConnection(c) PROVE Forward
  BY <1>1 DEF GetConnection, Forward, TypeOK, Go, calls
<1>2. ASSUME NEW c \in Calls, BeginChange(c) PROVE Forward
  BY <1>2 DEF BeginChange, Forward, TypeOK, Lock, Nothing, End, Go
<1>3. ASSUME NEW c \in Calls, BeginWrite(c) PROVE Forward
  BY <1>3 DEF BeginWrite, Forward, TypeOK, Lock, Nothing, End, Go
<1>4. ASSUME NEW c \in Calls, Delete(c) PROVE Forward
  BY <1>4 DEF Delete, Forward, TypeOK, Lock, Nothing, End, Go, calls
<1>5. ASSUME NEW c \in Calls, SelectStale(c) PROVE Forward
  BY <1>5 DEF SelectStale, Forward, TypeOK, Lock, Nothing, End, Go
<1>6. ASSUME NEW c \in Calls, ReadFile(c) PROVE Forward
  BY <1>6 DEF ReadFile, Forward, TypeOK, End, Go, calls
<1>7. ASSUME NEW c \in Calls, SaveOld(c) PROVE Forward
  BY <1>7 DEF SaveOld, Forward, TypeOK, Lock, Go, calls
<1>8. ASSUME NEW c \in Calls, Change(c) PROVE Forward
  BY <1>8 DEF Change, Forward, TypeOK, Go, calls
<1>9. ASSUME NEW c \in Calls, EmbedRaises(c) PROVE Forward
  BY <1>9 DEF EmbedRaises, Forward, TypeOK, End, Go
<1>10. ASSUME NEW c \in Calls, CommitChange(c) PROVE Forward
  BY <1>10 DEF CommitChange, Forward, TypeOK, End, Go
<1>11. ASSUME NEW c \in Calls, Read(c) PROVE Forward
  BY <1>11 DEF Read, Forward, TypeOK, End, Go, calls
<1>12. ASSUME NEW c \in Calls, CommitRead(c) PROVE Forward
  BY <1>12 DEF CommitRead, Forward, TypeOK, End, Go
<1>13. ASSUME NEW c \in Calls, SelectMissing(c) PROVE Forward
  BY <1>13 DEF SelectMissing, Forward, TypeOK, End, Go
<1>14. ASSUME NEW c \in Calls, Reindex(c) PROVE Forward
  BY <1>14 DEF Reindex, Forward, TypeOK, Lock, Go, calls
<1>15. ASSUME NEW c \in Calls, ReindexRaises(c) PROVE Forward
  BY <1>15 DEF ReindexRaises, Forward, TypeOK, Lock, End, Go
<1>16. ASSUME NEW c \in Calls, Flush(c) PROVE Forward
  BY <1>16 DEF Flush, Forward, TypeOK, End, Go
<1>17. ASSUME NEW c \in Calls, NEW o \in Ops \ {"none"}, NEW m \in Mems,
             Arrive(c, o, m) PROVE Forward
  BY <1>17 DEF Arrive, Forward, TypeOK, Go
<1>18. ASSUME WorkerTakes PROVE Forward
  BY <1>18 DEF WorkerTakes, Forward, TypeOK, calls
<1>19. ASSUME WorkerGets PROVE Forward
  BY <1>19 DEF WorkerGets, Forward, TypeOK, calls
<1>20. ASSUME WorkerSkips PROVE Forward
  BY <1>20 DEF WorkerSkips, Forward, TypeOK, calls
<1>21. ASSUME WorkerEmbeds PROVE Forward
  BY <1>21 DEF WorkerEmbeds, Forward, TypeOK, calls
<1>22. ASSUME WorkerFails PROVE Forward
  BY <1>22 DEF WorkerFails, Forward, TypeOK, calls
<1>23. ASSUME WorkerCommits PROVE Forward
  BY <1>23 DEF WorkerCommits, Forward, TypeOK, calls
<1>24. ASSUME Crash PROVE Forward
  BY <1>24 DEF Crash, Forward, TypeOK
<1>25. ASSUME UNCHANGED vars PROVE Forward
  BY <1>25 DEF Forward, vars
<1>26. ASSUME NEW c \in Calls, Forget(c) PROVE Forward
  BY <1>26 DEF Forget, Forward, TypeOK, Go
<1>27. ASSUME NEW c \in Calls, DeleteTopic(c) PROVE Forward
  BY <1>27 DEF DeleteTopic, Forward, TypeOK, Lock, Nothing, End, Go, calls
<1>28. ASSUME NEW c \in Calls, Remove(c) PROVE Forward
  BY <1>28 DEF Remove, Forward, TypeOK, Go
<1> QED
  BY <1>1, <1>2, <1>3, <1>4, <1>5, <1>6, <1>7, <1>8, <1>9, <1>10, <1>11, <1>12,
     <1>13, <1>14, <1>15, <1>16, <1>17, <1>18, <1>19, <1>20, <1>21, <1>22, <1>23, <1>24,
     <1>25, <1>26, <1>27, <1>28 DEF Next, CallStep, WorkerStep

LEMMA OldNewStep ==
  ASSUME TypeOK, New, [Next]_vars
  PROVE  OldNew'
<1>1. ASSUME NEW c \in Calls, GetConnection(c) PROVE OldNew'
  BY <1>1, ForwardStep DEF GetConnection, Forward, OldNew, New, NewTo, TypeOK, calls
<1>2. ASSUME NEW c \in Calls, BeginChange(c) PROVE OldNew'
  <2>1. CASE There(work, mem[c])
    <3>1. \A d \in Calls : pc[d] \notin {"commit", "over"} => d \notin work[mem[c]].content
      BY <2>1 DEF New, NewTo, Fresh, TypeOK
    <3>2. old' = [old EXCEPT ![c] = work[mem[c]].content] \/ End(c)
      BY <1>2, <2>1 DEF BeginChange, Nothing
    <3> QED
      BY <3>1, <3>2, ForwardStep DEF Forward, OldNew, New, NewTo, End, TypeOK
  <2>2. CASE ~There(work, mem[c])
    <3>1. End(c)
      BY <1>2, <2>2 DEF BeginChange, Nothing
    <3> QED
      BY <3>1, ForwardStep DEF Forward, OldNew, New, NewTo, End, TypeOK
  <2> QED
    BY <2>1, <2>2
<1>3. ASSUME NEW c \in Calls, BeginWrite(c) PROVE OldNew'
  BY <1>3, ForwardStep DEF BeginWrite, Forward, OldNew, New, NewTo, TypeOK, Nothing, End
<1>4. ASSUME NEW c \in Calls, Delete(c) PROVE OldNew'
  BY <1>4, ForwardStep DEF Delete, Forward, OldNew, New, NewTo, TypeOK, Nothing, End, calls
<1>5. ASSUME NEW c \in Calls, SelectStale(c) PROVE OldNew'
  <2>1. CASE There(work, mem[c])
    <3>1. \A d \in Calls : pc[d] \notin {"commit", "over"} => d \notin work[mem[c]].content
      BY <2>1 DEF New, NewTo, Fresh, TypeOK
    <3>2. old' = [old EXCEPT ![c] = work[mem[c]].content] \/ End(c)
      BY <1>5, <2>1 DEF SelectStale, Nothing
    <3> QED
      BY <3>1, <3>2, ForwardStep DEF Forward, OldNew, New, NewTo, End, TypeOK
  <2>2. CASE ~There(work, mem[c])
    <3>1. End(c)
      BY <1>5, <2>2 DEF SelectStale, Nothing
    <3> QED
      BY <3>1, ForwardStep DEF Forward, OldNew, New, NewTo, End, TypeOK
  <2> QED
    BY <2>1, <2>2
<1>6. ASSUME NEW c \in Calls, ReadFile(c) PROVE OldNew'
  BY <1>6, ForwardStep DEF ReadFile, Forward, OldNew, New, NewTo, TypeOK, End, calls
<1>7. ASSUME NEW c \in Calls, SaveOld(c) PROVE OldNew'
  BY <1>7, ForwardStep DEF SaveOld, Forward, OldNew, New, NewTo, TypeOK, calls
<1>8. ASSUME NEW c \in Calls, Change(c) PROVE OldNew'
  BY <1>8, ForwardStep DEF Change, Forward, OldNew, New, NewTo, TypeOK, calls
<1>9. ASSUME NEW c \in Calls, EmbedRaises(c) PROVE OldNew'
  BY <1>9, ForwardStep DEF EmbedRaises, Forward, OldNew, New, NewTo, TypeOK, End
<1>10. ASSUME NEW c \in Calls, CommitChange(c) PROVE OldNew'
  BY <1>10, ForwardStep DEF CommitChange, Forward, OldNew, New, NewTo, TypeOK, End
<1>11. ASSUME NEW c \in Calls, Read(c) PROVE OldNew'
  BY <1>11, ForwardStep DEF Read, Forward, OldNew, New, NewTo, TypeOK, End, calls
<1>12. ASSUME NEW c \in Calls, CommitRead(c) PROVE OldNew'
  BY <1>12, ForwardStep DEF CommitRead, Forward, OldNew, New, NewTo, TypeOK, End
<1>13. ASSUME NEW c \in Calls, SelectMissing(c) PROVE OldNew'
  <2>1. CASE There(work, mem[c])
    <3>1. \A d \in Calls : pc[d] \notin {"commit", "over"} => d \notin work[mem[c]].content
      BY <2>1 DEF New, NewTo, Fresh, TypeOK
    <3>2. old' = [old EXCEPT ![c] = work[mem[c]].content] \/ End(c)
      BY <1>13, <2>1 DEF SelectMissing, Nothing
    <3> QED
      BY <3>1, <3>2, ForwardStep DEF Forward, OldNew, New, NewTo, End, TypeOK
  <2>2. CASE ~There(work, mem[c])
    <3>1. End(c)
      BY <1>13, <2>2 DEF SelectMissing, Nothing
    <3> QED
      BY <3>1, ForwardStep DEF Forward, OldNew, New, NewTo, End, TypeOK
  <2> QED
    BY <2>1, <2>2
<1>14. ASSUME NEW c \in Calls, Reindex(c) PROVE OldNew'
  BY <1>14, ForwardStep DEF Reindex, Forward, OldNew, New, NewTo, TypeOK, calls
<1>15. ASSUME NEW c \in Calls, ReindexRaises(c) PROVE OldNew'
  BY <1>15, ForwardStep DEF ReindexRaises, Forward, OldNew, New, NewTo, TypeOK, End
<1>16. ASSUME NEW c \in Calls, Flush(c) PROVE OldNew'
  BY <1>16, ForwardStep DEF Flush, Forward, OldNew, New, NewTo, TypeOK, End
<1>17. ASSUME NEW c \in Calls, NEW o \in Ops \ {"none"}, NEW m \in Mems,
             Arrive(c, o, m) PROVE OldNew'
  BY <1>17, ForwardStep DEF Arrive, Forward, OldNew, New, NewTo, TypeOK
<1>18. ASSUME WorkerTakes PROVE OldNew'
  BY <1>18, ForwardStep DEF WorkerTakes, Forward, OldNew, New, NewTo, TypeOK, calls
<1>19. ASSUME WorkerGets PROVE OldNew'
  BY <1>19, ForwardStep DEF WorkerGets, Forward, OldNew, New, NewTo, TypeOK, calls
<1>20. ASSUME WorkerSkips PROVE OldNew'
  BY <1>20, ForwardStep DEF WorkerSkips, Forward, OldNew, New, NewTo, TypeOK, calls
<1>21. ASSUME WorkerEmbeds PROVE OldNew'
  BY <1>21, ForwardStep DEF WorkerEmbeds, Forward, OldNew, New, NewTo, TypeOK, calls
<1>22. ASSUME WorkerFails PROVE OldNew'
  BY <1>22, ForwardStep DEF WorkerFails, Forward, OldNew, New, NewTo, TypeOK, calls
<1>23. ASSUME WorkerCommits PROVE OldNew'
  BY <1>23, ForwardStep DEF WorkerCommits, Forward, OldNew, New, NewTo, TypeOK, calls
<1>24. ASSUME Crash PROVE OldNew'
  BY <1>24, ForwardStep DEF Crash, Forward, OldNew, New, NewTo, TypeOK
<1>25. ASSUME UNCHANGED vars PROVE OldNew'
  BY <1>25 DEF OldNew, New, NewTo, vars, calls
<1>26. ASSUME NEW c \in Calls, Forget(c) PROVE OldNew'
  BY <1>26, ForwardStep DEF Forget, Forward, OldNew, New, NewTo, TypeOK, calls
<1>27. ASSUME NEW c \in Calls, DeleteTopic(c) PROVE OldNew'
  <2>1. CASE ~Nothing(c)
    BY <1>27, <2>1, TopicPuts, ForwardStep DEF Forward, OldNew, New, NewTo
  <2>2. CASE Nothing(c)
    BY <2>2, ForwardStep DEF Forward, OldNew, New, NewTo, TypeOK, Nothing, End
  <2> QED
    BY <2>1, <2>2
<1>28. ASSUME NEW c \in Calls, Remove(c) PROVE OldNew'
  BY <1>28, ForwardStep DEF Remove, Forward, OldNew, New, NewTo, TypeOK, calls
<1> QED
  BY <1>1, <1>2, <1>3, <1>4, <1>5, <1>6, <1>7, <1>8, <1>9, <1>10, <1>11, <1>12,
     <1>13, <1>14, <1>15, <1>16, <1>17, <1>18, <1>19, <1>20, <1>21, <1>22, <1>23, <1>24,
     <1>25, <1>26, <1>27, <1>28 DEF Next, CallStep, WorkerStep

\* The row that is written holds nothing of the calls that have still to write.
LEMMA PutNew ==
  ASSUME New, Forward, UNCHANGED db, NEW m \in Mems, NEW x, NEW v, NEW h,
         Put(work', work, m, x, v, h),
         \A c \in Calls : pc'[c] \notin {"commit", "over"} =>
           /\ x \notin {Unborn, Gone} => c \notin x
           /\ \A y \in h : c \notin y
  PROVE  StoreNew'
<1>1. ASSUME NEW c \in Calls, pc'[c] \notin {"commit", "over"}
      PROVE  Fresh(c, db') /\ Fresh(c, work')
  <2>1. Fresh(c, db) /\ Fresh(c, work)
    BY <1>1 DEF Forward, New, NewTo
  <2>2. Fresh(c, work')
    BY <1>1, <2>1 DEF Fresh, Put, There
  <2> QED
    BY <2>1, <2>2
<1> QED
  BY <1>1 DEF StoreNew, Fresh, There

LEMMA RowNew ==
  ASSUME New, NEW m \in Mems, NEW c \in Calls, pc[c] \notin {"commit", "over"}
  PROVE  /\ work[m].content \notin {Unborn, Gone} => c \notin work[m].content
         /\ \A y \in work[m].history : c \notin y
BY DEF New, NewTo, Fresh, There

LEMMA BeginChangeNew ==
  ASSUME TypeOK, New, Forward, NEW c \in Calls, BeginChange(c)
  PROVE  StoreNew'
<1>1. mem[c] \in Mems
  BY DEF TypeOK
<1>2. CASE There(work, mem[c])
  <2> DEFINE m == mem[c]
             x == work[m].content
             v == work[m].vector
             h == work[m].history \cup {work[m].content}
  <2>1. Put(work', work, m, x, v, h) /\ UNCHANGED db
    BY <1>2, BeginChangePuts DEF BeginChange, Execute
  <2>2. \A d \in Calls : pc'[d] \notin {"commit", "over"} =>
          /\ x \notin {Unborn, Gone} => d \notin x
          /\ \A y \in h : d \notin y
    BY <1>1, <1>2, RowNew DEF Forward, There
  <2> HIDE DEF m, x, v, h
  <2> QED
    BY <1>1, <2>1, <2>2, PutNew DEF m
<1>3. CASE ~There(work, mem[c])
  BY <1>3 DEF BeginChange, Nothing, store, StoreNew, New, NewTo, Forward
<1> QED
  BY <1>2, <1>3

LEMMA DeleteNew ==
  ASSUME TypeOK, New, Forward, NEW c \in Calls, Delete(c)
  PROVE  StoreNew'
<1>1. mem[c] \in Mems
  BY DEF TypeOK
<1>2. CASE There(work, mem[c])
  <2> DEFINE m == mem[c]
             h == work[m].history
  <2>1. Put(work', work, m, Gone, NoVector, h) /\ UNCHANGED db
    BY <1>2, DeletePuts DEF Delete, Execute
  <2>2. \A d \in Calls : pc'[d] \notin {"commit", "over"} => \A y \in h : d \notin y
    BY <1>1, RowNew DEF Forward
  <2> HIDE DEF m, h
  <2> QED
    BY <1>1, <2>1, <2>2, PutNew DEF m
<1>3. CASE ~There(work, mem[c])
  BY <1>3 DEF Delete, Nothing, store, StoreNew, New, NewTo, Forward
<1> QED
  BY <1>2, <1>3

\* What is deleted holds nothing new.
LEMMA ShrinkNew ==
  ASSUME New, Forward, UNCHANGED db,
         \A m \in Mems : /\ work'[m].content \in {work[m].content, Gone}
                        /\ work'[m].history \subseteq work[m].history
  PROVE  StoreNew'
<1>1. ASSUME NEW c \in Calls, pc'[c] \notin {"commit", "over"}
      PROVE  Fresh(c, db') /\ Fresh(c, work')
  <2>1. Fresh(c, db) /\ Fresh(c, work)
    BY <1>1 DEF Forward, New, NewTo
  <2>2. Fresh(c, work')
    BY <2>1 DEF Fresh, There
  <2> QED
    BY <2>1, <2>2
<1> QED
  BY <1>1 DEF StoreNew, Fresh, There

LEMMA ForgetShrinks ==
  ASSUME TypeOK, NEW c \in Calls, Forget(c)
  PROVE  \A m \in Mems : /\ work'[m].content \in {work[m].content, Gone}
                        /\ work'[m].history \subseteq work[m].history
BY ForgetPuts DEF Put

LEMMA EmptiedShrinks ==
  ASSUME Emptied(work', work)
  PROVE  \A m \in Mems : /\ work'[m].content \in {work[m].content, Gone}
                        /\ work'[m].history \subseteq work[m].history
BY DEF Emptied

LEMMA VanishedShrinks ==
  ASSUME Vanished(work', work)
  PROVE  \A m \in Mems : /\ work'[m].content \in {work[m].content, Gone}
                        /\ work'[m].history \subseteq work[m].history
BY DEF Vanished

LEMMA SaveOldNew ==
  ASSUME TypeOK, New, Forward, NEW c \in Calls, SaveOld(c)
  PROVE  StoreNew'
<1> DEFINE m == mem[c]
           x == work[m].content
           v == work[m].vector
           h == work[m].history \cup {old[c]}
<1>1. m \in Mems
  BY DEF TypeOK
<1>2. Put(work', work, m, x, v, h) /\ UNCHANGED db
  BY SaveOldPuts DEF SaveOld, Execute
<1>3. \A d \in Calls : pc'[d] \notin {"commit", "over"} =>
        /\ x \notin {Unborn, Gone} => d \notin x
        /\ \A y \in h : d \notin y
  BY <1>1, RowNew DEF Forward, New, NewTo
<1> HIDE DEF m, x, v, h
<1> QED
  BY <1>1, <1>2, <1>3, PutNew

LEMMA ChangeNew ==
  ASSUME TypeOK, Locks, New, Forward, NEW c \in Calls, Change(c)
  PROVE  StoreNew'
<1> DEFINE m == mem[c]
           x == NewContent(c)
           v == Vector(x)
           h == work[m].history
<1>1. m \in Mems /\ pc'[c] = "commit"
  BY DEF TypeOK, Change, Go
<1>2. CASE op[c] = "write" \/ There(work, m)
  <2>1. Put(work', work, m, x, v, h) /\ UNCHANGED db
    BY <1>2, ChangePuts DEF Change, Execute
  <2>2. ASSUME NEW d \in Calls, pc'[d] \notin {"commit", "over"}
        PROVE  d \notin x /\ \A y \in h : d \notin y
    <3>1. d # c /\ d \notin old[c] /\ pc[d] \notin {"commit", "over"}
      BY <1>1, <2>2 DEF Forward, New, NewTo
    <3>2. d \notin x
      BY <3>1 DEF NewContent
    <3> HIDE DEF x
    <3> QED
      BY <1>1, <3>1, <3>2, RowNew
  <2> HIDE DEF m, x, v, h
  <2> QED
    BY <1>1, <2>1, <2>2, PutNew
<1>3. CASE ~(op[c] = "write" \/ There(work, m))
  BY <1>3 DEF Change, Execute, StoreNew, New, NewTo, Forward
<1> QED
  BY <1>2, <1>3

LEMMA ReindexNew ==
  ASSUME TypeOK, New, Forward, NEW c \in Calls, Reindex(c)
  PROVE  StoreNew'
<1> DEFINE m == mem[c]
           x == work[m].content
           v == old[c]
           h == work[m].history
<1>1. m \in Mems
  BY DEF TypeOK
<1>2. CASE There(work, m)
  <2>1. Put(work', work, m, x, v, h) /\ UNCHANGED db
    BY <1>2, ReindexPuts DEF Reindex, Execute
  <2>2. \A d \in Calls : pc'[d] \notin {"commit", "over"} =>
          /\ x \notin {Unborn, Gone} => d \notin x
          /\ \A y \in h : d \notin y
    BY <1>1, RowNew DEF Forward
  <2> HIDE DEF m, x, v, h
  <2> QED
    BY <1>1, <2>1, <2>2, PutNew
<1>3. CASE ~There(work, m)
  BY <1>3 DEF Reindex, Execute, StoreNew, New, NewTo, Forward
<1> QED
  BY <1>2, <1>3

LEMMA WorkerNew ==
  ASSUME TypeOK, New, Forward, WorkerEmbeds
  PROVE  StoreNew'
<1> DEFINE x == work[wmem].content
           h == work[wmem].history
<1>1. wmem \in Mems
  BY DEF TypeOK
<1>2. Put(work', work, wmem, x, x, h) /\ UNCHANGED db
  BY WorkerPuts DEF WorkerEmbeds, Execute
<1>3. \A d \in Calls : pc'[d] \notin {"commit", "over"} =>
        /\ x \notin {Unborn, Gone} => d \notin x
        /\ \A y \in h : d \notin y
  BY <1>1, RowNew DEF Forward
<1> HIDE DEF x, h
<1> QED
  BY <1>1, <1>2, <1>3, PutNew


LEMMA StoreNewStep ==
  ASSUME TypeOK, Locks, New, [Next]_vars
  PROVE  StoreNew'
<1>1. ASSUME NEW c \in Calls, GetConnection(c) PROVE StoreNew'
  BY <1>1, ForwardStep DEF GetConnection, Forward, StoreNew, New, NewTo, Rollback
<1>2. ASSUME NEW c \in Calls, BeginChange(c) PROVE StoreNew'
  BY <1>2, ForwardStep, BeginChangeNew
<1>3. ASSUME NEW c \in Calls, BeginWrite(c) PROVE StoreNew'
  BY <1>3, ForwardStep DEF BeginWrite, Forward, StoreNew, New, NewTo, Nothing, store
<1>4. ASSUME NEW c \in Calls, Delete(c) PROVE StoreNew'
  BY <1>4, ForwardStep, DeleteNew
<1>5. ASSUME NEW c \in Calls, SelectStale(c) PROVE StoreNew'
  BY <1>5, ForwardStep DEF SelectStale, Forward, StoreNew, New, NewTo, Nothing, store
<1>6. ASSUME NEW c \in Calls, ReadFile(c) PROVE StoreNew'
  BY <1>6, ForwardStep DEF ReadFile, Forward, StoreNew, New, NewTo, store
<1>7. ASSUME NEW c \in Calls, SaveOld(c) PROVE StoreNew'
  BY <1>7, ForwardStep, SaveOldNew
<1>8. ASSUME NEW c \in Calls, Change(c) PROVE StoreNew'
  BY <1>8, ForwardStep, ChangeNew
<1>9. ASSUME NEW c \in Calls, EmbedRaises(c) PROVE StoreNew'
  BY <1>9, ForwardStep DEF EmbedRaises, Forward, StoreNew, New, NewTo, store
<1>10. ASSUME NEW c \in Calls, CommitChange(c) PROVE StoreNew'
  BY <1>10, ForwardStep DEF CommitChange, Forward, StoreNew, New, NewTo, Commit
<1>11. ASSUME NEW c \in Calls, Read(c) PROVE StoreNew'
  BY <1>11, ForwardStep DEF Read, Forward, StoreNew, New, NewTo, Execute, store
<1>12. ASSUME NEW c \in Calls, CommitRead(c) PROVE StoreNew'
  BY <1>12, ForwardStep DEF CommitRead, Forward, StoreNew, New, NewTo, Commit
<1>13. ASSUME NEW c \in Calls, SelectMissing(c) PROVE StoreNew'
  BY <1>13, ForwardStep DEF SelectMissing, Forward, StoreNew, New, NewTo, store
<1>14. ASSUME NEW c \in Calls, Reindex(c) PROVE StoreNew'
  BY <1>14, ForwardStep, ReindexNew
<1>15. ASSUME NEW c \in Calls, ReindexRaises(c) PROVE StoreNew'
  BY <1>15, ForwardStep DEF ReindexRaises, Forward, StoreNew, New, NewTo, store
<1>16. ASSUME NEW c \in Calls, Flush(c) PROVE StoreNew'
  BY <1>16, ForwardStep DEF Flush, Forward, StoreNew, New, NewTo, store
<1>17. ASSUME NEW c \in Calls, NEW o \in Ops \ {"none"}, NEW m \in Mems,
             Arrive(c, o, m) PROVE StoreNew'
  BY <1>17, ForwardStep DEF Arrive, Forward, StoreNew, New, NewTo, store
<1>18. ASSUME WorkerTakes PROVE StoreNew'
  BY <1>18, ForwardStep DEF WorkerTakes, Forward, StoreNew, New, NewTo, store
<1>19. ASSUME WorkerGets PROVE StoreNew'
  BY <1>19, ForwardStep DEF WorkerGets, Forward, StoreNew, New, NewTo, Rollback
<1>20. ASSUME WorkerSkips PROVE StoreNew'
  BY <1>20, ForwardStep DEF WorkerSkips, Forward, StoreNew, New, NewTo, store
<1>21. ASSUME WorkerEmbeds PROVE StoreNew'
  BY <1>21, ForwardStep, WorkerNew
<1>22. ASSUME WorkerFails PROVE StoreNew'
  BY <1>22, ForwardStep DEF WorkerFails, Forward, StoreNew, New, NewTo, store
<1>23. ASSUME WorkerCommits PROVE StoreNew'
  BY <1>23, ForwardStep DEF WorkerCommits, Forward, StoreNew, New, NewTo, Commit
<1>24. ASSUME Crash PROVE StoreNew'
  BY <1>24, ForwardStep DEF Crash, Forward, StoreNew, New, NewTo, Rollback
<1>25. ASSUME UNCHANGED vars PROVE StoreNew'
  BY <1>25 DEF StoreNew, New, NewTo, vars, store
<1>26. ASSUME NEW c \in Calls, Forget(c) PROVE StoreNew'
  BY <1>26, ForwardStep, ForgetShrinks, ShrinkNew DEF Forget, Execute
<1>27. ASSUME NEW c \in Calls, DeleteTopic(c) PROVE StoreNew'
  <2>1. CASE ~Nothing(c)
    BY <1>27, <2>1, ForwardStep, TopicPuts, EmptiedShrinks, ShrinkNew
  <2>2. CASE Nothing(c)
    BY <2>2, <1>27, ForwardStep DEF Forward, StoreNew, New, NewTo, Nothing, store
  <2> QED
    BY <2>1, <2>2
<1>28. ASSUME NEW c \in Calls, Remove(c) PROVE StoreNew'
  BY <1>28, ForwardStep, RemovePuts, VanishedShrinks, ShrinkNew DEF Remove, Execute
<1> QED
  BY <1>1, <1>2, <1>3, <1>4, <1>5, <1>6, <1>7, <1>8, <1>9, <1>10, <1>11, <1>12,
     <1>13, <1>14, <1>15, <1>16, <1>17, <1>18, <1>19, <1>20, <1>21, <1>22, <1>23, <1>24,
     <1>25, <1>26, <1>27, <1>28 DEF Next, CallStep, WorkerStep


LEMMA NewStep ==
  ASSUME TypeOK, Locks, New, [Next]_vars
  PROVE  New'
BY OldNewStep, StoreNewStep DEF OldNew, StoreNew, New, NewTo

-----------------------------------------------------------------------------
(***************************************************************************)
(* While no calls overlap                                                  *)
(***************************************************************************)

LEMMA ArriveSingle ==
  ASSUME TypeOK, Alone, NEW c \in Calls, NEW o \in Ops \ {"none"}, NEW m \in Mems,
         Arrive(c, o, m)
  PROVE  raced' = {} => raced = {} /\ Single' /\ \A d \in Calls : pc[d] \notin Active
<1> DEFINE others == {d \in Calls : pc[d] \in Active}
<1>1. others # {} => Class(o) \in raced'
  BY DEF Arrive
<1>2. raced' = {} => others = {} /\ raced = {}
  BY <1>1 DEF Arrive
<1>3. \A d \in Calls : d # c => pc'[d] = pc[d]
  BY DEF Arrive, Go, TypeOK
<1> QED
  BY <1>2, <1>3 DEF Single


LEMMA SingleStep ==
  ASSUME TypeOK, Alone, [Next]_vars
  PROVE  (raced = {} => Single)'
<1>1. ASSUME NEW c \in Calls, GetConnection(c) PROVE (raced = {} => Single)'
  BY <1>1 DEF GetConnection, Alone, Single, TypeOK, Go, calls, Active
<1>2. ASSUME NEW c \in Calls, BeginChange(c) PROVE (raced = {} => Single)'
  BY <1>2 DEF BeginChange, Alone, Single, TypeOK, Lock, Nothing, End, Go, Active
<1>3. ASSUME NEW c \in Calls, BeginWrite(c) PROVE (raced = {} => Single)'
  BY <1>3 DEF BeginWrite, Alone, Single, TypeOK, Lock, Nothing, End, Go, Active
<1>4. ASSUME NEW c \in Calls, Delete(c) PROVE (raced = {} => Single)'
  BY <1>4 DEF Delete, Alone, Single, TypeOK, Lock, Nothing, End, Go, calls, Active
<1>5. ASSUME NEW c \in Calls, SelectStale(c) PROVE (raced = {} => Single)'
  BY <1>5 DEF SelectStale, Alone, Single, TypeOK, Lock, Nothing, End, Go, Active
<1>6. ASSUME NEW c \in Calls, ReadFile(c) PROVE (raced = {} => Single)'
  BY <1>6 DEF ReadFile, Alone, Single, TypeOK, End, Go, calls, Active
<1>7. ASSUME NEW c \in Calls, SaveOld(c) PROVE (raced = {} => Single)'
  BY <1>7 DEF SaveOld, Alone, Single, TypeOK, Lock, Go, calls, Active
<1>8. ASSUME NEW c \in Calls, Change(c) PROVE (raced = {} => Single)'
  BY <1>8 DEF Change, Alone, Single, TypeOK, Go, calls, Active
<1>9. ASSUME NEW c \in Calls, EmbedRaises(c) PROVE (raced = {} => Single)'
  BY <1>9 DEF EmbedRaises, Alone, Single, TypeOK, End, Go, Active
<1>10. ASSUME NEW c \in Calls, CommitChange(c) PROVE (raced = {} => Single)'
  BY <1>10 DEF CommitChange, Alone, Single, TypeOK, End, Go, Active
<1>11. ASSUME NEW c \in Calls, Read(c) PROVE (raced = {} => Single)'
  BY <1>11 DEF Read, Alone, Single, TypeOK, End, Go, calls, Active
<1>12. ASSUME NEW c \in Calls, CommitRead(c) PROVE (raced = {} => Single)'
  BY <1>12 DEF CommitRead, Alone, Single, TypeOK, End, Go, Active
<1>13. ASSUME NEW c \in Calls, SelectMissing(c) PROVE (raced = {} => Single)'
  BY <1>13 DEF SelectMissing, Alone, Single, TypeOK, End, Go, Active
<1>14. ASSUME NEW c \in Calls, Reindex(c) PROVE (raced = {} => Single)'
  BY <1>14 DEF Reindex, Alone, Single, TypeOK, Lock, Go, calls, Active
<1>15. ASSUME NEW c \in Calls, ReindexRaises(c) PROVE (raced = {} => Single)'
  BY <1>15 DEF ReindexRaises, Alone, Single, TypeOK, Lock, End, Go, Active
<1>16. ASSUME NEW c \in Calls, Flush(c) PROVE (raced = {} => Single)'
  BY <1>16 DEF Flush, Alone, Single, TypeOK, End, Go, Active
<1>17. ASSUME NEW c \in Calls, NEW o \in Ops \ {"none"}, NEW m \in Mems,
             Arrive(c, o, m) PROVE (raced = {} => Single)'
  BY <1>17, ArriveSingle
<1>18. ASSUME WorkerTakes PROVE (raced = {} => Single)'
  BY <1>18 DEF WorkerTakes, Alone, Single, TypeOK, calls, Active
<1>19. ASSUME WorkerGets PROVE (raced = {} => Single)'
  BY <1>19 DEF WorkerGets, Alone, Single, TypeOK, calls, Active
<1>20. ASSUME WorkerSkips PROVE (raced = {} => Single)'
  BY <1>20 DEF WorkerSkips, Alone, Single, TypeOK, calls, Active
<1>21. ASSUME WorkerEmbeds PROVE (raced = {} => Single)'
  BY <1>21 DEF WorkerEmbeds, Alone, Single, TypeOK, calls, Active
<1>22. ASSUME WorkerFails PROVE (raced = {} => Single)'
  BY <1>22 DEF WorkerFails, Alone, Single, TypeOK, calls, Active
<1>23. ASSUME WorkerCommits PROVE (raced = {} => Single)'
  BY <1>23 DEF WorkerCommits, Alone, Single, TypeOK, calls, Active
<1>24. ASSUME Crash PROVE (raced = {} => Single)'
  BY <1>24 DEF Crash, Alone, Single, TypeOK, Active
<1>25. ASSUME UNCHANGED vars PROVE (raced = {} => Single)'
  BY <1>25 DEF Alone, Single, vars
<1>26. ASSUME NEW c \in Calls, Forget(c) PROVE (raced = {} => Single)'
  BY <1>26 DEF Forget, Alone, Single, TypeOK, Go, Active
<1>27. ASSUME NEW c \in Calls, DeleteTopic(c) PROVE (raced = {} => Single)'
  BY <1>27 DEF DeleteTopic, Alone, Single, TypeOK, Lock, Nothing, End, Go, calls, Active
<1>28. ASSUME NEW c \in Calls, Remove(c) PROVE (raced = {} => Single)'
  BY <1>28 DEF Remove, Alone, Single, TypeOK, Go, Active
<1> QED
  BY <1>1, <1>2, <1>3, <1>4, <1>5, <1>6, <1>7, <1>8, <1>9, <1>10, <1>11, <1>12,
     <1>13, <1>14, <1>15, <1>16, <1>17, <1>18, <1>19, <1>20, <1>21, <1>22, <1>23, <1>24,
     <1>25, <1>26, <1>27, <1>28 DEF Next, CallStep, WorkerStep

RowsBehind == raced = {} => DbBehind /\ (WorkBehind \/ Pending \/ Stuck)

\* A call that has got past get() sees no entry of a change that failed.
LEMMA ActiveBehind ==
  ASSUME Alone, raced = {}, NEW c \in Calls,
         pc[c] \in Active \ {"get", "join", "write"}
  PROVE  WorkBehind
<1>1. ~Stuck
  BY DEF Stuck
<1>2. ~Pending
  BY DEF Pending, Alone, Single, Active
<1> QED
  BY <1>1, <1>2 DEF Alone

\* One row is written.
LEMMA PutBehind ==
  ASSUME NEW m \in Mems, NEW x, NEW v, NEW h, Put(work', work, m, x, v, h),
         \A n \in Mems : n # m => Behind(work, n), x \notin h
  PROVE  WorkBehind'
BY DEF Put, WorkBehind, Behind

LEMMA GetConnectionBehind ==
  ASSUME Alone, NEW c \in Calls, GetConnection(c)
  PROVE  RowsBehind'
BY DEF GetConnection, Rollback, RowsBehind, Alone, DbBehind, WorkBehind, Behind

LEMMA BeginChangeBehind ==
  ASSUME TypeOK, Alone, NEW c \in Calls, BeginChange(c)
  PROVE  RowsBehind'
<1> SUFFICES ASSUME raced = {} PROVE RowsBehind'
  BY DEF BeginChange, RowsBehind
<1>1. WorkBehind
  BY ActiveBehind DEF BeginChange, Lock, Active
<1>2. CASE There(work, mem[c])
  <2>1. Put(work', work, mem[c], work[mem[c]].content, work[mem[c]].vector,
            work[mem[c]].history \cup {work[mem[c]].content})
    BY <1>2, BeginChangePuts
  <2>2. pc' = [pc EXCEPT ![c] = "write"] /\ UNCHANGED <<mem, db>>
    BY <1>2 DEF BeginChange, Go, Execute
  <2>3. Pending'
    BY <1>1, <2>1, <2>2 DEF Put, Pending, WorkBehind, Behind, TypeOK
  <2> QED
    BY <2>2, <2>3 DEF RowsBehind, Alone, DbBehind, Behind
<1>3. CASE ~There(work, mem[c])
  BY <1>1, <1>3 DEF BeginChange, Nothing, store, RowsBehind, Alone, DbBehind, WorkBehind, Behind
<1> QED
  BY <1>2, <1>3

LEMMA DeleteBehind ==
  ASSUME TypeOK, Alone, NEW c \in Calls, Delete(c)
  PROVE  RowsBehind'
<1> SUFFICES ASSUME raced = {} PROVE RowsBehind'
  BY DEF Delete, RowsBehind
<1>1. WorkBehind
  BY ActiveBehind DEF Delete, Lock, Active
<1>2. CASE There(work, mem[c])
  <2> DEFINE h == work[mem[c]].history
  <2>1. Put(work', work, mem[c], Gone, NoVector, h) /\ UNCHANGED db
    BY <1>2, DeletePuts DEF Delete, Execute
  <2>2. mem[c] \in Mems /\ work \in [Mems -> Rows]
    BY DEF TypeOK
  <2>3. Gone \notin h
    BY <2>2, RowIsTyped, Apart DEF RowTyped
  <2> HIDE DEF h
  <2>4. WorkBehind'
    BY <1>1, <2>1, <2>2, <2>3, PutBehind DEF WorkBehind
  <2> QED
    BY <2>1, <2>4 DEF RowsBehind, Alone, DbBehind, Behind
<1>3. CASE ~There(work, mem[c])
  BY <1>1, <1>3 DEF Delete, Nothing, store, RowsBehind, Alone, DbBehind, WorkBehind, Behind
<1> QED
  BY <1>2, <1>3

\* A deletion takes contents away, or entries.
LEMMA ShrinkBehind ==
  ASSUME TypeOK, Alone, NEW c \in Calls, pc[c] \in {"lock", "forget", "remove"},
         UNCHANGED <<db, raced>>,
         \A m \in Mems : /\ work'[m].content \in {work[m].content, Gone}
                        /\ work'[m].history \subseteq work[m].history
  PROVE  RowsBehind'
<1> SUFFICES ASSUME raced = {} PROVE RowsBehind'
  BY DEF RowsBehind
<1>1. WorkBehind
  BY ActiveBehind DEF Active
<1>2. ASSUME NEW m \in Mems PROVE work'[m].content \notin work'[m].history
  <2>1. work[m].history \in SUBSET Contents
    BY RowIsTyped DEF TypeOK, RowTyped
  <2>2. Gone \notin work[m].history
    BY <2>1, Apart
  <2> QED
    BY <1>1, <2>2 DEF WorkBehind, Behind
<1> QED
  BY <1>2 DEF RowsBehind, Alone, DbBehind, WorkBehind, Behind

LEMMA SaveOldBehind ==
  ASSUME TypeOK, Alone, NEW c \in Calls, SaveOld(c)
  PROVE  RowsBehind'
<1> SUFFICES ASSUME raced = {} PROVE RowsBehind'
  BY DEF SaveOld, RowsBehind
<1>1. WorkBehind
  BY ActiveBehind DEF SaveOld, Lock, Active
<1>2. Put(work', work, mem[c], work[mem[c]].content, work[mem[c]].vector,
          work[mem[c]].history \cup {old[c]})
  BY SaveOldPuts
<1>3. pc' = [pc EXCEPT ![c] = "write"] /\ UNCHANGED <<mem, db>>
  BY DEF SaveOld, Go, Execute, calls
<1>4. Pending'
  BY <1>1, <1>2, <1>3 DEF Put, Pending, WorkBehind, Behind, TypeOK
<1> QED
  BY <1>3, <1>4 DEF RowsBehind, Alone, DbBehind, Behind

LEMMA ChangeBehind ==
  ASSUME TypeOK, Locks, Stores, Held, New, Alone, NEW c \in Calls, Change(c)
  PROVE  RowsBehind'
<1> SUFFICES ASSUME raced = {} PROVE RowsBehind'
  BY DEF Change, RowsBehind
<1> DEFINE m == mem[c]
           x == NewContent(c)
           v == Vector(x)
           h == work[m].history
<1>1. m \in Mems /\ pc[c] = "write" /\ op[c] \in Changes /\ UNCHANGED db
  BY DEF TypeOK, Change, Locks, Execute
<1>2. \A n \in Mems : n # m => Behind(work, n)
  <2>1. ~Stuck
    BY <1>1 DEF Stuck, Active
  <2>2. WorkBehind \/ Pending
    BY <2>1 DEF Alone
  <2>3. \A d \in Calls : pc[d] = "write" => d = c
    BY <1>1 DEF Locks, Locked
  <2> QED
    BY <2>2, <2>3 DEF WorkBehind, Pending
<1>3. op[c] = "write" \/ There(work, m)
  BY <1>1 DEF Held, HeldBy, Saved, Changes
<1>4. Put(work', work, m, x, v, h)
  BY <1>3, ChangePuts
<1>5. x \notin h
  <2>1. CASE op[c] = "write"
    <3>1. work[m].content = Unborn
      BY <1>1, <2>1 DEF Held, HeldBy
    <3>2. ~There(work, m) /\ "refresh" \notin raced
      BY <3>1 DEF There
    <3>3. h = {}
      BY <1>1, <3>1, <3>2 DEF Stores, StoreOK
    <3> QED
      BY <3>3
  <2>2. CASE op[c] # "write"
    <3>1. c \in x
      BY <2>2 DEF NewContent
    <3>2. \A y \in h : c \notin y
      BY <1>1 DEF New, NewTo, Fresh
    <3> QED
      BY <3>1, <3>2
  <2> QED
    BY <2>1, <2>2
<1> HIDE DEF m, x, v, h
<1>6. WorkBehind'
  BY <1>1, <1>2, <1>4, <1>5, PutBehind
<1> QED
  BY <1>1, <1>6 DEF RowsBehind, Alone, DbBehind, Behind

LEMMA EmbedRaisesBehind ==
  ASSUME TypeOK, Alone, NEW c \in Calls, EmbedRaises(c)
  PROVE  RowsBehind'
<1> SUFFICES ASSUME raced = {} PROVE RowsBehind'
  BY DEF EmbedRaises, RowsBehind
<1>1. pc[c] = "write" /\ pc' = [pc EXCEPT ![c] = "over"] /\ mode' = "sync" /\ UNCHANGED db
  BY DEF EmbedRaises, End, Go, store
<1>2. \A d \in Calls : pc'[d] \notin Active
  BY <1>1 DEF Alone, Single, Active, TypeOK
<1> QED
  BY <1>1, <1>2 DEF RowsBehind, Stuck, Alone, DbBehind, Behind

LEMMA ReindexBehind ==
  ASSUME TypeOK, Alone, NEW c \in Calls, Reindex(c)
  PROVE  RowsBehind'
<1> SUFFICES ASSUME raced = {} PROVE RowsBehind'
  BY DEF Reindex, RowsBehind
<1> DEFINE m == mem[c]
<1>1. WorkBehind /\ m \in Mems /\ UNCHANGED db
  BY ActiveBehind DEF Reindex, Lock, Active, Execute, TypeOK
<1>2. CASE There(work, m)
  <2>1. Put(work', work, m, work[m].content, old[c], work[m].history)
    BY <1>2, ReindexPuts
  <2> HIDE DEF m
  <2>2. WorkBehind'
    BY <1>1, <2>1, PutBehind DEF WorkBehind, Behind
  <2> QED
    BY <1>1, <2>2 DEF RowsBehind, Alone, DbBehind, Behind
<1>3. CASE ~There(work, m)
  BY <1>1, <1>3 DEF Reindex, Execute, RowsBehind, Alone, DbBehind, WorkBehind, Behind
<1> QED
  BY <1>2, <1>3

LEMMA ArriveBehind ==
  ASSUME TypeOK, Alone, NEW c \in Calls, NEW o \in Ops \ {"none"}, NEW m \in Mems,
         Arrive(c, o, m)
  PROVE  RowsBehind'
<1> SUFFICES ASSUME raced' = {} PROVE RowsBehind'
  BY DEF RowsBehind
<1>1. raced = {} /\ \A d \in Calls : pc[d] \notin Active
  BY ArriveSingle
<1>2. ~Pending
  BY <1>1 DEF Pending, Active
<1>3. UNCHANGED <<mode, db, work>>
  BY DEF Arrive, store
<1>4. \A d \in Calls : pc'[d] \in Active => pc'[d] \in {"get", "join"}
  BY <1>1 DEF Arrive, Go, TypeOK
<1> QED
  BY <1>1, <1>2, <1>3, <1>4 DEF Alone, RowsBehind, DbBehind, WorkBehind, Stuck, Behind

LEMMA FlushBehind ==
  ASSUME TypeOK, Alone, NEW c \in Calls, Flush(c)
  PROVE  RowsBehind'
<1> SUFFICES ASSUME raced = {} PROVE RowsBehind'
  BY DEF Flush, RowsBehind
<1>1. pc[c] = "join" /\ pc' = [pc EXCEPT ![c] = "over"] /\ UNCHANGED <<mode, db, work>>
  BY DEF Flush, End, Go, store
<1>2. ~Pending
  BY <1>1 DEF Pending, Alone, Single, Active
<1>3. \A d \in Calls : pc'[d] \notin Active
  BY <1>1 DEF Alone, Single, Active, TypeOK
<1> QED
  BY <1>1, <1>2, <1>3 DEF Alone, RowsBehind, DbBehind, WorkBehind, Stuck, Behind

LEMMA WorkerBehind ==
  ASSUME TypeOK, Locks, Alone, WorkerEmbeds
  PROVE  RowsBehind'
<1> SUFFICES ASSUME raced = {} PROVE RowsBehind'
  BY DEF WorkerEmbeds, RowsBehind
<1>1. wpc = "lock" /\ holder = Nobody /\ UNCHANGED db
  BY DEF WorkerEmbeds, Execute
<1>2. ~Stuck /\ ~Pending
  BY <1>1, MemConstants DEF Locks, Locked, Stuck, Pending
<1>3. WorkBehind /\ wmem \in Mems
  BY <1>2 DEF Alone, TypeOK
<1>4. Put(work', work, wmem, work[wmem].content, work[wmem].content, work[wmem].history)
  BY WorkerPuts
<1>5. WorkBehind'
  BY <1>3, <1>4, PutBehind DEF WorkBehind, Behind
<1> QED
  BY <1>1, <1>5 DEF RowsBehind, Alone, DbBehind, Behind


LEMMA BehindStep ==
  ASSUME TypeOK, Locks, Stores, Held, New, Alone, [Next]_vars
  PROVE  RowsBehind'
<1>1. ASSUME NEW c \in Calls, GetConnection(c) PROVE RowsBehind'
  BY <1>1, GetConnectionBehind
<1>2. ASSUME NEW c \in Calls, BeginChange(c) PROVE RowsBehind'
  BY <1>2, BeginChangeBehind
<1>3. ASSUME NEW c \in Calls, BeginWrite(c) PROVE RowsBehind'
  BY <1>3, ActiveBehind DEF BeginWrite, RowsBehind, DbBehind, WorkBehind, Behind, Lock,
     Nothing, store, Alone, Active
<1>4. ASSUME NEW c \in Calls, Delete(c) PROVE RowsBehind'
  BY <1>4, DeleteBehind
<1>5. ASSUME NEW c \in Calls, SelectStale(c) PROVE RowsBehind'
  BY <1>5, ActiveBehind DEF SelectStale, RowsBehind, DbBehind, WorkBehind, Behind, Lock,
     Nothing, store, Alone, Active
<1>6. ASSUME NEW c \in Calls, ReadFile(c) PROVE RowsBehind'
  BY <1>6, ActiveBehind DEF ReadFile, RowsBehind, DbBehind, WorkBehind, Behind, store,
     Alone, Active
<1>7. ASSUME NEW c \in Calls, SaveOld(c) PROVE RowsBehind'
  BY <1>7, SaveOldBehind
<1>8. ASSUME NEW c \in Calls, Change(c) PROVE RowsBehind'
  BY <1>8, ChangeBehind
<1>9. ASSUME NEW c \in Calls, EmbedRaises(c) PROVE RowsBehind'
  BY <1>9, EmbedRaisesBehind
<1>10. ASSUME NEW c \in Calls, CommitChange(c) PROVE RowsBehind'
  BY <1>10, ActiveBehind DEF CommitChange, RowsBehind, DbBehind, WorkBehind, Behind,
     Commit, Alone, Active
<1>11. ASSUME NEW c \in Calls, Read(c) PROVE RowsBehind'
  BY <1>11, ActiveBehind DEF Read, RowsBehind, DbBehind, WorkBehind, Behind, store,
     Execute, Alone, Active
<1>12. ASSUME NEW c \in Calls, CommitRead(c) PROVE RowsBehind'
  BY <1>12, ActiveBehind DEF CommitRead, RowsBehind, DbBehind, WorkBehind, Behind, Commit,
     Alone, Active
<1>13. ASSUME NEW c \in Calls, SelectMissing(c) PROVE RowsBehind'
  BY <1>13, ActiveBehind DEF SelectMissing, RowsBehind, DbBehind, WorkBehind, Behind,
     store, Alone, Active
<1>14. ASSUME NEW c \in Calls, Reindex(c) PROVE RowsBehind'
  BY <1>14, ReindexBehind
<1>15. ASSUME NEW c \in Calls, ReindexRaises(c) PROVE RowsBehind'
  BY <1>15, ActiveBehind DEF ReindexRaises, RowsBehind, DbBehind, WorkBehind, Behind,
     Lock, store, Alone, Active
<1>16. ASSUME NEW c \in Calls, Flush(c) PROVE RowsBehind'
  BY <1>16, FlushBehind
<1>17. ASSUME NEW c \in Calls, NEW o \in Ops \ {"none"}, NEW m \in Mems,
             Arrive(c, o, m) PROVE RowsBehind'
  BY <1>17, ArriveBehind
<1>18. ASSUME WorkerTakes PROVE RowsBehind'
  BY <1>18 DEF WorkerTakes, RowsBehind, Locks, Alone, DbBehind, WorkBehind, Pending,
     Stuck, Behind, store, calls
<1>19. ASSUME WorkerGets PROVE RowsBehind'
  BY <1>19 DEF WorkerGets, RowsBehind, Alone, DbBehind, WorkBehind, Behind, Rollback
<1>20. ASSUME WorkerSkips PROVE RowsBehind'
  BY <1>20 DEF WorkerSkips, RowsBehind, Locks, Alone, DbBehind, WorkBehind, Pending,
     Stuck, Behind, store, calls
<1>21. ASSUME WorkerEmbeds PROVE RowsBehind'
  BY <1>21, WorkerBehind
<1>22. ASSUME WorkerFails PROVE RowsBehind'
  BY <1>22 DEF WorkerFails, RowsBehind, Locks, Alone, DbBehind, WorkBehind, Pending,
     Stuck, Behind, store, calls
<1>23. ASSUME WorkerCommits PROVE RowsBehind'
  <2>1. raced = {} => WorkBehind
    BY <1>23, MemConstants DEF WorkerCommits, Locks, Locked, Alone, Pending, Stuck
  <2> QED
    BY <1>23, <2>1 DEF WorkerCommits, Commit, RowsBehind, DbBehind, WorkBehind, Behind
<1>24. ASSUME Crash PROVE RowsBehind'
  BY <1>24 DEF Crash, RowsBehind, Alone, DbBehind, WorkBehind, Behind, Rollback
<1>25. ASSUME UNCHANGED vars PROVE RowsBehind'
  BY <1>25 DEF Alone, RowsBehind, DbBehind, WorkBehind, Behind, Pending, Stuck, vars,
     store, calls
<1>26. ASSUME NEW c \in Calls, Forget(c) PROVE RowsBehind'
  BY <1>26, ForgetShrinks, ShrinkBehind DEF Forget, Execute
<1>27. ASSUME NEW c \in Calls, DeleteTopic(c) PROVE RowsBehind'
  <2>1. CASE ~Nothing(c)
    BY <1>27, <2>1, TopicPuts, EmptiedShrinks, ShrinkBehind DEF DeleteTopic, Lock
  <2>2. CASE Nothing(c)
    BY <1>27, <2>2, ActiveBehind DEF DeleteTopic, RowsBehind, DbBehind, WorkBehind, Behind,
       Lock, Nothing, store, Alone, Active
  <2> QED
    BY <2>1, <2>2
<1>28. ASSUME NEW c \in Calls, Remove(c) PROVE RowsBehind'
  BY <1>28, RemovePuts, VanishedShrinks, ShrinkBehind DEF Remove, Execute
<1> QED
  BY <1>1, <1>2, <1>3, <1>4, <1>5, <1>6, <1>7, <1>8, <1>9, <1>10, <1>11, <1>12,
     <1>13, <1>14, <1>15, <1>16, <1>17, <1>18, <1>19, <1>20, <1>21, <1>22, <1>23, <1>24,
     <1>25, <1>26, <1>27, <1>28 DEF Next, CallStep, WorkerStep


LEMMA AloneStep ==
  ASSUME TypeOK, Locks, Stores, Held, New, Alone, [Next]_vars
  PROVE  Alone'
BY SingleStep, BehindStep DEF Alone, RowsBehind

-----------------------------------------------------------------------------
(***************************************************************************)
(* The theorems                                                            *)
(***************************************************************************)

LEMMA InitRows ==
  ASSUME Init
  PROVE  /\ db \in [Mems -> Rows]
         /\ \A m \in Mems : /\ db[m].content = IF m = First THEN {} ELSE Unborn
                            /\ db[m].vector = NoVector /\ db[m].history = {}
<1> DEFINE r(m) == Row(IF m = First THEN {} ELSE Unborn, NoVector, {})
<1>1. \A m \in Mems :
        /\ r(m) \in Rows /\ r(m).content = IF m = First THEN {} ELSE Unborn
        /\ r(m).vector = NoVector /\ r(m).history = {}
  BY DEF Row, Rows, Contents
<1>2. db = [m \in Mems |-> r(m)]
  BY DEF Init
<1> HIDE DEF r
<1> QED
  BY <1>1, <1>2

LEMMA InitTypes ==
  ASSUME Init
  PROVE  TypeOK
<1>1. db \in [Mems -> Rows] /\ work = db
  BY InitRows DEF Init
<1>2. /\ op \in [Calls -> Ops] /\ pc \in [Calls -> Active \cup {"new", "over"}]
      /\ mem \in [Calls -> Mems] /\ old \in [Calls -> Contents]
  BY FirstMem DEF Init, Ops, Contents
<1>3. acked \in [Mems -> SUBSET Contents]
  BY DEF Init, Contents
<1>4. queue \in Seq(Mems) /\ Len(queue) <= QueueSize
  BY MemConstants DEF Init
<1>5. retries \in 0..MaxRetries /\ crashes \in 0..MaxCrashes
  BY MemConstants DEF Init
<1>6. forgotten \subseteq Mems /\ wmem \in Mems /\ raced \subseteq {Class(o) : o \in Ops}
  BY FirstMem DEF Init
<1>7. /\ mode \in {"off", "sync", "async"} /\ intx \in BOOLEAN
      /\ holder \in Calls \cup {Worker, Nobody} /\ wpc \in {"idle", "get", "lock", "commit"}
      /\ torn \subseteq Mems
  BY DEF Init
<1> QED
  BY <1>1, <1>2, <1>3, <1>4, <1>5, <1>6, <1>7 DEF TypeOK

LEMMA InitInv ==
  ASSUME Init
  PROVE  MemInv
<1> USE MemConstants
<1>1. TypeOK
  BY InitTypes
<1>2. Locks
  BY DEF Init, Locks, Locked
<1>3. \A m \in Mems : /\ db[m].content = IF m = First THEN {} ELSE Unborn
                      /\ db[m].vector = NoVector /\ db[m].history = {}
  BY InitRows
<1>4. work = db /\ acked = [m \in Mems |-> IF m = First THEN {{}} ELSE {}]
  BY DEF Init
<1>5. Stores
  <2>1. {} # Unborn /\ {} # Gone
    OBVIOUS
  <2>2. StoreOK(db, acked, raced, torn)
    BY <1>3, <1>4, <2>1 DEF StoreOK, There
  <2> QED
    BY <1>4, <2>2, StoreMore DEF Stores
<1>6. \A c \in Calls : pc[c] = "new" /\ old[c] = {}
  BY DEF Init
<1>7. Held /\ Unraced
  BY <1>6 DEF Held, HeldBy, Locked, Unraced, Unseen, Active
<1>8. New
  BY <1>3, <1>4, <1>6 DEF New, NewTo, Fresh, There
<1>9. Alone
  BY <1>3, <1>4, <1>6 DEF Alone, Single, DbBehind, WorkBehind, Behind, Active
<1> QED
  BY <1>1, <1>2, <1>5, <1>7, <1>8, <1>9 DEF MemInv

LEMMA StepInv ==
  ASSUME MemInv, [Next]_vars
  PROVE  MemInv'
BY TypeStep, LocksStep, StoresStep, HeldStep, UnracedStep, NewStep, AloneStep DEF MemInv

\* The inductive invariant holds in every reachable state.
THEOREM MemInvCorrect == Spec => []MemInv
<1>1. Init => MemInv
  BY InitInv
<1>2. MemInv /\ [Next]_vars => MemInv'
  BY StepInv
<1> QED
  BY <1>1, <1>2, PTL DEF Spec

\* The type invariant, with the bound of _embedding_queue and of the retries.
THEOREM TypeCorrect == Spec => []TypeOK
<1>1. MemInv => TypeOK
  BY DEF MemInv
<1> QED
  BY <1>1, MemInvCorrect, PTL

\* update(), append(), read(), the embedding thread, failures and crashes lose no
\* content that a caller was told is stored; only refresh() can, and a delete() whose
\* first half a read() commits.
THEOREM HistoryCompleteCorrect == Spec => []HistoryComplete
<1>1. MemInv => HistoryComplete
  BY DEF MemInv, Stores, StoreOK, HistoryComplete
<1> QED
  BY <1>1, MemInvCorrect, PTL

\* The history entry of a change that failed is never committed while calls do not
\* overlap.
THEOREM HistoryExactCorrect == Spec => []HistoryExact
<1>1. MemInv => HistoryExact
  BY DEF MemInv, Alone, DbBehind, Behind, HistoryExact
<1> QED
  BY <1>1, MemInvCorrect, PTL

\* A vector belongs to the content beside it; only reindex() can store another.
THEOREM VectorFreshCorrect == Spec => []VectorFresh
<1>1. MemInv => VectorFresh
  BY DEF MemInv, Stores, StoreOK, VectorFresh
<1> QED
  BY <1>1, MemInvCorrect, PTL

\* delete() leaves no history behind unless a read() commits its first half; apart from
\* that only refresh() does.
THEOREM NoOrphanCorrect == Spec => []NoOrphanHistory
<1>1. MemInv => NoOrphanHistory
  BY DEF MemInv, Stores, StoreOK, NoOrphanHistory
<1> QED
  BY <1>1, MemInvCorrect, PTL

\* write() stores a text once.
THEOREM DeduplicatedCorrect == Spec => []Deduplicated
<1>1. MemInv => Deduplicated
  BY DEF MemInv, Stores, StoreOK, Deduplicated
<1> QED
  BY <1>1, MemInvCorrect, PTL
-----------------------------------------------------------------------------
(***************************************************************************)
(* Each commit is one whole call, or half of a delete()                    *)
(***************************************************************************)

\* The row w is the row d, but for what an embedding, or a call that failed, has added.
Trails(d, w, r) ==
  /\ w.content = d.content
  /\ w.vector \in {d.vector, d.content} \/ "reindex" \in r
  /\ d.history \subseteq w.history
  /\ \/ w.history = d.history
     \/ d.content \notin {Unborn, Gone} /\ w.history = d.history \cup {d.content}
     \/ "refresh" \in r

\* The rows w are the rows d with m changed by one call.
Created(d, w, m) ==
  /\ d[m].content = Unborn /\ \A n \in Mems : d[n].content # {}
  /\ w[m].content = {} /\ w[m].vector \in {NoVector, {}} /\ w[m].history = {}

Replaced(d, w, m, c, r) ==
  /\ There(d, m) /\ Fresh(c, d)
  /\ w[m].content \in {{c}, d[m].content \cup {c}}
  /\ w[m].vector \in {NoVector, w[m].content}
  /\ d[m].history \subseteq w[m].history
  /\ w[m].history = d[m].history \cup {d[m].content} \/ "refresh" \in r

Changed(d, w, m, c, r) ==
  /\ Created(d, w, m) \/ Replaced(d, w, m, c, r)
  /\ \A n \in Mems \ {m} : Trails(d[n], w[n], r)

\* They are the rows d with those of S deleted: there they were, or half deleted.
Deleted(d, w, S, r, t) ==
  /\ \A m \in S : /\ There(d, m) \/ m \in t
                 /\ w[m].content = Gone /\ w[m].vector = NoVector /\ w[m].history = {}
  /\ \A n \in Mems \ S : Trails(d[n], w[n], r)

\* They are the rows d with those of S half deleted.
Halved(d, w, S, r) ==
  /\ \A m \in S :
       /\ There(d, m)
       /\ \/ /\ w[m].content = d[m].content /\ w[m].history = {}
             /\ w[m].vector \in {d[m].vector, d[m].content} \/ "reindex" \in r
          \/ /\ w[m].content = Gone /\ w[m].vector = NoVector
             /\ d[m].history \subseteq w[m].history
             /\ \/ w[m].history \in {d[m].history, d[m].history \cup {d[m].content}}
                \/ "refresh" \in r
  /\ \A n \in Mems \ S : Trails(d[n], w[n], r)

Level(d, w, r) == \A m \in Mems : Trails(d[m], w[m], r)

\* The half of a delete() that is committed is known.
Told == \A m \in Half : There(work, m) \/ work[m].history # {} => m \in torn

\* The open transaction is at most one call ahead of what is committed, and that call is
\* about to commit it, or half of a delete().
Ahead ==
  \/ Level(db, work, raced) /\ Told
  \/ \E c \in Calls : pc[c] = "commit" /\ Changed(db, work, mem[c], c, raced)
  \/ /\ \E c \in Calls : pc[c] = "commit"
     /\ \E S \in SUBSET Mems : Deleted(db, work, S, raced, torn)
  \/ Halved(db, work, Half, raced)

\* append() adds to the content that is there.
Appends == \A c \in Calls : pc[c] = "write" /\ op[c] = "append" => old[c] = work[mem[c]].content

\* A memory that is not born yet has no history, and no refresh() is about to add to it.
Blank(d) == \A m \in Mems : d[m].content = Unborn => d[m].history = {}

Born(d) ==
  \A c \in Calls : op[c] = "refresh" /\ pc[c] \in {"file", "reget", "relock"} =>
                     d[mem[c]].content # Unborn

Births == Blank(db) /\ Blank(work) /\ Born(db) /\ Born(work)

LEMMA LevelSelf ==
  ASSUME NEW d, NEW r
  PROVE  Level(d, d, r)
BY DEF Level, Trails

LEMMA TrailsMore ==
  ASSUME NEW d, NEW w, NEW r, NEW s, Trails(d, w, r), r \subseteq s
  PROVE  Trails(d, w, s)
BY DEF Trails

LEMMA ChangedMore ==
  ASSUME NEW d, NEW w, NEW m, NEW c, NEW r, NEW s, Changed(d, w, m, c, r), r \subseteq s
  PROVE  Changed(d, w, m, c, s)
<1>1. \A n \in Mems \ {m} : Trails(d[n], w[n], s)
  BY TrailsMore DEF Changed
<1>2. Replaced(d, w, m, c, r) => Replaced(d, w, m, c, s)
  BY DEF Replaced
<1> QED
  BY <1>1, <1>2 DEF Changed

LEMMA DeletedMore ==
  ASSUME NEW d, NEW w, NEW S, NEW r, NEW s, NEW t, Deleted(d, w, S, r, t), r \subseteq s
  PROVE  Deleted(d, w, S, s, t)
BY TrailsMore DEF Deleted

LEMMA HalvedMore ==
  ASSUME NEW d, NEW w, NEW S, NEW r, NEW s, Halved(d, w, S, r), r \subseteq s
  PROVE  Halved(d, w, S, s)
<1>1. \A n \in Mems \ S : Trails(d[n], w[n], s)
  BY TrailsMore DEF Halved
<1> QED
  BY <1>1 DEF Halved

LEMMA LevelMore ==
  ASSUME NEW d, NEW w, NEW r, NEW s, Level(d, w, r), r \subseteq s
  PROVE  Level(d, w, s)
BY TrailsMore DEF Level

\* Everything that was written is rolled back.
LEMMA AheadBack ==
  ASSUME work' = db', Half' = {}
  PROVE  Ahead'
<1>1. Level(db', db', raced')
  BY LevelSelf
<1> QED
  BY <1>1 DEF Ahead, Told

\* Everything that was written is committed.
LEMMA AheadEnds ==
  ASSUME Commit,
         \A c \in Calls : pc'[c] \in {"forget", "remove"} =>
                          pc[c] = pc'[c] /\ mem'[c] = mem[c]
  PROVE  Ahead'
<1>1. Level(db', work', raced')
  BY LevelSelf DEF Commit
<1>2. Stored' = Stored
  BY DEF Commit, Stored, There
<1>3. Half' \subseteq Half
  BY <1>2 DEF Half
<1>4. Told'
  BY <1>3 DEF Told, Commit, There
<1> QED
  BY <1>1, <1>4 DEF Ahead

\* Where a call is when it has written something that is to be committed.
Late == {"commit", "forget", "remove"}

LEMMA HalfSame ==
  ASSUME work' = work,
         \A c \in Calls : pc[c] \in Late \/ pc'[c] \in Late =>
                          pc'[c] = pc[c] /\ mem'[c] = mem[c]
  PROVE  Half' = Half
<1>1. Stored' = Stored
  BY DEF Stored, There
<1>2. \A c \in Calls, m \in Mems :
        ((pc[c] = "forget" /\ m = mem[c]) \/ (pc[c] = "remove" /\ m \in Stored))
        <=> ((pc'[c] = "forget" /\ m = mem'[c]) \/ (pc'[c] = "remove" /\ m \in Stored'))
  BY <1>1 DEF Late
<1> QED
  BY <1>2 DEF Half

LEMMA AheadKept ==
  ASSUME Ahead, UNCHANGED <<db, work, torn>>, raced \subseteq raced',
         \A c \in Calls : pc[c] \in Late \/ pc'[c] \in Late =>
                          pc'[c] = pc[c] /\ mem'[c] = mem[c]
  PROVE  Ahead'
<1>1. Half' = Half
  BY HalfSame
<1>2. CASE Level(db, work, raced) /\ Told
  <2>1. Level(db', work', raced')
    BY <1>2, LevelMore
  <2>2. Told'
    BY <1>1, <1>2 DEF Told, There
  <2> QED
    BY <2>1, <2>2 DEF Ahead
<1>3. ASSUME NEW c \in Calls, pc[c] = "commit", Changed(db, work, mem[c], c, raced)
      PROVE  Ahead'
  <2>1. Changed(db, work, mem[c], c, raced')
    BY <1>3, ChangedMore
  <2>2. pc'[c] = "commit" /\ Changed(db', work', mem'[c], c, raced')
    BY <1>3, <2>1 DEF Late
  <2> QED
    BY <2>2 DEF Ahead
<1>4. ASSUME NEW c \in Calls, pc[c] = "commit", NEW S \in SUBSET Mems,
             Deleted(db, work, S, raced, torn)
      PROVE  Ahead'
  <2>1. Deleted(db, work, S, raced', torn)
    BY <1>4, DeletedMore
  <2>2. pc'[c] = "commit" /\ Deleted(db', work', S, raced', torn')
    BY <1>4, <2>1 DEF Late
  <2> QED
    BY <2>2 DEF Ahead
<1>5. CASE Halved(db, work, Half, raced)
  <2>1. Halved(db, work, Half, raced')
    BY <1>5, HalvedMore
  <2>2. Halved(db', work', Half', raced')
    BY <1>1, <2>1
  <2> QED
    BY <2>2 DEF Ahead
<1> QED
  BY <1>2, <1>3, <1>4, <1>5 DEF Ahead

\* As long as no call is about to commit or half through a delete(), nothing is changed.
LEMMA AheadLevel ==
  ASSUME Ahead, \A c \in Calls : pc[c] \notin Late
  PROVE  Level(db, work, raced)
<1>1. Half = {}
  BY HalfNone DEF Late
<1> QED
  BY <1>1 DEF Ahead, Late, Halved, Level

LEMMA LevelAhead ==
  ASSUME Level(db', work', raced'), \A c \in Calls : pc'[c] \notin {"forget", "remove"}
  PROVE  Ahead'
<1>1. Half' = {}
  BY DEF Half
<1> QED
  BY <1>1 DEF Ahead, Told

LEMMA LockedOut ==
  ASSUME Locks, holder \notin Calls
  PROVE  \A c \in Calls : pc[c] \notin Locked /\ pc[c] \notin Late /\ pc[c] # "write"
BY DEF Locks, Locked, Late

LEMMA LockedAlone ==
  ASSUME Locks, NEW c \in Calls, pc[c] \in Locked
  PROVE  \A d \in Calls : d # c => pc[d] \notin Locked /\ pc[d] \notin Late /\ pc[d] # "write"
BY DEF Locks, Locked, Late

LEMMA PutLevel ==
  ASSUME NEW d, NEW w, NEW u, NEW r, NEW m \in Mems, NEW x, NEW v, NEW h,
         Level(d, w, r), Put(u, w, m, x, v, h), x = d[m].content,
         v \in {d[m].vector, d[m].content} \/ "reindex" \in r,
         d[m].history \subseteq h,
         \/ h = d[m].history
         \/ d[m].content \notin {Unborn, Gone} /\ h = d[m].history \cup {d[m].content}
         \/ "refresh" \in r
  PROVE  Level(d, u, r)
<1> SUFFICES ASSUME NEW n \in Mems PROVE Trails(d[n], u[n], r)
  BY DEF Level
<1>1. CASE n = m
  BY <1>1 DEF Trails, Put
<1>2. CASE n # m
  BY <1>2 DEF Level, Put
<1> QED
  BY <1>1, <1>2

LEMMA BeginChangeAhead ==
  ASSUME TypeOK, Locks, Ahead, NEW c \in Calls, BeginChange(c)
  PROVE  Ahead'
<1> DEFINE m == mem[c]
<1>1. \A d \in Calls : pc'[d] \notin {"forget", "remove"}
  BY MemConstants, LockedOut DEF BeginChange, Locked, Lock, Go, Nothing, End, TypeOK, calls
<1>2. m \in Mems /\ Level(db, work, raced)
  BY MemConstants, LockedOut, AheadLevel DEF TypeOK, BeginChange, Lock
<1>3. CASE There(work, m)
  <2>1. Put(work', work, m, work[m].content, work[m].vector,
            work[m].history \cup {work[m].content})
    BY <1>3, BeginChangePuts
  <2>2. Trails(db[m], work[m], raced)
    BY <1>2 DEF Level
  <2>3. db' = db /\ raced' = raced
    BY <1>3 DEF BeginChange, Execute
  <2>4. Level(db, work', raced)
    <3> DEFINE h == work[m].history \cup {work[m].content}
    <3>1. /\ work[m].content = db[m].content
          /\ work[m].vector \in {db[m].vector, db[m].content} \/ "reindex" \in raced
          /\ db[m].history \subseteq h
          /\ \/ h = db[m].history
             \/ db[m].content \notin {Unborn, Gone} /\ h = db[m].history \cup {db[m].content}
             \/ "refresh" \in raced
      BY <1>3, <2>2 DEF Trails, There
    <3>2. Put(work', work, m, work[m].content, work[m].vector, h)
      BY <2>1
    <3> HIDE DEF h, m
    <3> QED
      BY <1>2, <3>1, <3>2, PutLevel
  <2> QED
    BY <1>1, <2>3, <2>4, LevelAhead
<1>4. CASE ~There(work, m)
  <2>1. UNCHANGED <<db, work, raced>>
    BY <1>4 DEF BeginChange, Nothing, store
  <2> QED
    BY <1>1, <1>2, <2>1, LevelAhead
<1> QED
  BY <1>3, <1>4

LEMMA SaveOldAhead ==
  ASSUME TypeOK, Locks, Unraced, Ahead, NEW c \in Calls, SaveOld(c)
  PROVE  Ahead'
<1> DEFINE m == mem[c]
           h == work[m].history \cup {old[c]}
<1>1. \A d \in Calls : pc'[d] \notin {"forget", "remove"}
  BY MemConstants, LockedOut DEF SaveOld, Locked, Lock, Go, Nothing, End, TypeOK, calls
<1>2. m \in Mems /\ Level(db, work, raced) /\ old[c] \in Contents
  BY MemConstants, LockedOut, AheadLevel DEF TypeOK, SaveOld, Lock
<1>3. Put(work', work, m, work[m].content, work[m].vector, h)
  BY SaveOldPuts
<1>4. db' = db /\ raced' = raced
  BY DEF SaveOld, Execute
<1>5. "refresh" \in raced \/ (old[c] = work[m].content /\ There(work, m))
  <2>1. "refresh" \in raced \/ old[c] = work[m].content
    BY DEF Unraced, Unseen, SaveOld, Lock, Active
  <2> QED
    BY <1>2, <2>1, Apart DEF There
<1>6. /\ work[m].content = db[m].content
      /\ work[m].vector \in {db[m].vector, db[m].content} \/ "reindex" \in raced
      /\ db[m].history \subseteq h
      /\ \/ h = db[m].history
         \/ db[m].content \notin {Unborn, Gone} /\ h = db[m].history \cup {db[m].content}
         \/ "refresh" \in raced
  <2>1. Trails(db[m], work[m], raced)
    BY <1>2 DEF Level
  <2> QED
    BY <1>5, <2>1 DEF Trails, There
<1> HIDE DEF h, m
<1>7. Level(db, work', raced)
  BY <1>2, <1>3, <1>6, PutLevel
<1> QED
  BY <1>1, <1>4, <1>7, LevelAhead

LEMMA ReindexAhead ==
  ASSUME TypeOK, Locks, Unraced, Ahead, NEW c \in Calls, Reindex(c)
  PROVE  Ahead'
<1> DEFINE m == mem[c]
<1>1. \A d \in Calls : pc'[d] \notin {"forget", "remove"}
  BY MemConstants, LockedOut DEF Reindex, Locked, Lock, Go, Nothing, End, TypeOK, calls
<1>2. m \in Mems /\ Level(db, work, raced)
  BY MemConstants, LockedOut, AheadLevel DEF TypeOK, Reindex, Lock
<1>3. db' = db /\ raced' = raced
  BY DEF Reindex, Execute
<1>4. "reindex" \in raced \/ old[c] = work[m].content
  BY DEF Unraced, Unseen, Reindex, Lock, Active
<1>5. CASE There(work, m)
  <2>1. Put(work', work, m, work[m].content, old[c], work[m].history)
    BY <1>5, ReindexPuts
  <2>2. Trails(db[m], work[m], raced)
    BY <1>2 DEF Level
  <2> HIDE DEF m
  <2>3. Level(db, work', raced)
    BY <1>2, <1>4, <2>1, <2>2, PutLevel DEF Trails
  <2> QED
    BY <1>1, <1>3, <2>3, LevelAhead
<1>6. CASE ~There(work, m)
  <2>1. work' = work
    BY <1>6 DEF Reindex, Execute
  <2> QED
    BY <1>1, <1>2, <1>3, <2>1, LevelAhead
<1> QED
  BY <1>5, <1>6

LEMMA WorkerAhead ==
  ASSUME TypeOK, Locks, Ahead, WorkerEmbeds
  PROVE  Ahead'
<1>1. \A d \in Calls : pc'[d] \notin {"forget", "remove"}
  BY MemConstants, LockedOut DEF WorkerEmbeds, Locked, Lock, Go, Nothing, End, TypeOK, calls
<1>2. wmem \in Mems /\ Level(db, work, raced)
  BY MemConstants, LockedOut, AheadLevel DEF TypeOK, WorkerEmbeds
<1>3. db' = db /\ raced' = raced
  BY DEF WorkerEmbeds, Execute
<1>4. Put(work', work, wmem, work[wmem].content, work[wmem].content, work[wmem].history)
  BY WorkerPuts
<1>5. Trails(db[wmem], work[wmem], raced)
  BY <1>2 DEF Level
<1>6. Level(db, work', raced)
  BY <1>2, <1>4, <1>5, PutLevel DEF Trails
<1> QED
  BY <1>1, <1>3, <1>6, LevelAhead

LEMMA OthersTrail ==
  ASSUME NEW d, NEW w, NEW u, NEW r, NEW m \in Mems, NEW x, NEW v, NEW h,
         Level(d, w, r), Put(u, w, m, x, v, h)
  PROVE  \A n \in Mems \ {m} : Trails(d[n], u[n], r)
BY DEF Level, Put

LEMMA DeleteAhead ==
  ASSUME TypeOK, Locks, Ahead, NEW c \in Calls, Delete(c)
  PROVE  Ahead'
<1> DEFINE m == mem[c]
<1>1. /\ m \in Mems /\ Level(db, work, raced)
      /\ \A d \in Calls : pc[d] \notin {"forget", "remove"}
  BY MemConstants, LockedOut, AheadLevel DEF TypeOK, Delete, Lock, Locked
<1>2. CASE There(work, m)
  <2>1. Put(work', work, m, Gone, NoVector, work[m].history)
    BY <1>2, DeletePuts
  <2>2. \A n \in Mems \ {m} : Trails(db[n], work'[n], raced)
    BY <1>1, <2>1, OthersTrail
  <2>3. db' = db /\ raced' = raced /\ mem' = mem /\ pc' = [pc EXCEPT ![c] = "forget"]
    BY <1>2 DEF Delete, Execute, Go, calls
  <2>4. Half' = {m}
    BY <1>1, <2>3 DEF Half, TypeOK
  <2>5. Trails(db[m], work[m], raced)
    BY <1>1 DEF Level
  <2>6. Halved(db, work', {m}, raced)
    BY <1>2, <2>1, <2>2, <2>5 DEF Halved, Put, There, Trails
  <2>7. Halved(db', work', Half', raced')
    BY <2>3, <2>4, <2>6
  <2> QED
    BY <2>7 DEF Ahead
<1>3. CASE ~There(work, m)
  <2>1. UNCHANGED <<db, work, raced>> /\ \A d \in Calls : pc'[d] \notin {"forget", "remove"}
    BY <1>1, <1>3 DEF Delete, Nothing, store, End, Go, TypeOK
  <2> QED
    BY <1>1, <2>1, LevelAhead
<1> QED
  BY <1>2, <1>3

LEMMA DeleteTopicAhead ==
  ASSUME TypeOK, Locks, Ahead, NEW c \in Calls, DeleteTopic(c)
  PROVE  Ahead'
<1>1. Level(db, work, raced) /\ \A d \in Calls : pc[d] \notin {"forget", "remove"}
  BY MemConstants, LockedOut, AheadLevel DEF DeleteTopic, Lock, Locked
<1>2. raced' = raced
  BY DEF DeleteTopic
<1>3. CASE ~Nothing(c)
  <2>1. Emptied(work', work) /\ db' = db /\ mem' = mem /\ pc' = [pc EXCEPT ![c] = "remove"]
    BY <1>3, TopicPuts DEF Go
  <2>2. \A m \in Mems : There(work', m) <=> There(work, m)
    BY <2>1 DEF Emptied, There
  <2>3. Half' = {m \in Mems : There(work, m)}
    BY <1>1, <2>1, <2>2 DEF Half, Stored, TypeOK
  <2>4. Halved(db, work', {m \in Mems : There(work, m)}, raced)
    BY <1>1, <2>1 DEF Halved, Emptied, There, Level, Trails
  <2>5. Halved(db', work', Half', raced')
    BY <1>2, <2>1, <2>3, <2>4
  <2> QED
    BY <2>5 DEF Ahead
<1>4. CASE Nothing(c)
  <2>1. UNCHANGED <<db, work>> /\ \A d \in Calls : pc'[d] \notin {"forget", "remove"}
    BY <1>1, <1>4 DEF Nothing, store, End, Go, TypeOK
  <2> QED
    BY <1>1, <1>2, <2>1, LevelAhead
<1> QED
  BY <1>3, <1>4

LEMMA ForgetAhead ==
  ASSUME TypeOK, Locks, Held, Ahead, NEW c \in Calls, Forget(c)
  PROVE  Ahead'
<1> DEFINE m == mem[c]
<1>1. /\ m \in Mems /\ pc[c] = "forget" /\ Half = {m}
      /\ work[m].content = Gone /\ work[m].vector = NoVector
  BY HalfOne DEF Forget, TypeOK, Held, HeldBy
<1>2. Put(work', work, m, Gone, NoVector, {})
  BY <1>1, ForgetPuts
<1>3. UNCHANGED <<db, raced, torn>> /\ pc' = [pc EXCEPT ![c] = "commit"]
  BY DEF Forget, Execute, Go
<1>4. pc'[c] = "commit" /\ \A d \in Calls : pc'[d] \notin {"forget", "remove"}
  BY <1>1, <1>3, LockedAlone DEF TypeOK, Locked
<1>5. \A d \in Calls : pc[d] # "commit"
  BY <1>1, LockedAlone DEF Locked
<1> HIDE DEF m
<1>6. CASE There(db, m) \/ m \in torn
  <2>1. \A n \in Mems \ {m} : Trails(db[n], work[n], raced)
    BY <1>1, <1>5 DEF Ahead, Level, Halved
  <2>2. \A n \in Mems \ {m} : Trails(db[n], work'[n], raced)
    BY <1>2, <2>1 DEF Put
  <2>3. Deleted(db, work', {m}, raced, torn)
    BY <1>2, <1>6, <2>2 DEF Deleted, Put
  <2>4. Deleted(db', work', {m}, raced', torn')
    BY <1>3, <2>3
  <2> QED
    BY <1>1, <1>4, <2>4 DEF Ahead
<1>7. CASE ~(There(db, m) \/ m \in torn)
  <2>1. Level(db, work, raced) /\ work[m].history = {}
    BY <1>1, <1>5, <1>7 DEF Ahead, Halved, Told
  <2>2. Level(db, work', raced)
    BY <1>1, <1>2, <2>1 DEF Level, Put, Trails
  <2> QED
    BY <1>3, <1>4, <2>2, LevelAhead
<1> QED
  BY <1>6, <1>7

LEMMA RemoveAhead ==
  ASSUME TypeOK, Locks, Held, Ahead, NEW c \in Calls, Remove(c)
  PROVE  Ahead'
<1>1. /\ pc[c] = "remove" /\ Half = Stored
      /\ \A m \in Stored : work[m].history = {}
  BY HalfOne DEF Remove, Held, HeldBy
<1>2. Vanished(work', work)
  BY RemovePuts
<1>3. UNCHANGED <<db, raced, torn>> /\ pc' = [pc EXCEPT ![c] = "commit"]
  BY DEF Remove, Execute, Go
<1>4. pc'[c] = "commit"
  BY <1>3 DEF TypeOK
<1>5. \A d \in Calls : pc[d] # "commit"
  BY <1>1, LockedAlone DEF Locked
<1>6. \A m \in Stored : There(db, m)
  <2>1. CASE Level(db, work, raced)
    BY <2>1 DEF Level, Trails, Stored, There
  <2>2. CASE Halved(db, work, Half, raced)
    BY <1>1, <2>2 DEF Halved
  <2> QED
    BY <1>5, <2>1, <2>2 DEF Ahead
<1>7. \A n \in Mems \ Stored : Trails(db[n], work[n], raced)
  BY <1>1, <1>5 DEF Ahead, Level, Halved
<1>8. Deleted(db, work', Stored, raced, torn)
  BY <1>1, <1>2, <1>6, <1>7, StoredThere DEF Deleted, Vanished, Trails, Stored
<1>9. Deleted(db', work', Stored, raced', torn') /\ Stored \in SUBSET Mems
  BY <1>3, <1>8 DEF Stored
<1> QED
  BY <1>4, <1>9 DEF Ahead

LEMMA ChangeAhead ==
  ASSUME TypeOK, Locks, Held, New, Ahead, Appends, Births, NEW c \in Calls, Change(c)
  PROVE  Ahead'
<1> DEFINE m == mem[c]
<1>1. m \in Mems /\ pc[c] = "write" /\ op[c] \in Changes
  BY DEF TypeOK, Change, Locks
<1>2. Level(db, work, raced)
  <2>1. \A d \in Calls : pc[d] \notin Late
    BY <1>1, LockedAlone DEF Locked, Late
  <2> QED
    BY <2>1, AheadLevel
<1>3. db' = db /\ raced' = raced /\ mem' = mem /\ pc'[c] = "commit"
  BY <1>1 DEF Change, Execute, Go, calls, TypeOK
<1>4. HeldBy(c) /\ Fresh(c, db)
  BY <1>1 DEF Held, New, NewTo
<1>5. Trails(db[m], work[m], raced)
  BY <1>1, <1>2 DEF Level
<1>6. \A d \in Calls : pc'[d] \notin {"forget", "remove"}
  BY <1>1, LockedAlone DEF Change, Go, Locked, TypeOK
<1>7. ASSUME op[c] = "write" \/ There(work, m) PROVE Ahead'
  <2>1. Put(work', work, m, NewContent(c), Vector(NewContent(c)), work[m].history)
    BY <1>7, ChangePuts
  <2>2. \A n \in Mems \ {m} : Trails(db[n], work'[n], raced)
    BY <1>1, <1>2, <2>1, OthersTrail
  <2>3. Vector(NewContent(c)) \in {NoVector, NewContent(c)}
    BY DEF Vector
  <2>4. CASE op[c] = "write"
    <3>1. work[m].content = Unborn /\ \A n \in Mems : work[n].content # {}
      BY <1>1, <1>4, <2>4 DEF HeldBy
    <3>2. db[m].content = Unborn /\ \A n \in Mems : db[n].content # {}
      BY <1>1, <1>2, <3>1 DEF Level, Trails
    <3>3. work[m].history = {} /\ NewContent(c) = {}
      BY <1>1, <2>4, <3>1 DEF Births, Blank, NewContent
    <3>4. Created(db, work', m)
      BY <2>1, <2>3, <3>2, <3>3 DEF Created, Put
    <3>5. Changed(db', work', mem'[c], c, raced')
      BY <1>3, <2>2, <3>4 DEF Changed
    <3> QED
      BY <1>3, <3>5 DEF Ahead
  <2>5. CASE op[c] # "write"
    <3>1. There(work, m) /\ There(db, m) /\ work[m].content = db[m].content
      BY <1>5, <1>7, <2>5 DEF There, Trails
    <3>2. work[m].content \in work[m].history \/ "refresh" \in raced
      BY <1>1, <1>4, <2>5 DEF HeldBy, Saved, Changes
    <3>3. /\ db[m].history \subseteq work[m].history
          /\ work[m].history = db[m].history \cup {db[m].content} \/ "refresh" \in raced
      BY <1>5, <3>1, <3>2 DEF Trails
    <3>4. NewContent(c) \in {{c}, db[m].content \cup {c}}
      BY <1>1, <2>5, <3>1 DEF NewContent, Appends
    <3>5. Replaced(db, work', m, c, raced)
      BY <1>4, <2>1, <2>3, <3>1, <3>3, <3>4 DEF Replaced, Put
    <3>6. Changed(db', work', mem'[c], c, raced')
      BY <1>3, <2>2, <3>5 DEF Changed
    <3> QED
      BY <1>3, <3>6 DEF Ahead
  <2> QED
    BY <2>4, <2>5
<1>8. CASE ~(op[c] = "write" \/ There(work, m))
  <2>1. work' = work
    BY <1>8 DEF Change, Execute
  <2> QED
    BY <1>2, <1>3, <1>6, <2>1, LevelAhead
<1> QED
  BY <1>7, <1>8

LEMMA AheadStep ==
  ASSUME TypeOK, Locks, Held, Unraced, New, Ahead, Appends, Births, [Next]_vars
  PROVE  Ahead'
<1>1. ASSUME NEW c \in Calls, GetConnection(c) PROVE Ahead'
  <2>1. Half' = {} /\ work' = db'
    BY <1>1, LockedOut, MemConstants DEF GetConnection, Rollback, Half, Go, TypeOK, Locked, calls
  <2> QED
    BY <2>1, AheadBack
<1>2. ASSUME NEW c \in Calls, BeginChange(c) PROVE Ahead'
  BY <1>2, BeginChangeAhead
<1>3. ASSUME NEW c \in Calls, BeginWrite(c) PROVE Ahead'
  BY <1>3, AheadKept DEF Late, BeginWrite, TypeOK, Lock, Nothing, Go, End, store
<1>4. ASSUME NEW c \in Calls, Delete(c) PROVE Ahead'
  BY <1>4, DeleteAhead
<1>5. ASSUME NEW c \in Calls, SelectStale(c) PROVE Ahead'
  BY <1>5, AheadKept DEF Late, SelectStale, TypeOK, Lock, Nothing, Go, End, store
<1>6. ASSUME NEW c \in Calls, ReadFile(c) PROVE Ahead'
  BY <1>6, AheadKept DEF Late, ReadFile, TypeOK, Go, End, calls, store
<1>7. ASSUME NEW c \in Calls, SaveOld(c) PROVE Ahead'
  BY <1>7, SaveOldAhead
<1>8. ASSUME NEW c \in Calls, Change(c) PROVE Ahead'
  BY <1>8, ChangeAhead
<1>9. ASSUME NEW c \in Calls, EmbedRaises(c) PROVE Ahead'
  BY <1>9, AheadKept DEF Late, EmbedRaises, TypeOK, Go, End, store
<1>10. ASSUME NEW c \in Calls, CommitChange(c) PROVE Ahead'
  BY <1>10, AheadEnds DEF CommitChange, Go, End, TypeOK
<1>11. ASSUME NEW c \in Calls, Read(c) PROVE Ahead'
  BY <1>11, AheadKept DEF Late, Read, TypeOK, Go, End, calls, Execute, store
<1>12. ASSUME NEW c \in Calls, CommitRead(c) PROVE Ahead'
  BY <1>12, AheadEnds DEF CommitRead, Go, End, TypeOK
<1>13. ASSUME NEW c \in Calls, SelectMissing(c) PROVE Ahead'
  BY <1>13, AheadKept DEF Late, SelectMissing, TypeOK, Go, End, store
<1>14. ASSUME NEW c \in Calls, Reindex(c) PROVE Ahead'
  BY <1>14, ReindexAhead
<1>15. ASSUME NEW c \in Calls, ReindexRaises(c) PROVE Ahead'
  BY <1>15, AheadKept DEF Late, ReindexRaises, TypeOK, Lock, Go, End, store
<1>16. ASSUME NEW c \in Calls, Flush(c) PROVE Ahead'
  BY <1>16, AheadKept DEF Late, Flush, TypeOK, Go, End, store
<1>17. ASSUME NEW c \in Calls, NEW o \in Ops \ {"none"}, NEW m \in Mems,
             Arrive(c, o, m) PROVE Ahead'
  BY <1>17, AheadKept DEF Late, Arrive, TypeOK, Go, store
<1>18. ASSUME WorkerTakes PROVE Ahead'
  BY <1>18, AheadKept DEF Late, WorkerTakes, TypeOK, calls, store
<1>19. ASSUME WorkerGets PROVE Ahead'
  <2>1. Half' = {} /\ work' = db'
    BY <1>19, LockedOut, MemConstants DEF WorkerGets, Rollback, Half, Locked
  <2> QED
    BY <2>1, AheadBack
<1>20. ASSUME WorkerSkips PROVE Ahead'
  BY <1>20, AheadKept DEF Late, WorkerSkips, TypeOK, calls, store
<1>21. ASSUME WorkerEmbeds PROVE Ahead'
  BY <1>21, WorkerAhead
<1>22. ASSUME WorkerFails PROVE Ahead'
  BY <1>22, AheadKept DEF Late, WorkerFails, TypeOK, calls, store
<1>23. ASSUME WorkerCommits PROVE Ahead'
  BY <1>23, AheadEnds DEF WorkerCommits, calls
<1>24. ASSUME Crash PROVE Ahead'
  <2>1. Half' = {} /\ work' = db'
    BY <1>24 DEF Crash, Rollback, Half, Active
  <2> QED
    BY <2>1, AheadBack
<1>25. ASSUME UNCHANGED vars PROVE Ahead'
  BY <1>25, AheadKept DEF Late, vars, TypeOK, calls, store
<1>26. ASSUME NEW c \in Calls, Forget(c) PROVE Ahead'
  BY <1>26, ForgetAhead
<1>27. ASSUME NEW c \in Calls, DeleteTopic(c) PROVE Ahead'
  BY <1>27, DeleteTopicAhead
<1>28. ASSUME NEW c \in Calls, Remove(c) PROVE Ahead'
  BY <1>28, RemoveAhead
<1> QED
  BY <1>1, <1>2, <1>3, <1>4, <1>5, <1>6, <1>7, <1>8, <1>9, <1>10, <1>11, <1>12,
     <1>13, <1>14, <1>15, <1>16, <1>17, <1>18, <1>19, <1>20, <1>21, <1>22, <1>23, <1>24,
     <1>25, <1>26, <1>27, <1>28 DEF Next, CallStep, WorkerStep

LEMMA AppendsKept ==
  ASSUME Appends, work' = work,
         \A c \in Calls : pc'[c] = "write" /\ op'[c] = "append" =>
           /\ pc[c] = "write" /\ op[c] = "append" /\ mem'[c] = mem[c] /\ old'[c] = old[c]
  PROVE  Appends'
BY DEF Appends

\* No call but the one that has taken the lock now is about to write.
LEMMA AppendsFree ==
  ASSUME \A c \in Calls : pc'[c] = "write" => op'[c] # "append"
  PROVE  Appends'
BY DEF Appends

LEMMA BeginChangeAppends ==
  ASSUME TypeOK, Locks, Appends, NEW c \in Calls, BeginChange(c)
  PROVE  Appends'
<1>1. \A d \in Calls : pc[d] # "write"
  BY LockedOut, MemConstants DEF BeginChange, Lock
<1>2. CASE There(work, mem[c])
  <2>1. /\ old'[c] = work[mem[c]].content /\ mem' = mem
        /\ \A d \in Calls : d # c => pc'[d] # "write"
    BY <1>1, <1>2 DEF BeginChange, Go, TypeOK
  <2>2. work'[mem[c]].content = work[mem[c]].content
    BY <1>2, BeginChangePuts DEF Put
  <2> QED
    BY <2>1, <2>2 DEF Appends
<1>3. CASE ~There(work, mem[c])
  <2>1. \A d \in Calls : pc'[d] # "write"
    BY <1>1, <1>3 DEF BeginChange, Nothing, Go, End, TypeOK
  <2> QED
    BY <2>1, AppendsFree
<1> QED
  BY <1>2, <1>3

LEMMA AppendsStep ==
  ASSUME TypeOK, Locks, Appends, [Next]_vars
  PROVE  Appends'
<1>1. ASSUME NEW c \in Calls, GetConnection(c) PROVE Appends'
  BY <1>1, AppendsFree, LockedOut, LockedAlone, MemConstants DEF GetConnection, TypeOK, Go,
     calls
<1>2. ASSUME NEW c \in Calls, BeginChange(c) PROVE Appends'
  BY <1>2, BeginChangeAppends
<1>3. ASSUME NEW c \in Calls, BeginWrite(c) PROVE Appends'
  BY <1>3, AppendsKept DEF BeginWrite, TypeOK, Lock, Nothing, Go, End, store
<1>4. ASSUME NEW c \in Calls, Delete(c) PROVE Appends'
  BY <1>4, AppendsFree, LockedOut, LockedAlone, MemConstants DEF Delete, TypeOK, Lock,
     Nothing, Go, End, calls, Execute, store
<1>5. ASSUME NEW c \in Calls, SelectStale(c) PROVE Appends'
  BY <1>5, AppendsKept DEF SelectStale, TypeOK, Lock, Nothing, Go, End, store
<1>6. ASSUME NEW c \in Calls, ReadFile(c) PROVE Appends'
  BY <1>6, AppendsKept DEF ReadFile, TypeOK, Go, End, calls, store
<1>7. ASSUME NEW c \in Calls, SaveOld(c) PROVE Appends'
  BY <1>7, AppendsFree, LockedOut, LockedAlone, MemConstants DEF SaveOld, TypeOK, Lock, Go,
     calls, Execute
<1>8. ASSUME NEW c \in Calls, Change(c) PROVE Appends'
  <2>1. \A d \in Calls : d # c => pc[d] # "write"
    BY <1>8, LockedAlone DEF Change, Locked
  <2>2. pc' = [pc EXCEPT ![c] = "commit"]
    BY <1>8 DEF Change, Go
  <2> QED
    BY <2>1, <2>2, AppendsFree DEF TypeOK
<1>9. ASSUME NEW c \in Calls, EmbedRaises(c) PROVE Appends'
  BY <1>9, AppendsKept DEF EmbedRaises, TypeOK, Go, End, store
<1>10. ASSUME NEW c \in Calls, CommitChange(c) PROVE Appends'
  BY <1>10, AppendsKept DEF CommitChange, TypeOK, Go, End, Commit
<1>11. ASSUME NEW c \in Calls, Read(c) PROVE Appends'
  BY <1>11, AppendsKept DEF Read, TypeOK, Go, End, calls, Execute, store
<1>12. ASSUME NEW c \in Calls, CommitRead(c) PROVE Appends'
  BY <1>12, AppendsKept DEF CommitRead, TypeOK, Go, End, Commit
<1>13. ASSUME NEW c \in Calls, SelectMissing(c) PROVE Appends'
  BY <1>13, AppendsKept DEF SelectMissing, TypeOK, Go, End, store
<1>14. ASSUME NEW c \in Calls, Reindex(c) PROVE Appends'
  BY <1>14, AppendsFree, LockedOut, LockedAlone, MemConstants DEF Reindex, TypeOK, Lock, Go,
     calls, Execute
<1>15. ASSUME NEW c \in Calls, ReindexRaises(c) PROVE Appends'
  BY <1>15, AppendsKept DEF ReindexRaises, TypeOK, Lock, Go, End, store
<1>16. ASSUME NEW c \in Calls, Flush(c) PROVE Appends'
  BY <1>16, AppendsKept DEF Flush, TypeOK, Go, End, store
<1>17. ASSUME NEW c \in Calls, NEW o \in Ops \ {"none"}, NEW m \in Mems,
             Arrive(c, o, m) PROVE Appends'
  BY <1>17, AppendsKept DEF Arrive, TypeOK, Go, store
<1>18. ASSUME WorkerTakes PROVE Appends'
  BY <1>18, AppendsKept DEF WorkerTakes, TypeOK, calls, store
<1>19. ASSUME WorkerGets PROVE Appends'
  BY <1>19, AppendsFree, LockedOut, LockedAlone, MemConstants DEF WorkerGets, TypeOK, calls,
     Rollback
<1>20. ASSUME WorkerSkips PROVE Appends'
  BY <1>20, AppendsKept DEF WorkerSkips, TypeOK, calls, store
<1>21. ASSUME WorkerEmbeds PROVE Appends'
  BY <1>21, AppendsFree, LockedOut, LockedAlone, MemConstants DEF WorkerEmbeds, TypeOK,
     calls, Execute
<1>22. ASSUME WorkerFails PROVE Appends'
  BY <1>22, AppendsKept DEF WorkerFails, TypeOK, calls, store
<1>23. ASSUME WorkerCommits PROVE Appends'
  BY <1>23, AppendsKept DEF WorkerCommits, TypeOK, calls, Commit
<1>24. ASSUME Crash PROVE Appends'
  BY <1>24, AppendsFree DEF Crash, TypeOK, Active
<1>25. ASSUME UNCHANGED vars PROVE Appends'
  BY <1>25, AppendsKept DEF vars, TypeOK, calls, store
<1>26. ASSUME NEW c \in Calls, Forget(c) PROVE Appends'
  BY <1>26, AppendsFree, LockedAlone DEF Forget, TypeOK, Go, calls, Locked
<1>27. ASSUME NEW c \in Calls, DeleteTopic(c) PROVE Appends'
  BY <1>27, AppendsFree, LockedOut, MemConstants DEF DeleteTopic, TypeOK, Lock, Nothing, Go, End, calls
<1>28. ASSUME NEW c \in Calls, Remove(c) PROVE Appends'
  BY <1>28, AppendsFree, LockedAlone DEF Remove, TypeOK, Go, calls, Locked
<1> QED
  BY <1>1, <1>2, <1>3, <1>4, <1>5, <1>6, <1>7, <1>8, <1>9, <1>10, <1>11, <1>12,
     <1>13, <1>14, <1>15, <1>16, <1>17, <1>18, <1>19, <1>20, <1>21, <1>22, <1>23, <1>24,
     <1>25, <1>26, <1>27, <1>28 DEF Next, CallStep, WorkerStep


\* A refresh() that is between its two locks was so before.
Between(o, p) == o = "refresh" /\ p \in {"file", "reget", "relock"}

Older ==
  \A c \in Calls : Between(op'[c], pc'[c]) => Between(op[c], pc[c]) /\ mem'[c] = mem[c]

LEMMA BlankPut ==
  ASSUME NEW d, NEW w, NEW m \in Mems, NEW x, NEW v, NEW h, Blank(d), Put(w, d, m, x, v, h),
         x = Unborn => h = {}
  PROVE  Blank(w)
BY DEF Blank, Put

LEMMA BirthsKept ==
  ASSUME Births, Older, UNCHANGED <<db, work>> \/ Rollback \/ Commit
  PROVE  Births'
<1>1. \A c \in Calls : Between(op'[c], pc'[c]) =>
        /\ db[mem'[c]].content # Unborn /\ work[mem'[c]].content # Unborn
  BY DEF Births, Born, Between, Older
<1>2. Blank(db) /\ Blank(work)
  BY DEF Births
<1>3. Blank(db') /\ Blank(work')
  BY <1>2 DEF Rollback, Commit
<1>4. Born(db)' /\ Born(work)'
  BY <1>1 DEF Born, Between, Rollback, Commit
<1> QED
  BY <1>3, <1>4 DEF Births

\* What is written is a row that is born, or was born already.
LEMMA BirthsPut ==
  ASSUME TypeOK, Births, Older, UNCHANGED db, NEW m \in Mems, NEW x, NEW v, NEW h,
         Put(work', work, m, x, v, h), x = work[m].content \/ x # Unborn,
         x = Unborn => h = {}
  PROVE  Births'
<1>1. Blank(work') /\ Blank(db')
  BY BlankPut DEF Births
<1>2. \A n \in Mems : work[n].content # Unborn => work'[n].content # Unborn
  BY DEF Put
<1>3. Born(db)' /\ Born(work)'
  <2> SUFFICES ASSUME NEW c \in Calls, Between(op'[c], pc'[c])
               PROVE  db'[mem'[c]].content # Unborn /\ work'[mem'[c]].content # Unborn
    BY DEF Born, Between
  <2>1. /\ db[mem[c]].content # Unborn /\ work[mem[c]].content # Unborn
        /\ mem'[c] = mem[c] /\ mem[c] \in Mems
    BY DEF Births, Born, Between, Older, TypeOK
  <2> QED
    BY <1>2, <2>1
<1> QED
  BY <1>1, <1>3 DEF Births

LEMMA BeginChangeBirths ==
  ASSUME TypeOK, Births, NEW c \in Calls, BeginChange(c)
  PROVE  Births'
<1>1. Older
  BY DEF BeginChange, Older, Between, Lock, Nothing, Go, End, TypeOK
<1>2. CASE There(work, mem[c])
  <2>1. UNCHANGED db
    BY <1>2 DEF BeginChange, Execute
  <2>2. mem[c] \in Mems /\ work[mem[c]].content # Unborn
    BY <1>2 DEF TypeOK, There
  <2> QED
    BY <1>1, <1>2, <2>1, <2>2, BeginChangePuts, BirthsPut
<1>3. CASE ~There(work, mem[c])
  BY <1>1, <1>3, BirthsKept DEF Between, BeginChange, Nothing, store
<1> QED
  BY <1>2, <1>3

LEMMA DeleteBirths ==
  ASSUME TypeOK, Births, NEW c \in Calls, Delete(c)
  PROVE  Births'
<1>1. Older
  BY DEF Delete, Older, Between, Lock, Nothing, Go, End, TypeOK, calls
<1>2. CASE There(work, mem[c])
  <2>1. UNCHANGED db
    BY <1>2 DEF Delete, Execute
  <2>2. mem[c] \in Mems /\ Gone # Unborn
    BY MemConstants DEF TypeOK
  <2> QED
    BY <1>1, <1>2, <2>1, <2>2, DeletePuts, BirthsPut
<1>3. CASE ~There(work, mem[c])
  BY <1>1, <1>3, BirthsKept DEF Between, Delete, Nothing, store
<1> QED
  BY <1>2, <1>3

\* A deletion gives birth to nothing.
LEMMA BirthsShrink ==
  ASSUME TypeOK, Births, Older, UNCHANGED db,
         \A m \in Mems : /\ work'[m].content \in {work[m].content, Gone}
                        /\ work'[m].history \subseteq work[m].history
  PROVE  Births'
<1>1. Blank(work') /\ Blank(db')
  BY MemConstants DEF Births, Blank
<1>2. \A n \in Mems : work[n].content # Unborn => work'[n].content # Unborn
  BY MemConstants
<1>3. Born(db)' /\ Born(work)'
  <2> SUFFICES ASSUME NEW c \in Calls, Between(op'[c], pc'[c])
               PROVE  db'[mem'[c]].content # Unborn /\ work'[mem'[c]].content # Unborn
    BY DEF Born, Between
  <2>1. /\ db[mem[c]].content # Unborn /\ work[mem[c]].content # Unborn
        /\ mem'[c] = mem[c] /\ mem[c] \in Mems
    BY DEF Births, Born, Between, Older, TypeOK
  <2> QED
    BY <1>2, <2>1
<1> QED
  BY <1>1, <1>3 DEF Births

\* What refresh() has read is in the rows, committed or not: nobody has the lock.
LEMMA SelectStaleBirths ==
  ASSUME TypeOK, Locks, Ahead, Births, NEW c \in Calls, SelectStale(c)
  PROVE  Births'
<1>1. CASE There(work, mem[c])
  <2>1. Level(db, work, raced) /\ mem[c] \in Mems
    BY MemConstants, LockedOut, AheadLevel DEF SelectStale, Lock, TypeOK
  <2>2. db[mem[c]].content # Unborn /\ work[mem[c]].content # Unborn
    BY <1>1, <2>1 DEF There, Level, Trails
  <2>3. /\ UNCHANGED <<db, work, op, mem>> /\ \A d \in Calls : d # c => pc'[d] = pc[d]
    BY <1>1 DEF SelectStale, store, Go, TypeOK
  <2> QED
    BY <2>2, <2>3 DEF Births, Born, Blank
<1>2. CASE ~There(work, mem[c])
  BY <1>2, BirthsKept DEF SelectStale, Nothing, store, Older, Between, Go, End, TypeOK
<1> QED
  BY <1>1, <1>2

LEMMA SaveOldBirths ==
  ASSUME TypeOK, Births, NEW c \in Calls, SaveOld(c)
  PROVE  Births'
<1>1. Older /\ UNCHANGED db
  BY DEF SaveOld, Older, Between, Lock, Go, TypeOK, calls, Execute
<1>2. mem[c] \in Mems /\ work[mem[c]].content # Unborn
  BY DEF Births, Born, SaveOld, Lock, TypeOK
<1>3. Put(work', work, mem[c], work[mem[c]].content, work[mem[c]].vector,
          work[mem[c]].history \cup {old[c]})
  BY SaveOldPuts
<1> QED
  BY <1>1, <1>2, <1>3, BirthsPut

LEMMA ChangeBirths ==
  ASSUME TypeOK, Births, NEW c \in Calls, Change(c)
  PROVE  Births'
<1>1. Older /\ UNCHANGED db
  BY DEF Change, Older, Between, Go, TypeOK, calls, Execute
<1>2. CASE op[c] = "write" \/ There(work, mem[c])
  <2>1. mem[c] \in Mems /\ NewContent(c) # Unborn
    BY NewIsContent, Apart DEF TypeOK
  <2> QED
    BY <1>1, <1>2, <2>1, ChangePuts, BirthsPut
<1>3. CASE ~(op[c] = "write" \/ There(work, mem[c]))
  BY <1>1, <1>3, BirthsKept DEF Between, Change, Execute
<1> QED
  BY <1>2, <1>3

LEMMA ReindexBirths ==
  ASSUME TypeOK, Births, NEW c \in Calls, Reindex(c)
  PROVE  Births'
<1>1. Older /\ UNCHANGED db
  BY DEF Reindex, Older, Between, Lock, Go, TypeOK, calls, Execute
<1>2. CASE There(work, mem[c])
  <2>1. mem[c] \in Mems /\ work[mem[c]].content # Unborn
    BY <1>2 DEF TypeOK, There
  <2> QED
    BY <1>1, <1>2, <2>1, ReindexPuts, BirthsPut
<1>3. CASE ~There(work, mem[c])
  BY <1>1, <1>3, BirthsKept DEF Between, Reindex, Execute
<1> QED
  BY <1>2, <1>3

LEMMA WorkerBirths ==
  ASSUME TypeOK, Births, WorkerEmbeds
  PROVE  Births'
<1>1. Older /\ UNCHANGED db
  BY DEF WorkerEmbeds, Older, Between, calls, Execute
<1>2. wmem \in Mems /\ work[wmem].content # Unborn
  BY DEF WorkerEmbeds, There, TypeOK
<1> QED
  BY <1>1, <1>2, WorkerPuts, BirthsPut

LEMMA BirthsStep ==
  ASSUME TypeOK, Locks, Ahead, Births, [Next]_vars
  PROVE  Births'
<1>1. ASSUME NEW c \in Calls, GetConnection(c) PROVE Births'
  <2>1. Older
    BY <1>1 DEF GetConnection, Older, Between, Active, TypeOK, Go, calls
  <2>2. Rollback
    BY <1>1 DEF GetConnection
  <2> QED
    BY <2>1, <2>2, BirthsKept
<1>2. ASSUME NEW c \in Calls, BeginChange(c) PROVE Births'
  BY <1>2, BeginChangeBirths
<1>3. ASSUME NEW c \in Calls, BeginWrite(c) PROVE Births'
  BY <1>3, BirthsKept DEF Between, BeginWrite, Older, TypeOK, Lock, Nothing, Go, End, store
<1>4. ASSUME NEW c \in Calls, Delete(c) PROVE Births'
  BY <1>4, DeleteBirths
<1>5. ASSUME NEW c \in Calls, SelectStale(c) PROVE Births'
  BY <1>5, SelectStaleBirths
<1>6. ASSUME NEW c \in Calls, ReadFile(c) PROVE Births'
  BY <1>6, BirthsKept DEF Between, ReadFile, Older, TypeOK, Go, End, calls, store
<1>7. ASSUME NEW c \in Calls, SaveOld(c) PROVE Births'
  BY <1>7, SaveOldBirths
<1>8. ASSUME NEW c \in Calls, Change(c) PROVE Births'
  BY <1>8, ChangeBirths
<1>9. ASSUME NEW c \in Calls, EmbedRaises(c) PROVE Births'
  BY <1>9, BirthsKept DEF Between, EmbedRaises, Older, TypeOK, Go, End, store
<1>10. ASSUME NEW c \in Calls, CommitChange(c) PROVE Births'
  BY <1>10, BirthsKept DEF Between, CommitChange, Older, TypeOK, Go, End
<1>11. ASSUME NEW c \in Calls, Read(c) PROVE Births'
  BY <1>11, BirthsKept DEF Between, Read, Older, TypeOK, Go, End, calls, Execute, store
<1>12. ASSUME NEW c \in Calls, CommitRead(c) PROVE Births'
  BY <1>12, BirthsKept DEF Between, CommitRead, Older, TypeOK, Go, End
<1>13. ASSUME NEW c \in Calls, SelectMissing(c) PROVE Births'
  BY <1>13, BirthsKept DEF Between, SelectMissing, Older, TypeOK, Go, End, store
<1>14. ASSUME NEW c \in Calls, Reindex(c) PROVE Births'
  BY <1>14, ReindexBirths
<1>15. ASSUME NEW c \in Calls, ReindexRaises(c) PROVE Births'
  BY <1>15, BirthsKept DEF Between, ReindexRaises, Older, TypeOK, Lock, Go, End, store
<1>16. ASSUME NEW c \in Calls, Flush(c) PROVE Births'
  BY <1>16, BirthsKept DEF Between, Flush, Older, TypeOK, Go, End, store
<1>17. ASSUME NEW c \in Calls, NEW o \in Ops \ {"none"}, NEW m \in Mems,
             Arrive(c, o, m) PROVE Births'
  BY <1>17, BirthsKept DEF Between, Arrive, Older, TypeOK, Go, store
<1>18. ASSUME WorkerTakes PROVE Births'
  BY <1>18, BirthsKept DEF Between, WorkerTakes, Older, TypeOK, calls, store
<1>19. ASSUME WorkerGets PROVE Births'
  <2>1. Older
    BY <1>19 DEF WorkerGets, Older, Between, Active, TypeOK, calls
  <2>2. Rollback
    BY <1>19 DEF WorkerGets
  <2> QED
    BY <2>1, <2>2, BirthsKept
<1>20. ASSUME WorkerSkips PROVE Births'
  BY <1>20, BirthsKept DEF Between, WorkerSkips, Older, TypeOK, calls, store
<1>21. ASSUME WorkerEmbeds PROVE Births'
  BY <1>21, WorkerBirths
<1>22. ASSUME WorkerFails PROVE Births'
  BY <1>22, BirthsKept DEF Between, WorkerFails, Older, TypeOK, calls, store
<1>23. ASSUME WorkerCommits PROVE Births'
  BY <1>23, BirthsKept DEF Between, WorkerCommits, Older, TypeOK, calls
<1>24. ASSUME Crash PROVE Births'
  <2>1. Older
    BY <1>24 DEF Crash, Older, Between, Active, TypeOK
  <2>2. Rollback
    BY <1>24 DEF Crash
  <2> QED
    BY <2>1, <2>2, BirthsKept
<1>25. ASSUME UNCHANGED vars PROVE Births'
  BY <1>25, BirthsKept DEF Between, vars, Older, TypeOK, calls, store
<1>26. ASSUME NEW c \in Calls, Forget(c) PROVE Births'
  <2>1. Older /\ UNCHANGED db
    BY <1>26 DEF Forget, Older, Between, Go, TypeOK, calls, Execute
  <2> QED
    BY <1>26, <2>1, ForgetShrinks, BirthsShrink
<1>27. ASSUME NEW c \in Calls, DeleteTopic(c) PROVE Births'
  <2>1. Older
    BY <1>27 DEF DeleteTopic, Older, Between, Lock, Nothing, Go, End, TypeOK, calls
  <2>2. CASE ~Nothing(c)
    BY <1>27, <2>1, <2>2, TopicPuts, EmptiedShrinks, BirthsShrink
  <2>3. CASE Nothing(c)
    BY <2>1, <2>3, BirthsKept DEF Nothing, store
  <2> QED
    BY <2>2, <2>3
<1>28. ASSUME NEW c \in Calls, Remove(c) PROVE Births'
  <2>1. Older /\ UNCHANGED db
    BY <1>28 DEF Remove, Older, Between, Go, TypeOK, calls, Execute
  <2> QED
    BY <1>28, <2>1, RemovePuts, VanishedShrinks, BirthsShrink
<1> QED
  BY <1>1, <1>2, <1>3, <1>4, <1>5, <1>6, <1>7, <1>8, <1>9, <1>10, <1>11, <1>12,
     <1>13, <1>14, <1>15, <1>16, <1>17, <1>18, <1>19, <1>20, <1>21, <1>22, <1>23, <1>24,
     <1>25, <1>26, <1>27, <1>28 DEF Next, CallStep, WorkerStep

LEMMA InitAhead ==
  ASSUME Init
  PROVE  Ahead /\ Appends /\ Births
<1>1. work = db /\ \A c \in Calls : pc[c] = "new"
  BY DEF Init
<1>2. \A m \in Mems : db[m].history = {}
  BY InitRows
<1>3. Half = {}
  BY <1>1, HalfNone
<1> QED
  BY <1>1, <1>2, <1>3, LevelSelf DEF Ahead, Told, Appends, Births, Blank, Born

\* While no calls overlap, a commit finds no entry of a change that failed.
LEMMA CommitExact ==
  ASSUME TypeOK, Locks, Alone, raced = {},
         (\E c \in Calls : pc[c] \in {"commit", "rcommit"}) \/ wpc = "commit"
  PROVE  WorkBehind
<1>1. CASE \E c \in Calls : pc[c] \in {"commit", "rcommit"}
  BY <1>1 DEF Alone, Single, Pending, Stuck, Active
<1>2. CASE wpc = "commit"
  BY <1>2, MemConstants DEF Alone, Pending, Stuck, Locks, Locked, Changes
<1> QED
  BY <1>1, <1>2

LEMMA TrailsStays ==
  ASSUME NEW m \in Mems, db' = work, Trails(db[m], work[m], raced),
         raced = {} => Behind(work, m)
  PROVE  Promised!Stays(m)
BY DEF Trails, Behind, Promised!Stays, Promised!Embeds, Promised!Collects, Promised!Present

LEMMA Committed ==
  ASSUME Commit
  PROVE  /\ db' = work
         /\ \A S : (\A m \in Half : There(work, m) \/ work[m].history # {} => m \in torn \cup S)
                  /\ S \subseteq Half => Promised!Torn(S)
<1>1. db' = work
  BY DEF Commit
<1>2. ASSUME NEW S, S \subseteq Half,
             \A m \in Half : There(work, m) \/ work[m].history # {} => m \in torn \cup S
      PROVE  Promised!Torn(S)
  <2>1. torn' = {m \in torn \cup Half : There(work, m) \/ work[m].history # {}}
    BY DEF Commit
  <2>2. torn' = {m \in torn \cup S : There(work, m) \/ work[m].history # {}}
    BY <1>2, <2>1
  <2>3. torn' = {m \in torn \cup S : db'[m].content \notin {Unborn, Gone} \/ db'[m].history # {}}
    BY <1>1, <2>2 DEF There
  <2> QED
    BY <2>3 DEF Promised!Torn
<1> QED
  BY <1>1, <1>2

LEMMA LevelIsEmbed ==
  ASSUME Level(db, work, raced), db' = work, Promised!Torn({}), raced' = raced,
         \A m \in Mems : raced = {} => Behind(work, m)
  PROVE  Promised!Next
<1>1. Promised!Embed
  BY TrailsStays DEF Level, Promised!Embed
<1> QED
  BY <1>1 DEF Promised!Next

\* Half of a delete() is committed by a call that overlaps it.
LEMMA HalvedIsDelete ==
  ASSUME Halved(db, work, Half, raced), db' = work, Promised!Torn(Half), raced' = raced,
         raced # {}
  PROVE  Promised!Next
<1>1. ASSUME NEW m \in Half PROVE Promised!Tear(m)
  BY <1>1 DEF Halved, There, Promised!Tear, Promised!Present, Promised!Embeds,
     Promised!Collects
<1>2. \A n \in Mems \ Half : Promised!Stays(n)
  BY TrailsStays DEF Halved
<1>3. Half \in SUBSET Mems
  BY DEF Half
<1>4. Promised!Delete
  BY <1>1, <1>2, <1>3 DEF Promised!Delete
<1> QED
  BY <1>4 DEF Promised!Next

LEMMA CommitIsCall ==
  ASSUME TypeOK, Locks, Alone, Ahead, Commit, raced' = raced,
         (\E c \in Calls : pc[c] \in {"commit", "rcommit"}) \/ wpc = "commit"
  PROVE  Promised!Next
<1>1. \A m \in Mems : raced = {} => Behind(work, m)
  BY CommitExact DEF WorkBehind
<1>2. db' = work
  BY DEF Commit
<1>3. Half = {} => Promised!Torn({})
  BY Committed
<1>4. CASE Level(db, work, raced) /\ Told
  <2>1. Promised!Torn({})
    BY <1>4, Committed DEF Told
  <2> QED
    BY <1>1, <1>2, <1>4, <2>1, LevelIsEmbed
<1>5. ASSUME NEW c \in Calls, pc[c] = "commit", Changed(db, work, mem[c], c, raced)
      PROVE  Promised!Next
  <2> DEFINE m == mem[c]
  <2>1. m \in Mems /\ \A n \in Mems \ {m} : Promised!Stays(n)
    BY <1>1, <1>2, <1>5, TrailsStays DEF Changed, TypeOK
  <2>2. Promised!Torn({})
    BY <1>3, <1>5, HalfOther
  <2>3. Created(db, work, m) => Promised!Create(m)
    BY <1>2 DEF Created, Promised!Create
  <2>4. Replaced(db, work, m, c, raced) => Promised!Replace(m, c)
    BY <1>2 DEF Replaced, Fresh, There, Promised!Replace, Promised!Present, Promised!New
  <2> HIDE DEF m
  <2>5. Promised!Call
    BY <1>5, <2>1, <2>2, <2>3, <2>4 DEF Changed, Promised!Call, m
  <2> QED
    BY <2>5 DEF Promised!Next
<1>6. ASSUME NEW c \in Calls, pc[c] = "commit", NEW S \in SUBSET Mems,
             Deleted(db, work, S, raced, torn)
      PROVE  Promised!Next
  <2>1. \A n \in Mems \ S : Promised!Stays(n)
    BY <1>1, <1>2, <1>6, TrailsStays DEF Deleted
  <2>2. \A m \in S : Promised!Remove(m)
    BY <1>2, <1>6 DEF Deleted, There, Promised!Remove, Promised!Present
  <2>3. Promised!Torn({})
    BY <1>3, <1>6, HalfOther
  <2>4. Promised!Delete
    BY <2>1, <2>2, <2>3 DEF Promised!Delete
  <2> QED
    BY <2>4 DEF Promised!Next
<1>7. CASE Halved(db, work, Half, raced)
  <2>1. CASE Half = {}
    <3>1. Level(db, work, raced)
      BY <1>7, <2>1 DEF Halved, Level
    <3> QED
      BY <1>1, <1>2, <1>3, <2>1, <3>1, LevelIsEmbed
  <2>2. CASE Half # {}
    <3>1. PICK d \in Calls : pc[d] \in {"forget", "remove"}
      BY <2>2, HalfNone
    <3>2. holder = d /\ \A c \in Calls : pc[c] # "commit"
      BY <3>1, LockedAlone DEF Locks, Locked
    <3>3. wpc # "commit"
      BY <3>2, MemConstants DEF Locks
    <3>4. raced # {}
      BY <3>1, <3>2, <3>3 DEF Alone, Single, Active
    <3>5. Promised!Torn(Half)
      BY Committed
    <3> QED
      BY <1>2, <1>7, <3>4, <3>5, HalvedIsDelete
  <2> QED
    BY <2>1, <2>2
<1> QED
  BY <1>4, <1>5, <1>6, <1>7 DEF Ahead

LEMMA QuietIsOverlap ==
  ASSUME db' = db, torn' = torn, raced \subseteq raced'
  PROVE  Promised!Next
BY DEF Promised!Next, Promised!Overlap

LEMMA CommitStep ==
  ASSUME TypeOK, Locks, Alone, Ahead, [Next]_vars
  PROVE  Promised!Next
<1>1. ASSUME NEW c \in Calls, GetConnection(c) PROVE Promised!Next
  BY <1>1, QuietIsOverlap DEF GetConnection, Rollback
<1>2. ASSUME NEW c \in Calls, BeginChange(c) PROVE Promised!Next
  BY <1>2, QuietIsOverlap DEF BeginChange, Execute, Nothing, store
<1>3. ASSUME NEW c \in Calls, BeginWrite(c) PROVE Promised!Next
  BY <1>3, QuietIsOverlap DEF BeginWrite, Nothing, store
<1>4. ASSUME NEW c \in Calls, Delete(c) PROVE Promised!Next
  BY <1>4, QuietIsOverlap DEF Delete, Execute, Nothing, store
<1>5. ASSUME NEW c \in Calls, SelectStale(c) PROVE Promised!Next
  BY <1>5, QuietIsOverlap DEF SelectStale, Nothing, store
<1>6. ASSUME NEW c \in Calls, ReadFile(c) PROVE Promised!Next
  BY <1>6, QuietIsOverlap DEF ReadFile, store
<1>7. ASSUME NEW c \in Calls, SaveOld(c) PROVE Promised!Next
  BY <1>7, QuietIsOverlap DEF SaveOld, Execute
<1>8. ASSUME NEW c \in Calls, Change(c) PROVE Promised!Next
  BY <1>8, QuietIsOverlap DEF Change, Execute
<1>9. ASSUME NEW c \in Calls, EmbedRaises(c) PROVE Promised!Next
  BY <1>9, QuietIsOverlap DEF EmbedRaises, store
<1>10. ASSUME NEW c \in Calls, CommitChange(c) PROVE Promised!Next
  BY <1>10, CommitIsCall DEF CommitChange
<1>11. ASSUME NEW c \in Calls, Read(c) PROVE Promised!Next
  BY <1>11, QuietIsOverlap DEF Read, Execute, store
<1>12. ASSUME NEW c \in Calls, CommitRead(c) PROVE Promised!Next
  BY <1>12, CommitIsCall DEF CommitRead
<1>13. ASSUME NEW c \in Calls, SelectMissing(c) PROVE Promised!Next
  BY <1>13, QuietIsOverlap DEF SelectMissing, store
<1>14. ASSUME NEW c \in Calls, Reindex(c) PROVE Promised!Next
  BY <1>14, QuietIsOverlap DEF Reindex, Execute
<1>15. ASSUME NEW c \in Calls, ReindexRaises(c) PROVE Promised!Next
  BY <1>15, QuietIsOverlap DEF ReindexRaises, store
<1>16. ASSUME NEW c \in Calls, Flush(c) PROVE Promised!Next
  BY <1>16, QuietIsOverlap DEF Flush, store
<1>17. ASSUME NEW c \in Calls, NEW o \in Ops \ {"none"}, NEW m \in Mems,
             Arrive(c, o, m) PROVE Promised!Next
  BY <1>17, QuietIsOverlap DEF Arrive, store
<1>18. ASSUME WorkerTakes PROVE Promised!Next
  BY <1>18, QuietIsOverlap DEF WorkerTakes, store
<1>19. ASSUME WorkerGets PROVE Promised!Next
  BY <1>19, QuietIsOverlap DEF WorkerGets, Rollback
<1>20. ASSUME WorkerSkips PROVE Promised!Next
  BY <1>20, QuietIsOverlap DEF WorkerSkips, store
<1>21. ASSUME WorkerEmbeds PROVE Promised!Next
  BY <1>21, QuietIsOverlap DEF WorkerEmbeds, Execute
<1>22. ASSUME WorkerFails PROVE Promised!Next
  BY <1>22, QuietIsOverlap DEF WorkerFails, store
<1>23. ASSUME WorkerCommits PROVE Promised!Next
  BY <1>23, CommitIsCall DEF WorkerCommits
<1>24. ASSUME Crash PROVE Promised!Next
  BY <1>24, QuietIsOverlap DEF Crash, Rollback
<1>25. ASSUME UNCHANGED vars PROVE Promised!Next
  BY <1>25, QuietIsOverlap DEF vars, store
<1>26. ASSUME NEW c \in Calls, Forget(c) PROVE Promised!Next
  BY <1>26, QuietIsOverlap DEF Forget, Execute
<1>27. ASSUME NEW c \in Calls, DeleteTopic(c) PROVE Promised!Next
  BY <1>27, QuietIsOverlap DEF DeleteTopic, Execute, Nothing, store
<1>28. ASSUME NEW c \in Calls, Remove(c) PROVE Promised!Next
  BY <1>28, QuietIsOverlap DEF Remove, Execute
<1> QED
  BY <1>1, <1>2, <1>3, <1>4, <1>5, <1>6, <1>7, <1>8, <1>9, <1>10, <1>11, <1>12,
     <1>13, <1>14, <1>15, <1>16, <1>17, <1>18, <1>19, <1>20, <1>21, <1>22, <1>23, <1>24,
     <1>25, <1>26, <1>27, <1>28 DEF Next, CallStep, WorkerStep

LEMMA InitIsPromised ==
  ASSUME Init
  PROVE  Promised!Init
<1>1. \A m \in Mems : /\ db[m].content = IF m = First THEN {} ELSE Unborn
                      /\ db[m].vector = NoVector /\ db[m].history = {}
  BY InitRows
<1>2. {} # Unborn /\ raced = {} /\ torn = {}
  BY MemConstants DEF Init
<1> QED
  BY <1>1, <1>2 DEF Promised!Init

\* Whoever commits, each commit is one whole call, or half of a delete() that a read()
\* overlaps: the detailed store implements Memories.
THEOREM CallsAtomicCorrect == Spec => CallsAtomic
<1> DEFINE Inv == MemInv /\ Ahead /\ Appends /\ Births
<1>1. Init => Inv /\ Promised!Init
  BY InitInv, InitAhead, InitIsPromised
<1>2. Inv /\ [Next]_vars => Inv'
  BY StepInv, AheadStep, AppendsStep, BirthsStep DEF MemInv
<1>3. Inv /\ [Next]_vars => [Promised!Next]_<<db, raced, torn>>
  BY CommitStep DEF MemInv
<1> QED
  BY <1>1, <1>2, <1>3, PTL DEF Spec, CallsAtomic, Promised!Spec
=============================================================================
