------------------------ MODULE KnowledgeIndexProofs ------------------------
(***************************************************************************)
(* Proofs about KnowledgeIndex, for any number of sections, texts, chunks, *)
(* calls, edits and crashes and any size of the batches:                   *)
(*   TypeCorrect      the type invariant                                   *)
(*   OrphanCorrect    a vector without its chunk comes from a collision    *)
(*   SaidCorrect      what a call was told is stored or deleted            *)
(*   EmbeddedCorrect  a chunk and its vector agree, or it is known why not *)
(*   ReportsCorrect   what a report without errors means                   *)
(* The properties are about what is committed.  Any call may commit what   *)
(* another has written, and any get() may roll it back, so the inductive   *)
(* invariant KnowledgeInv claims them (Sound) of the open transaction too. *)
(* It adds what a call has in its hands at each step (Hands), that the     *)
(* rows it is going to give a vector are there (Present), that what it has *)
(* written is in the open transaction (Kept), and that the rows whose      *)
(* embedding it has tried agree with their vectors (TriedOK); each unless  *)
(* another call has disturbed the row.  A step of a call keeps what the    *)
(* others have because a row in their hands is spared or disturbed         *)
(* (OthersSpared).  ReportInv is about calls that do not overlap: what the *)
(* one at work has done so far, if it has no error to report, and which    *)
(* chunks reindex() has found without a vector.                            *)
(***************************************************************************)
EXTENDS KnowledgeIndex, FiniteSetTheorems, TLAPS

Waiting == {"new", "get", "select", "report", "relink", "link", "lcommit", "scommit",
            "over"}

\* What a call has in its hands, by where it is.
Hands(c) ==
  /\ pc[c] \in Waiting => pend[c] = {}
  /\ id[c] # NoId => pc[c] = "upsert"
  /\ pc[c] \in {"file", "upsert"} => todo[c] \subseteq Sections /\ todo[c] # {}
  /\ pc[c] = "upsert" => text[c] \in Texts
  /\ pc[c] \in {"file", "upsert", "commit", "relink", "link", "lcommit"} => op[c] = "index"
  /\ pc[c] \in {"embed", "vcommit"} => op[c] \in {"index", "reindex"}
  /\ pc[c] = "report" => op[c] = "reindex"
  /\ pc[c] \in {"change", "tryembed"} =>
       op[c] \in {"write", "append", "update"} /\ todo[c] \subseteq pend[c] /\ todo[c] # {}
  /\ pc[c] \in {"change", "tryembed"} /\ op[c] = "write" => \A p, q \in pend[c] : p = q
  /\ pc[c] = "ccommit" => op[c] \in {"write", "append", "update", "delete"}
  /\ op[c] = "delete" => pc[c] \in {"get", "select", "ccommit"}
  /\ \A p, q \in pend[c] : p[1] = q[1] => p = q

\* A row that a call is going to give a vector is there.
Present(c) ==
  \A i \in Held(c) : \/ There(work, i) \/ i \in disturbed
                     \/ op[c] = "delete" \/ (op[c] = "write" /\ pc[c] = "change")

\* The pairs whose content is in the open transaction.
Written(c) ==
  CASE pc[c] \in {"file", "upsert", "commit", "embed", "vcommit", "ccommit"} -> pend[c]
    [] pc[c] = "change"   -> pend[c] \ todo[c]
    [] pc[c] = "tryembed" -> (pend[c] \ todo[c]) \cup {NextPair(c)}
    [] OTHER -> {}

Kept(c) ==
  \A p \in Written(c) :
    \/ work.chunk[p[1]] = IF op[c] = "delete" THEN NoChunk ELSE p[2]
    \/ p[1] \in disturbed

\* The pairs whose embedding has been tried.
Tried(c) ==
  CASE pc[c] = "vcommit" -> Batch(c)
    [] pc[c] \in {"change", "tryembed"} -> pend[c] \ todo[c]
    [] pc[c] = "ccommit" -> pend[c]
    [] OTHER -> {}

\* A chunk of t has its vector, or it is known why not.
Fits(t, i, un, dis) == There(t, i) => t.vec[i] = t.chunk[i] \/ i \in un \cup dis

Agree(t, i) == Fits(t, i, unembedded, disturbed)

InHands == UNION {IdsOf(pend[c]) : c \in Calls}

\* The three properties of a table, given the histories and what calls work on.
Sound(t, sd, dis, un, ha) ==
  /\ \A i \in Ids : t.vec[i] # NoVector /\ ~There(t, i) => i \in dis
  /\ \A i \in Ids : sd[i] # Unsaid => t.chunk[i] = sd[i] \/ i \in dis
  /\ \A i \in Ids : Fits(t, i, un, dis) \/ i \in ha

TablesOK(t) == Sound(t, said, disturbed, unembedded, InHands)

TriedOK(c) == \A p \in Tried(c) : Agree(work, p[1])

CallOK(c) == Hands(c) /\ Present(c) /\ Kept(c) /\ TriedOK(c)

KnowledgeInv == TypeOK /\ TablesOK(db) /\ TablesOK(work) /\ \A c \in Calls : CallOK(c)


-----------------------------------------------------------------------------
(***************************************************************************)
(* Constants and tables                                                    *)
(***************************************************************************)

\* A content is none of the marks for what is not there.
LEMMA Apart ==
  ASSUME NEW x \in Contents
  PROVE  x # NoChunk /\ x # NoVector /\ x # Unsaid
BY KnowledgeConstants DEF Contents

\* t is made of these columns.
Tab(t, k, x, v, e) ==
  t \in Tables /\ t.key = k /\ t.chunk = x /\ t.vec = v /\ t.edges = e

Columns ==
  [key : [Ids -> Sections \cup {Note}], chunk : [Ids -> Contents \cup {NoChunk}],
   vec : [Ids -> Contents \cup {NoVector}], edges : SUBSET (Ids \X Ids)]

LEMMA Parts ==
  ASSUME NEW t \in Tables
  PROVE  /\ t.key \in [Ids -> Sections \cup {Note}]
         /\ t.chunk \in [Ids -> Contents \cup {NoChunk}]
         /\ t.vec \in [Ids -> Contents \cup {NoVector}]
         /\ t.edges \in SUBSET (Ids \X Ids)
BY DEF Tables

LEMMA SetChunk ==
  ASSUME NEW t \in Tables, NEW x \in [Ids -> Contents \cup {NoChunk}]
  PROVE  Tab([t EXCEPT !.chunk = x], t.key, x, t.vec, t.edges)
<1>1. t \in Columns
  BY DEF Tables, Columns
<1> DEFINE r == [t EXCEPT !.chunk = x]
<1>2. r.key = t.key /\ r.chunk = x /\ r.vec = t.vec /\ r.edges = t.edges
  BY <1>1 DEF Columns
<1>3. r \in Columns
  BY <1>1 DEF Columns
<1> QED
  BY <1>2, <1>3 DEF Tab, Tables, Columns

LEMMA SetVec ==
  ASSUME NEW t \in Tables, NEW v \in [Ids -> Contents \cup {NoVector}]
  PROVE  Tab([t EXCEPT !.vec = v], t.key, t.chunk, v, t.edges)
<1>1. t \in Columns
  BY DEF Tables, Columns
<1> DEFINE r == [t EXCEPT !.vec = v]
<1>2. r.key = t.key /\ r.chunk = t.chunk /\ r.vec = v /\ r.edges = t.edges
  BY <1>1 DEF Columns
<1>3. r \in Columns
  BY <1>1 DEF Columns
<1> QED
  BY <1>2, <1>3 DEF Tab, Tables, Columns

LEMMA SetEdges ==
  ASSUME NEW t \in Tables, NEW e \in SUBSET (Ids \X Ids)
  PROVE  Tab([t EXCEPT !.edges = e], t.key, t.chunk, t.vec, e)
<1>1. t \in Columns
  BY DEF Tables, Columns
<1> DEFINE r == [t EXCEPT !.edges = e]
<1>2. r.key = t.key /\ r.chunk = t.chunk /\ r.vec = t.vec /\ r.edges = e
  BY <1>1 DEF Columns
<1>3. r \in Columns
  BY <1>1 DEF Columns
<1> QED
  BY <1>2, <1>3 DEF Tab, Tables, Columns

LEMMA SetKeyChunk ==
  ASSUME NEW t \in Tables, NEW k \in [Ids -> Sections \cup {Note}],
         NEW x \in [Ids -> Contents \cup {NoChunk}]
  PROVE  Tab([t EXCEPT !.key = k, !.chunk = x], k, x, t.vec, t.edges)
<1>1. t \in Columns
  BY DEF Tables, Columns
<1> DEFINE r == [t EXCEPT !.key = k, !.chunk = x]
<1>2. r.key = k /\ r.chunk = x /\ r.vec = t.vec /\ r.edges = t.edges
  BY <1>1 DEF Columns
<1>3. r \in Columns
  BY <1>1 DEF Columns
<1> QED
  BY <1>2, <1>3 DEF Tab, Tables, Columns

LEMMA SetRest ==
  ASSUME NEW t \in Tables, NEW x \in [Ids -> Contents \cup {NoChunk}],
         NEW v \in [Ids -> Contents \cup {NoVector}], NEW e \in SUBSET (Ids \X Ids)
  PROVE  Tab([t EXCEPT !.chunk = x, !.vec = v, !.edges = e], t.key, x, v, e)
<1>1. t \in Columns
  BY DEF Tables, Columns
<1> DEFINE r == [t EXCEPT !.chunk = x, !.vec = v, !.edges = e]
<1>2. r.key = t.key /\ r.chunk = x /\ r.vec = v /\ r.edges = e
  BY <1>1 DEF Columns
<1>3. r \in Columns
  BY <1>1 DEF Columns
<1> QED
  BY <1>2, <1>3 DEF Tab, Tables, Columns

LEMMA UpsertTab ==
  ASSUME NEW t \in Tables, NEW i \in Ids, NEW s \in Sections, NEW y \in Contents
  PROVE  Tab([t EXCEPT !.key[i] = s, !.chunk[i] = y], [t.key EXCEPT ![i] = s],
             [t.chunk EXCEPT ![i] = y], t.vec, t.edges)
<1> DEFINE k == [t.key EXCEPT ![i] = s]
           x == [t.chunk EXCEPT ![i] = y]
<1>1. k \in [Ids -> Sections \cup {Note}] /\ x \in [Ids -> Contents \cup {NoChunk}]
  BY Parts
<1>2. t \in Columns
  BY DEF Tables, Columns
<1>3. [t EXCEPT !.key[i] = s, !.chunk[i] = y] = [t EXCEPT !.key = k, !.chunk = x]
  BY <1>2 DEF Columns
<1> HIDE DEF k, x
<1>4. Tab([t EXCEPT !.key = k, !.chunk = x], k, x, t.vec, t.edges)
  BY <1>1, SetKeyChunk
<1> QED
  BY <1>3, <1>4 DEF k, x

LEMMA ChunkTab ==
  ASSUME NEW t \in Tables, NEW i \in Ids, NEW y \in Contents
  PROVE  Tab([t EXCEPT !.chunk[i] = y], t.key, [t.chunk EXCEPT ![i] = y], t.vec, t.edges)
<1> DEFINE x == [t.chunk EXCEPT ![i] = y]
<1>1. x \in [Ids -> Contents \cup {NoChunk}]
  BY Parts
<1>2. [t EXCEPT !.chunk[i] = y] = [t EXCEPT !.chunk = x]
  BY Parts DEF Tables
<1> HIDE DEF x
<1>3. Tab([t EXCEPT !.chunk = x], t.key, x, t.vec, t.edges)
  BY <1>1, SetChunk
<1> QED
  BY <1>2, <1>3 DEF x

\* What a set of pairs says of an id.
Said(S, i) == (CHOOSE p \in S : p[1] = i)[2]

\* What a set of pairs says of one of its ids is one of its pairs.
LEMMA SaidIs ==
  ASSUME NEW S \in SUBSET Pairs, NEW i \in IdsOf(S)
  PROVE  Said(S, i) \in Contents /\ <<i, Said(S, i)>> \in S
<1>1. PICK p \in S : p[1] = i
  BY DEF IdsOf
<1> DEFINE q == CHOOSE x \in S : x[1] = i
<1>2. q \in S /\ q[1] = i
  BY <1>1
<1>3. q \in Ids \X Contents
  BY <1>2 DEF Pairs
<1> HIDE DEF q
<1>4. q = <<q[1], q[2]>> /\ q[2] \in Contents
  BY <1>3
<1> QED
  BY <1>2, <1>4 DEF Said, q

LEMMA VectorsTab ==
  ASSUME NEW t \in Tables, NEW S \in SUBSET Pairs
  PROVE  Tab(WithVectors(t, S), t.key, t.chunk,
             [i \in Ids |-> IF i \in IdsOf(S) THEN Said(S, i) ELSE t.vec[i]], t.edges)
<1> DEFINE v == [i \in Ids |-> IF i \in IdsOf(S) THEN Said(S, i) ELSE t.vec[i]]
<1>1. v \in [Ids -> Contents \cup {NoVector}]
  <2>1. \A i \in Ids : (IF i \in IdsOf(S) THEN Said(S, i) ELSE t.vec[i])
                          \in Contents \cup {NoVector}
    BY SaidIs, Parts
  <2> QED
    BY <2>1
<1>2. WithVectors(t, S) = [t EXCEPT !.vec = v]
  BY DEF WithVectors, Said, Tables
<1> HIDE DEF v
<1>3. Tab([t EXCEPT !.vec = v], t.key, t.chunk, v, t.edges)
  BY <1>1, SetVec
<1> QED
  BY <1>2, <1>3 DEF v

LEMMA WithoutTab ==
  ASSUME NEW t \in Tables, NEW S
  PROVE  Tab(Without(t, S), t.key,
             [i \in Ids |-> IF i \in S THEN NoChunk ELSE t.chunk[i]],
             [i \in Ids |-> IF i \in S THEN NoVector ELSE t.vec[i]],
             {e \in t.edges : e[1] \notin S /\ e[2] \notin S})
<1> DEFINE x == [i \in Ids |-> IF i \in S THEN NoChunk ELSE t.chunk[i]]
           v == [i \in Ids |-> IF i \in S THEN NoVector ELSE t.vec[i]]
           e == {f \in t.edges : f[1] \notin S /\ f[2] \notin S}
<1>1. /\ x \in [Ids -> Contents \cup {NoChunk}]
      /\ v \in [Ids -> Contents \cup {NoVector}] /\ e \in SUBSET (Ids \X Ids)
  BY Parts
<1>2. Without(t, S) = [t EXCEPT !.chunk = x, !.vec = v, !.edges = e]
  BY DEF Without, Tables
<1> HIDE DEF x, v, e
<1>3. Tab([t EXCEPT !.chunk = x, !.vec = v, !.edges = e], t.key, x, v, e)
  BY <1>1, SetRest
<1> QED
  BY <1>2, <1>3 DEF x, v, e


-----------------------------------------------------------------------------
(***************************************************************************)
(* What a step works on                                                    *)
(***************************************************************************)

AllHands == \A c \in Calls : Hands(c)

UpsertId(c) == IF id[c] # NoId THEN id[c] ELSE CHOOSE j \in Ids : j \notin used

Refused(c) == id[c] = NoId /\ Matching(NextSection(c)) # {}

\* There is nothing to write: the row was refused, or is gone.
Skips(c) == Refused(c) \/ (id[c] # NoId /\ ~There(work, id[c]))

\* The section, pair, batch and row a step works on.
LEMMA NextSectionIs ==
  ASSUME TypeOK, AllHands, NEW c \in Calls, pc[c] \in {"file", "upsert"}
  PROVE  NextSection(c) \in todo[c] /\ NextSection(c) \in Sections
BY DEF AllHands, Hands, NextSection

LEMMA NextPairIs ==
  ASSUME TypeOK, AllHands, NEW c \in Calls, pc[c] \in {"change", "tryembed"}
  PROVE  /\ NextPair(c) \in todo[c] /\ NextPair(c) \in pend[c]
         /\ NextPair(c)[1] \in Ids /\ NextPair(c)[2] \in Contents
         /\ {NextPair(c)} \in SUBSET Pairs
<1>1. NextPair(c) \in todo[c] /\ NextPair(c) \in pend[c]
  BY DEF AllHands, Hands, NextPair
<1>2. NextPair(c) \in Ids \X Contents
  BY <1>1 DEF TypeOK, Pairs
<1> QED
  BY <1>1, <1>2 DEF Pairs

LEMMA BatchIs ==
  ASSUME TypeOK, NEW c \in Calls
  PROVE  Batch(c) \subseteq pend[c]
BY DEF Batch

LEMMA UpsertIdIs ==
  ASSUME TypeOK, NEW c \in Calls, Upsert(c)
  PROVE  UpsertId(c) \in Ids
BY DEF TypeOK, Upsert, UpsertId

LEMMA PairIs ==
  ASSUME TypeOK, NEW c \in Calls, NEW p \in pend[c]
  PROVE  p[1] \in Ids /\ p[2] \in Contents /\ p[1] \in IdsOf(pend[c]) /\ p = <<p[1], p[2]>>
<1>1. p \in Ids \X Contents
  BY DEF TypeOK, Pairs
<1> QED
  BY <1>1 DEF IdsOf

LEMMA HeldIs ==
  ASSUME TypeOK, NEW c \in Calls
  PROVE  Held(c) \subseteq Ids
<1>1. IdsOf(pend[c]) \subseteq Ids
  BY PairIs DEF IdsOf
<1> QED
  BY <1>1 DEF Held, TypeOK

-----------------------------------------------------------------------------
(***************************************************************************)
(* What the steps that write do to the tables                              *)
(***************************************************************************)

LEMMA UpsertDoes ==
  ASSUME TypeOK, AllHands, NEW c \in Calls, Upsert(c), ~Skips(c)
  PROVE  Tab(work', [work.key EXCEPT ![UpsertId(c)] = NextSection(c)],
             [work.chunk EXCEPT ![UpsertId(c)] = {text[c]}], work.vec, work.edges)
<1> DEFINE i == UpsertId(c)
           s == NextSection(c)
<1>1. i \in Ids /\ s \in Sections
  BY UpsertIdIs, NextSectionIs DEF Upsert
<1>2. {text[c]} \in Contents
  BY DEF Upsert, AllHands, Hands, Contents
<1>3. work' = [work EXCEPT !.key[i] = s, !.chunk[i] = {text[c]}]
  BY DEF Upsert, Execute, Skips, Refused, UpsertId
<1>4. work \in Tables
  BY DEF TypeOK
<1> HIDE DEF i, s
<1>5. Tab([work EXCEPT !.key[i] = s, !.chunk[i] = {text[c]}], [work.key EXCEPT ![i] = s],
          [work.chunk EXCEPT ![i] = {text[c]}], work.vec, work.edges)
  BY <1>1, <1>2, <1>4, UpsertTab
<1> QED
  BY <1>3, <1>5 DEF i, s

LEMMA UpsertSkips ==
  ASSUME NEW c \in Calls, Upsert(c), Skips(c)
  PROVE  work' = work
BY DEF Upsert, Execute, Skips, Refused

LEMMA ChangeDoes ==
  ASSUME TypeOK, AllHands, NEW c \in Calls, Change(c),
         op[c] = "write" \/ There(work, NextPair(c)[1])
  PROVE  Tab(work', work.key, [work.chunk EXCEPT ![NextPair(c)[1]] = NextPair(c)[2]],
             work.vec, work.edges)
<1>1. NextPair(c)[1] \in Ids /\ NextPair(c)[2] \in Contents
  BY NextPairIs DEF Change
<1>2. work' = [work EXCEPT !.chunk[NextPair(c)[1]] = NextPair(c)[2]] /\ work \in Tables
  BY DEF Change, Execute, TypeOK
<1> QED
  BY <1>1, <1>2, ChunkTab

VecOf(S) == [i \in Ids |-> IF i \in IdsOf(S) THEN Said(S, i) ELSE work.vec[i]]

LEMMA VectorsDo ==
  ASSUME TypeOK, NEW S \in SUBSET Pairs, Execute(WithVectors(work, S))
  PROVE  Tab(work', work.key, work.chunk, VecOf(S), work.edges)
BY VectorsTab DEF Execute, TypeOK, VecOf

LEMMA DeleteDoes ==
  ASSUME TypeOK, NEW c \in Calls, Delete(c)
  PROVE  LET S == Matching(key[c])
         IN Tab(work', work.key,
                [i \in Ids |-> IF i \in S THEN NoChunk ELSE work.chunk[i]],
                [i \in Ids |-> IF i \in S THEN NoVector ELSE work.vec[i]],
                {e \in work.edges : e[1] \notin S /\ e[2] \notin S})
BY WithoutTab DEF Delete, Execute, TypeOK

LEMMA EdgesDo ==
  ASSUME TypeOK, NEW e \in SUBSET (Ids \X Ids), work' = [work EXCEPT !.edges = @ \cup e]
  PROVE  Tab(work', work.key, work.chunk, work.vec, work.edges \cup e)
<1>1. work \in Tables
  BY DEF TypeOK
<1>2. work.edges \cup e \in SUBSET (Ids \X Ids)
  BY <1>1, Parts
<1>3. work' = [work EXCEPT !.edges = work.edges \cup e]
  BY <1>1 DEF Tables
<1> QED
  BY <1>1, <1>2, <1>3, SetEdges


-----------------------------------------------------------------------------
(***************************************************************************)
(* Types                                                                   *)
(***************************************************************************)

TablesTyped == db \in Tables /\ work \in Tables /\ intx \in BOOLEAN /\ (~intx => work = db)

\* The tables keep their types, and without a transaction the connection sees what is
\* committed.
LEMMA TablesTypeStep ==
  ASSUME TypeOK, AllHands, [Next]_vars
  PROVE  TablesTyped'
<1>1. ASSUME NEW c \in Calls, GetConnection(c) PROVE TablesTyped'
  BY <1>1 DEF GetConnection, TablesTyped, TypeOK, Rollback
<1>2. ASSUME NEW c \in Calls, ReadSection(c) PROVE TablesTyped'
  BY <1>2 DEF ReadSection, TablesTyped, TypeOK, store
<1>3. ASSUME NEW c \in Calls, ChunkingFails(c) PROVE TablesTyped'
  BY <1>3 DEF ChunkingFails, TablesTyped, TypeOK, store
<1>4. ASSUME NEW c \in Calls, Upsert(c) PROVE TablesTyped'
  BY <1>4, UpsertDoes, UpsertSkips DEF Upsert, TablesTyped, TypeOK, Tab, Execute
<1>5. ASSUME NEW c \in Calls, CommitChunks(c) PROVE TablesTyped'
  BY <1>5 DEF CommitChunks, TablesTyped, TypeOK, Commit
<1>6. ASSUME NEW c \in Calls, SelectMissing(c) PROVE TablesTyped'
  BY <1>6 DEF SelectMissing, TablesTyped, TypeOK, store
<1>7. ASSUME NEW c \in Calls, StoreVectors(c) PROVE TablesTyped'
  <2>1. PICK ok \in SUBSET Batch(c) :
                IF ok = {} THEN UNCHANGED store ELSE Execute(WithVectors(work, ok))
    BY <1>7 DEF StoreVectors
  <2>2. ok \in SUBSET Pairs
    BY <2>1, BatchIs DEF TypeOK
  <2>3. CASE ok = {}
    BY <2>1, <2>3 DEF TablesTyped, TypeOK, store
  <2>4. CASE ok # {}
    BY <2>1, <2>2, <2>4, VectorsDo DEF TablesTyped, TypeOK, Tab, Execute
  <2> QED
    BY <2>3, <2>4
<1>8. ASSUME NEW c \in Calls, CommitVectors(c) PROVE TablesTyped'
  BY <1>8 DEF CommitVectors, TablesTyped, TypeOK, Commit
<1>9. ASSUME NEW c \in Calls, ReportVectors(c) PROVE TablesTyped'
  BY <1>9 DEF ReportVectors, TablesTyped, TypeOK, store
<1>10. ASSUME NEW c \in Calls, ClientRaises(c) PROVE TablesTyped'
  BY <1>10 DEF ClientRaises, TablesTyped, TypeOK, store
<1>11. ASSUME NEW c \in Calls, ReadLinks(c) PROVE TablesTyped'
  BY <1>11 DEF ReadLinks, TablesTyped, TypeOK, store
<1>12. ASSUME NEW c \in Calls, InsertLinks(c) PROVE TablesTyped'
  <2>1. CASE links[c] = {}
    BY <1>12, <2>1 DEF InsertLinks, TablesTyped, TypeOK, store
  <2>2. CASE links[c] # {}
    <3>1. links[c] \in SUBSET (Ids \X Ids)
      BY DEF TypeOK
    <3>2. Execute([work EXCEPT !.edges = @ \cup links[c]])
      BY <1>12, <2>2 DEF InsertLinks
    <3> QED
      BY <3>1, <3>2, EdgesDo DEF TablesTyped, TypeOK, Tab, Execute
  <2> QED
    BY <2>1, <2>2
<1>13. ASSUME NEW c \in Calls, LinkRaises(c) PROVE TablesTyped'
  <2>1. PICK before \in SUBSET (links[c] \ Dangling(c)) :
                Execute([work EXCEPT !.edges = @ \cup before])
    BY <1>13 DEF LinkRaises
  <2>2. before \in SUBSET (Ids \X Ids)
    BY <2>1 DEF TypeOK
  <2> QED
    BY <2>1, <2>2, EdgesDo DEF TablesTyped, TypeOK, Tab, Execute
<1>14. ASSUME NEW c \in Calls, CommitLinks(c) PROVE TablesTyped'
  BY <1>14 DEF CommitLinks, TablesTyped, TypeOK, Commit
<1>15. ASSUME NEW c \in Calls, Declines(c) PROVE TablesTyped'
  BY <1>15 DEF Declines, TablesTyped, TypeOK, store
<1>16. ASSUME NEW c \in Calls, SelectRows(c) PROVE TablesTyped'
  BY <1>16 DEF SelectRows, TablesTyped, TypeOK, store
<1>17. ASSUME NEW c \in Calls, Change(c) PROVE TablesTyped'
  <2>1. Execute(IF op[c] = "write" \/ There(work, NextPair(c)[1])
                  THEN [work EXCEPT !.chunk[NextPair(c)[1]] = NextPair(c)[2]] ELSE work)
    BY <1>17 DEF Change
  <2> QED
    BY <1>17, <2>1, ChangeDoes DEF TablesTyped, TypeOK, Tab, Execute
<1>18. ASSUME NEW c \in Calls, TryEmbed(c) PROVE TablesTyped'
  <2>1. {NextPair(c)} \in SUBSET Pairs
    BY <1>18, NextPairIs DEF TryEmbed
  <2>2. Execute(WithVectors(work, {NextPair(c)})) \/ UNCHANGED store
    BY <1>18 DEF TryEmbed
  <2> QED
    BY <2>1, <2>2, VectorsDo DEF TablesTyped, TypeOK, Tab, Execute, store
<1>19. ASSUME NEW c \in Calls, Delete(c) PROVE TablesTyped'
  BY <1>19, DeleteDoes DEF Delete, TablesTyped, TypeOK, Tab, Execute
<1>20. ASSUME NEW c \in Calls, CommitChange(c) PROVE TablesTyped'
  BY <1>20 DEF CommitChange, TablesTyped, TypeOK, Commit
<1>21. ASSUME NEW c \in Calls, CountHits(c) PROVE TablesTyped'
  BY <1>21 DEF CountHits, TablesTyped, TypeOK, Execute, store
<1>22. ASSUME NEW c \in Calls, CommitHits(c) PROVE TablesTyped'
  BY <1>22 DEF CommitHits, TablesTyped, TypeOK, Commit
<1>23. ASSUME NEW c \in Calls, NEW o \in Ops \ {"none"}, NEW k \in Sections \cup {Note},
             NEW m \in {"skip", "update"}, Arrive(c, o, k, m) PROVE TablesTyped'
  BY <1>23 DEF Arrive, TablesTyped, TypeOK, Rollback, Commit, Execute, store
<1>24. ASSUME Edit PROVE TablesTyped'
  BY <1>24 DEF Edit, TablesTyped, TypeOK, store
<1>25. ASSUME Crash PROVE TablesTyped'
  BY <1>25 DEF Crash, TablesTyped, TypeOK, Rollback
<1>26. ASSUME UNCHANGED vars PROVE TablesTyped'
  BY <1>26 DEF TablesTyped, TypeOK, vars, store
<1> QED
  BY <1>1, <1>2, <1>3, <1>4, <1>5, <1>6, <1>7, <1>8, <1>9, <1>10, <1>11, <1>12, <1>13,
     <1>14, <1>15, <1>16, <1>17, <1>18, <1>19, <1>20, <1>21, <1>22, <1>23, <1>24, <1>25,
     <1>26 DEF Next, CallStep


ArgsTyped ==
  /\ op \in [Calls -> Ops]
  /\ pc \in [Calls -> Active \cup {"new", "over"}]
  /\ mode \in [Calls -> {"skip", "update"}]
  /\ key \in [Calls -> Sections \cup {Note}]

\* What the calls are and where they are.
LEMMA ArgsTypeStep ==
  ASSUME TypeOK, [Next]_vars
  PROVE  ArgsTyped'
<1>1. ASSUME NEW c \in Calls, GetConnection(c) PROVE ArgsTyped'
  BY <1>1 DEF GetConnection, ArgsTyped, TypeOK, Ops, Active, Go, End, args
<1>2. ASSUME NEW c \in Calls, ReadSection(c) PROVE ArgsTyped'
  BY <1>2 DEF ReadSection, ArgsTyped, TypeOK, Ops, Active, Go, SectionDone, args
<1>3. ASSUME NEW c \in Calls, ChunkingFails(c) PROVE ArgsTyped'
  BY <1>3 DEF ChunkingFails, ArgsTyped, TypeOK, Ops, Active, Go, SectionDone, args
<1>4. ASSUME NEW c \in Calls, Upsert(c) PROVE ArgsTyped'
  BY <1>4 DEF Upsert, ArgsTyped, TypeOK, Ops, Active, Go, SectionDone, args
<1>5. ASSUME NEW c \in Calls, CommitChunks(c) PROVE ArgsTyped'
  BY <1>5 DEF CommitChunks, ArgsTyped, TypeOK, Ops, Active, Go, args
<1>6. ASSUME NEW c \in Calls, SelectMissing(c) PROVE ArgsTyped'
  BY <1>6 DEF SelectMissing, ArgsTyped, TypeOK, Ops, Active, Go, End, args
<1>7. ASSUME NEW c \in Calls, StoreVectors(c) PROVE ArgsTyped'
  BY <1>7 DEF StoreVectors, ArgsTyped, TypeOK, Ops, Active, Go, args
<1>8. ASSUME NEW c \in Calls, CommitVectors(c) PROVE ArgsTyped'
  BY <1>8 DEF CommitVectors, ArgsTyped, TypeOK, Ops, Active, Go, args
<1>9. ASSUME NEW c \in Calls, ReportVectors(c) PROVE ArgsTyped'
  BY <1>9 DEF ReportVectors, ArgsTyped, TypeOK, Ops, Active, Go, End
<1>10. ASSUME NEW c \in Calls, ClientRaises(c) PROVE ArgsTyped'
  BY <1>10 DEF ClientRaises, ArgsTyped, TypeOK, Ops, Active, Go, End
<1>11. ASSUME NEW c \in Calls, ReadLinks(c) PROVE ArgsTyped'
  BY <1>11 DEF ReadLinks, ArgsTyped, TypeOK, Ops, Active, Go, args
<1>12. ASSUME NEW c \in Calls, InsertLinks(c) PROVE ArgsTyped'
  BY <1>12 DEF InsertLinks, ArgsTyped, TypeOK, Ops, Active, Go, args
<1>13. ASSUME NEW c \in Calls, LinkRaises(c) PROVE ArgsTyped'
  BY <1>13 DEF LinkRaises, ArgsTyped, TypeOK, Ops, Active, Go, End
<1>14. ASSUME NEW c \in Calls, CommitLinks(c) PROVE ArgsTyped'
  BY <1>14 DEF CommitLinks, ArgsTyped, TypeOK, Ops, Active, Go, End
<1>15. ASSUME NEW c \in Calls, Declines(c) PROVE ArgsTyped'
  BY <1>15 DEF Declines, ArgsTyped, TypeOK, Ops, Active, Go, End
<1>16. ASSUME NEW c \in Calls, SelectRows(c) PROVE ArgsTyped'
  BY <1>16 DEF SelectRows, ArgsTyped, TypeOK, Ops, Active, Go, args
<1>17. ASSUME NEW c \in Calls, Change(c) PROVE ArgsTyped'
  BY <1>17 DEF Change, ArgsTyped, TypeOK, Ops, Active, Go, args
<1>18. ASSUME NEW c \in Calls, TryEmbed(c) PROVE ArgsTyped'
  BY <1>18 DEF TryEmbed, ArgsTyped, TypeOK, Ops, Active, Go, args
<1>19. ASSUME NEW c \in Calls, Delete(c) PROVE ArgsTyped'
  BY <1>19 DEF Delete, ArgsTyped, TypeOK, Ops, Active, Go, args
<1>20. ASSUME NEW c \in Calls, CommitChange(c) PROVE ArgsTyped'
  BY <1>20 DEF CommitChange, ArgsTyped, TypeOK, Ops, Active, Go, End
<1>21. ASSUME NEW c \in Calls, CountHits(c) PROVE ArgsTyped'
  BY <1>21 DEF CountHits, ArgsTyped, TypeOK, Ops, Active, Go, End, args
<1>22. ASSUME NEW c \in Calls, CommitHits(c) PROVE ArgsTyped'
  BY <1>22 DEF CommitHits, ArgsTyped, TypeOK, Ops, Active, Go, End
<1>23. ASSUME NEW c \in Calls, NEW o \in Ops \ {"none"}, NEW k \in Sections \cup {Note},
             NEW m \in {"skip", "update"}, Arrive(c, o, k, m) PROVE ArgsTyped'
  BY <1>23 DEF Arrive, ArgsTyped, TypeOK, Ops, Active, Go, End, SectionDone, args
<1>24. ASSUME Edit PROVE ArgsTyped'
  BY <1>24 DEF Edit, ArgsTyped, TypeOK, Ops, Active, args
<1>25. ASSUME Crash PROVE ArgsTyped'
  BY <1>25 DEF Crash, ArgsTyped, TypeOK, Ops, Active
<1>26. ASSUME UNCHANGED vars PROVE ArgsTyped'
  BY <1>26 DEF ArgsTyped, TypeOK, vars, args
<1> QED
  BY <1>1, <1>2, <1>3, <1>4, <1>5, <1>6, <1>7, <1>8, <1>9, <1>10, <1>11, <1>12, <1>13,
     <1>14, <1>15, <1>16, <1>17, <1>18, <1>19, <1>20, <1>21, <1>22, <1>23, <1>24, <1>25,
     <1>26 DEF Next, CallStep


LocalsTyped ==
  /\ id \in [Calls -> Ids \cup {NoId}]
  /\ text \in [Calls -> Texts \cup {NoText}]
  /\ err \in [Calls -> BOOLEAN]

LEMMA MatchingIs == \A k : Matching(k) \subseteq Ids
BY DEF Matching

\* What a call has at hand.
LEMMA LocalsTypeStep ==
  ASSUME TypeOK, AllHands, [Next]_vars
  PROVE  LocalsTyped'
<1>1. ASSUME NEW c \in Calls, GetConnection(c) PROVE LocalsTyped'
  BY <1>1 DEF GetConnection, LocalsTyped, TypeOK, End
<1>2. ASSUME NEW c \in Calls, ReadSection(c) PROVE LocalsTyped'
  <2>1. NextSection(c) \in Sections
    BY <1>2, NextSectionIs DEF ReadSection
  <2>2. disk[NextSection(c)] \in Texts \cup {NoText}
    BY <2>1 DEF TypeOK
  <2> DEFINE found == Matching(NextSection(c))
             i == IF found = {} THEN NoId ELSE CHOOSE j \in found : TRUE
  <2>3. i \in Ids \cup {NoId}
    BY MatchingIs
  <2>4. /\ id' = id \/ id' = [id EXCEPT ![c] = i]
        /\ text' = text \/ text' = [text EXCEPT ![c] = disk[NextSection(c)]]
        /\ err' = err
    BY <1>2 DEF ReadSection
  <2> HIDE DEF i
  <2> QED
    BY <2>2, <2>3, <2>4 DEF LocalsTyped, TypeOK
<1>3. ASSUME NEW c \in Calls, ChunkingFails(c) PROVE LocalsTyped'
  BY <1>3 DEF ChunkingFails, LocalsTyped, TypeOK
<1>4. ASSUME NEW c \in Calls, Upsert(c) PROVE LocalsTyped'
  BY <1>4 DEF Upsert, LocalsTyped, TypeOK
<1>5. ASSUME NEW c \in Calls, CommitChunks(c) PROVE LocalsTyped'
  BY <1>5 DEF CommitChunks, LocalsTyped, TypeOK, locals
<1>6. ASSUME NEW c \in Calls, SelectMissing(c) PROVE LocalsTyped'
  BY <1>6 DEF SelectMissing, LocalsTyped, TypeOK, End
<1>7. ASSUME NEW c \in Calls, StoreVectors(c) PROVE LocalsTyped'
  BY <1>7 DEF StoreVectors, LocalsTyped, TypeOK
<1>8. ASSUME NEW c \in Calls, CommitVectors(c) PROVE LocalsTyped'
  BY <1>8 DEF CommitVectors, LocalsTyped, TypeOK
<1>9. ASSUME NEW c \in Calls, ReportVectors(c) PROVE LocalsTyped'
  BY <1>9 DEF ReportVectors, LocalsTyped, TypeOK, End
<1>10. ASSUME NEW c \in Calls, ClientRaises(c) PROVE LocalsTyped'
  BY <1>10 DEF ClientRaises, LocalsTyped, TypeOK, End
<1>11. ASSUME NEW c \in Calls, ReadLinks(c) PROVE LocalsTyped'
  BY <1>11 DEF ReadLinks, LocalsTyped, TypeOK
<1>12. ASSUME NEW c \in Calls, InsertLinks(c) PROVE LocalsTyped'
  BY <1>12 DEF InsertLinks, LocalsTyped, TypeOK, locals
<1>13. ASSUME NEW c \in Calls, LinkRaises(c) PROVE LocalsTyped'
  BY <1>13 DEF LinkRaises, LocalsTyped, TypeOK, End
<1>14. ASSUME NEW c \in Calls, CommitLinks(c) PROVE LocalsTyped'
  BY <1>14 DEF CommitLinks, LocalsTyped, TypeOK, End
<1>15. ASSUME NEW c \in Calls, Declines(c) PROVE LocalsTyped'
  BY <1>15 DEF Declines, LocalsTyped, TypeOK, End
<1>16. ASSUME NEW c \in Calls, SelectRows(c) PROVE LocalsTyped'
  BY <1>16 DEF SelectRows, LocalsTyped, TypeOK
<1>17. ASSUME NEW c \in Calls, Change(c) PROVE LocalsTyped'
  BY <1>17 DEF Change, LocalsTyped, TypeOK, locals
<1>18. ASSUME NEW c \in Calls, TryEmbed(c) PROVE LocalsTyped'
  BY <1>18 DEF TryEmbed, LocalsTyped, TypeOK
<1>19. ASSUME NEW c \in Calls, Delete(c) PROVE LocalsTyped'
  BY <1>19 DEF Delete, LocalsTyped, TypeOK
<1>20. ASSUME NEW c \in Calls, CommitChange(c) PROVE LocalsTyped'
  BY <1>20 DEF CommitChange, LocalsTyped, TypeOK, End
<1>21. ASSUME NEW c \in Calls, CountHits(c) PROVE LocalsTyped'
  BY <1>21 DEF CountHits, LocalsTyped, TypeOK, End, locals
<1>22. ASSUME NEW c \in Calls, CommitHits(c) PROVE LocalsTyped'
  BY <1>22 DEF CommitHits, LocalsTyped, TypeOK, End
<1>23. ASSUME NEW c \in Calls, NEW o \in Ops \ {"none"}, NEW k \in Sections \cup {Note},
             NEW m \in {"skip", "update"}, Arrive(c, o, k, m) PROVE LocalsTyped'
  BY <1>23 DEF Arrive, LocalsTyped, TypeOK, End, locals
<1>24. ASSUME Edit PROVE LocalsTyped'
  BY <1>24 DEF Edit, LocalsTyped, TypeOK, locals
<1>25. ASSUME Crash PROVE LocalsTyped'
  BY <1>25 DEF Crash, LocalsTyped, TypeOK
<1>26. ASSUME UNCHANGED vars PROVE LocalsTyped'
  BY <1>26 DEF LocalsTyped, TypeOK, vars, locals
<1> QED
  BY <1>1, <1>2, <1>3, <1>4, <1>5, <1>6, <1>7, <1>8, <1>9, <1>10, <1>11, <1>12, <1>13,
     <1>14, <1>15, <1>16, <1>17, <1>18, <1>19, <1>20, <1>21, <1>22, <1>23, <1>24, <1>25,
     <1>26 DEF Next, CallStep


SetsTyped ==
  /\ todo \in [Calls -> (SUBSET Sections) \cup (SUBSET Pairs)]
  /\ pend \in [Calls -> SUBSET Pairs]
  /\ missing \in [Calls -> SUBSET Ids]
  /\ links \in [Calls -> SUBSET (Ids \X Ids)]

Todos == (SUBSET Sections) \cup (SUBSET Pairs)

LEMMA TodosAre ==
  ASSUME NEW S, S \in SUBSET Sections \/ S \in SUBSET Pairs
  PROVE  S \in Todos
BY Zenon DEF Todos

LEMMA TodoSet ==
  ASSUME TypeOK, NEW c \in Calls, NEW S \in Todos
  PROVE  [todo EXCEPT ![c] = S] \in [Calls -> (SUBSET Sections) \cup (SUBSET Pairs)]
<1>1. todo \in [Calls -> Todos]
  BY DEF TypeOK, Todos
<1>2. [todo EXCEPT ![c] = S] \in [Calls -> Todos]
  BY <1>1
<1> QED
  BY <1>2 DEF Todos

LEMMA TodoTyped ==
  ASSUME TypeOK, NEW c \in Calls, NEW x
  PROVE  /\ todo[c] \ {x} \in (SUBSET Sections) \cup (SUBSET Pairs)
         /\ [todo EXCEPT ![c] = @ \ {x}]
              \in [Calls -> (SUBSET Sections) \cup (SUBSET Pairs)]
BY DEF TypeOK

\* The pairs SelectRows() may choose.
LEMMA RowsAre ==
  ASSUME TypeOK, NEW c \in Calls, SelectRows(c)
  PROVE  \E S \in SUBSET Pairs :
           /\ pend' = [pend EXCEPT ![c] = S]
           /\ todo' = [todo EXCEPT ![c] = S]
           /\ used' = used \cup IdsOf(S)
           /\ S # {}
           /\ \A p, q \in S : p[1] = q[1] => p = q
           /\ op[c] = "write" => \A p, q \in S : p = q
           /\ op[c] \in {"append", "update"} => IdsOf(S) \subseteq Matching(key[c])
<1>1. {c} \in Contents
  BY DEF Contents
<1>2. \A i \in Matching(key[c]) : work.chunk[i] \in Contents
  BY Parts DEF TypeOK, Matching, There
<1>3. Matching(key[c]) \subseteq Ids
  BY DEF Matching
<1>4. CASE op[c] = "write"
  <2> DEFINE i == CHOOSE j \in Ids : j \notin used
             S == {<<i, {c}>>}
  <2>1. i \in Ids
    BY <1>4 DEF SelectRows, TypeOK
  <2>2. /\ pend' = [pend EXCEPT ![c] = S] /\ todo' = [todo EXCEPT ![c] = S]
        /\ used' = used \cup IdsOf(S)
    BY <1>4 DEF SelectRows
  <2> HIDE DEF i
  <2>3. S \in SUBSET Pairs /\ S # {} /\ \A p, q \in S : p = q
    BY <2>1, <1>1 DEF Pairs
  <2> QED
    BY <1>4, <2>2, <2>3
<1>5. CASE op[c] = "append"
  <2>1. PICK i \in Matching(key[c]) :
          LET S == {<<i, work.chunk[i] \cup {c}>>}
          IN /\ pend' = [pend EXCEPT ![c] = S] /\ todo' = [todo EXCEPT ![c] = S]
             /\ used' = used \cup IdsOf(S)
    BY <1>5, ZenonT(60) DEF SelectRows
  <2>2. work.chunk[i] \cup {c} \in Contents
    BY <1>2 DEF Contents
  <2> DEFINE S == {<<i, work.chunk[i] \cup {c}>>}
  <2>3. S \in SUBSET Pairs /\ S # {} /\ \A p, q \in S : p[1] = q[1] => p = q
    BY <1>3, <2>2 DEF Pairs
  <2>4. IdsOf(S) \subseteq Matching(key[c])
    BY DEF IdsOf
  <2> QED
    BY <2>1, <2>3, <2>4
<1>6. CASE op[c] = "update"
  <2> DEFINE S == Matching(key[c]) \X {{c}}
  <2>1. /\ pend' = [pend EXCEPT ![c] = S] /\ todo' = [todo EXCEPT ![c] = S]
        /\ used' = used \cup IdsOf(S)
    BY <1>6 DEF SelectRows
  <2>2. S \in SUBSET Pairs
    BY <1>1, <1>3 DEF Pairs
  <2>3. S # {}
    <3>1. PICK i \in Matching(key[c]) : TRUE
      BY <1>6 DEF SelectRows
    <3>2. <<i, {c}>> \in S
      BY <3>1
    <3> QED
      BY <3>2
  <2>4. \A p, q \in S : p[1] = q[1] => p = q
    OBVIOUS
  <2>5. IdsOf(S) \subseteq Matching(key[c])
    BY DEF IdsOf
  <2> QED
    BY <1>6, <2>1, <2>2, <2>3, <2>4, <2>5
<1> QED
  BY <1>4, <1>5, <1>6 DEF SelectRows

\* What a call has still to do, has changed and has found.
LEMMA SetsTypeStep ==
  ASSUME TypeOK, AllHands, [Next]_vars
  PROVE  SetsTyped'
<1>1. ASSUME NEW c \in Calls, GetConnection(c) PROVE SetsTyped'
  <2> DEFINE S == IF op[c] = "index" THEN Sections ELSE {}
  <2>1. S \in Todos /\ {} \in Todos
    BY TodosAre
  <2>2. End(c) \/ (todo' = [todo EXCEPT ![c] = S] /\ UNCHANGED <<pend, missing, links>>)
    BY <1>1 DEF GetConnection
  <2> HIDE DEF S
  <2>3. todo' \in [Calls -> (SUBSET Sections) \cup (SUBSET Pairs)]
    BY <2>1, <2>2, TodoSet DEF End
  <2>4. /\ pend' \in [Calls -> SUBSET Pairs] /\ missing' \in [Calls -> SUBSET Ids]
        /\ links' \in [Calls -> SUBSET (Ids \X Ids)]
    BY <2>2 DEF TypeOK, End
  <2> QED
    BY <2>3, <2>4 DEF SetsTyped
<1>2. ASSUME NEW c \in Calls, ReadSection(c) PROVE SetsTyped'
  <2>1. /\ todo' = [todo EXCEPT ![c] = @ \ {NextSection(c)}] \/ todo' = todo
        /\ UNCHANGED <<pend, missing, links>>
    BY <1>2 DEF ReadSection, SectionDone
  <2> QED
    BY <2>1, TodoTyped DEF SetsTyped, TypeOK
<1>3. ASSUME NEW c \in Calls, ChunkingFails(c) PROVE SetsTyped'
  BY <1>3, TodoTyped DEF ChunkingFails, SetsTyped, TypeOK, SectionDone
<1>4. ASSUME NEW c \in Calls, Upsert(c) PROVE SetsTyped'
  <2>1. UpsertId(c) \in Ids /\ text[c] \in Texts
    BY <1>4, UpsertIdIs DEF Upsert, AllHands, Hands
  <2>2. <<UpsertId(c), {text[c]}>> \in Pairs
    BY <2>1 DEF Pairs, Contents
  <2>3. \/ pend' = pend
        \/ pend' = [pend EXCEPT ![c] = {p \in @ : p[1] # UpsertId(c)}
                                         \cup {<<UpsertId(c), {text[c]}>>}]
    BY <1>4 DEF Upsert, UpsertId
  <2>4. /\ todo' = [todo EXCEPT ![c] = @ \ {NextSection(c)}]
        /\ UNCHANGED <<missing, links>>
    BY <1>4 DEF Upsert, SectionDone
  <2> DEFINE S == {p \in pend[c] : p[1] # UpsertId(c)} \cup {<<UpsertId(c), {text[c]}>>}
  <2>5. S \in SUBSET Pairs
    BY <2>2 DEF TypeOK
  <2>6. pend' = pend \/ pend' = [pend EXCEPT ![c] = S]
    BY <2>3
  <2> HIDE DEF S
  <2>7. pend' \in [Calls -> SUBSET Pairs]
    BY <2>5, <2>6 DEF TypeOK
  <2> QED
    BY <2>4, <2>7, TodoTyped DEF SetsTyped, TypeOK
<1>5. ASSUME NEW c \in Calls, CommitChunks(c) PROVE SetsTyped'
  BY <1>5 DEF CommitChunks, SetsTyped, TypeOK, locals
<1>6. ASSUME NEW c \in Calls, SelectMissing(c) PROVE SetsTyped'
  <2> DEFINE S == {<<i, work.chunk[i]>> : i \in Bare}
  <2>1. S \in SUBSET Pairs /\ Bare \in SUBSET Ids
    BY Parts DEF TypeOK, There, Pairs, Bare
  <2>2. \/ /\ UNCHANGED <<todo, links>> /\ missing' = [missing EXCEPT ![c] = Bare]
           /\ pend' = [pend EXCEPT ![c] = S]
        \/ End(c)
    BY <1>6 DEF SelectMissing
  <2> HIDE DEF S
  <2> QED
    BY <2>1, <2>2 DEF SetsTyped, TypeOK, End
<1>7. ASSUME NEW c \in Calls, StoreVectors(c) PROVE SetsTyped'
  BY <1>7 DEF StoreVectors, SetsTyped, TypeOK
<1>8. ASSUME NEW c \in Calls, CommitVectors(c) PROVE SetsTyped'
  BY <1>8 DEF CommitVectors, SetsTyped, TypeOK
<1>9. ASSUME NEW c \in Calls, ReportVectors(c) PROVE SetsTyped'
  BY <1>9 DEF ReportVectors, SetsTyped, TypeOK, End
<1>10. ASSUME NEW c \in Calls, ClientRaises(c) PROVE SetsTyped'
  BY <1>10 DEF ClientRaises, SetsTyped, TypeOK, End
<1>11. ASSUME NEW c \in Calls, ReadLinks(c) PROVE SetsTyped'
  <2>1. Edges(work) \in SUBSET (Ids \X Ids)
    BY DEF Edges
  <2> QED
    BY <1>11, <2>1 DEF ReadLinks, SetsTyped, TypeOK
<1>12. ASSUME NEW c \in Calls, InsertLinks(c) PROVE SetsTyped'
  BY <1>12 DEF InsertLinks, SetsTyped, TypeOK, locals
<1>13. ASSUME NEW c \in Calls, LinkRaises(c) PROVE SetsTyped'
  BY <1>13 DEF LinkRaises, SetsTyped, TypeOK, End
<1>14. ASSUME NEW c \in Calls, CommitLinks(c) PROVE SetsTyped'
  BY <1>14 DEF CommitLinks, SetsTyped, TypeOK, End
<1>15. ASSUME NEW c \in Calls, Declines(c) PROVE SetsTyped'
  BY <1>15 DEF Declines, SetsTyped, TypeOK, End
<1>16. ASSUME NEW c \in Calls, SelectRows(c) PROVE SetsTyped'
  <2>1. UNCHANGED <<missing, links>>
    BY <1>16 DEF SelectRows
  <2>2. PICK S \in SUBSET Pairs :
          /\ pend' = [pend EXCEPT ![c] = S]
          /\ todo' = [todo EXCEPT ![c] = S]
    BY <1>16, RowsAre
  <2>3. S \in Todos
    BY TodosAre
  <2> QED
    BY <2>1, <2>2, <2>3, TodoSet DEF SetsTyped, TypeOK
<1>17. ASSUME NEW c \in Calls, Change(c) PROVE SetsTyped'
  BY <1>17, TodoTyped DEF Change, SetsTyped, TypeOK, locals
<1>18. ASSUME NEW c \in Calls, TryEmbed(c) PROVE SetsTyped'
  <2>1. todo' = [todo EXCEPT ![c] = @ \ {NextPair(c)}] /\ UNCHANGED <<pend, missing, links>>
    BY <1>18 DEF TryEmbed
  <2> QED
    BY <2>1, TodoTyped DEF SetsTyped, TypeOK
<1>19. ASSUME NEW c \in Calls, Delete(c) PROVE SetsTyped'
  <2> DEFINE S == Matching(key[c]) \X {{}}
  <2>1. S \in SUBSET Pairs
    BY MatchingIs DEF Pairs, Contents
  <2>2. pend' = [pend EXCEPT ![c] = S] /\ UNCHANGED <<todo, missing, links>>
    BY <1>19 DEF Delete
  <2> QED
    BY <2>1, <2>2 DEF SetsTyped, TypeOK
<1>20. ASSUME NEW c \in Calls, CommitChange(c) PROVE SetsTyped'
  BY <1>20 DEF CommitChange, SetsTyped, TypeOK, End
<1>21. ASSUME NEW c \in Calls, CountHits(c) PROVE SetsTyped'
  BY <1>21 DEF CountHits, SetsTyped, TypeOK, End, locals
<1>22. ASSUME NEW c \in Calls, CommitHits(c) PROVE SetsTyped'
  BY <1>22 DEF CommitHits, SetsTyped, TypeOK, End
<1>23. ASSUME NEW c \in Calls, NEW o \in Ops \ {"none"}, NEW k \in Sections \cup {Note},
             NEW m \in {"skip", "update"}, Arrive(c, o, k, m) PROVE SetsTyped'
  BY <1>23, TodoTyped DEF Arrive, SetsTyped, TypeOK, End, SectionDone, locals
<1>24. ASSUME Edit PROVE SetsTyped'
  BY <1>24 DEF Edit, SetsTyped, TypeOK, locals
<1>25. ASSUME Crash PROVE SetsTyped'
  BY <1>25 DEF Crash, SetsTyped, TypeOK
<1>26. ASSUME UNCHANGED vars PROVE SetsTyped'
  BY <1>26 DEF SetsTyped, TypeOK, vars, locals
<1> QED
  BY <1>1, <1>2, <1>3, <1>4, <1>5, <1>6, <1>7, <1>8, <1>9, <1>10, <1>11, <1>12, <1>13,
     <1>14, <1>15, <1>16, <1>17, <1>18, <1>19, <1>20, <1>21, <1>22, <1>23, <1>24, <1>25,
     <1>26 DEF Next, CallStep


HistoryTyped ==
  /\ disk \in [Sections -> Texts \cup {NoText}]
  /\ used \subseteq Ids
  /\ edits \in 0..MaxEdits /\ crashes \in 0..MaxCrashes
  /\ said \in [Ids -> Contents \cup {NoChunk, Unsaid}]
  /\ raced \in BOOLEAN
  /\ disturbed \subseteq Ids /\ unembedded \subseteq Ids

LEMMA BegunTyped ==
  ASSUME TypeOK, NEW S, Begun(S)
  PROVE  said' \in [Ids -> Contents \cup {NoChunk, Unsaid}]
BY DEF TypeOK, Begun

LEMMA IdsOfPairs == \A S \in SUBSET Pairs : IdsOf(S) \subseteq Ids
<1> SUFFICES ASSUME NEW S \in SUBSET Pairs, NEW p \in S
             PROVE  p[1] \in Ids
  BY DEF IdsOf
<1>1. p \in Ids \X Contents
  BY DEF Pairs
<1> QED
  BY <1>1

\* The files, the ids in use and the histories.
LEMMA HistoryTypeStep ==
  ASSUME TypeOK, AllHands, [Next]_vars
  PROVE  HistoryTyped'
<1>1. ASSUME NEW c \in Calls, GetConnection(c) PROVE HistoryTyped'
  BY <1>1 DEF GetConnection, Disturb, Changed, HistoryTyped, TypeOK
<1>2. ASSUME NEW c \in Calls, ReadSection(c) PROVE HistoryTyped'
  BY <1>2 DEF ReadSection, HistoryTyped, TypeOK, history
<1>3. ASSUME NEW c \in Calls, ChunkingFails(c) PROVE HistoryTyped'
  BY <1>3 DEF ChunkingFails, HistoryTyped, TypeOK, history
<1>4. ASSUME NEW c \in Calls, Upsert(c) PROVE HistoryTyped'
  <2>1. UpsertId(c) \in Ids
    BY <1>4, UpsertIdIs
  <2>2. used' = used \cup {UpsertId(c)} /\ disturbed' \subseteq disturbed \cup {UpsertId(c)}
    BY <1>4 DEF Upsert, UpsertId, Disturb
  <2>3. said' \in [Ids -> Contents \cup {NoChunk, Unsaid}]
    BY <1>4, BegunTyped DEF Upsert
  <2>4. UNCHANGED <<disk, edits, crashes, raced, unembedded>>
    BY <1>4 DEF Upsert
  <2> QED
    BY <2>1, <2>2, <2>3, <2>4 DEF HistoryTyped, TypeOK
<1>5. ASSUME NEW c \in Calls, CommitChunks(c) PROVE HistoryTyped'
  <2>1. \A i \in IdsOf(pend[c]) : Said(pend[c], i) \in Contents
    BY SaidIs DEF TypeOK
  <2>2. said' \in [Ids -> Contents \cup {NoChunk, Unsaid}]
    BY <1>5, <2>1 DEF CommitChunks, TypeOK, Said
  <2> QED
    BY <1>5, <2>2 DEF CommitChunks, HistoryTyped, TypeOK
<1>6. ASSUME NEW c \in Calls, SelectMissing(c) PROVE HistoryTyped'
  BY <1>6 DEF SelectMissing, HistoryTyped, TypeOK, history
<1>7. ASSUME NEW c \in Calls, StoreVectors(c) PROVE HistoryTyped'
  <2>1. unembedded' \subseteq unembedded \cup IdsOf(pend[c])
    BY <1>7, BatchIs DEF StoreVectors, IdsOf
  <2>2. IdsOf(pend[c]) \subseteq Ids
    BY IdsOfPairs DEF TypeOK
  <2> QED
    BY <1>7, <2>1, <2>2 DEF StoreVectors, HistoryTyped, TypeOK
<1>8. ASSUME NEW c \in Calls, CommitVectors(c) PROVE HistoryTyped'
  BY <1>8 DEF CommitVectors, HistoryTyped, TypeOK, history
<1>9. ASSUME NEW c \in Calls, ReportVectors(c) PROVE HistoryTyped'
  BY <1>9 DEF ReportVectors, HistoryTyped, TypeOK, history
<1>10. ASSUME NEW c \in Calls, ClientRaises(c) PROVE HistoryTyped'
  <2>1. IdsOf(pend[c]) \subseteq Ids
    BY IdsOfPairs DEF TypeOK
  <2> QED
    BY <1>10, <2>1 DEF ClientRaises, HistoryTyped, TypeOK
<1>11. ASSUME NEW c \in Calls, ReadLinks(c) PROVE HistoryTyped'
  BY <1>11 DEF ReadLinks, HistoryTyped, TypeOK, history
<1>12. ASSUME NEW c \in Calls, InsertLinks(c) PROVE HistoryTyped'
  BY <1>12 DEF InsertLinks, HistoryTyped, TypeOK, history
<1>13. ASSUME NEW c \in Calls, LinkRaises(c) PROVE HistoryTyped'
  BY <1>13 DEF LinkRaises, HistoryTyped, TypeOK, history
<1>14. ASSUME NEW c \in Calls, CommitLinks(c) PROVE HistoryTyped'
  BY <1>14 DEF CommitLinks, HistoryTyped, TypeOK, history
<1>15. ASSUME NEW c \in Calls, Declines(c) PROVE HistoryTyped'
  BY <1>15 DEF Declines, HistoryTyped, TypeOK, history
<1>16. ASSUME NEW c \in Calls, SelectRows(c) PROVE HistoryTyped'
  <2>1. PICK S \in SUBSET Pairs : used' = used \cup IdsOf(S)
    BY <1>16, RowsAre
  <2>2. UNCHANGED <<disk, edits, crashes, history>>
    BY <1>16 DEF SelectRows
  <2> QED
    BY <2>1, <2>2, IdsOfPairs DEF HistoryTyped, TypeOK, history
<1>17. ASSUME NEW c \in Calls, Change(c) PROVE HistoryTyped'
  <2>1. NextPair(c)[1] \in Ids
    BY <1>17, NextPairIs DEF Change
  <2>2. said' \in [Ids -> Contents \cup {NoChunk, Unsaid}]
    BY <1>17, BegunTyped DEF Change
  <2> QED
    BY <1>17, <2>1, <2>2 DEF Change, Disturb, HistoryTyped, TypeOK
<1>18. ASSUME NEW c \in Calls, TryEmbed(c) PROVE HistoryTyped'
  <2>1. NextPair(c)[1] \in Ids
    BY <1>18, NextPairIs DEF TryEmbed
  <2> QED
    BY <1>18, <2>1 DEF TryEmbed, HistoryTyped, TypeOK
<1>19. ASSUME NEW c \in Calls, Delete(c) PROVE HistoryTyped'
  <2>1. said' \in [Ids -> Contents \cup {NoChunk, Unsaid}]
    BY <1>19, BegunTyped DEF Delete
  <2> QED
    BY <1>19, <2>1, MatchingIs DEF Delete, Disturb, HistoryTyped, TypeOK
<1>20. ASSUME NEW c \in Calls, CommitChange(c) PROVE HistoryTyped'
  <2>1. \A i \in IdsOf(pend[c]) : Said(pend[c], i) \in Contents
    BY SaidIs DEF TypeOK
  <2>2. said' \in [Ids -> Contents \cup {NoChunk, Unsaid}]
    BY <1>20, <2>1 DEF CommitChange, TypeOK, Said
  <2> QED
    BY <1>20, <2>2 DEF CommitChange, HistoryTyped, TypeOK
<1>21. ASSUME NEW c \in Calls, CountHits(c) PROVE HistoryTyped'
  BY <1>21 DEF CountHits, HistoryTyped, TypeOK, history
<1>22. ASSUME NEW c \in Calls, CommitHits(c) PROVE HistoryTyped'
  BY <1>22 DEF CommitHits, HistoryTyped, TypeOK, history
<1>23. ASSUME NEW c \in Calls, NEW o \in Ops \ {"none"}, NEW k \in Sections \cup {Note},
             NEW m \in {"skip", "update"}, Arrive(c, o, k, m) PROVE HistoryTyped'
  BY <1>23 DEF Arrive, HistoryTyped, TypeOK, history
<1>24. ASSUME Edit PROVE HistoryTyped'
  BY <1>24, KnowledgeConstants DEF Edit, HistoryTyped, TypeOK, history
<1>25. ASSUME Crash PROVE HistoryTyped'
  <2>1. \A c \in Calls : IdsOf(pend[c]) \subseteq Ids
    BY IdsOfPairs DEF TypeOK
  <2>2. unembedded' \subseteq Ids
    BY <1>25, <2>1 DEF Crash, TypeOK
  <2> QED
    BY <1>25, <2>2, KnowledgeConstants DEF Crash, HistoryTyped, TypeOK
<1>26. ASSUME UNCHANGED vars PROVE HistoryTyped'
  BY <1>26 DEF HistoryTyped, TypeOK, vars, history
<1> QED
  BY <1>1, <1>2, <1>3, <1>4, <1>5, <1>6, <1>7, <1>8, <1>9, <1>10, <1>11, <1>12, <1>13,
     <1>14, <1>15, <1>16, <1>17, <1>18, <1>19, <1>20, <1>21, <1>22, <1>23, <1>24, <1>25,
     <1>26 DEF Next, CallStep


LEMMA TypeStep ==
  ASSUME TypeOK, AllHands, [Next]_vars
  PROVE  TypeOK'
<1>1. TablesTyped' /\ ArgsTyped' /\ LocalsTyped' /\ SetsTyped' /\ HistoryTyped'
  BY TablesTypeStep, ArgsTypeStep, LocalsTypeStep, SetsTypeStep, HistoryTypeStep
<1> QED
  BY <1>1 DEF TypeOK, TablesTyped, ArgsTyped, LocalsTyped, SetsTyped, HistoryTyped

-----------------------------------------------------------------------------
(***************************************************************************)
(* A step of one call and the other calls                                  *)
(***************************************************************************)

SameCall(d) ==
  /\ pc'[d] = pc[d] /\ op'[d] = op[d] /\ todo'[d] = todo[d] /\ id'[d] = id[d]
  /\ text'[d] = text[d] /\ pend'[d] = pend[d]

\* A step of a call changes nothing of where the others are and what they hold.
LEMMA OthersSame ==
  ASSUME TypeOK, NEW c \in Calls, CallStep(c)
  PROVE  \A d \in Calls \ {c} : SameCall(d)
<1>1. ASSUME GetConnection(c) PROVE \A d \in Calls \ {c} : SameCall(d)
  BY <1>1 DEF GetConnection, SameCall, TypeOK, Go, End, args
<1>2. ASSUME ReadSection(c) PROVE \A d \in Calls \ {c} : SameCall(d)
  BY <1>2 DEF ReadSection, SameCall, TypeOK, Go, SectionDone, args
<1>3. ASSUME ChunkingFails(c) PROVE \A d \in Calls \ {c} : SameCall(d)
  BY <1>3 DEF ChunkingFails, SameCall, TypeOK, Go, SectionDone, args
<1>4. ASSUME Upsert(c) PROVE \A d \in Calls \ {c} : SameCall(d)
  BY <1>4 DEF Upsert, SameCall, TypeOK, Go, SectionDone, args
<1>5. ASSUME CommitChunks(c) PROVE \A d \in Calls \ {c} : SameCall(d)
  BY <1>5 DEF CommitChunks, SameCall, TypeOK, Go, args, locals
<1>6. ASSUME SelectMissing(c) PROVE \A d \in Calls \ {c} : SameCall(d)
  BY <1>6 DEF SelectMissing, SameCall, TypeOK, Go, End, args
<1>7. ASSUME StoreVectors(c) PROVE \A d \in Calls \ {c} : SameCall(d)
  BY <1>7 DEF StoreVectors, SameCall, TypeOK, Go, args
<1>8. ASSUME CommitVectors(c) PROVE \A d \in Calls \ {c} : SameCall(d)
  BY <1>8 DEF CommitVectors, SameCall, TypeOK, Go, args
<1>9. ASSUME ReportVectors(c) PROVE \A d \in Calls \ {c} : SameCall(d)
  BY <1>9 DEF ReportVectors, SameCall, TypeOK, Go, End
<1>10. ASSUME ClientRaises(c) PROVE \A d \in Calls \ {c} : SameCall(d)
  BY <1>10 DEF ClientRaises, SameCall, TypeOK, Go, End
<1>11. ASSUME ReadLinks(c) PROVE \A d \in Calls \ {c} : SameCall(d)
  BY <1>11 DEF ReadLinks, SameCall, TypeOK, Go, args
<1>12. ASSUME InsertLinks(c) PROVE \A d \in Calls \ {c} : SameCall(d)
  BY <1>12 DEF InsertLinks, SameCall, TypeOK, Go, args, locals
<1>13. ASSUME LinkRaises(c) PROVE \A d \in Calls \ {c} : SameCall(d)
  BY <1>13 DEF LinkRaises, SameCall, TypeOK, Go, End
<1>14. ASSUME CommitLinks(c) PROVE \A d \in Calls \ {c} : SameCall(d)
  BY <1>14 DEF CommitLinks, SameCall, TypeOK, Go, End
<1>15. ASSUME Declines(c) PROVE \A d \in Calls \ {c} : SameCall(d)
  BY <1>15 DEF Declines, SameCall, TypeOK, Go, End
<1>16. ASSUME SelectRows(c) PROVE \A d \in Calls \ {c} : SameCall(d)
  BY <1>16 DEF SelectRows, SameCall, TypeOK, Go, args
<1>17. ASSUME Change(c) PROVE \A d \in Calls \ {c} : SameCall(d)
  BY <1>17 DEF Change, SameCall, TypeOK, Go, args, locals
<1>18. ASSUME TryEmbed(c) PROVE \A d \in Calls \ {c} : SameCall(d)
  BY <1>18 DEF TryEmbed, SameCall, TypeOK, Go, args
<1>19. ASSUME Delete(c) PROVE \A d \in Calls \ {c} : SameCall(d)
  BY <1>19 DEF Delete, SameCall, TypeOK, Go, args
<1>20. ASSUME CommitChange(c) PROVE \A d \in Calls \ {c} : SameCall(d)
  BY <1>20 DEF CommitChange, SameCall, TypeOK, Go, End
<1>21. ASSUME CountHits(c) PROVE \A d \in Calls \ {c} : SameCall(d)
  BY <1>21 DEF CountHits, SameCall, TypeOK, Go, End, args, locals
<1>22. ASSUME CommitHits(c) PROVE \A d \in Calls \ {c} : SameCall(d)
  BY <1>22 DEF CommitHits, SameCall, TypeOK, Go, End
<1> QED
  BY <1>1, <1>2, <1>3, <1>4, <1>5, <1>6, <1>7, <1>8, <1>9, <1>10, <1>11, <1>12, <1>13,
     <1>14, <1>15, <1>16, <1>17, <1>18, <1>19, <1>20, <1>21, <1>22 DEF CallStep


LEMMA SameHands ==
  ASSUME NEW d \in Calls, SameCall(d)
  PROVE  /\ Hands(d) => Hands(d)'
         /\ Held(d)' = Held(d) /\ Written(d)' = Written(d) /\ Tried(d)' = Tried(d)
         /\ IdsOf(pend'[d]) = IdsOf(pend[d])
BY DEF SameCall, Hands, Held, Written, Tried, NextPair, Batch


\* After a section there is another, or the commit.
LEMMA SectionDoneIs ==
  ASSUME TypeOK, AllHands, NEW c \in Calls, pc[c] \in {"file", "upsert"}, SectionDone(c)
  PROVE  /\ \/ pc'[c] = "commit"
            \/ pc'[c] = "file" /\ todo'[c] \subseteq Sections /\ todo'[c] # {}
         /\ op[c] = "index"
BY DEF TypeOK, AllHands, Hands, SectionDone, Go

\* A step of a call leaves in its hands what belongs where it comes to.
LEMMA HandsOwn ==
  ASSUME TypeOK, AllHands, NEW c \in Calls, CallStep(c)
  PROVE  Hands(c)'
<1>1. ASSUME GetConnection(c) PROVE Hands(c)'
  BY <1>1, KnowledgeConstants DEF GetConnection, Hands, AllHands, Waiting, Go, End,
     TypeOK, args
<1>2. ASSUME ReadSection(c) PROVE Hands(c)'
  <2> DEFINE s == NextSection(c)
  <2>1. pc[c] = "file" /\ pend' = pend /\ op' = op
    BY <1>2 DEF ReadSection, args
  <2>2. s \in Sections /\ disk[s] \in Texts \cup {NoText} /\ todo[c] \subseteq Sections
    BY <2>1, NextSectionIs DEF TypeOK, AllHands, Hands
  <2>3. CASE SectionDone(c) /\ UNCHANGED <<id, text>>
    BY <2>1, <2>3, SectionDoneIs DEF Hands, AllHands, Waiting
  <2>4. CASE /\ disk[s] # NoText /\ text' = [text EXCEPT ![c] = disk[s]]
             /\ Go(c, "upsert") /\ UNCHANGED todo
    BY <2>1, <2>2, <2>4 DEF Hands, AllHands, Waiting, Go, TypeOK
  <2> QED
    BY <1>2, <2>3, <2>4 DEF ReadSection
<1>3. ASSUME ChunkingFails(c) PROVE Hands(c)'
  BY <1>3 DEF ChunkingFails, Hands, AllHands, Waiting, Go, SectionDone, TypeOK, args
<1>4. ASSUME Upsert(c) PROVE Hands(c)'
  <2>1. pc[c] = "upsert" /\ SectionDone(c) /\ id' = [id EXCEPT ![c] = NoId] /\ op' = op
    BY <1>4 DEF Upsert, args
  <2>2. \/ pend' = pend
        \/ pend' = [pend EXCEPT ![c] = {p \in @ : p[1] # UpsertId(c)}
                                         \cup {<<UpsertId(c), {text[c]}>>}]
    BY <1>4 DEF Upsert, UpsertId
  <2>3. \A p, q \in pend'[c] : p[1] = q[1] => p = q
    <3> DEFINE x == <<UpsertId(c), {text[c]}>>
    <3>1. x[1] = UpsertId(c)
      OBVIOUS
    <3>2. pend'[c] = pend[c] \/ pend'[c] = {p \in pend[c] : p[1] # UpsertId(c)} \cup {x}
      BY <2>2 DEF TypeOK
    <3>3. \A p, q \in pend[c] : p[1] = q[1] => p = q
      BY DEF AllHands, Hands
    <3> HIDE DEF x
    <3> QED
      BY <3>1, <3>2, <3>3
  <2>4. id'[c] = NoId
    BY <2>1 DEF TypeOK
  <2> QED
    BY <2>1, <2>3, <2>4, SectionDoneIs DEF Hands, Waiting
<1>5. ASSUME CommitChunks(c) PROVE Hands(c)'
  BY <1>5 DEF CommitChunks, Hands, AllHands, Waiting, Go, TypeOK, args, locals
<1>6. ASSUME SelectMissing(c) PROVE Hands(c)'
  BY <1>6 DEF SelectMissing, Hands, AllHands, Waiting, Go, End, TypeOK, args
<1>7. ASSUME StoreVectors(c) PROVE Hands(c)'
  BY <1>7 DEF StoreVectors, Hands, AllHands, Waiting, Go, TypeOK, args
<1>8. ASSUME CommitVectors(c) PROVE Hands(c)'
  BY <1>8 DEF CommitVectors, Hands, AllHands, Waiting, Go, TypeOK, args
<1>9. ASSUME ReportVectors(c) PROVE Hands(c)'
  BY <1>9 DEF ReportVectors, Hands, AllHands, Waiting, Go, End, TypeOK
<1>10. ASSUME ClientRaises(c) PROVE Hands(c)'
  BY <1>10 DEF ClientRaises, Hands, AllHands, Waiting, Go, End, TypeOK
<1>11. ASSUME ReadLinks(c) PROVE Hands(c)'
  BY <1>11 DEF ReadLinks, Hands, AllHands, Waiting, Go, TypeOK, args
<1>12. ASSUME InsertLinks(c) PROVE Hands(c)'
  BY <1>12 DEF InsertLinks, Hands, AllHands, Waiting, Go, TypeOK, args, locals
<1>13. ASSUME LinkRaises(c) PROVE Hands(c)'
  BY <1>13 DEF LinkRaises, Hands, AllHands, Waiting, Go, End, TypeOK
<1>14. ASSUME CommitLinks(c) PROVE Hands(c)'
  BY <1>14 DEF CommitLinks, Hands, AllHands, Waiting, Go, End, TypeOK
<1>15. ASSUME Declines(c) PROVE Hands(c)'
  BY <1>15 DEF Declines, Hands, AllHands, Waiting, Go, End, TypeOK
<1>16. ASSUME SelectRows(c) PROVE Hands(c)'
  <2>1. PICK S \in SUBSET Pairs :
          /\ pend' = [pend EXCEPT ![c] = S]
          /\ todo' = [todo EXCEPT ![c] = S]
          /\ S # {}
          /\ \A p, q \in S : p[1] = q[1] => p = q
          /\ op[c] = "write" => \A p, q \in S : p = q
    BY <1>16, RowsAre
  <2>2. pend'[c] = S /\ todo'[c] = S
    BY <2>1 DEF TypeOK
  <2>3. /\ pc'[c] = "change" /\ op'[c] \in {"write", "append", "update"}
        /\ op'[c] = op[c] /\ id'[c] = id[c]
    BY <1>16 DEF SelectRows, Go, TypeOK, args
  <2>4. id[c] = NoId
    BY <1>16 DEF SelectRows, AllHands, Hands
  <2>5. /\ \A p, q \in pend'[c] : p[1] = q[1] => p = q
        /\ op'[c] = "write" => \A p, q \in pend'[c] : p = q
        /\ todo'[c] \subseteq pend'[c] /\ todo'[c] # {}
    BY <2>1, <2>2, <2>3
  <2> QED
    BY <2>3, <2>4, <2>5 DEF Hands, Waiting
<1>17. ASSUME Change(c) PROVE Hands(c)'
  BY <1>17 DEF Change, Hands, AllHands, Waiting, Go, TypeOK, args, locals
<1>18. ASSUME TryEmbed(c) PROVE Hands(c)'
  BY <1>18 DEF TryEmbed, Hands, AllHands, Waiting, Go, TypeOK, args
<1>19. ASSUME Delete(c) PROVE Hands(c)'
  <2>1. /\ pend'[c] = Matching(key[c]) \X {{}} /\ pc'[c] = "ccommit"
        /\ op'[c] = "delete" /\ id'[c] = id[c]
    BY <1>19 DEF Delete, Go, TypeOK, args
  <2>2. id[c] = NoId
    BY <1>19 DEF Delete, AllHands, Hands
  <2>3. \A p, q \in pend'[c] : p[1] = q[1] => p = q
    BY <2>1
  <2> QED
    BY <2>1, <2>2, <2>3 DEF Hands, Waiting
<1>20. ASSUME CommitChange(c) PROVE Hands(c)'
  BY <1>20 DEF CommitChange, Hands, AllHands, Waiting, Go, End, TypeOK
<1>21. ASSUME CountHits(c) PROVE Hands(c)'
  BY <1>21 DEF CountHits, Hands, AllHands, Waiting, Go, End, TypeOK, args, locals
<1>22. ASSUME CommitHits(c) PROVE Hands(c)'
  BY <1>22 DEF CommitHits, Hands, AllHands, Waiting, Go, End, TypeOK
<1> QED
  BY <1>1, <1>2, <1>3, <1>4, <1>5, <1>6, <1>7, <1>8, <1>9, <1>10, <1>11, <1>12, <1>13,
     <1>14, <1>15, <1>16, <1>17, <1>18, <1>19, <1>20, <1>21, <1>22 DEF CallStep


Arrives(c) ==
  \E o \in Ops \ {"none"}, k \in Sections \cup {Note}, m \in {"skip", "update"} :
    Arrive(c, o, k, m)

LEMMA ArriveSame ==
  ASSUME TypeOK, NEW c \in Calls, Arrives(c)
  PROVE  /\ \A d \in Calls \ {c} : SameCall(d)
         /\ pend' = pend /\ id' = id /\ pc[c] = "new" /\ pc'[c] = "get"
         /\ UNCHANGED <<store, used, said, disturbed, unembedded>>
BY DEF Arrives, Arrive, SameCall, TypeOK, Go, locals

\* Nothing of the calls and of the tables changes.
LEMMA QuietSame ==
  ASSUME TypeOK, Edit \/ UNCHANGED vars
  PROVE  /\ \A d \in Calls : SameCall(d)
         /\ UNCHANGED <<store, pend, id, used, said, disturbed, unembedded>>
BY DEF Edit, SameCall, vars, args, locals, history

LEMMA CrashDoes ==
  ASSUME TypeOK, Crash
  PROVE  /\ db' = db /\ work' = db /\ UNCHANGED <<used, said, disturbed>>
         /\ unembedded' = unembedded \cup UNION {IdsOf(pend[c]) : c \in Calls}
         /\ \A d \in Calls : /\ pend'[d] = {} /\ id'[d] = NoId /\ todo'[d] = {}
                             /\ pc'[d] \in {"new", "over"} /\ op'[d] = "none"
BY DEF Crash, TypeOK, Rollback, Active

LEMMA NextSteps ==
  ASSUME [Next]_vars
  PROVE  \/ \E c \in Calls : CallStep(c) \/ Arrives(c)
         \/ Edit \/ UNCHANGED vars \/ Crash
BY DEF Next, Arrives

LEMMA HandsStep ==
  ASSUME TypeOK, AllHands, [Next]_vars
  PROVE  AllHands'
<1>1. ASSUME NEW c \in Calls, CallStep(c) PROVE AllHands'
  BY <1>1, HandsOwn, OthersSame, SameHands DEF AllHands
<1>2. ASSUME NEW c \in Calls, Arrives(c) PROVE AllHands'
  <2>1. pend[c] = {} /\ id[c] = NoId
    BY <1>2, ArriveSame DEF AllHands, Hands, Waiting
  <2>2. Hands(c)'
    BY <1>2, <2>1, ArriveSame DEF Hands, Waiting
  <2> QED
    BY <1>2, <2>2, ArriveSame, SameHands DEF AllHands
<1>3. ASSUME Edit \/ UNCHANGED vars PROVE AllHands'
  BY <1>3, QuietSame, SameHands DEF AllHands
<1>4. ASSUME Crash PROVE AllHands'
  BY <1>4, CrashDoes DEF AllHands, Hands, Waiting
<1> QED
  BY <1>1, <1>2, <1>3, <1>4, NextSteps

-----------------------------------------------------------------------------
(***************************************************************************)
(* What calls have in their hands                                          *)
(***************************************************************************)

\* A table stays sound when no reason is taken away from it.
LEMMA SoundKeeps ==
  ASSUME NEW t, NEW sd, NEW dis, NEW un, NEW ha, NEW sd2, NEW dis2, NEW un2, NEW ha2,
         Sound(t, sd, dis, un, ha), dis \subseteq dis2,
         \A i \in Ids : \/ sd2[i] = sd[i] \/ sd2[i] = Unsaid
                        \/ t.chunk[i] = sd2[i] \/ i \in dis2,
         un \subseteq un2 \cup ha2,
         \A i \in ha : i \in ha2 \/ Fits(t, i, un2, dis2)
  PROVE  Sound(t, sd2, dis2, un2, ha2)
BY DEF Sound, Fits

LEMMA InHandsIs == \A i : i \in InHands <=> \E c \in Calls : i \in IdsOf(pend[c])
BY DEF InHands

LEMMA InHandsStep ==
  ASSUME TypeOK, NEW c \in Calls, CallStep(c)
  PROVE  /\ IdsOf(pend'[c]) \subseteq InHands'
         /\ InHands \subseteq InHands' \cup IdsOf(pend[c])
         /\ IdsOf(pend[c]) \subseteq IdsOf(pend'[c]) => InHands \subseteq InHands'
<1>1. \A d \in Calls \ {c} : pend'[d] = pend[d]
  BY OthersSame DEF SameCall
<1>2. \A d \in Calls : IdsOf(pend'[d]) \subseteq InHands'
  BY DEF InHands
<1>3. IdsOf(pend'[c]) \subseteq InHands' /\ InHands \subseteq InHands' \cup IdsOf(pend[c])
  BY <1>1, <1>2, InHandsIs
<1> QED
  BY <1>2, <1>3

\* Reasons stay, but for the chunks in the hands of the call.
Reasons(c) ==
  /\ disturbed \subseteq disturbed'
  /\ unembedded \subseteq unembedded' \cup IdsOf(pend'[c])
  /\ \/ \A i \in Ids : said'[i] \in {said[i], Unsaid}
     \/ pc[c] \in {"commit", "ccommit"}
  /\ \/ IdsOf(pend[c]) \subseteq IdsOf(pend'[c])
     \/ pc[c] \in {"embed", "vcommit", "ccommit"}

\* No step of a call takes a reason away from chunks in no one's hands.
LEMMA ReasonsStay ==
  ASSUME TypeOK, AllHands, NEW c \in Calls, CallStep(c)
  PROVE  Reasons(c)
<1>0. IdsOf({}) = {}
  BY DEF IdsOf
<1>1. ASSUME GetConnection(c) PROVE Reasons(c)
  BY <1>1, <1>0 DEF GetConnection, Disturb, Reasons, TypeOK, AllHands, Hands, Waiting, End
<1>2. ASSUME ReadSection(c) PROVE Reasons(c)
  BY <1>2, <1>0 DEF ReadSection, Reasons, TypeOK, AllHands, Hands, Waiting, history, IdsOf
<1>3. ASSUME ChunkingFails(c) PROVE Reasons(c)
  BY <1>3, <1>0 DEF ChunkingFails, Reasons, TypeOK, AllHands, Hands, Waiting, history, IdsOf
<1>4. ASSUME Upsert(c) PROVE Reasons(c)
  <2>1. IdsOf(pend[c]) \subseteq IdsOf(pend'[c])
    <3> DEFINE x == <<UpsertId(c), {text[c]}>>
    <3>1. pend'[c] = pend[c] \/ pend'[c] = {p \in pend[c] : p[1] # UpsertId(c)} \cup {x}
      BY <1>4 DEF Upsert, UpsertId, TypeOK
    <3>2. x[1] = UpsertId(c)
      OBVIOUS
    <3> HIDE DEF x
    <3> QED
      BY <3>1, <3>2 DEF IdsOf
  <2> QED
    BY <1>4, <2>1 DEF Upsert, Reasons, Disturb, Begun
<1>5. ASSUME CommitChunks(c) PROVE Reasons(c)
  BY <1>5 DEF CommitChunks, Reasons, locals
<1>6. ASSUME SelectMissing(c) PROVE Reasons(c)
  BY <1>6, <1>0 DEF SelectMissing, Reasons, TypeOK, AllHands, Hands, Waiting, history,
     End, IdsOf
<1>7. ASSUME StoreVectors(c) PROVE Reasons(c)
  <2>1. PICK ok \in SUBSET Batch(c) :
                unembedded' = (unembedded \cup IdsOf(Batch(c))) \ IdsOf(ok)
    BY <1>7 DEF StoreVectors
  <2>2. IdsOf(ok) \subseteq IdsOf(pend[c])
    BY BatchIs DEF IdsOf
  <2>3. UNCHANGED <<pend, said, disturbed>>
    BY <1>7 DEF StoreVectors
  <2> QED
    BY <2>1, <2>2, <2>3 DEF Reasons
<1>8. ASSUME CommitVectors(c) PROVE Reasons(c)
  BY <1>8, <1>0 DEF CommitVectors, Reasons, TypeOK, AllHands, Hands, Waiting, history,
     End, IdsOf
<1>9. ASSUME ReportVectors(c) PROVE Reasons(c)
  BY <1>9, <1>0 DEF ReportVectors, Reasons, TypeOK, AllHands, Hands, Waiting, history, End,
     IdsOf
<1>10. ASSUME ClientRaises(c) PROVE Reasons(c)
  BY <1>10, <1>0 DEF ClientRaises, Reasons, TypeOK, AllHands, Hands, Waiting, End, IdsOf
<1>11. ASSUME ReadLinks(c) PROVE Reasons(c)
  BY <1>11, <1>0 DEF ReadLinks, Reasons, TypeOK, AllHands, Hands, Waiting, history, IdsOf
<1>12. ASSUME InsertLinks(c) PROVE Reasons(c)
  BY <1>12, <1>0 DEF InsertLinks, Reasons, TypeOK, AllHands, Hands, Waiting, history,
     IdsOf, locals
<1>13. ASSUME LinkRaises(c) PROVE Reasons(c)
  BY <1>13, <1>0 DEF LinkRaises, Reasons, TypeOK, AllHands, Hands, Waiting, history, End,
     IdsOf
<1>14. ASSUME CommitLinks(c) PROVE Reasons(c)
  BY <1>14, <1>0 DEF CommitLinks, Reasons, TypeOK, AllHands, Hands, Waiting, history, End,
     IdsOf
<1>15. ASSUME Declines(c) PROVE Reasons(c)
  BY <1>15, <1>0 DEF Declines, Reasons, TypeOK, AllHands, Hands, Waiting, history, End,
     IdsOf
<1>16. ASSUME SelectRows(c) PROVE Reasons(c)
  BY <1>16, <1>0 DEF SelectRows, Reasons, AllHands, Hands, Waiting, history
<1>17. ASSUME Change(c) PROVE Reasons(c)
  BY <1>17 DEF Change, Reasons, Disturb, Begun, locals
<1>18. ASSUME TryEmbed(c) PROVE Reasons(c)
  <2>1. NextPair(c)[1] \in IdsOf(pend[c])
    BY <1>18, NextPairIs DEF TryEmbed, IdsOf
  <2> QED
    BY <1>18, <2>1 DEF TryEmbed, Reasons
<1>19. ASSUME Delete(c) PROVE Reasons(c)
  BY <1>19, <1>0 DEF Delete, Reasons, AllHands, Hands, Waiting, Disturb, Begun
<1>20. ASSUME CommitChange(c) PROVE Reasons(c)
  BY <1>20 DEF CommitChange, Reasons
<1>21. ASSUME CountHits(c) PROVE Reasons(c)
  BY <1>21, <1>0 DEF CountHits, Reasons, TypeOK, AllHands, Hands, Waiting, history, End,
     IdsOf, locals
<1>22. ASSUME CommitHits(c) PROVE Reasons(c)
  BY <1>22, <1>0 DEF CommitHits, Reasons, TypeOK, AllHands, Hands, Waiting, history, End,
     IdsOf
<1> QED
  BY <1>1, <1>2, <1>3, <1>4, <1>5, <1>6, <1>7, <1>8, <1>9, <1>10, <1>11, <1>12, <1>13,
     <1>14, <1>15, <1>16, <1>17, <1>18, <1>19, <1>20, <1>21, <1>22 DEF CallStep

-----------------------------------------------------------------------------
(***************************************************************************)
(* A step of a call keeps the tables sound                                 *)
(***************************************************************************)

StoreOK == TablesOK(db) /\ TablesOK(work)

SoundNow(t) == Sound(t, said', disturbed', unembedded', InHands')

LEMMA KeptAsTheyAre ==
  ASSUME KnowledgeInv, NEW c \in Calls, CallStep(c), pc[c] \notin {"commit", "ccommit"},
         IdsOf(pend[c]) \subseteq IdsOf(pend'[c])
  PROVE  SoundNow(db) /\ SoundNow(work)
<1>1. /\ disturbed \subseteq disturbed' /\ unembedded \subseteq unembedded' \cup InHands'
      /\ InHands \subseteq InHands' /\ \A i \in Ids : said'[i] \in {said[i], Unsaid}
  BY ReasonsStay, InHandsStep DEF KnowledgeInv, AllHands, CallOK, Reasons
<1> HIDE DEF InHands
<1>2. ASSUME NEW t, Sound(t, said, disturbed, unembedded, InHands)
      PROVE  Sound(t, said', disturbed', unembedded', InHands')
  BY <1>1, <1>2, SoundKeeps
<1> QED
  BY <1>2 DEF KnowledgeInv, TablesOK, SoundNow

\* The tables stay, or one becomes as the other is.
LEMMA MovesOK ==
  ASSUME SoundNow(db), SoundNow(work), work' \in {work, db}, db' \in {work, db}
  PROVE  StoreOK'
BY DEF StoreOK, TablesOK, SoundNow

LEMMA SoundChanged ==
  ASSUME NEW t, NEW t2, NEW S, NEW sd, NEW dis, NEW un, NEW ha,
         Sound(t, sd, dis, un, ha),
         \A i \in Ids \ S : t2.chunk[i] = t.chunk[i] /\ t2.vec[i] = t.vec[i],
         \A i \in S : /\ t2.vec[i] = NoVector \/ There(t2, i) \/ i \in dis
                      /\ sd[i] = Unsaid \/ t2.chunk[i] = sd[i] \/ i \in dis
                      /\ Fits(t2, i, un, dis) \/ i \in ha
  PROVE  Sound(t2, sd, dis, un, ha)
BY DEF Sound, Fits, There

LEMMA SoundCopy ==
  ASSUME NEW t, NEW t2, NEW sd, NEW dis, NEW un, NEW ha,
         Sound(t, sd, dis, un, ha), t2.chunk = t.chunk, t2.vec = t.vec
  PROVE  Sound(t2, sd, dis, un, ha)
BY DEF Sound, Fits, There

\* The same for a step that writes: S are the chunks it changes.
LEMMA WritesOK ==
  ASSUME KnowledgeInv, NEW c \in Calls, CallStep(c), pc[c] \notin {"commit", "ccommit"},
         IdsOf(pend[c]) \subseteq IdsOf(pend'[c]), db' = db, NEW S,
         S \subseteq IdsOf(pend'[c]),
         \A i \in Ids \ S : work'.chunk[i] = work.chunk[i] /\ work'.vec[i] = work.vec[i],
         \A i \in S : /\ work'.vec[i] = NoVector \/ There(work', i) \/ i \in disturbed'
                      /\ said'[i] = Unsaid \/ work'.chunk[i] = said'[i] \/ i \in disturbed'
  PROVE  StoreOK'
<1>1. SoundNow(db) /\ SoundNow(work)
  BY KeptAsTheyAre
<1>2. S \subseteq InHands'
  BY InHandsStep DEF KnowledgeInv
<1> HIDE DEF InHands
<1>3. SoundNow(work')
  BY <1>1, <1>2, SoundChanged DEF SoundNow
<1> QED
  BY <1>1, <1>3 DEF StoreOK, TablesOK, SoundNow

\* A step of a call keeps both tables sound: it writes to rows in its hands, commits
\* what is sound, or rolls back to what is sound.
LEMMA TablesOwn ==
  ASSUME KnowledgeInv, NEW c \in Calls, CallStep(c)
  PROVE  StoreOK'
<1>0. TypeOK /\ AllHands /\ KnowledgeInv /\ CallStep(c)
  BY DEF KnowledgeInv, AllHands, CallOK
<1>1. ASSUME GetConnection(c) PROVE StoreOK'
  <2>1. SoundNow(db) /\ SoundNow(work)
    BY <1>1, <1>0, KeptAsTheyAre, ReasonsStay DEF GetConnection, Reasons, KnowledgeInv,
       AllHands
  <2> QED
    BY <1>1, <2>1, MovesOK DEF GetConnection, Rollback, Commit, Execute, store
<1>2. ASSUME ReadSection(c) PROVE StoreOK'
  <2>1. SoundNow(db) /\ SoundNow(work)
    BY <1>2, <1>0, KeptAsTheyAre, ReasonsStay DEF ReadSection, Reasons, KnowledgeInv,
       AllHands
  <2> QED
    BY <1>2, <2>1, MovesOK DEF ReadSection, Rollback, Commit, Execute, store
<1>3. ASSUME ChunkingFails(c) PROVE StoreOK'
  <2>1. SoundNow(db) /\ SoundNow(work)
    BY <1>3, <1>0, KeptAsTheyAre, ReasonsStay DEF ChunkingFails, Reasons, KnowledgeInv,
       AllHands
  <2> QED
    BY <1>3, <2>1, MovesOK DEF ChunkingFails, Rollback, Commit, Execute, store
<1>4. ASSUME Upsert(c) PROVE StoreOK'
  <2> DEFINE i == UpsertId(c)
             S == IF Skips(c) THEN {} ELSE {i}
  <2>1. S \subseteq IdsOf(pend'[c])
    <3>1. CASE Skips(c)
      BY <3>1
    <3>2. CASE ~Skips(c)
      <4>1. pend' = [pend EXCEPT ![c] = {p \in @ : p[1] # UpsertId(c)}
                                           \cup {<<UpsertId(c), {text[c]}>>}]
        BY <1>4, <3>2 DEF Upsert, UpsertId, Skips, Refused
      <4>3. <<UpsertId(c), {text[c]}>> \in pend'[c]
        BY <4>1, <1>0 DEF TypeOK
      <4>2. i \in IdsOf(pend'[c])
        BY <4>3 DEF IdsOf
      <4> QED
        BY <4>2
    <3> QED
      BY <3>1, <3>2
  <2>2. \A j \in Ids \ S : work'.chunk[j] = work.chunk[j] /\ work'.vec[j] = work.vec[j]
    BY <1>4, <1>0, UpsertDoes, UpsertSkips, Parts, ZenonT(60) DEF Tab, TypeOK
  <2>3. \A j \in S : There(work', j)
    <3>1. {text[c]} \in Contents
      BY <1>4, <1>0, SMTT(30) DEF Upsert, AllHands, Hands, Contents
    <3>2. ASSUME ~Skips(c) PROVE work'.chunk[UpsertId(c)] = {text[c]}
      BY <1>4, <1>0, <3>2, UpsertDoes, UpsertIdIs, Parts, ZenonT(60) DEF Tab, TypeOK
    <3> QED
      BY <3>1, <3>2, Apart DEF There
  <2>4. \A j \in S : said'[j] = Unsaid
    BY <1>4, <1>0, UpsertIdIs DEF Upsert, UpsertId, Begun
  <2>5. /\ IdsOf(pend[c]) \subseteq IdsOf(pend'[c]) /\ db' = db
        /\ pc[c] \notin {"commit", "ccommit"}
    BY <1>4, <1>0, ReasonsStay DEF Upsert, Reasons, Execute
  <2> HIDE DEF S
  <2> QED
    BY <2>1, <2>2, <2>3, <2>4, <2>5, WritesOK
<1>5. ASSUME CommitChunks(c) PROVE StoreOK'
  <2>1. \A i \in IdsOf(pend[c]) : work.chunk[i] = Said(pend[c], i) \/ i \in disturbed
    <3> SUFFICES ASSUME NEW i \in IdsOf(pend[c])
                 PROVE  work.chunk[i] = Said(pend[c], i) \/ i \in disturbed
      OBVIOUS
    <3>1. <<i, Said(pend[c], i)>> \in pend[c]
      BY <1>0, SaidIs DEF TypeOK
    <3>2. <<i, Said(pend[c], i)>> \in Written(c) /\ op[c] = "index"
      BY <1>5, <1>0, <3>1 DEF CommitChunks, Written, AllHands, Hands
    <3> QED
      BY <1>0, <3>2 DEF KnowledgeInv, CallOK, Kept
  <2>2. \A i \in Ids : \/ said'[i] = said[i] \/ said'[i] = Unsaid
                      \/ work.chunk[i] = said'[i] \/ i \in disturbed'
    BY <1>5, <2>1 DEF CommitChunks, Said
  <2>3. UNCHANGED <<disturbed, unembedded, pend>>
    BY <1>5 DEF CommitChunks, locals
  <2>4. InHands' = InHands
    BY <2>3 DEF InHands
  <2>5. Sound(work, said, disturbed, unembedded, InHands)
    BY <1>0 DEF KnowledgeInv, TablesOK
  <2> HIDE DEF InHands
  <2>6. SoundNow(work)
    BY <2>2, <2>3, <2>4, <2>5, SoundKeeps DEF SoundNow
  <2> QED
    BY <1>5, <2>6 DEF CommitChunks, Commit, StoreOK, TablesOK, SoundNow
<1>6. ASSUME SelectMissing(c) PROVE StoreOK'
  <2>1. pend[c] = {}
    BY <1>6, <1>0 DEF SelectMissing, AllHands, Hands, Waiting
  <2>2. IdsOf(pend[c]) \subseteq IdsOf(pend'[c])
    BY <2>1 DEF IdsOf
  <2>3. SoundNow(db) /\ SoundNow(work)
    BY <1>6, <2>2, KeptAsTheyAre DEF SelectMissing
  <2> QED
    BY <1>6, <2>3, MovesOK DEF SelectMissing, store
<1>7. ASSUME StoreVectors(c) PROVE StoreOK'
  <2>1. PICK ok \in SUBSET Batch(c) :
                IF ok = {} THEN UNCHANGED store ELSE Execute(WithVectors(work, ok))
    BY <1>7 DEF StoreVectors
  <2>2. ok \in SUBSET Pairs /\ IdsOf(ok) \subseteq IdsOf(pend[c])
    BY <2>1, <1>0, BatchIs DEF TypeOK, IdsOf
  <2>3. /\ \A j \in Ids \ IdsOf(ok) : work'.vec[j] = work.vec[j]
        /\ \A j \in Ids : work'.chunk[j] = work.chunk[j]
        /\ db' = db
    BY <2>1, <2>2, <1>0, VectorsDo DEF Tab, VecOf, Execute, store, IdsOf
  <2>4. pend'[c] = pend[c] /\ UNCHANGED <<said, disturbed>> /\ pc[c] = "embed"
    BY <1>7 DEF StoreVectors
  <2>5. \A j \in IdsOf(pend[c]) : There(work, j) \/ j \in disturbed
    <3>1. op[c] # "delete" /\ op[c] # "write"
      BY <1>0, <2>4 DEF AllHands, Hands
    <3> QED
      BY <1>0, <3>1 DEF KnowledgeInv, CallOK, Present, Held
  <2>6. IdsOf(pend[c]) \subseteq Ids
    BY <1>0, IdsOfPairs DEF TypeOK
  <2>7. \A j \in Ids : said[j] = Unsaid \/ work.chunk[j] = said[j] \/ j \in disturbed
    BY <1>0 DEF KnowledgeInv, TablesOK, Sound
  <2> QED
    BY <1>0, <2>2, <2>3, <2>4, <2>5, <2>6, <2>7, WritesOK DEF There
<1>8. ASSUME CommitVectors(c) PROVE StoreOK'
  <2>1. \A i \in IdsOf(pend[c]) : i \in IdsOf(pend'[c]) \/ Agree(work, i)
    <3> SUFFICES ASSUME NEW p \in pend[c]
                 PROVE  p[1] \in IdsOf(pend'[c]) \/ Agree(work, p[1])
      BY DEF IdsOf
    <3>1. CASE p \in Batch(c)
      BY <1>8, <1>0, <3>1 DEF CommitVectors, KnowledgeInv, CallOK, TriedOK, Tried
    <3>2. CASE p \notin Batch(c)
      <4>1. pend'[c] = pend[c] \ Batch(c)
        BY <1>8, <1>0, <3>2 DEF CommitVectors, TypeOK
      <4> QED
        BY <3>2, <4>1 DEF IdsOf
    <3> QED
      BY <3>1, <3>2
  <2>2. UNCHANGED <<said, disturbed, unembedded>>
    BY <1>8 DEF CommitVectors, history
  <2>3. InHands \subseteq InHands' \cup IdsOf(pend[c]) /\ IdsOf(pend'[c]) \subseteq InHands'
    BY <1>0, InHandsStep
  <2>4. Sound(work, said, disturbed, unembedded, InHands)
    BY <1>0 DEF KnowledgeInv, TablesOK
  <2>5. \A i \in Ids : \/ said'[i] = said[i] \/ said'[i] = Unsaid
                      \/ work.chunk[i] = said'[i] \/ i \in disturbed'
    BY <2>2
  <2> HIDE DEF InHands
  <2>6. \A i \in InHands : i \in InHands' \/ Fits(work, i, unembedded', disturbed')
    BY <2>1, <2>2, <2>3 DEF Agree
  <2>7. SoundNow(work)
    BY <2>2, <2>4, <2>5, <2>6, SoundKeeps DEF SoundNow
  <2> QED
    BY <1>8, <2>7 DEF CommitVectors, Commit, StoreOK, TablesOK, SoundNow
<1>9. ASSUME ReportVectors(c) PROVE StoreOK'
  <2>1. SoundNow(db) /\ SoundNow(work)
    BY <1>9, <1>0, KeptAsTheyAre, ReasonsStay DEF ReportVectors, Reasons, KnowledgeInv, AllHands
  <2> QED
    BY <1>9, <2>1, MovesOK DEF ReportVectors, Rollback, Commit, Execute, store
<1>10. ASSUME ClientRaises(c) PROVE StoreOK'
  <2>1. /\ UNCHANGED <<db, work, said, disturbed>>
        /\ unembedded' = unembedded \cup IdsOf(pend[c])
    BY <1>10 DEF ClientRaises, store
  <2>2. InHands \subseteq InHands' \cup IdsOf(pend[c])
    BY <1>0, InHandsStep
  <2> HIDE DEF InHands
  <2>3. ASSUME NEW t, Sound(t, said, disturbed, unembedded, InHands)
        PROVE  Sound(t, said', disturbed', unembedded', InHands')
    <3>1. \A i \in InHands : i \in InHands' \/ Fits(t, i, unembedded', disturbed')
      BY <2>1, <2>2 DEF Fits
    <3> QED
      BY <2>1, <2>3, <3>1, SoundKeeps
  <2> QED
    BY <1>0, <2>1, <2>3 DEF KnowledgeInv, StoreOK, TablesOK
<1>11. ASSUME ReadLinks(c) PROVE StoreOK'
  <2>1. SoundNow(db) /\ SoundNow(work)
    BY <1>11, <1>0, KeptAsTheyAre, ReasonsStay DEF ReadLinks, Reasons, KnowledgeInv,
       AllHands
  <2> QED
    BY <1>11, <2>1, MovesOK DEF ReadLinks, Rollback, Commit, Execute, store
<1>12. ASSUME InsertLinks(c) PROVE StoreOK'
  <2>1. work'.chunk = work.chunk /\ work'.vec = work.vec /\ db' = db
    <3>1. CASE links[c] = {}
      BY <1>12, <3>1 DEF InsertLinks, store
    <3>2. CASE links[c] # {}
      <4>1. Execute([work EXCEPT !.edges = @ \cup links[c]])
        BY <1>12, <3>2 DEF InsertLinks
      <4> QED
        BY <4>1, <1>0, EdgesDo DEF Tab, Execute, TypeOK
    <3> QED
      BY <3>1, <3>2
  <2>2. SoundNow(db) /\ SoundNow(work)
    BY <1>12, <1>0, KeptAsTheyAre, ReasonsStay DEF InsertLinks, Reasons, KnowledgeInv
  <2>3. SoundNow(work')
    BY <2>1, <2>2, SoundCopy DEF SoundNow
  <2> QED
    BY <2>1, <2>2, <2>3 DEF StoreOK, TablesOK, SoundNow
<1>13. ASSUME LinkRaises(c) PROVE StoreOK'
  <2>1. work'.chunk = work.chunk /\ work'.vec = work.vec /\ db' = db
    <3>1. PICK before \in SUBSET (links[c] \ Dangling(c)) :
                  Execute([work EXCEPT !.edges = @ \cup before])
      BY <1>13 DEF LinkRaises
    <3>2. before \in SUBSET (Ids \X Ids)
      BY <3>1, <1>0 DEF TypeOK
    <3> QED
      BY <3>1, <3>2, <1>0, EdgesDo DEF Tab, Execute
  <2>2. SoundNow(db) /\ SoundNow(work)
    BY <1>13, <1>0, KeptAsTheyAre, ReasonsStay DEF LinkRaises, Reasons, KnowledgeInv
  <2>3. SoundNow(work')
    BY <2>1, <2>2, SoundCopy DEF SoundNow
  <2> QED
    BY <2>1, <2>2, <2>3 DEF StoreOK, TablesOK, SoundNow
<1>14. ASSUME CommitLinks(c) PROVE StoreOK'
  <2>1. SoundNow(db) /\ SoundNow(work)
    BY <1>14, <1>0, KeptAsTheyAre, ReasonsStay DEF CommitLinks, Reasons, KnowledgeInv,
       AllHands
  <2> QED
    BY <1>14, <2>1, MovesOK DEF CommitLinks, Rollback, Commit, Execute, store
<1>15. ASSUME Declines(c) PROVE StoreOK'
  <2>1. SoundNow(db) /\ SoundNow(work)
    BY <1>15, <1>0, KeptAsTheyAre, ReasonsStay DEF Declines, Reasons, KnowledgeInv, AllHands
  <2> QED
    BY <1>15, <2>1, MovesOK DEF Declines, Rollback, Commit, Execute, store
<1>16. ASSUME SelectRows(c) PROVE StoreOK'
  <2>1. pend[c] = {}
    BY <1>16, <1>0 DEF SelectRows, AllHands, Hands, Waiting
  <2>2. IdsOf(pend[c]) \subseteq IdsOf(pend'[c])
    BY <2>1 DEF IdsOf
  <2>3. SoundNow(db) /\ SoundNow(work)
    BY <1>16, <2>2, KeptAsTheyAre DEF SelectRows
  <2> QED
    BY <1>16, <2>3, MovesOK DEF SelectRows, store
<1>17. ASSUME Change(c) PROVE StoreOK'
  <2> DEFINE i == NextPair(c)[1]
             x == NextPair(c)[2]
             there == op[c] = "write" \/ There(work, i)
             S == IF there THEN {i} ELSE {}
  <2>1. i \in Ids /\ x \in Contents /\ i \in IdsOf(pend[c])
    BY <1>17, <1>0, NextPairIs DEF Change, IdsOf
  <2>2. CASE ~there
    <3>1. SoundNow(db) /\ SoundNow(work)
      BY <1>17, <1>0, KeptAsTheyAre, ReasonsStay DEF Change, Reasons
    <3> QED
      BY <1>17, <2>2, <3>1, MovesOK DEF Change, Execute
  <2>3. CASE there
    <3>1. /\ \A j \in Ids \ {i} : /\ work'.chunk[j] = work.chunk[j]
                                  /\ work'.vec[j] = work.vec[j]
          /\ work'.chunk[i] = x
      BY <1>17, <1>0, <2>1, <2>3, ChangeDoes, Parts, ZenonT(60) DEF Tab, TypeOK
    <3>2. There(work', i)
      BY <2>1, <3>1, Apart DEF There
    <3>3. said'[i] = Unsaid /\ db' = db /\ pend' = pend /\ pc[c] = "change"
      BY <1>17, <2>1 DEF Change, Begun, Execute, locals
    <3> DEFINE R == {i}
    <3>4. /\ \A j \in R : There(work', j) /\ said'[j] = Unsaid
          /\ \A j \in Ids \ R : work'.chunk[j] = work.chunk[j] /\ work'.vec[j] = work.vec[j]
          /\ R \subseteq IdsOf(pend'[c])
      BY <2>1, <3>1, <3>2, <3>3
    <3> HIDE DEF R
    <3> QED
      BY <1>0, <3>3, <3>4, WritesOK
  <2> QED
    BY <2>2, <2>3
<1>18. ASSUME TryEmbed(c) PROVE StoreOK'
  <2> DEFINE p == NextPair(c)
             S == IdsOf({p})
  <2>1. {p} \in SUBSET Pairs /\ p \in pend[c] /\ p[1] \in Ids
    BY <1>18, <1>0, NextPairIs DEF TryEmbed
  <2>2. Execute(WithVectors(work, {p})) \/ UNCHANGED store
    BY <1>18 DEF TryEmbed
  <2>3. /\ \A j \in Ids \ S : work'.vec[j] = work.vec[j]
        /\ \A j \in Ids : work'.chunk[j] = work.chunk[j]
        /\ db' = db
    BY <2>1, <2>2, <1>0, VectorsDo DEF Tab, VecOf, Execute, store
  <2>4. pend'[c] = pend[c] /\ UNCHANGED <<said, disturbed>> /\ pc[c] = "tryembed"
    BY <1>18 DEF TryEmbed
  <2>5. \A j \in IdsOf(pend[c]) : There(work, j) \/ j \in disturbed
    <3>1. op[c] # "delete"
      BY <1>0, <2>4 DEF AllHands, Hands
    <3> QED
      BY <1>0, <2>4, <3>1 DEF KnowledgeInv, CallOK, Present, Held
  <2>6. S \subseteq IdsOf(pend[c]) /\ IdsOf(pend[c]) \subseteq Ids
    BY <1>0, <2>1, IdsOfPairs DEF TypeOK, IdsOf
  <2>7. \A j \in Ids : said[j] = Unsaid \/ work.chunk[j] = said[j] \/ j \in disturbed
    BY <1>0 DEF KnowledgeInv, TablesOK, Sound
  <2> HIDE DEF S
  <2> QED
    BY <1>0, <2>3, <2>4, <2>5, <2>6, <2>7, WritesOK DEF There
<1>19. ASSUME Delete(c) PROVE StoreOK'
  <2> DEFINE S == Matching(key[c])
  <2>1. pend[c] = {} /\ pend'[c] = S \X {{}}
    BY <1>19, <1>0 DEF Delete, AllHands, Hands, Waiting, TypeOK
  <2>2. IdsOf(pend[c]) \subseteq IdsOf(pend'[c]) /\ S \subseteq IdsOf(pend'[c])
    <3>1. \A j \in S : <<j, {}>> \in pend'[c]
      BY <2>1
    <3>2. \A j \in S : <<j, {}>>[1] \in IdsOf(pend'[c])
      BY <3>1 DEF IdsOf
    <3>3. IdsOf(pend[c]) = {}
      BY <2>1 DEF IdsOf
    <3> QED
      BY <3>2, <3>3
  <2>3. /\ \A j \in Ids \ S : work'.chunk[j] = work.chunk[j] /\ work'.vec[j] = work.vec[j]
        /\ \A j \in S : work'.vec[j] = NoVector
    BY <1>19, <1>0, DeleteDoes, MatchingIs, ZenonT(60) DEF Tab
  <2>4. \A j \in S : said'[j] = Unsaid
    BY <1>19, MatchingIs DEF Delete, Begun
  <2>5. db' = db /\ pc[c] = "select"
    BY <1>19 DEF Delete, Execute
  <2> HIDE DEF S
  <2> QED
    BY <1>0, <2>2, <2>3, <2>4, <2>5, WritesOK
<1>20. ASSUME CommitChange(c) PROVE StoreOK'
  <2>1. \A i \in IdsOf(pend[c]) : i \in IdsOf(pend'[c]) \/ Agree(work, i)
    BY <1>20, <1>0 DEF CommitChange, KnowledgeInv, CallOK, TriedOK, Tried, IdsOf
  <2>2. UNCHANGED <<disturbed, unembedded>>
    BY <1>20 DEF CommitChange
  <2>9. \A i \in IdsOf(pend[c]) :
          \/ work.chunk[i] = (IF op[c] = "delete" THEN NoChunk ELSE Said(pend[c], i))
          \/ i \in disturbed
    <3> SUFFICES ASSUME NEW i \in IdsOf(pend[c])
                 PROVE  \/ work.chunk[i] = (IF op[c] = "delete" THEN NoChunk
                                                              ELSE Said(pend[c], i))
                        \/ i \in disturbed
      OBVIOUS
    <3> DEFINE p == <<i, Said(pend[c], i)>>
    <3>1. p \in pend[c]
      BY <1>0, SaidIs DEF TypeOK
    <3>2. p \in Written(c)
      BY <1>20, <3>1 DEF CommitChange, Written
    <3> QED
      BY <1>0, <3>2 DEF KnowledgeInv, CallOK, Kept
  <2>3. InHands \subseteq InHands' \cup IdsOf(pend[c]) /\ IdsOf(pend'[c]) \subseteq InHands'
    BY <1>0, InHandsStep
  <2>4. Sound(work, said, disturbed, unembedded, InHands)
    BY <1>0 DEF KnowledgeInv, TablesOK
  <2>5. \A i \in Ids : \/ said'[i] = said[i] \/ said'[i] = Unsaid
                      \/ work.chunk[i] = said'[i] \/ i \in disturbed'
    <3> SUFFICES ASSUME NEW i \in Ids
                 PROVE  said'[i] = said[i] \/ work.chunk[i] = said'[i] \/ i \in disturbed'
      OBVIOUS
    <3>1. CASE i \in IdsOf(pend[c])
      <4>1. said'[i] = (IF op[c] = "delete" THEN NoChunk ELSE Said(pend[c], i))
        BY <1>20, <3>1 DEF CommitChange, Said
      <4> QED
        BY <2>2, <2>9, <3>1, <4>1
    <3>2. CASE i \notin IdsOf(pend[c])
      BY <1>20, <3>2 DEF CommitChange
    <3> QED
      BY <3>1, <3>2
  <2> HIDE DEF InHands
  <2>6. \A i \in InHands : i \in InHands' \/ Fits(work, i, unembedded', disturbed')
    BY <2>1, <2>2, <2>3 DEF Agree
  <2>7. SoundNow(work)
    BY <2>2, <2>4, <2>5, <2>6, SoundKeeps DEF SoundNow
  <2> QED
    BY <1>20, <2>7 DEF CommitChange, Commit, StoreOK, TablesOK, SoundNow
<1>21. ASSUME CountHits(c) PROVE StoreOK'
  <2>1. SoundNow(db) /\ SoundNow(work)
    BY <1>21, <1>0, KeptAsTheyAre, ReasonsStay DEF CountHits, Reasons, KnowledgeInv,
       AllHands
  <2> QED
    BY <1>21, <2>1, MovesOK DEF CountHits, Rollback, Commit, Execute, store
<1>22. ASSUME CommitHits(c) PROVE StoreOK'
  <2>1. SoundNow(db) /\ SoundNow(work)
    BY <1>22, <1>0, KeptAsTheyAre, ReasonsStay DEF CommitHits, Reasons, KnowledgeInv,
       AllHands
  <2> QED
    BY <1>22, <2>1, MovesOK DEF CommitHits, Rollback, Commit, Execute, store
<1> QED
  BY <1>1, <1>2, <1>3, <1>4, <1>5, <1>6, <1>7, <1>8, <1>9, <1>10, <1>11, <1>12, <1>13,
     <1>14, <1>15, <1>16, <1>17, <1>18, <1>19, <1>20, <1>21, <1>22 DEF CallStep

-----------------------------------------------------------------------------
(***************************************************************************)
(* A step of a call and the chunks in the hands of others                  *)
(***************************************************************************)

\* A chunk another call holds is disturbed, or its content stays and its vector is
\* no worse than before.
Spared(i) ==
  \/ i \in disturbed'
  \/ work'.chunk[i] = work.chunk[i] /\ (Agree(work, i) => Agree(work, i)')

LEMMA Untouched ==
  ASSUME NEW i, work'.chunk[i] = work.chunk[i], work'.vec[i] = work.vec[i],
         i \in unembedded => i \in unembedded', disturbed \subseteq disturbed'
  PROVE  Spared(i)
BY DEF Spared, Agree, Fits, There

LEMMA HeldByOthersIs ==
  ASSUME TypeOK, NEW c \in Calls
  PROVE  /\ HeldByOthers(c) \subseteq Ids
         /\ \A d \in Calls \ {c} : Held(d) \subseteq HeldByOthers(c)
BY HeldIs DEF HeldByOthers


\* Storing the vectors of what the chunks say does no harm.
LEMMA VectorsSpare ==
  ASSUME TypeOK, NEW c \in Calls, NEW S \in SUBSET Pairs,
         Execute(WithVectors(work, S)) \/ (S = {} /\ UNCHANGED store),
         disturbed' = disturbed,
         \A i \in Ids : i \in unembedded => i \in unembedded' \/ i \in IdsOf(S),
         \A p \in S : work.chunk[p[1]] = p[2] \/ p[1] \in disturbed
  PROVE  \A i \in Ids : Spared(i)
<1> SUFFICES ASSUME NEW i \in Ids PROVE Spared(i)
  OBVIOUS
<1>1. CASE S = {} /\ UNCHANGED store
  BY <1>1, Untouched DEF store, IdsOf
<1>2. CASE Execute(WithVectors(work, S))
  <2>1. work'.chunk = work.chunk /\ work'.vec = VecOf(S)
    BY <1>2, VectorsDo DEF Tab
  <2>2. CASE i \in IdsOf(S)
    <3>1. <<i, Said(S, i)>> \in S /\ work'.vec[i] = Said(S, i)
      BY <2>1, <2>2, SaidIs DEF VecOf
    <3>2. work.chunk[i] = Said(S, i) \/ i \in disturbed
      BY <3>1
    <3> QED
      BY <2>1, <3>1, <3>2 DEF Spared, Agree, Fits
  <2>3. CASE i \notin IdsOf(S)
    BY <2>1, <2>3, Untouched DEF VecOf
  <2> QED
    BY <2>2, <2>3
<1> QED
  BY <1>1, <1>2


LEMMA StoreVectorsSpare ==
  ASSUME KnowledgeInv, TypeOK, AllHands, NEW c \in Calls, StoreVectors(c)
  PROVE  \A i \in Ids : Spared(i)
<1>1. PICK ok \in SUBSET Batch(c) :
        /\ IF ok = {} THEN UNCHANGED store ELSE Execute(WithVectors(work, ok))
        /\ unembedded' = (unembedded \cup IdsOf(Batch(c))) \ IdsOf(ok)
  BY DEF StoreVectors
<1>2. ok \in SUBSET Pairs /\ ok \subseteq pend[c]
  BY <1>1, BatchIs DEF TypeOK
<1>3. Execute(WithVectors(work, ok)) \/ (ok = {} /\ UNCHANGED store)
  BY <1>1
<1>4. /\ disturbed' = disturbed
      /\ \A i \in Ids : i \in unembedded => i \in unembedded' \/ i \in IdsOf(ok)
  BY <1>1 DEF StoreVectors
<1>5. \A p \in ok : work.chunk[p[1]] = p[2] \/ p[1] \in disturbed
  <2>1. pc[c] = "embed"
    BY DEF StoreVectors
  <2>2. Written(c) = pend[c] /\ op[c] # "delete"
    BY <2>1 DEF Written, AllHands, Hands
  <2> QED
    BY <1>2, <2>2 DEF KnowledgeInv, CallOK, Kept
<1> QED
  BY <1>2, <1>3, <1>4, <1>5, VectorsSpare

LEMMA TryEmbedSpare ==
  ASSUME KnowledgeInv, TypeOK, AllHands, NEW c \in Calls, TryEmbed(c)
  PROVE  \A i \in Ids : Spared(i)
<1> DEFINE p == NextPair(c)
<1>1. {p} \in SUBSET Pairs
  BY NextPairIs DEF TryEmbed
<1>2. disturbed' = disturbed /\ pc[c] = "tryembed"
  BY DEF TryEmbed
<1>3. work.chunk[p[1]] = p[2] \/ p[1] \in disturbed
  <2>1. p \in Written(c) /\ op[c] # "delete"
    BY <1>2 DEF Written, AllHands, Hands
  <2> QED
    BY <2>1 DEF KnowledgeInv, CallOK, Kept
<1>4. CASE Execute(WithVectors(work, {p})) /\ unembedded' = unembedded \ {p[1]}
  <2>1. \A i \in Ids : i \in unembedded => i \in unembedded' \/ i \in IdsOf({p})
    BY <1>4 DEF IdsOf
  <2> QED
    BY <1>1, <1>2, <1>3, <1>4, <2>1, VectorsSpare
<1>5. CASE UNCHANGED store /\ unembedded' = unembedded \cup {p[1]}
  BY <1>2, <1>5, Untouched DEF store
<1> QED
  BY <1>4, <1>5 DEF TryEmbed
\* A step of a call spares what others hold, or disturbs it.
LEMMA OthersSpared ==
  ASSUME KnowledgeInv, NEW c \in Calls, CallStep(c)
  PROVE  \A i \in HeldByOthers(c) : Spared(i)
<1>0. TypeOK /\ AllHands /\ HeldByOthers(c) \subseteq Ids
  BY HeldByOthersIs DEF KnowledgeInv, AllHands, CallOK
<1>1. ASSUME GetConnection(c) PROVE \A i \in HeldByOthers(c) : Spared(i)
  <2>1. /\ work' = db /\ unembedded' = unembedded
        /\ disturbed' = disturbed \cup (Changed \cap HeldByOthers(c))
    BY <1>1 DEF GetConnection, Rollback, Disturb
  <2> SUFFICES ASSUME NEW i \in HeldByOthers(c) PROVE Spared(i)
    OBVIOUS
  <2>2. CASE i \in Changed
    BY <2>1, <2>2 DEF Spared
  <2>3. CASE i \notin Changed
    <3>1. work'.chunk[i] = work.chunk[i] /\ work'.vec[i] = work.vec[i]
      BY <1>0, <2>1, <2>3, HeldByOthersIs DEF Changed
    <3> QED
      BY <2>1, <3>1, Untouched
  <2> QED
    BY <2>2, <2>3
<1>2. ASSUME ReadSection(c) PROVE \A i \in HeldByOthers(c) : Spared(i)
  <2>1. work' = work /\ unembedded' = unembedded /\ disturbed' = disturbed
    BY <1>2 DEF ReadSection, store, history, Commit, Execute
  <2> QED
    BY <2>1, Untouched
<1>3. ASSUME ChunkingFails(c) PROVE \A i \in HeldByOthers(c) : Spared(i)
  <2>1. work' = work /\ unembedded' = unembedded /\ disturbed' = disturbed
    BY <1>3 DEF ChunkingFails, store, history, Commit, Execute
  <2> QED
    BY <2>1, Untouched
<1>4. ASSUME Upsert(c) PROVE \A i \in HeldByOthers(c) : Spared(i)
  <2>1. unembedded' = unembedded /\ disturbed \subseteq disturbed'
    BY <1>4 DEF Upsert, Disturb
  <2>2. CASE Skips(c)
    BY <1>4, <2>1, <2>2, UpsertSkips, Untouched
  <2>3. CASE ~Skips(c)
    <3> DEFINE j == UpsertId(c)
    <3>1. disturbed' = disturbed \cup ({j} \cap HeldByOthers(c))
      BY <1>4, <2>3 DEF Upsert, Disturb, UpsertId, Skips, Refused
    <3>2. \A i \in Ids \ {j} : work'.chunk[i] = work.chunk[i] /\ work'.vec[i] = work.vec[i]
      BY <1>4, <1>0, <2>3, UpsertDoes, Parts, ZenonT(60) DEF Tab, TypeOK
    <3> HIDE DEF j
    <3> SUFFICES ASSUME NEW i \in HeldByOthers(c), i # j PROVE Spared(i)
      BY <3>1 DEF Spared
    <3> QED
      BY <1>0, <2>1, <3>2, Untouched, HeldByOthersIs
  <2> QED
    BY <2>2, <2>3
<1>5. ASSUME CommitChunks(c) PROVE \A i \in HeldByOthers(c) : Spared(i)
  <2>1. work' = work /\ unembedded' = unembedded /\ disturbed' = disturbed
    BY <1>5 DEF CommitChunks, store, history, Commit, Execute
  <2> QED
    BY <2>1, Untouched
<1>6. ASSUME SelectMissing(c) PROVE \A i \in HeldByOthers(c) : Spared(i)
  <2>1. work' = work /\ unembedded' = unembedded /\ disturbed' = disturbed
    BY <1>6 DEF SelectMissing, store, history, Commit, Execute
  <2> QED
    BY <2>1, Untouched
<1>7. ASSUME StoreVectors(c) PROVE \A i \in HeldByOthers(c) : Spared(i)
  BY <1>7, <1>0, StoreVectorsSpare
<1>8. ASSUME CommitVectors(c) PROVE \A i \in HeldByOthers(c) : Spared(i)
  <2>1. work' = work /\ unembedded' = unembedded /\ disturbed' = disturbed
    BY <1>8 DEF CommitVectors, store, history, Commit, Execute
  <2> QED
    BY <2>1, Untouched
<1>9. ASSUME ReportVectors(c) PROVE \A i \in HeldByOthers(c) : Spared(i)
  <2>1. work' = work /\ unembedded' = unembedded /\ disturbed' = disturbed
    BY <1>9 DEF ReportVectors, store, history, Commit, Execute
  <2> QED
    BY <2>1, Untouched
<1>10. ASSUME ClientRaises(c) PROVE \A i \in HeldByOthers(c) : Spared(i)
  <2>1. work' = work /\ unembedded \subseteq unembedded' /\ disturbed' = disturbed
    BY <1>10 DEF ClientRaises, store
  <2> QED
    BY <2>1, Untouched
<1>11. ASSUME ReadLinks(c) PROVE \A i \in HeldByOthers(c) : Spared(i)
  <2>1. work' = work /\ unembedded' = unembedded /\ disturbed' = disturbed
    BY <1>11 DEF ReadLinks, store, history, Commit, Execute
  <2> QED
    BY <2>1, Untouched
<1>12. ASSUME InsertLinks(c) PROVE \A i \in HeldByOthers(c) : Spared(i)
  <2>1. work'.chunk = work.chunk /\ work'.vec = work.vec /\ db' = db
    <3>1. CASE links[c] = {}
      BY <1>12, <3>1 DEF InsertLinks, store
    <3>2. CASE links[c] # {}
      <4>1. Execute([work EXCEPT !.edges = @ \cup links[c]])
        BY <1>12, <3>2 DEF InsertLinks
      <4> QED
        BY <4>1, <1>0, EdgesDo DEF Tab, Execute, TypeOK
    <3> QED
      BY <3>1, <3>2
  <2>2. unembedded' = unembedded /\ disturbed' = disturbed
    BY <1>12 DEF InsertLinks, history
  <2> QED
    BY <2>1, <2>2, Untouched
<1>13. ASSUME LinkRaises(c) PROVE \A i \in HeldByOthers(c) : Spared(i)
  <2>1. work'.chunk = work.chunk /\ work'.vec = work.vec /\ db' = db
    <3>1. PICK before \in SUBSET (links[c] \ Dangling(c)) :
                  Execute([work EXCEPT !.edges = @ \cup before])
      BY <1>13 DEF LinkRaises
    <3>2. before \in SUBSET (Ids \X Ids)
      BY <3>1, <1>0 DEF TypeOK
    <3> QED
      BY <3>1, <3>2, <1>0, EdgesDo DEF Tab, Execute
  <2>2. unembedded' = unembedded /\ disturbed' = disturbed
    BY <1>13 DEF LinkRaises, history
  <2> QED
    BY <2>1, <2>2, Untouched
<1>14. ASSUME CommitLinks(c) PROVE \A i \in HeldByOthers(c) : Spared(i)
  <2>1. work' = work /\ unembedded' = unembedded /\ disturbed' = disturbed
    BY <1>14 DEF CommitLinks, store, history, Commit, Execute
  <2> QED
    BY <2>1, Untouched
<1>15. ASSUME Declines(c) PROVE \A i \in HeldByOthers(c) : Spared(i)
  <2>1. work' = work /\ unembedded' = unembedded /\ disturbed' = disturbed
    BY <1>15 DEF Declines, store, history, Commit, Execute
  <2> QED
    BY <2>1, Untouched
<1>16. ASSUME SelectRows(c) PROVE \A i \in HeldByOthers(c) : Spared(i)
  <2>1. work' = work /\ unembedded' = unembedded /\ disturbed' = disturbed
    BY <1>16 DEF SelectRows, store, history, Commit, Execute
  <2> QED
    BY <2>1, Untouched
<1>17. ASSUME Change(c) PROVE \A i \in HeldByOthers(c) : Spared(i)
  <2> DEFINE j == NextPair(c)[1]
  <2>1. /\ unembedded' = unembedded
        /\ disturbed' = disturbed \cup ({j} \cap HeldByOthers(c))
    BY <1>17 DEF Change, Disturb
  <2>2. \A i \in Ids \ {j} : work'.chunk[i] = work.chunk[i] /\ work'.vec[i] = work.vec[i]
    <3>1. CASE op[c] = "write" \/ There(work, j)
      BY <1>17, <1>0, <3>1, ChangeDoes, Parts, ZenonT(60) DEF Tab, TypeOK
    <3>2. CASE ~(op[c] = "write" \/ There(work, j))
      BY <1>17, <3>2 DEF Change, Execute
    <3> QED
      BY <3>1, <3>2
  <2> HIDE DEF j
  <2> SUFFICES ASSUME NEW i \in HeldByOthers(c), i # j PROVE Spared(i)
    BY <2>1 DEF Spared
  <2> QED
    BY <1>0, <2>1, <2>2, Untouched, HeldByOthersIs
<1>18. ASSUME TryEmbed(c) PROVE \A i \in HeldByOthers(c) : Spared(i)
  BY <1>18, <1>0, TryEmbedSpare
<1>19. ASSUME Delete(c) PROVE \A i \in HeldByOthers(c) : Spared(i)
  <2> DEFINE S == Matching(key[c])
  <2>1. unembedded' = unembedded /\ disturbed' = disturbed \cup (S \cap HeldByOthers(c))
    BY <1>19 DEF Delete, Disturb
  <2>2. \A j \in Ids \ S : work'.chunk[j] = work.chunk[j] /\ work'.vec[j] = work.vec[j]
    <3>1. /\ work'.chunk = [i \in Ids |-> IF i \in S THEN NoChunk ELSE work.chunk[i]]
          /\ work'.vec = [i \in Ids |-> IF i \in S THEN NoVector ELSE work.vec[i]]
      BY <1>19, <1>0, DeleteDoes DEF Tab
    <3> QED
      BY <3>1
  <2> HIDE DEF S
  <2> SUFFICES ASSUME NEW i \in HeldByOthers(c), i \notin S PROVE Spared(i)
    BY <2>1 DEF Spared
  <2> QED
    BY <1>0, <2>1, <2>2, Untouched, HeldByOthersIs
<1>20. ASSUME CommitChange(c) PROVE \A i \in HeldByOthers(c) : Spared(i)
  <2>1. work' = work /\ unembedded' = unembedded /\ disturbed' = disturbed
    BY <1>20 DEF CommitChange, store, history, Commit, Execute
  <2> QED
    BY <2>1, Untouched
<1>21. ASSUME CountHits(c) PROVE \A i \in HeldByOthers(c) : Spared(i)
  <2>1. work' = work /\ unembedded' = unembedded /\ disturbed' = disturbed
    BY <1>21 DEF CountHits, store, history, Commit, Execute
  <2> QED
    BY <2>1, Untouched
<1>22. ASSUME CommitHits(c) PROVE \A i \in HeldByOthers(c) : Spared(i)
  <2>1. work' = work /\ unembedded' = unembedded /\ disturbed' = disturbed
    BY <1>22 DEF CommitHits, store, history, Commit, Execute
  <2> QED
    BY <2>1, Untouched
<1> QED
  BY <1>1, <1>2, <1>3, <1>4, <1>5, <1>6, <1>7, <1>8, <1>9, <1>10, <1>11, <1>12, <1>13,
     <1>14, <1>15, <1>16, <1>17, <1>18, <1>19, <1>20, <1>21, <1>22 DEF CallStep


\* So the other calls are as well off as before.
LEMMA OtherCallsOK ==
  ASSUME KnowledgeInv, NEW c \in Calls, CallStep(c), NEW d \in Calls \ {c}
  PROVE  CallOK(d)'
<1>0. TypeOK /\ CallOK(d) /\ d \in Calls
  BY DEF KnowledgeInv
<1>1. SameCall(d) /\ disturbed \subseteq disturbed'
  BY <1>0, OthersSame, ReasonsStay DEF KnowledgeInv, AllHands, CallOK, Reasons
<1>2. \A i \in Held(d) : Spared(i)
  BY <1>0, OthersSpared, HeldByOthersIs
<1>3. Hands(d)'
  BY <1>0, <1>1, SameHands DEF CallOK
<1>4. Held(d)' = Held(d) /\ Written(d)' = Written(d) /\ Tried(d)' = Tried(d)
  BY <1>1, SameHands
<1>5. \A p \in pend[d] : p[1] \in Held(d)
  BY DEF Held, IdsOf
<1>6. Present(d)'
  BY <1>0, <1>1, <1>2, <1>4 DEF CallOK, Present, Spared, There, SameCall
<1>7. Kept(d)'
  <2>1. Written(d) \subseteq pend[d]
    BY <1>0, NextPairIs DEF Written, KnowledgeInv, AllHands, CallOK
  <2> QED
    BY <1>0, <1>1, <1>2, <1>4, <1>5, <2>1 DEF CallOK, Kept, Spared, SameCall
<1>8. TriedOK(d)'
  <2>1. Tried(d) \subseteq pend[d]
    BY <1>0, BatchIs DEF Tried
  <2>2. \A i : i \in disturbed' => Agree(work, i)'
    BY DEF Agree, Fits
  <2> QED
    BY <1>0, <1>2, <1>4, <1>5, <2>1, <2>2 DEF CallOK, TriedOK, Spared
<1> QED
  BY <1>3, <1>6, <1>7, <1>8 DEF CallOK

-----------------------------------------------------------------------------
(***************************************************************************)
(* A step of a call and what it has in its own hands                       *)
(***************************************************************************)

HoldOK(c) == Present(c) /\ Kept(c) /\ TriedOK(c)

\* A call with nothing in its hands.
LEMMA EmptyOK ==
  ASSUME NEW c \in Calls, pend'[c] = {}, id'[c] = NoId, pc'[c] # "tryembed"
  PROVE  HoldOK(c)'
<1>1. Held(c)' = {}
  BY DEF Held, IdsOf
<1>2. Written(c)' = {}
  BY DEF Written
<1>3. Tried(c)' = {}
  BY DEF Tried, Batch
<1> QED
  BY <1>1, <1>2, <1>3 DEF HoldOK, Present, Kept, TriedOK

LEMMA IdleOK ==
  ASSUME NEW c \in Calls, Hands(c)', pc'[c] \in Waiting
  PROVE  HoldOK(c)'
BY EmptyOK DEF Hands, Waiting

\* The call goes on with what it has, or part of it, and the contents stay.
LEMMA SameOK ==
  ASSUME NEW c \in Calls, HoldOK(c), op'[c] = op[c],
         disturbed \subseteq disturbed',
         \A i \in Held(c) : work'.chunk[i] = work.chunk[i],
         Held(c)' \subseteq Held(c), Written(c)' \subseteq Written(c),
         \A p \in Written(c) : p[1] \in Held(c),
         pc[c] # "change" \/ pc'[c] = "change", TriedOK(c)'
  PROVE  HoldOK(c)'
<1>1. Present(c)'
  BY DEF HoldOK, Present, There
<1>2. Kept(c)'
  BY DEF HoldOK, Kept
<1> QED
  BY <1>1, <1>2 DEF HoldOK

LEMMA WrittenHeld ==
  ASSUME TypeOK, AllHands, NEW c \in Calls
  PROVE  /\ Written(c) \subseteq pend[c] /\ Tried(c) \subseteq pend[c]
         /\ \A p \in pend[c] : p[1] \in Held(c) /\ p[1] \in IdsOf(pend[c])
BY NextPairIs, BatchIs DEF Written, Tried, Held, IdsOf

LEMMA SectionNext ==
  ASSUME NEW c \in Calls, pc'[c] \in {"file", "commit"}
  PROVE  Written(c)' = pend'[c] /\ Tried(c)' = {}
BY DEF Written, Tried

\* And the call itself has what it needs for its next step.
LEMMA HoldOwn ==
  ASSUME KnowledgeInv, NEW c \in Calls, CallStep(c)
  PROVE  HoldOK(c)'
<1>0. /\ TypeOK /\ AllHands /\ KnowledgeInv
      /\ HoldOK(c) /\ Hands(c)'
  BY HandsOwn DEF KnowledgeInv, AllHands, CallOK, HoldOK
<1>1. ASSUME GetConnection(c) PROVE HoldOK(c)'
  <2>1. pend'[c] = {} /\ id'[c] = NoId /\ pc'[c] # "tryembed"
    BY <1>1, <1>0 DEF GetConnection, AllHands, Hands, Waiting, End, Go, TypeOK
  <2> QED
    BY <2>1, EmptyOK
<1>2. ASSUME ReadSection(c) PROVE HoldOK(c)'
  <2>1. /\ pc[c] = "file" /\ UNCHANGED <<pend, op, work, disturbed>>
        /\ id[c] = NoId /\ op[c] = "index"
    BY <1>2, <1>0 DEF ReadSection, AllHands, Hands, args, store, history
  <2>2. Written(c) = pend[c]
    BY <2>1 DEF Written
  <2>3. CASE SectionDone(c) /\ UNCHANGED <<id, text>>
    <3>1. pc'[c] \in {"file", "commit"}
      BY <1>0, <2>1, <2>3, SectionDoneIs
    <3>2. Written(c)' = pend[c] /\ Held(c)' = Held(c) /\ TriedOK(c)'
      BY <2>1, <2>3, <3>1, SectionNext DEF Held, TriedOK
    <3> QED
      BY <1>0, <2>1, <2>2, <3>2, SameOK, WrittenHeld
  <2>4. CASE pc'[c] = "upsert" /\ (id'[c] = NoId \/ There(work, id'[c]))
    <3>1. Written(c)' = pend[c] /\ Tried(c)' = {}
      BY <2>1, <2>4 DEF Written, Tried
    <3>2. \A i \in Held(c)' : i \in Held(c) \/ There(work, i)
      BY <2>1, <2>4 DEF Held
    <3>3. Present(c)'
      BY <1>0, <2>1, <3>2 DEF HoldOK, Present, There
    <3>4. Kept(c)'
      BY <1>0, <2>1, <2>2, <3>1 DEF HoldOK, Kept
    <3> QED
      BY <3>1, <3>3, <3>4 DEF HoldOK, TriedOK
  <2>5. (SectionDone(c) /\ UNCHANGED <<id, text>>)
          \/ (pc'[c] = "upsert" /\ (id'[c] = NoId \/ There(work, id'[c])))
    <3> DEFINE found == Matching(NextSection(c))
               i == IF found = {} THEN NoId ELSE CHOOSE j \in found : TRUE
    <3>1. i = NoId \/ There(work, i)
      BY DEF Matching
    <3>2. (SectionDone(c) /\ UNCHANGED <<id, text>>)
            \/ (Go(c, "upsert") /\ id' = [id EXCEPT ![c] = i])
      BY <1>2 DEF ReadSection
    <3> HIDE DEF i
    <3> QED
      BY <1>0, <3>1, <3>2 DEF Go, TypeOK
  <2> QED
    BY <2>3, <2>4, <2>5
<1>3. ASSUME ChunkingFails(c) PROVE HoldOK(c)'
  <2>1. /\ pc[c] = "file" /\ UNCHANGED <<pend, id, op, work, disturbed>>
        /\ SectionDone(c)
    BY <1>3 DEF ChunkingFails, args, store, history
  <2>2. pc'[c] \in {"file", "commit"}
    BY <1>0, <2>1, SectionDoneIs
  <2>3. Written(c)' = pend[c] /\ Held(c)' = Held(c) /\ TriedOK(c)' /\ Written(c) = pend[c]
    BY <2>1, <2>2, SectionNext DEF Held, TriedOK, Written
  <2> QED
    BY <1>0, <2>1, <2>3, SameOK, WrittenHeld
<1>4. ASSUME Upsert(c) PROVE HoldOK(c)'
  <2> DEFINE i == UpsertId(c)
             x == <<i, {text[c]}>>
  <2>1. /\ pc[c] = "upsert" /\ op' = op /\ op[c] = "index" /\ id'[c] = NoId
        /\ disturbed \subseteq disturbed' /\ SectionDone(c)
    BY <1>4, <1>0 DEF Upsert, AllHands, Hands, TypeOK, args, Disturb
  <2>2. Written(c)' = pend'[c] /\ Tried(c)' = {} /\ Written(c) = pend[c]
    BY <1>0, <2>1, SectionDoneIs, SectionNext DEF Written
  <2>3. Held(c)' = IdsOf(pend'[c])
    BY <2>1 DEF Held
  <2>4. \A p \in pend[c] : p[1] \in Ids /\ p[1] \in Held(c)
    BY <1>0, PairIs, WrittenHeld
  <2>5. CASE Refused(c)
    <3>1. pend' = pend /\ work' = work
      BY <1>4, <2>5 DEF Upsert, Refused, Execute
    <3>2. Held(c)' \subseteq Held(c)
      BY <2>3, <3>1 DEF Held
    <3>3. TriedOK(c)' /\ Written(c)' = Written(c)
      BY <2>2, <3>1 DEF TriedOK
    <3> QED
      BY <1>0, <2>1, <2>2, <2>4, <3>1, <3>2, <3>3, SameOK
  <2>6. CASE ~Refused(c)
    <3>1. pend'[c] = {p \in pend[c] : p[1] # i} \cup {x}
      <4>1. pend' = [pend EXCEPT ![c] = {p \in @ : p[1] # UpsertId(c)}
                                           \cup {<<UpsertId(c), {text[c]}>>}]
        BY <1>4, <2>6 DEF Upsert, UpsertId, Refused
      <4> QED
        BY <1>0, <4>1 DEF TypeOK
    <3>2. \A j \in Ids \ {i} : work'.chunk[j] = work.chunk[j]
      <4>1. CASE Skips(c)
        BY <1>4, <4>1, UpsertSkips
      <4>2. CASE ~Skips(c)
        <5>1. work'.chunk = [work.chunk EXCEPT ![i] = {text[c]}]
          BY <1>4, <1>0, <4>2, UpsertDoes DEF Tab
        <5> QED
          BY <1>0, <5>1, Parts DEF TypeOK
      <4> QED
        BY <4>1, <4>2
    <3>3. i \in Ids /\ {text[c]} \in Contents
      BY <1>4, <1>0, UpsertIdIs DEF Upsert, AllHands, Hands, Contents
    <3>4. work'.chunk[i] = {text[c]} \/ i \in disturbed'
      <4>1. CASE Skips(c)
        <5>1. id[c] # NoId /\ ~There(work, id[c]) /\ i = id[c]
          BY <2>6, <4>1 DEF Skips, UpsertId
        <5>2. i \in Held(c)
          BY <5>1 DEF Held
        <5> QED
          BY <1>0, <2>1, <5>1, <5>2 DEF HoldOK, Present
      <4>2. CASE ~Skips(c)
        <5>1. work'.chunk = [work.chunk EXCEPT ![i] = {text[c]}]
          BY <1>4, <1>0, <4>2, UpsertDoes DEF Tab
        <5> QED
          BY <1>0, <3>3, <5>1, Parts DEF TypeOK
      <4> QED
        BY <4>1, <4>2
    <3>5. x[1] = i /\ x[2] = {text[c]}
      OBVIOUS
    <3>6. There(work', i) \/ i \in disturbed'
      BY <3>3, <3>4, Apart DEF There
    <3> HIDE DEF i, x
    <3>7. Present(c)'
      <4> SUFFICES ASSUME NEW p \in pend'[c]
                   PROVE  There(work', p[1]) \/ p[1] \in disturbed'
        BY <2>3 DEF Present, IdsOf
      <4>1. CASE p = x
        BY <3>5, <3>6, <4>1
      <4>2. CASE p \in pend[c] /\ p[1] # i
        BY <1>0, <2>1, <2>4, <3>2, <4>2 DEF HoldOK, Present, There
      <4> QED
        BY <3>1, <4>1, <4>2
    <3>8. Kept(c)'
      <4> SUFFICES ASSUME NEW p \in pend'[c]
                   PROVE  work'.chunk[p[1]] = p[2] \/ p[1] \in disturbed'
        BY <2>1, <2>2 DEF Kept
      <4>1. CASE p = x
        BY <3>4, <3>5, <4>1
      <4>2. CASE p \in pend[c] /\ p[1] # i
        BY <1>0, <2>1, <2>2, <2>4, <3>2, <4>2 DEF HoldOK, Kept
      <4> QED
        BY <3>1, <4>1, <4>2
    <3> QED
      BY <2>2, <3>7, <3>8 DEF HoldOK, TriedOK
  <2> QED
    BY <2>5, <2>6
<1>5. ASSUME CommitChunks(c) PROVE HoldOK(c)'
  <2>1. /\ pc[c] = "commit" /\ UNCHANGED <<pend, id, op, work, disturbed>>
        /\ pc'[c] \in {"relink", "embed"}
    BY <1>5, <1>0 DEF CommitChunks, args, locals, Commit, Go, TypeOK
  <2>2. CASE pc'[c] = "relink"
    BY <1>0, <2>2, IdleOK DEF Waiting
  <2>3. CASE pc'[c] = "embed"
    <3>1. Written(c)' = pend[c] /\ Held(c)' = Held(c) /\ TriedOK(c)' /\ Written(c) = pend[c]
      BY <2>1, <2>3 DEF Held, TriedOK, Tried, Written
    <3> QED
      BY <1>0, <2>1, <3>1, SameOK, WrittenHeld
  <2> QED
    BY <2>1, <2>2, <2>3
<1>6. ASSUME SelectMissing(c) PROVE HoldOK(c)'
  <2>1. CASE End(c)
    BY <1>0, <2>1, IdleOK DEF End, Go, TypeOK, Waiting
  <2>2. CASE ~End(c)
    <3>1. /\ pend' = [pend EXCEPT ![c] = {<<i, work.chunk[i]>> : i \in Bare}]
          /\ pc[c] = "select" /\ pc'[c] = "embed" /\ op[c] = "reindex"
          /\ id' = id /\ op' = op /\ work' = work
      BY <1>6, <1>0, <2>2 DEF SelectMissing, Go, TypeOK, args, store
    <3>2. id'[c] = NoId /\ Written(c)' = pend'[c] /\ Tried(c)' = {}
      BY <1>0, <3>1 DEF AllHands, Hands, Written, Tried
    <3>3. \A p \in pend'[c] : There(work, p[1]) /\ work.chunk[p[1]] = p[2]
      <4>1. pend'[c] = {<<i, work.chunk[i]>> : i \in Bare}
        BY <1>0, <3>1 DEF TypeOK
      <4> QED
        BY <4>1 DEF Bare
    <3>4. Present(c)'
      BY <3>1, <3>2, <3>3 DEF Present, Held, IdsOf
    <3>5. Kept(c)'
      BY <3>1, <3>2, <3>3 DEF Kept
    <3> QED
      BY <3>2, <3>4, <3>5 DEF HoldOK, TriedOK
  <2> QED
    BY <2>1, <2>2
<1>7. ASSUME StoreVectors(c) PROVE HoldOK(c)'
  <2>1. PICK ok \in SUBSET Batch(c) :
          /\ IF ok = {} THEN UNCHANGED store ELSE Execute(WithVectors(work, ok))
          /\ unembedded' = (unembedded \cup IdsOf(Batch(c))) \ IdsOf(ok)
    BY <1>7 DEF StoreVectors
  <2>2. ok \in SUBSET Pairs /\ ok \subseteq pend[c]
    BY <2>1, <1>0, BatchIs DEF TypeOK
  <2>3. /\ UNCHANGED <<pend, id, op, disturbed>>
        /\ pc[c] = "embed" /\ pc'[c] = "vcommit"
    BY <1>7, <1>0 DEF StoreVectors, Go, TypeOK, args
  <2>4. work'.chunk = work.chunk
    BY <1>0, <2>1, <2>2, VectorsDo DEF Tab, store
  <2>5. /\ Written(c)' = pend[c] /\ Held(c)' = Held(c) /\ Written(c) = pend[c]
        /\ Tried(c)' = Batch(c) /\ op[c] # "delete"
    BY <1>0, <2>3 DEF Held, Tried, Written, Batch, AllHands, Hands
  <2>6. TriedOK(c)'
    <3> SUFFICES ASSUME NEW p \in Batch(c) PROVE Agree(work, p[1])'
      BY <2>5 DEF TriedOK
    <3>1. p \in pend[c] /\ p[1] \in Ids
      BY <1>0, BatchIs, PairIs
    <3>2. CASE p[1] \notin IdsOf(ok)
      <4>1. p[1] \in IdsOf(Batch(c))
        BY DEF IdsOf
      <4> QED
        BY <2>1, <3>2, <4>1 DEF Agree, Fits
    <3>3. CASE p[1] \in IdsOf(ok)
      <4>1. <<p[1], Said(ok, p[1])>> \in ok
        BY <2>2, <3>3, SaidIs
      <4>2. work'.vec[p[1]] = Said(ok, p[1])
        <5>1. ok # {}
          BY <4>1
        <5> QED
          BY <1>0, <2>1, <2>2, <3>1, <3>3, <5>1, VectorsDo DEF Tab, VecOf
      <4>3. work.chunk[p[1]] = Said(ok, p[1]) \/ p[1] \in disturbed
        BY <1>0, <2>2, <2>5, <4>1 DEF HoldOK, Kept
      <4> QED
        BY <2>3, <2>4, <4>2, <4>3 DEF Agree, Fits
    <3> QED
      BY <3>2, <3>3
  <2> QED
    BY <1>0, <2>3, <2>4, <2>5, <2>6, SameOK, WrittenHeld
<1>8. ASSUME CommitVectors(c) PROVE HoldOK(c)'
  <2>1. pc[c] = "vcommit" /\ UNCHANGED <<work, disturbed>>
    BY <1>8 DEF CommitVectors, Commit, history
  <2>2. CASE pc'[c] \in Waiting
    BY <1>0, <2>2, IdleOK
  <2>3. CASE pc'[c] = "embed" /\ pend'[c] \subseteq pend[c] /\ UNCHANGED <<id, op>>
    <3>1. Written(c)' = pend'[c] /\ TriedOK(c)' /\ Written(c) = pend[c]
      BY <2>1, <2>3 DEF TriedOK, Tried, Written
    <3>2. Held(c)' \subseteq Held(c)
      BY <2>3 DEF Held, IdsOf
    <3> QED
      BY <1>0, <2>1, <2>3, <3>1, <3>2, SameOK, WrittenHeld
  <2> QED
    BY <1>8, <1>0, <2>2, <2>3 DEF CommitVectors, Go, TypeOK, Waiting, args
<1>9. ASSUME ReportVectors(c) PROVE HoldOK(c)'
  <2>1. pc'[c] \in Waiting
    BY <1>9, <1>0 DEF ReportVectors, End, Go, TypeOK, Waiting
  <2> QED
    BY <1>0, <2>1, IdleOK
<1>10. ASSUME ClientRaises(c) PROVE HoldOK(c)'
  <2>1. pc'[c] \in Waiting
    BY <1>10, <1>0 DEF ClientRaises, End, Go, TypeOK, Waiting
  <2> QED
    BY <1>0, <2>1, IdleOK
<1>11. ASSUME ReadLinks(c) PROVE HoldOK(c)'
  <2>1. pc'[c] \in Waiting
    BY <1>11, <1>0 DEF ReadLinks, End, Go, TypeOK, Waiting
  <2> QED
    BY <1>0, <2>1, IdleOK
<1>12. ASSUME InsertLinks(c) PROVE HoldOK(c)'
  <2>1. pc'[c] \in Waiting
    BY <1>12, <1>0 DEF InsertLinks, End, Go, TypeOK, Waiting
  <2> QED
    BY <1>0, <2>1, IdleOK
<1>13. ASSUME LinkRaises(c) PROVE HoldOK(c)'
  <2>1. pc'[c] \in Waiting
    BY <1>13, <1>0 DEF LinkRaises, End, Go, TypeOK, Waiting
  <2> QED
    BY <1>0, <2>1, IdleOK
<1>14. ASSUME CommitLinks(c) PROVE HoldOK(c)'
  <2>1. pc'[c] \in Waiting
    BY <1>14, <1>0 DEF CommitLinks, End, Go, TypeOK, Waiting
  <2> QED
    BY <1>0, <2>1, IdleOK
<1>15. ASSUME Declines(c) PROVE HoldOK(c)'
  <2>1. pc'[c] \in Waiting
    BY <1>15, <1>0 DEF Declines, End, Go, TypeOK, Waiting
  <2> QED
    BY <1>0, <2>1, IdleOK
<1>16. ASSUME SelectRows(c) PROVE HoldOK(c)'
  <2>1. PICK S \in SUBSET Pairs :
          /\ pend' = [pend EXCEPT ![c] = S]
          /\ todo' = [todo EXCEPT ![c] = S]
          /\ op[c] \in {"append", "update"} => IdsOf(S) \subseteq Matching(key[c])
    BY <1>16, <1>0, RowsAre
  <2>2. pend'[c] = S /\ todo'[c] = S
    BY <1>0, <2>1 DEF TypeOK
  <2>3. /\ pc[c] = "select" /\ pc'[c] = "change" /\ UNCHANGED <<id, op, work>>
        /\ op[c] \in {"write", "append", "update"}
    BY <1>16, <1>0 DEF SelectRows, Go, TypeOK, args, store
  <2>4. id'[c] = NoId
    BY <1>0, <2>3 DEF AllHands, Hands
  <2>5. Written(c)' = {} /\ Tried(c)' = {}
    BY <2>2, <2>3 DEF Written, Tried
  <2>6. Held(c)' = IdsOf(S)
    BY <2>2, <2>4 DEF Held
  <2>7. Present(c)'
    BY <2>1, <2>3, <2>6 DEF Present, Matching, There
  <2> QED
    BY <2>5, <2>7 DEF HoldOK, Kept, TriedOK
<1>17. ASSUME Change(c) PROVE HoldOK(c)'
  <2> DEFINE p == NextPair(c)
             i == p[1]
  <2>1. /\ p \in todo[c] /\ p \in pend[c] /\ i \in Ids /\ p[2] \in Contents
        /\ pc[c] = "change" /\ pc'[c] = "tryembed"
        /\ UNCHANGED <<id, op, pend, todo, unembedded>>
        /\ disturbed \subseteq disturbed'
    BY <1>17, <1>0, NextPairIs DEF Change, Go, TypeOK, Disturb, args, locals
  <2>2. op[c] # "delete" /\ i \in Held(c)
    BY <1>0, <2>1, WrittenHeld DEF AllHands, Hands
  <2>3. /\ Written(c) = pend[c] \ todo[c] /\ Written(c)' = (pend[c] \ todo[c]) \cup {p}
        /\ Tried(c) = pend[c] \ todo[c] /\ Tried(c)' = pend[c] \ todo[c]
        /\ Held(c)' = Held(c)
    BY <2>1 DEF Written, Tried, Held, NextPair
  <2>4. \A q \in pend[c] : q[1] \in Ids /\ q[1] \in Held(c) /\ (q[1] = i => q = p)
    BY <1>0, <2>1, PairIs, WrittenHeld DEF AllHands, Hands
  <2>5. /\ \A j \in Ids \ {i} : work'.chunk[j] = work.chunk[j] /\ work'.vec[j] = work.vec[j]
        /\ work'.chunk[i] = p[2] \/ i \in disturbed'
    <3>1. CASE op[c] = "write" \/ There(work, i)
      <4>1. work'.chunk = [work.chunk EXCEPT ![i] = p[2]] /\ work'.vec = work.vec
        BY <1>17, <1>0, <3>1, ChangeDoes DEF Tab
      <4>2. work.chunk \in [Ids -> Contents \cup {NoChunk}]
        BY <1>0, Parts DEF TypeOK
      <4> HIDE DEF p, i
      <4> QED
        BY <2>1, <4>1, <4>2
    <3>2. CASE ~(op[c] = "write" \/ There(work, i))
      <4>1. work' = work
        BY <1>17, <3>2 DEF Change, Execute
      <4>2. i \in disturbed
        BY <1>0, <2>2, <3>2 DEF HoldOK, Present
      <4> QED
        BY <2>1, <4>1, <4>2
    <3> QED
      BY <3>1, <3>2
  <2>6. There(work', i) \/ i \in disturbed'
    BY <2>1, <2>5, Apart DEF There
  <2>7. op[c] = "write" => Held(c) = {i}
    <3>1. op[c] = "write" => pend[c] = {p}
      BY <1>0, <2>1 DEF AllHands, Hands
    <3>2. id[c] = NoId
      BY <1>0, <2>1 DEF AllHands, Hands
    <3> QED
      BY <3>1, <3>2 DEF Held, IdsOf
  <2>8. Held(c) \subseteq Ids
    BY <1>0, HeldIs
  <2> HIDE DEF p, i
  <2>9. Present(c)'
    <3> SUFFICES ASSUME NEW j \in Held(c), j # i
                 PROVE  There(work', j) \/ j \in disturbed' \/ op[c] = "delete"
      BY <2>1, <2>3, <2>6 DEF Present
    <3>1. op[c] # "write"
      BY <2>7
    <3> QED
      BY <1>0, <2>1, <2>5, <2>8, <3>1 DEF HoldOK, Present, There
  <2>10. Kept(c)'
    <3> SUFFICES ASSUME NEW q \in (pend[c] \ todo[c]) \cup {p}
                 PROVE  work'.chunk[q[1]] = q[2] \/ q[1] \in disturbed'
      BY <2>1, <2>2, <2>3 DEF Kept
    <3>1. CASE q = p
      BY <2>5, <3>1 DEF i
    <3>2. CASE q \in pend[c] \ todo[c]
      <4>1. q[1] # i /\ q[1] \in Ids
        BY <2>1, <2>4, <3>2
      <4>2. work.chunk[q[1]] = q[2] \/ q[1] \in disturbed
        BY <1>0, <2>2, <2>3, <3>2 DEF HoldOK, Kept
      <4> QED
        BY <2>1, <2>5, <4>1, <4>2
    <3> QED
      BY <3>1, <3>2
  <2>11. TriedOK(c)'
    <3> SUFFICES ASSUME NEW q \in pend[c] \ todo[c]
                 PROVE  Agree(work, q[1])'
      BY <2>3 DEF TriedOK
    <3>1. q[1] # i /\ q[1] \in Ids
      BY <2>1, <2>4
    <3>2. Agree(work, q[1])
      BY <1>0, <2>3 DEF HoldOK, TriedOK
    <3> QED
      BY <2>1, <2>5, <3>1, <3>2 DEF Agree, Fits, There
  <2> QED
    BY <2>9, <2>10, <2>11 DEF HoldOK
<1>18. ASSUME TryEmbed(c) PROVE HoldOK(c)'
  <2> DEFINE p == NextPair(c)
             i == p[1]
  <2>1. /\ p \in todo[c] /\ p \in pend[c] /\ i \in Ids /\ p[2] \in Contents
        /\ {p} \in SUBSET Pairs
        /\ pc[c] = "tryembed" /\ UNCHANGED <<id, op, pend, disturbed>>
        /\ todo'[c] = todo[c] \ {p}
        /\ (pc'[c] = "ccommit" /\ todo[c] = {p}) \/ pc'[c] = "change"
    BY <1>18, <1>0, NextPairIs DEF TryEmbed, Go, TypeOK, args
  <2>2. op[c] # "delete" /\ todo[c] \subseteq pend[c] /\ Held(c)' = Held(c)
    BY <1>0, <2>1 DEF AllHands, Hands, Held
  <2>3. /\ Written(c) = (pend[c] \ todo[c]) \cup {p}
        /\ Written(c)' = (pend[c] \ todo[c]) \cup {p}
        /\ Tried(c) = pend[c] \ todo[c] /\ Tried(c)' = (pend[c] \ todo[c]) \cup {p}
    <3> HIDE DEF p
    <3>1. pend[c] \ (todo[c] \ {p}) = (pend[c] \ todo[c]) \cup {p}
      BY <2>1, <2>2
    <3>2. todo[c] = {p} => pend[c] = (pend[c] \ todo[c]) \cup {p}
      BY <2>1
    <3> QED
      BY <2>1, <2>2, <3>1, <3>2 DEF Written, Tried, p
  <2>4. work'.chunk = work.chunk
    BY <1>18, <1>0, <2>1, VectorsDo DEF TryEmbed, Tab, store
  <2>5. Fits(work', i, unembedded', disturbed')
    <3>1. CASE Execute(WithVectors(work, {p}))
      <4>1. IdsOf({p}) = {i} /\ Said({p}, i) = p[2]
        BY DEF IdsOf, Said
      <4>2. work'.vec[i] = p[2]
        BY <1>0, <2>1, <3>1, <4>1, VectorsDo DEF Tab, VecOf
      <4>3. work.chunk[i] = p[2] \/ i \in disturbed
        BY <1>0, <2>2, <2>3 DEF HoldOK, Kept
      <4> QED
        BY <2>1, <2>4, <4>2, <4>3 DEF Fits
    <3>2. CASE unembedded' = unembedded \cup {i}
      BY <3>2 DEF Fits
    <3> QED
      BY <1>18, <3>1, <3>2 DEF TryEmbed
  <2>6. TriedOK(c)'
    <3> SUFFICES ASSUME NEW q \in pend[c] \ todo[c]
                 PROVE  Agree(work, q[1])'
      BY <2>3, <2>5 DEF TriedOK, Agree
    <3>1. q[1] \in Ids
      BY <1>0, PairIs
    <3>2. Agree(work, q[1]) /\ Spared(q[1])
      BY <1>18, <1>0, <2>3, <3>1, TryEmbedSpare DEF HoldOK, TriedOK
    <3> QED
      BY <3>2 DEF Spared, Agree, Fits
  <2>7. \A q \in pend[c] : q[1] \in Held(c)
    BY <1>0, WrittenHeld
  <2> HIDE DEF p
  <2> QED
    BY <1>0, <2>1, <2>2, <2>3, <2>4, <2>6, <2>7, SameOK
<1>19. ASSUME Delete(c) PROVE HoldOK(c)'
  <2> DEFINE S == Matching(key[c])
  <2>1. /\ pend'[c] = S \X {{}} /\ pc'[c] = "ccommit" /\ op' = op /\ op[c] = "delete"
    BY <1>19, <1>0 DEF Delete, Go, TypeOK, args
  <2>2. \A p \in pend'[c] : work'.chunk[p[1]] = NoChunk
    <3>1. work'.chunk = [i \in Ids |-> IF i \in S THEN NoChunk ELSE work.chunk[i]]
      BY <1>19, <1>0, DeleteDoes DEF Tab
    <3>2. \A p \in pend'[c] : p[1] \in S /\ p[1] \in Ids
      BY <2>1, MatchingIs
    <3> QED
      BY <3>1, <3>2
  <2>3. Written(c)' = pend'[c] /\ Tried(c)' = pend'[c]
    BY <2>1 DEF Written, Tried
  <2>4. Present(c)'
    BY <2>1 DEF Present
  <2>5. Kept(c)'
    BY <2>1, <2>2, <2>3 DEF Kept
  <2>6. TriedOK(c)'
    BY <2>2, <2>3 DEF TriedOK, Agree, Fits, There
  <2> QED
    BY <2>4, <2>5, <2>6 DEF HoldOK
<1>20. ASSUME CommitChange(c) PROVE HoldOK(c)'
  <2>1. pc'[c] \in Waiting
    BY <1>20, <1>0 DEF CommitChange, End, Go, TypeOK, Waiting
  <2> QED
    BY <1>0, <2>1, IdleOK
<1>21. ASSUME CountHits(c) PROVE HoldOK(c)'
  <2>1. pc[c] = "select" /\ pc'[c] \in Waiting
    BY <1>21, <1>0 DEF CountHits, End, Go, TypeOK, Waiting
  <2> QED
    BY <1>0, <2>1, IdleOK
<1>22. ASSUME CommitHits(c) PROVE HoldOK(c)'
  <2>1. pc'[c] \in Waiting
    BY <1>22, <1>0 DEF CommitHits, End, Go, TypeOK, Waiting
  <2> QED
    BY <1>0, <2>1, IdleOK
<1> QED
  BY <1>1, <1>2, <1>3, <1>4, <1>5, <1>6, <1>7, <1>8, <1>9, <1>10, <1>11, <1>12, <1>13,
     <1>14, <1>15, <1>16, <1>17, <1>18, <1>19, <1>20, <1>21, <1>22 DEF CallStep

-----------------------------------------------------------------------------
(***************************************************************************)
(* The invariant                                                           *)
(***************************************************************************)

LEMMA CallKeepsInv ==
  ASSUME KnowledgeInv, NEW c \in Calls, CallStep(c), TypeOK'
  PROVE  KnowledgeInv'
<1>1. StoreOK'
  BY TablesOwn
<1>2. CallOK(c)'
  BY HandsOwn, HoldOwn DEF KnowledgeInv, AllHands, CallOK, HoldOK
<1>3. \A d \in Calls \ {c} : CallOK(d)'
  BY OtherCallsOK
<1> QED
  BY <1>1, <1>2, <1>3 DEF KnowledgeInv, StoreOK

\* Where neither tables nor histories nor what the calls hold change, all is as it was.
LEMMA QuietKeeps ==
  ASSUME KnowledgeInv, pend' = pend, UNCHANGED <<store, said, disturbed, unembedded>>
  PROVE  /\ StoreOK'
         /\ \A d \in Calls : SameCall(d) => CallOK(d)'
<1>1. StoreOK'
  <2>1. InHands' = InHands
    BY DEF InHands
  <2> HIDE DEF InHands
  <2> QED
    BY <2>1 DEF KnowledgeInv, StoreOK, TablesOK, store
<1>2. ASSUME NEW d \in Calls, SameCall(d) PROVE CallOK(d)'
  <2>1. /\ Hands(d)' /\ Held(d)' = Held(d)
        /\ Written(d)' = Written(d) /\ Tried(d)' = Tried(d)
        /\ pc'[d] = pc[d] /\ op'[d] = op[d] /\ work' = work /\ disturbed' = disturbed
        /\ unembedded' = unembedded
    BY <1>2, SameHands DEF KnowledgeInv, CallOK, SameCall, store
  <2>2. Present(d) /\ Kept(d) /\ TriedOK(d)
    BY DEF KnowledgeInv, CallOK
  <2>3. Present(d)'
    BY <2>1, <2>2 DEF Present, There
  <2>4. Kept(d)'
    BY <2>1, <2>2 DEF Kept
  <2>5. TriedOK(d)'
    BY <2>1, <2>2 DEF TriedOK, Agree
  <2> QED
    BY <2>1, <2>3, <2>4, <2>5 DEF CallOK
<1> QED
  BY <1>1, <1>2

\* Every step keeps the invariant.
LEMMA KnowledgeInvStep == KnowledgeInv /\ [Next]_vars => KnowledgeInv'
<1> SUFFICES ASSUME KnowledgeInv, [Next]_vars PROVE KnowledgeInv'
  OBVIOUS
<1>1. TypeOK /\ AllHands
  BY DEF KnowledgeInv, AllHands, CallOK
<1>2. TypeOK' /\ AllHands'
  BY <1>1, TypeStep, HandsStep
<1>3. ASSUME NEW c \in Calls, CallStep(c) PROVE KnowledgeInv'
  BY <1>2, <1>3, CallKeepsInv
<1>4. ASSUME NEW c \in Calls, Arrives(c) PROVE KnowledgeInv'
  <2>1. /\ \A d \in Calls \ {c} : SameCall(d)
        /\ pend' = pend /\ id' = id /\ pc[c] = "new" /\ pc'[c] = "get"
        /\ UNCHANGED <<store, used, said, disturbed, unembedded>>
    BY <1>1, <1>4, ArriveSame
  <2>2. CallOK(c)'
    BY <1>2, <2>1, IdleOK DEF AllHands, HoldOK, CallOK, Waiting
  <2> QED
    BY <1>2, <2>1, <2>2, QuietKeeps DEF KnowledgeInv, StoreOK
<1>5. ASSUME Edit \/ UNCHANGED vars PROVE KnowledgeInv'
  BY <1>1, <1>2, <1>5, QuietSame, QuietKeeps DEF KnowledgeInv, StoreOK
<1>6. ASSUME Crash PROVE KnowledgeInv'
  <2>1. /\ db' = db /\ work' = db /\ UNCHANGED <<used, said, disturbed>>
        /\ unembedded' = unembedded \cup InHands
        /\ \A d \in Calls : /\ pend'[d] = {} /\ id'[d] = NoId /\ todo'[d] = {}
                            /\ pc'[d] \in {"new", "over"} /\ op'[d] = "none"
    BY <1>1, <1>6, CrashDoes DEF InHands
  <2>2. \A d \in Calls : CallOK(d)'
    BY <1>2, <2>1, EmptyOK DEF AllHands, HoldOK, CallOK
  <2>3. Sound(db, said, disturbed, unembedded, InHands)
    BY DEF KnowledgeInv, TablesOK
  <2>4. Sound(db, said', disturbed', unembedded', InHands')
    <3> HIDE DEF InHands
    <3>1. \A i \in InHands : i \in InHands' \/ Fits(db, i, unembedded', disturbed')
      BY <2>1 DEF Fits
    <3> QED
      BY <2>1, <2>3, <3>1, SoundKeeps
  <2>5. StoreOK'
    BY <2>1, <2>4 DEF StoreOK, TablesOK
  <2> QED
    BY <1>2, <2>2, <2>5 DEF KnowledgeInv, StoreOK
<1> QED
  BY <1>3, <1>4, <1>5, <1>6, NextSteps

\* What there may be at first: one row, or none.
FirstTable(k, x, v) ==
  [key |-> [i \in Ids |-> IF i = FirstId /\ x # NoChunk THEN k ELSE Note],
   chunk |-> [i \in Ids |-> IF i = FirstId THEN x ELSE NoChunk],
   vec |-> [i \in Ids |-> IF i = FirstId THEN v ELSE NoVector],
   edges |-> {}]

\* The row there may be at first has the shape Init gives it.
LEMMA FirstTables ==
  ASSUME Init
  PROVE  \E k \in Sections \cup {Note}, x \in Contents \cup {NoChunk},
            v \in Contents \cup {NoVector} :
           /\ db = FirstTable(k, x, v)
           /\ x = NoChunk => v = NoVector
           /\ used = (IF x = NoChunk THEN {} ELSE {FirstId})
           /\ unembedded = (IF x \in {NoChunk, v} THEN {} ELSE {FirstId})
<1>1. FirstSection \in Sections
  BY KnowledgeConstants DEF FirstSection
<1>2. \A t \in Texts : {t} \in Contents
  BY DEF Contents
<1>3. PICK k \in {FirstSection, Note}, x \in {NoChunk} \cup {{t} : t \in Texts},
           v \in {NoVector} \cup {{t} : t \in Texts} :
        /\ x = NoChunk => v = NoVector
        /\ db = FirstTable(k, x, v)
        /\ used = (IF x = NoChunk THEN {} ELSE {FirstId})
        /\ unembedded = (IF x \in {NoChunk, v} THEN {} ELSE {FirstId})
  BY DEF Init, FirstTable
<1>4. /\ k \in Sections \cup {Note}
      /\ x \in Contents \cup {NoChunk} /\ v \in Contents \cup {NoVector}
  BY <1>1, <1>2, <1>3
<1> QED
  BY <1>3, <1>4

\* The invariant holds at first.
LEMMA KnowledgeInvInit == Init => KnowledgeInv
<1> SUFFICES ASSUME Init PROVE KnowledgeInv
  OBVIOUS
<1>0. PICK k \in Sections \cup {Note}, x \in Contents \cup {NoChunk},
           v \in Contents \cup {NoVector} :
        /\ db = FirstTable(k, x, v)
        /\ x = NoChunk => v = NoVector
        /\ used = (IF x = NoChunk THEN {} ELSE {FirstId})
        /\ unembedded = (IF x \in {NoChunk, v} THEN {} ELSE {FirstId})
  BY FirstTables
<1>1. db \in Tables
  BY <1>0 DEF FirstTable, Tables
<1>2. /\ \A i \in Ids : db.chunk[i] = (IF i = FirstId THEN x ELSE NoChunk)
      /\ \A i \in Ids : db.vec[i] = (IF i = FirstId THEN v ELSE NoVector)
  BY <1>0 DEF FirstTable
<1>3. FirstId \in Ids
  BY KnowledgeConstants DEF FirstId
<1>4. TypeOK
  <2>0. edits \in 0..MaxEdits /\ crashes \in 0..MaxCrashes
    BY KnowledgeConstants DEF Init
  <2>1. /\ disk \in [Sections -> Texts \cup {NoText}] /\ intx \in BOOLEAN /\ work = db
        /\ said \in [Ids -> Contents \cup {NoChunk, Unsaid}]
        /\ raced \in BOOLEAN /\ disturbed \subseteq Ids
    BY KnowledgeConstants DEF Init
  <2>2. /\ op \in [Calls -> Ops] /\ pc \in [Calls -> Active \cup {"new", "over"}]
        /\ mode \in [Calls -> {"skip", "update"}] /\ key \in [Calls -> Sections \cup {Note}]
        /\ todo \in [Calls -> (SUBSET Sections) \cup (SUBSET Pairs)]
        /\ id \in [Calls -> Ids \cup {NoId}] /\ text \in [Calls -> Texts \cup {NoText}]
        /\ pend \in [Calls -> SUBSET Pairs] /\ missing \in [Calls -> SUBSET Ids]
        /\ links \in [Calls -> SUBSET (Ids \X Ids)] /\ err \in [Calls -> BOOLEAN]
    BY DEF Init, Ops, Active
  <2>3. used \subseteq Ids /\ unembedded \subseteq Ids
    BY <1>0, <1>3
  <2> QED
    BY <1>1, <2>0, <2>1, <2>2, <2>3 DEF TypeOK
<1>5. \A c \in Calls : CallOK(c)
  <2> SUFFICES ASSUME NEW c \in Calls PROVE CallOK(c)
    OBVIOUS
  <2>1. pc[c] = "new" /\ pend[c] = {} /\ id[c] = NoId /\ op[c] = "none"
    BY DEF Init
  <2>2. Held(c) = {} /\ Written(c) = {} /\ Tried(c) = {}
    BY <2>1 DEF Held, Written, Tried, IdsOf
  <2> QED
    BY <2>1, <2>2 DEF CallOK, Hands, Present, Kept, TriedOK
<1>6. Sound(db, said, disturbed, unembedded, InHands)
  <2>1. \A i \in Ids : said[i] = Unsaid
    BY DEF Init
  <2>2. \A i \in Ids : db.vec[i] # NoVector => There(db, i)
    BY <1>0, <1>2 DEF There
  <2>3. \A i \in Ids : Fits(db, i, unembedded, disturbed)
    BY <1>0, <1>2 DEF Fits, There
  <2> QED
    BY <2>1, <2>2, <2>3 DEF Sound
<1>7. TablesOK(db) /\ TablesOK(work)
  BY <1>6 DEF TablesOK, Init
<1> QED
  BY <1>4, <1>5, <1>7 DEF KnowledgeInv

\* The invariant holds in every state of every run of the knowledge base.
THEOREM KnowledgeInvariant == Spec => []KnowledgeInv
<1>1. Init => KnowledgeInv
  BY KnowledgeInvInit
<1>2. KnowledgeInv /\ [Next]_vars => KnowledgeInv'
  BY KnowledgeInvStep
<1> QED
  BY <1>1, <1>2, PTL DEF Spec

\* Every variable of the knowledge base keeps its type, and without a transaction the
\* connection sees what is committed.
THEOREM TypeCorrect == Spec => []TypeOK
<1>1. KnowledgeInv => TypeOK
  BY DEF KnowledgeInv
<1> QED
  BY <1>1, KnowledgeInvariant, PTL

\* However index(), reindex() and the calls on single chunks interleave, fail or are
\* killed, a vector is without its chunk only where a call deleted or rolled back the
\* chunk while another held it.
THEOREM OrphanCorrect == Spec => []OrphanVectors
<1>1. KnowledgeInv => OrphanVectors
  BY DEF KnowledgeInv, TablesOK, Sound, OrphanVectors
<1> QED
  BY <1>1, KnowledgeInvariant, PTL

\* What a call reported as stored or deleted is stored or deleted until another change
\* of the chunk begins, unless calls collided on it.
THEOREM SaidCorrect == Spec => []StoredAsSaid
<1>1. KnowledgeInv => StoredAsSaid
  BY DEF KnowledgeInv, TablesOK, Sound, StoredAsSaid
<1> QED
  BY <1>1, KnowledgeInvariant, PTL

\* A chunk has the vector of its content, unless its embedding failed or was cut off, a
\* call is at work on it, or calls collided on it.
THEOREM EmbeddedCorrect == Spec => []Embedded
<1>1. KnowledgeInv => Embedded
  BY DEF KnowledgeInv, TablesOK, Sound, Fits, InHands, Held, Embedded
<1> QED
  BY <1>1, KnowledgeInvariant, PTL
-----------------------------------------------------------------------------
(***************************************************************************)
(* Reports                                                                 *)
(***************************************************************************)

\* No section has two chunks.
OneRow(t) ==
  \A i, j \in Ids :
    There(t, i) /\ There(t, j) /\ t.key[i] = t.key[j] /\ t.key[i] \in Sections => i = j

\* And an id that was never given out is no section's.
RowsOK(t, u) ==
  /\ OneRow(t)
  /\ \A i \in Ids \ u : t.key[i] = Note

\* The section has its chunk, with what the file says.
Done(s) ==
  disk[s] # NoText => \E i \in Ids : work.key[i] = s /\ work.chunk[i] = {disk[s]}

\* What c has done so far, if it has nothing to complain of.
SectionsDone(c) ==
  LET left == IF pc[c] \in {"file", "upsert"} THEN todo[c] ELSE {}
  IN op[c] = "index" /\ pc[c] \in Active \ {"get"} => \A s \in Sections \ left : Done(s)

VectorsDone(c) ==
  op[c] = "reindex" =>
    /\ pc[c] = "embed"   => Bare \subseteq IdsOf(pend[c])
    /\ pc[c] = "vcommit" => Bare \subseteq IdsOf(pend[c] \ Batch(c))
    /\ pc[c] = "report"  => Bare = {}

\* What c has read is so still, and what it reports on is committed.
Current(c) ==
  /\ pc[c] = "upsert" =>
       /\ text[c] = disk[NextSection(c)]
       /\ IF id[c] = NoId THEN Matching(NextSection(c)) = {}
            ELSE id[c] \in Matching(NextSection(c))
  /\ op[c] = "reindex" /\ pc[c] \in {"embed", "vcommit", "report"} =>
       Bare \subseteq missing[c]
  /\ pc[c] = "report" => db = work
  /\ pc[c] = "link" => links[c] = Edges(work)
  /\ pc[c] = "lcommit" => Edges(work) \subseteq work.edges
  /\ op[c] = "write" /\ pc[c] \in {"change", "tryembed"} =>
       \A p \in pend[c] : work.key[p[1]] = Note

Mine(c) == Current(c) /\ (err[c] \/ (SectionsDone(c) /\ VectorsDone(c)))

Single == \A c, d \in Calls : pc[c] \in Active /\ pc[d] \in Active => c = d

ReportInv ==
  ~raced =>
    /\ Single
    /\ RowsOK(db, used) /\ RowsOK(work, used)
    /\ \A c \in Calls : Mine(c)
-----------------------------------------------------------------------------
LEMMA RowsKept ==
  ASSUME NEW t, NEW r, NEW u, NEW v, RowsOK(t, u), r.key = t.key, u \subseteq v,
         \A i \in Ids : There(r, i) => There(t, i)
  PROVE  RowsOK(r, v)
BY DEF RowsOK, OneRow

\* The tables after a step that gives no chunk to a section.
LEMMA RowsSame ==
  ASSUME TypeOK, RowsOK(db, used), RowsOK(work, used), used \subseteq used',
         db' \in {db, work},
         \/ work' \in {db, work}
         \/ work'.key = work.key /\ \A i \in Ids : There(work', i) => There(work, i)
  PROVE  RowsOK(db', used') /\ RowsOK(work', used')
<1>1. RowsOK(db', used')
  BY RowsKept
<1>2. RowsOK(work', used')
  BY RowsKept
<1> QED
  BY <1>1, <1>2

\* What index() puts in: its section had no chunk, or this one.
LEMMA RowsUpsert ==
  ASSUME TypeOK, AllHands, NEW c \in Calls, Upsert(c), Current(c),
         RowsOK(db, used), RowsOK(work, used)
  PROVE  RowsOK(db', used') /\ RowsOK(work', used')
<1> DEFINE i == UpsertId(c)
           s == NextSection(c)
<1>1. i \in Ids /\ s \in Sections /\ Note \notin Sections
  BY UpsertIdIs, NextSectionIs, KnowledgeConstants DEF Upsert
<1>2. used' = used \cup {i} /\ db' = db
  BY DEF Upsert, Execute, UpsertId
<1>3. RowsOK(db', used')
  BY <1>2, RowsKept
<1>4. CASE Skips(c)
  BY <1>2, <1>3, <1>4, UpsertSkips, RowsKept
<1>5. CASE ~Skips(c)
  <2>1. /\ work'.key = [work.key EXCEPT ![i] = s]
        /\ work'.chunk = [work.chunk EXCEPT ![i] = {text[c]}]
    BY <1>5, UpsertDoes DEF Tab
  <2>2. \A j \in Matching(s) : j = i
    BY <1>1, <1>5 DEF Current, RowsOK, OneRow, Matching, Skips, Refused, UpsertId, Upsert
  <2>3. /\ work.key \in [Ids -> Sections \cup {Note}]
        /\ work.chunk \in [Ids -> Contents \cup {NoChunk}]
    BY Parts DEF TypeOK
  <2> HIDE DEF i, s
  <2>4. \A j \in Ids \ {i} : /\ work'.key[j] = work.key[j]
                             /\ There(work', j) <=> There(work, j)
    BY <2>1, <2>3 DEF There
  <2>5. work'.key[i] = s
    BY <1>1, <2>1, <2>3
  <2>6. \A j \in Ids \ {i} : There(work', j) => work'.key[j] # s
    BY <2>2, <2>4 DEF Matching
  <2>7. OneRow(work')
    BY <2>4, <2>5, <2>6 DEF RowsOK, OneRow
  <2>8. \A j \in Ids \ used' : work'.key[j] = Note
    BY <1>2, <2>4 DEF RowsOK
  <2> QED
    BY <1>3, <2>7, <2>8 DEF RowsOK
<1> QED
  BY <1>4, <1>5

\* What write() puts in belongs to no section.
LEMMA RowsChange ==
  ASSUME TypeOK, AllHands, NEW c \in Calls, Change(c), Current(c),
         RowsOK(db, used), RowsOK(work, used)
  PROVE  RowsOK(db', used') /\ RowsOK(work', used')
<1> DEFINE i == NextPair(c)[1]
<1>1. i \in Ids /\ NextPair(c) \in pend[c] /\ Note \notin Sections
  BY NextPairIs, KnowledgeConstants DEF Change
<1>2. used' = used /\ db' = db
  BY DEF Change, Execute
<1>3. CASE ~(op[c] = "write" \/ There(work, i))
  <2>1. work' = work
    BY <1>3 DEF Change, Execute
  <2> QED
    BY <1>2, <2>1, RowsSame
<1>4. CASE op[c] = "write" \/ There(work, i)
  <2>1. work'.key = work.key /\ work'.chunk = [work.chunk EXCEPT ![i] = NextPair(c)[2]]
    BY <1>4, ChangeDoes DEF Tab
  <2>2. There(work, i) \/ work.key[i] = Note
    BY <1>1, <1>4 DEF Current, Change
  <2>3. work.chunk \in [Ids -> Contents \cup {NoChunk}]
    BY Parts DEF TypeOK
  <2> HIDE DEF i
  <2>4. \A j \in Ids \ {i} : There(work', j) <=> There(work, j)
    BY <2>1, <2>3 DEF There
  <2>5. OneRow(work')
    BY <1>1, <2>1, <2>2, <2>4 DEF RowsOK, OneRow
  <2> QED
    BY <1>2, <2>1, <2>5, RowsKept DEF RowsOK
<1> QED
  BY <1>3, <1>4

LEMMA RowsStep ==
  ASSUME TypeOK, AllHands, NEW c \in Calls, CallStep(c), Current(c),
         RowsOK(db, used), RowsOK(work, used)
  PROVE  RowsOK(db', used') /\ RowsOK(work', used')
<1> DEFINE Goal == RowsOK(db', used') /\ RowsOK(work', used')
<1>1. ASSUME \/ GetConnection(c) \/ ReadSection(c) \/ ChunkingFails(c) \/ CommitChunks(c)
             \/ SelectMissing(c) \/ CommitVectors(c) \/ ReportVectors(c) \/ ClientRaises(c)
             \/ ReadLinks(c) \/ CommitLinks(c) \/ Declines(c) \/ CommitChange(c) \/ CountHits(c)
             \/ CommitHits(c)
      PROVE  Goal
  <2>1. used' = used /\ db' \in {db, work} /\ work' \in {db, work}
    BY <1>1 DEF GetConnection, ReadSection, ChunkingFails, CommitChunks, SelectMissing,
       CommitVectors, ReportVectors, ClientRaises, ReadLinks, CommitLinks, Declines,
       CommitChange, CountHits, CommitHits, Rollback, Commit, Execute, store
  <2> QED
    BY <2>1, RowsSame
<1>2. ASSUME SelectRows(c) PROVE Goal
  <2>1. used \subseteq used' /\ db' = db /\ work' = work
    BY <1>2 DEF SelectRows, store
  <2> QED
    BY <2>1, RowsSame
<1>3. ASSUME StoreVectors(c) \/ TryEmbed(c) PROVE Goal
  <2>1. UNCHANGED store \/ \E S \in SUBSET Pairs : Execute(WithVectors(work, S))
    <3>1. CASE StoreVectors(c)
      BY <3>1, BatchIs DEF StoreVectors, TypeOK
    <3>2. CASE TryEmbed(c)
      BY <3>2, NextPairIs DEF TryEmbed
    <3> QED
      BY <1>3, <3>1, <3>2
  <2>2. used' = used
    BY <1>3 DEF StoreVectors, TryEmbed
  <2>3. CASE UNCHANGED store
    BY <2>2, <2>3, RowsSame DEF store
  <2>4. CASE \E S \in SUBSET Pairs : Execute(WithVectors(work, S))
    <3>1. db' = db /\ work'.key = work.key /\ work'.chunk = work.chunk
      BY <2>4, VectorsDo DEF Tab, Execute
    <3> QED
      BY <2>2, <3>1, RowsSame DEF There
  <2> QED
    BY <2>1, <2>3, <2>4
<1>4. ASSUME InsertLinks(c) \/ LinkRaises(c) PROVE Goal
  <2>1. used' = used /\ db' = db
    BY <1>4 DEF InsertLinks, LinkRaises, Execute, store
  <2>2. \/ work' = work
        \/ \E e \in SUBSET (Ids \X Ids) : work' = [work EXCEPT !.edges = @ \cup e]
    BY <1>4 DEF InsertLinks, LinkRaises, Execute, store, TypeOK
  <2>3. work'.key = work.key /\ work'.chunk = work.chunk
    BY <2>2, EdgesDo DEF Tab
  <2> QED
    BY <2>1, <2>3, RowsSame DEF There
<1>5. ASSUME Delete(c) PROVE Goal
  <2>1. used' = used /\ db' = db
    BY <1>5 DEF Delete, Execute
  <2>2. /\ work'.key = work.key
        /\ work'.chunk = [i \in Ids |-> IF i \in Matching(key[c]) THEN NoChunk
                                          ELSE work.chunk[i]]
    BY <1>5, DeleteDoes DEF Tab
  <2> QED
    BY <2>1, <2>2, RowsSame DEF There
<1>6. ASSUME Upsert(c) PROVE Goal
  BY <1>6, RowsUpsert
<1>7. ASSUME Change(c) PROVE Goal
  BY <1>7, RowsChange
<1> QED
  BY <1>1, <1>2, <1>3, <1>4, <1>5, <1>6, <1>7 DEF CallStep
-----------------------------------------------------------------------------
\* A call that is not at work has nothing to show.
LEMMA IdleMine ==
  ASSUME NEW d \in Calls, pc'[d] \notin Active
  PROVE  Mine(d)'
BY DEF Mine, Current, SectionsDone, VectorsDone, Active

\* Vectors and links are not what a section says.
LEMMA SameTexts ==
  ASSUME disk' = disk, work'.key = work.key, work'.chunk = work.chunk
  PROVE  /\ \A s \in Sections : Done(s) => Done(s)'
         /\ Edges(work') = Edges(work)
<1>1. \A s \in Sections : Done(s) => Done(s)'
  BY DEF Done
<1>2. Edges(work') = Edges(work)
  BY DEF Edges, There
<1> QED
  BY <1>1, <1>2

\* The step of index() from one section to the next.
LEMMA NextSectionDone ==
  ASSUME TypeOK, AllHands, NEW c \in Calls, pc[c] \in {"file", "upsert"}, SectionDone(c),
         op'[c] = op[c], SectionsDone(c),
         NEW n \in Sections, n = NextSection(c), Done(n)',
         \A s \in Sections \ todo[c] : Done(s) => Done(s)'
  PROVE  SectionsDone(c)'
<1> DEFINE left == IF pc'[c] \in {"file", "upsert"} THEN todo'[c] ELSE {}
<1>1. op[c] = "index" /\ pc[c] \in Active \ {"get"}
  BY DEF AllHands, Hands, Active
<1>2. \A s \in Sections \ todo[c] : Done(s)
  BY <1>1 DEF SectionsDone
<1>3. left = todo[c] \ {n}
  BY DEF SectionDone, Go, TypeOK
<1>4. \A s \in Sections \ left : Done(s)'
  BY <1>2, <1>3
<1> QED
  BY <1>4 DEF SectionsDone

LEMMA ReadSectionMine ==
  ASSUME TypeOK, AllHands, NEW c \in Calls, ReadSection(c), Mine(c)
  PROVE  Mine(c)'
<1>0. PICK s \in Sections : s = NextSection(c)
  BY NextSectionIs DEF ReadSection
<1> DEFINE found == Matching(s)
           i == IF found = {} THEN NoId ELSE CHOOSE j \in found : TRUE
           skip == \/ disk[s] = NoText
                   \/ i # NoId /\ work.chunk[i] = {disk[s]} /\ mode[c] = "skip"
<1>1. op[c] = "index" /\ pc[c] = "file"
  BY DEF ReadSection, AllHands, Hands
<1>2. UNCHANGED <<disk, work, op, err>> /\ op'[c] = op[c] /\ err'[c] = err[c]
  BY DEF ReadSection, store, args
<1>3. found \subseteq Ids /\ (i # NoId => i \in found) /\ (i = NoId => found = {})
  BY MatchingIs, KnowledgeConstants
<1>4. \A x \in Sections : Done(x) => Done(x)'
  BY <1>2, SameTexts
<1>5. CASE skip
  <2>1. SectionDone(c)
    BY <1>0, <1>5, SMTT(30) DEF ReadSection
  <2>2. Done(s)
    BY <1>3, <1>5 DEF Done, Matching
  <2>3. pc'[c] \in {"file", "commit"}
    BY <1>1, <2>1, SectionDoneIs
  <2>4. Current(c)'
    BY <1>1, <1>2, <2>3 DEF Current
  <2>5. SectionsDone(c) => SectionsDone(c)'
    BY <1>0, <1>1, <1>2, <1>4, <2>1, <2>2, NextSectionDone
  <2>6. VectorsDone(c)'
    BY <1>1, <1>2 DEF VectorsDone
  <2> QED
    BY <1>2, <2>4, <2>5, <2>6 DEF Mine
<1>6. CASE ~skip
  <2>1. pc'[c] = "upsert" /\ text'[c] = disk[s] /\ id'[c] = i /\ todo' = todo
    BY <1>0, <1>6 DEF ReadSection, Go, TypeOK
  <2>2. NextSection(c)' = s /\ Matching(s)' = found
    BY <1>0, <1>2, <2>1 DEF NextSection, Matching, There
  <2>3. Current(c)'
    <3>1. text'[c] = disk'[NextSection(c)']
      BY <1>2, <2>1, <2>2
    <3>2. Matching(NextSection(c))' = found
      BY <1>0, <1>2, <2>2 DEF Matching, There
    <3> HIDE DEF i, found, skip
    <3>3. IF id'[c] = NoId THEN Matching(NextSection(c))' = {}
            ELSE id'[c] \in Matching(NextSection(c))'
      BY <1>3, <2>1, <3>2
    <3> QED
      BY <1>1, <1>2, <2>1, <3>1, <3>3 DEF Current
  <2>4. SectionsDone(c) => SectionsDone(c)'
    BY <1>1, <1>2, <1>4, <2>1 DEF SectionsDone, Active
  <2>5. VectorsDone(c)'
    BY <1>1, <1>2 DEF VectorsDone
  <2> QED
    BY <1>2, <2>3, <2>4, <2>5 DEF Mine
<1> QED
  BY <1>5, <1>6

LEMMA UpsertMine ==
  ASSUME TypeOK, AllHands, NEW c \in Calls, Upsert(c), Mine(c), RowsOK(work, used)
  PROVE  Mine(c)'
<1>0. PICK s \in Sections : s = NextSection(c)
  BY NextSectionIs DEF Upsert
<1>1. PICK i \in Ids : i = UpsertId(c)
  BY UpsertIdIs
<1>2. op[c] = "index" /\ pc[c] = "upsert"
  BY DEF Upsert, AllHands, Hands
<1>3. ~Skips(c)
  BY <1>2 DEF Mine, Current, Skips, Refused, Matching
<1>4. /\ work'.key = [work.key EXCEPT ![i] = s]
      /\ work'.chunk = [work.chunk EXCEPT ![i] = {text[c]}]
  BY <1>0, <1>1, <1>3, UpsertDoes DEF Tab
<1>5. disk' = disk /\ op'[c] = op[c] /\ err' = err /\ SectionDone(c)
  BY <1>3 DEF Upsert, args, Skips, Refused
<1>6. text[c] = disk[s] /\ work.key[i] \in {s, Note}
  <2>1. text[c] = disk[s]
    BY <1>0, <1>2 DEF Mine, Current
  <2>2. CASE id[c] = NoId
    <3>1. i \notin used
      BY <1>1, <2>2 DEF UpsertId, Upsert, TypeOK
    <3> QED
      BY <2>1, <3>1 DEF RowsOK
  <2>3. CASE id[c] # NoId
    BY <1>0, <1>1, <1>2, <2>1, <2>3 DEF Mine, Current, Matching, UpsertId
  <2> QED
    BY <2>1, <2>2, <2>3
<1>7. /\ work.key \in [Ids -> Sections \cup {Note}]
      /\ work.chunk \in [Ids -> Contents \cup {NoChunk}]
  BY Parts DEF TypeOK
<1>8. Done(s)'
  <2>1. work'.key[i] = s /\ work'.chunk[i] = {disk'[s]}
    BY <1>4, <1>5, <1>6, <1>7
  <2> QED
    BY <2>1 DEF Done
<1>9. \A x \in Sections \ todo[c] : Done(x) => Done(x)'
  <2> SUFFICES ASSUME NEW x \in Sections \ todo[c], Done(x) PROVE Done(x)'
    OBVIOUS
  <2>1. CASE disk[x] = NoText
    BY <1>5, <2>1 DEF Done
  <2>2. CASE disk[x] # NoText
    <3>1. PICK j \in Ids : work.key[j] = x /\ work.chunk[j] = {disk[x]}
      BY <2>2 DEF Done
    <3>2. x # s
      BY <1>0, <1>2, NextSectionIs
    <3>3. j # i
      BY <1>6, <3>1, <3>2, KnowledgeConstants
    <3>4. work'.key[j] = x /\ work'.chunk[j] = {disk'[x]}
      BY <1>4, <1>5, <1>7, <3>1, <3>3
    <3> QED
      BY <3>4 DEF Done
  <2> QED
    BY <2>1, <2>2
<1>10. pc'[c] \in {"file", "commit"}
  BY <1>2, <1>5, SectionDoneIs
<1>11. Current(c)'
  BY <1>2, <1>5, <1>10 DEF Current
<1>12. SectionsDone(c) => SectionsDone(c)'
  BY <1>0, <1>2, <1>5, <1>8, <1>9, NextSectionDone
<1>13. VectorsDone(c)'
  BY <1>2, <1>5 DEF VectorsDone
<1> QED
  BY <1>5, <1>11, <1>12, <1>13 DEF Mine

\* What the vectors that arrive leave missing.
LEMMA StoreVectorsMine ==
  ASSUME TypeOK, AllHands, NEW c \in Calls, StoreVectors(c), Mine(c)
  PROVE  Mine(c)'
<1>1. PICK ok \in SUBSET Batch(c) :
        /\ pc[c] = "embed" /\ pc'[c] = "vcommit"
        /\ IF ok = {} THEN UNCHANGED store ELSE Execute(WithVectors(work, ok))
        /\ err'[c] = (err[c] \/ ok # Batch(c))
        /\ UNCHANGED <<disk, args, todo, pend, missing>>
  BY ZenonT(60) DEF StoreVectors, Go, TypeOK
<1>2. ok \in SUBSET Pairs
  BY <1>1, BatchIs DEF TypeOK
<1>3. op'[c] = op[c] /\ Batch(c)' = Batch(c) /\ pend'[c] = pend[c]
  BY <1>1 DEF Batch, args
<1>4. /\ work'.key = work.key /\ work'.chunk = work.chunk
      /\ \A i \in Ids : work'.vec[i] = IF i \in IdsOf(ok) THEN Said(ok, i) ELSE work.vec[i]
  <2>1. CASE ok = {}
    BY <1>1, <2>1 DEF store, IdsOf
  <2>2. CASE ok # {}
    BY <1>1, <1>2, <2>2, VectorsDo DEF Tab, VecOf
  <2> QED
    BY <2>1, <2>2
<1>5. \A i \in IdsOf(ok) : Said(ok, i) # NoVector
  BY <1>2, SaidIs, Apart
<1>6. Current(c)'
  <2>1. Bare' \subseteq Bare
    BY <1>4, <1>5 DEF Bare, There
  <2> QED
    BY <1>1, <1>3, <2>1 DEF Current, Mine
<1>7. SectionsDone(c) => SectionsDone(c)'
  BY <1>1, <1>3, <1>4, SameTexts DEF SectionsDone, Active
<1>8. ASSUME VectorsDone(c), ok = Batch(c) PROVE VectorsDone(c)'
  <2> SUFFICES ASSUME op[c] = "reindex", NEW i \in Bare'
               PROVE  i \in IdsOf(pend[c] \ Batch(c))
    BY <1>1, <1>3 DEF VectorsDone
  <2>1. i \in Ids /\ i \notin IdsOf(ok) /\ i \in Bare
    BY <1>4, <1>5 DEF Bare, There
  <2>2. i \in IdsOf(pend[c])
    BY <1>1, <1>8, <2>1 DEF VectorsDone
  <2> QED
    BY <1>8, <2>1, <2>2 DEF IdsOf
<1> QED
  BY <1>1, <1>6, <1>7, <1>8 DEF Mine

\* The steps after which the call has nothing to show but what it had before.
LEMMA OwnStep ==
  ASSUME TypeOK, AllHands, NEW c \in Calls, CallStep(c), Mine(c), RowsOK(work, used)
  PROVE  Mine(c)'
<1>1. ASSUME GetConnection(c) PROVE Mine(c)'
  <2>1. CASE op[c] = "read"
    <3>1. pc'[c] \notin Active
      BY <1>1, <2>1 DEF GetConnection, End, Go, TypeOK, Active
    <3> QED
      BY <3>1, IdleMine
  <2>2. CASE op[c] = "index"
    <3>1. pc'[c] = "file" /\ todo'[c] = Sections /\ op'[c] = "index"
      BY <1>1, <2>2 DEF GetConnection, Go, TypeOK, args
    <3> QED
      BY <3>1 DEF Mine, Current, SectionsDone, VectorsDone
  <2>3. CASE op[c] \notin {"read", "index"}
    <3>1. pc'[c] = "select" /\ op'[c] # "index"
      BY <1>1, <2>3 DEF GetConnection, Go, TypeOK, args
    <3> QED
      BY <3>1 DEF Mine, Current, SectionsDone, VectorsDone
  <2> QED
    BY <2>1, <2>2, <2>3
<1>2. ASSUME ReadSection(c) PROVE Mine(c)'
  BY <1>2, ReadSectionMine
<1>3. ASSUME ChunkingFails(c) PROVE Mine(c)'
  <2>1. err'[c] /\ SectionDone(c) /\ pc[c] = "file" /\ op'[c] = op[c]
    BY <1>3 DEF ChunkingFails, TypeOK, args
  <2>2. pc'[c] \in {"file", "commit"} /\ op[c] = "index"
    BY <2>1, SectionDoneIs
  <2> QED
    BY <2>1, <2>2 DEF Mine, Current
<1>4. ASSUME Upsert(c) PROVE Mine(c)'
  BY <1>4, UpsertMine
<1>5. ASSUME CommitChunks(c) PROVE Mine(c)'
  <2>1. /\ pc[c] = "commit" /\ pc'[c] \in {"relink", "embed"} /\ op[c] = "index"
        /\ UNCHANGED <<disk, work, op, err>>
    BY <1>5 DEF CommitChunks, Commit, Go, TypeOK, AllHands, Hands, args, locals
  <2>2. SectionsDone(c) => SectionsDone(c)'
    BY <2>1, SameTexts DEF SectionsDone, Active
  <2> QED
    BY <2>1, <2>2 DEF Mine, Current, VectorsDone
<1>6. ASSUME SelectMissing(c) PROVE Mine(c)'
  <2>1. CASE Bare = {}
    <3>1. pc'[c] \notin Active
      BY <1>6, <2>1 DEF SelectMissing, End, Go, TypeOK, Active
    <3> QED
      BY <3>1, IdleMine
  <2>2. CASE Bare # {}
    <3>1. /\ pc'[c] = "embed" /\ op'[c] = "reindex" /\ work' = work
          /\ pend'[c] = {<<i, work.chunk[i]>> : i \in Bare} /\ missing'[c] = Bare
      BY <1>6, <2>2 DEF SelectMissing, Go, TypeOK, args, store
    <3>2. Bare' = Bare /\ Bare \subseteq IdsOf(pend'[c])
      <4>1. Bare' = Bare
        BY <3>1 DEF Bare, There
      <4>2. ASSUME NEW i \in Bare PROVE i \in IdsOf(pend'[c])
        <5>1. <<i, work.chunk[i]>> \in pend'[c] /\ <<i, work.chunk[i]>>[1] = i
          BY <3>1
        <5> QED
          BY <5>1 DEF IdsOf
      <4> QED
        BY <4>1, <4>2
    <3> QED
      BY <3>1, <3>2 DEF Mine, Current, SectionsDone, VectorsDone
  <2> QED
    BY <2>1, <2>2
<1>7. ASSUME StoreVectors(c) PROVE Mine(c)'
  BY <1>7, StoreVectorsMine
<1>8. ASSUME CommitVectors(c) PROVE Mine(c)'
  <2> DEFINE rest == pend[c] \ Batch(c)
  <2>1. /\ pc[c] = "vcommit" /\ op[c] \in {"index", "reindex"} /\ UNCHANGED <<disk, work>>
        /\ db' = work
    BY <1>8 DEF CommitVectors, Commit, AllHands, Hands
  <2>2. /\ pc'[c] = (IF rest # {} THEN "embed"
                     ELSE IF op[c] = "reindex" THEN "report" ELSE "relink")
        /\ pend'[c] = rest /\ UNCHANGED <<op, err, missing>>
    BY <1>8 DEF CommitVectors, Go, TypeOK, args
  <2>3. SectionsDone(c) => SectionsDone(c)'
    BY <2>1, <2>2, SameTexts DEF SectionsDone, Active
  <2>4. Bare' = Bare
    BY <2>1 DEF Bare, There
  <2>5. VectorsDone(c) => VectorsDone(c)'
    BY <2>1, <2>2, <2>4 DEF VectorsDone, IdsOf
  <2>6. Current(c)'
    BY <2>1, <2>2, <2>4 DEF Mine, Current
  <2> QED
    BY <2>2, <2>3, <2>5, <2>6 DEF Mine
<1>9. ASSUME ReadLinks(c) PROVE Mine(c)'
  <2>1. /\ pc[c] = "relink" /\ pc'[c] = "link" /\ op[c] = "index"
        /\ links'[c] = Edges(work) /\ UNCHANGED <<disk, work, op, err>>
    BY <1>9 DEF ReadLinks, Go, TypeOK, AllHands, Hands, args, store
  <2>2. SectionsDone(c) => SectionsDone(c)'
    BY <2>1, SameTexts DEF SectionsDone, Active
  <2>3. Edges(work') = Edges(work)
    BY <2>1
  <2> QED
    BY <2>1, <2>2, <2>3 DEF Mine, Current, VectorsDone
<1>10. ASSUME InsertLinks(c) PROVE Mine(c)'
  <2>1. /\ pc[c] = "link" /\ pc'[c] = "lcommit" /\ op[c] = "index"
        /\ UNCHANGED <<disk, op, err>>
        /\ IF links[c] = {} THEN work' = work
             ELSE work' = [work EXCEPT !.edges = @ \cup links[c]]
    BY <1>10 DEF InsertLinks, Go, TypeOK, AllHands, Hands, args, locals, store, Execute
  <2>2. links[c] \in SUBSET (Ids \X Ids)
    BY DEF TypeOK
  <2>3. /\ work'.key = work.key /\ work'.chunk = work.chunk
        /\ work'.edges = work.edges \cup links[c]
    BY <2>1, <2>2, EdgesDo DEF Tab
  <2>4. Edges(work') \subseteq work'.edges
    BY <2>1, <2>3, SameTexts DEF Mine, Current
  <2>5. SectionsDone(c) => SectionsDone(c)'
    BY <2>1, <2>3, SameTexts DEF SectionsDone, Active
  <2> QED
    BY <2>1, <2>4, <2>5 DEF Mine, Current, VectorsDone
<1>11. ASSUME \/ ReportVectors(c) \/ ClientRaises(c) \/ LinkRaises(c) \/ CommitLinks(c)
              \/ Declines(c) \/ CommitChange(c) \/ CommitHits(c)
       PROVE  Mine(c)'
  <2>1. pc'[c] \notin Active
    BY <1>11 DEF ReportVectors, ClientRaises, LinkRaises, CommitLinks, Declines, CommitChange,
       CommitHits, End, Go, TypeOK, Active
  <2> QED
    BY <2>1, IdleMine
<1>12. ASSUME SelectRows(c) PROVE Mine(c)'
  <2>1. /\ pc'[c] = "change" /\ op'[c] = op[c] /\ op[c] \notin {"index", "reindex"}
        /\ work' = work
    BY <1>12 DEF SelectRows, Go, TypeOK, args, store
  <2>2. ASSUME op[c] = "write", NEW p \in pend'[c] PROVE work.key[p[1]] = Note
    <3>1. pend'[c] = {<<CHOOSE i \in Ids : i \notin used, {c}>>} /\ used # Ids
      BY <1>12, <2>2 DEF SelectRows, TypeOK
    <3>2. p[1] \in Ids \ used
      <4> DEFINE n == CHOOSE i \in Ids : i \notin used
      <4>1. n \in Ids \ used
        BY <3>1 DEF TypeOK
      <4>2. p = <<n, {c}>>
        BY <2>2, <3>1
      <4> HIDE DEF n
      <4> QED
        BY <4>1, <4>2
    <3> QED
      BY <3>2 DEF RowsOK
  <2> QED
    BY <2>1, <2>2 DEF Mine, Current, SectionsDone, VectorsDone
<1>13. ASSUME Change(c) PROVE Mine(c)'
  <2>1. /\ pc[c] = "change" /\ pc'[c] = "tryembed" /\ op'[c] = op[c] /\ pend'[c] = pend[c]
        /\ op[c] \notin {"index", "reindex"}
    BY <1>13 DEF Change, Go, TypeOK, AllHands, Hands, args, locals
  <2>2. work'.key = work.key
    <3>1. CASE op[c] = "write" \/ There(work, NextPair(c)[1])
      BY <1>13, <3>1, ChangeDoes DEF Tab
    <3>2. CASE ~(op[c] = "write" \/ There(work, NextPair(c)[1]))
      BY <1>13, <3>2 DEF Change, Execute
    <3> QED
      BY <3>1, <3>2
  <2> QED
    BY <2>1, <2>2 DEF Mine, Current, SectionsDone, VectorsDone
<1>14. ASSUME TryEmbed(c) PROVE Mine(c)'
  <2>1. /\ pc[c] = "tryembed" /\ pc'[c] \in {"change", "ccommit"} /\ op'[c] = op[c]
        /\ pend'[c] = pend[c] /\ op[c] \notin {"index", "reindex"}
    BY <1>14 DEF TryEmbed, Go, TypeOK, AllHands, Hands, args
  <2>2. work'.key = work.key
    <3>1. {NextPair(c)} \in SUBSET Pairs
      BY <2>1, NextPairIs
    <3>2. UNCHANGED store \/ Execute(WithVectors(work, {NextPair(c)}))
      BY <1>14 DEF TryEmbed
    <3> QED
      BY <3>1, <3>2, VectorsDo DEF Tab, store
  <2> QED
    BY <2>1, <2>2 DEF Mine, Current, SectionsDone, VectorsDone
<1>15. ASSUME Delete(c) PROVE Mine(c)'
  <2>1. pc'[c] = "ccommit" /\ op'[c] = "delete"
    BY <1>15 DEF Delete, Go, TypeOK, args
  <2> QED
    BY <2>1 DEF Mine, Current, SectionsDone, VectorsDone
<1>16. ASSUME CountHits(c) PROVE Mine(c)'
  <2>1. pc'[c] \notin Active \/ (pc'[c] = "scommit" /\ op'[c] = "search")
    BY <1>16 DEF CountHits, End, Go, TypeOK, args, Active
  <2> QED
    BY <2>1, IdleMine DEF Mine, Current, SectionsDone, VectorsDone
<1> QED
  BY <1>1, <1>2, <1>3, <1>4, <1>5, <1>6, <1>7, <1>8, <1>9, <1>10, <1>11, <1>12, <1>13,
     <1>14, <1>15, <1>16 DEF CallStep
-----------------------------------------------------------------------------
LEMMA ReportInit == Init => ReportInv
<1> SUFFICES ASSUME Init PROVE ReportInv
  OBVIOUS
<1>1. PICK k \in Sections \cup {Note}, x \in Contents \cup {NoChunk},
            v \in Contents \cup {NoVector} :
        /\ db = FirstTable(k, x, v)
        /\ used = (IF x = NoChunk THEN {} ELSE {FirstId})
  BY FirstTables
<1>2. \A i \in Ids : /\ db.key[i] = (IF i = FirstId /\ x # NoChunk THEN k ELSE Note)
                     /\ db.chunk[i] = (IF i = FirstId THEN x ELSE NoChunk)
  BY <1>1 DEF FirstTable
<1>3. used = IF x = NoChunk THEN {} ELSE {FirstId}
  BY <1>1
<1>4. RowsOK(db, used) /\ work = db
  BY <1>2, <1>3 DEF RowsOK, OneRow, There, Init
<1>5. \A c \in Calls : pc[c] = "new"
  BY DEF Init
<1>6. Single /\ \A c \in Calls : Mine(c)
  BY <1>5 DEF Single, Mine, Current, SectionsDone, VectorsDone, Active
<1> QED
  BY <1>4, <1>6 DEF ReportInv

\* A step of a call is one of a call at work, and does not say whether calls overlap.
LEMMA Works ==
  ASSUME NEW c \in Calls, CallStep(c)
  PROVE  pc[c] \in Active /\ raced' = raced
BY DEF CallStep, GetConnection, ReadSection, ChunkingFails, Upsert, CommitChunks,
   SelectMissing, StoreVectors, CommitVectors, ReportVectors, ClientRaises, ReadLinks,
   InsertLinks, LinkRaises, CommitLinks, Declines, SelectRows, Change, TryEmbed, Delete,
   CommitChange, CountHits, CommitHits, Active, history

\* A step of the only call at work, the beginning of one when there is none, or a step
\* that leaves none.
LEMMA ReportStep ==
  ASSUME TypeOK, AllHands, ReportInv, [Next]_vars
  PROVE  ReportInv'
<1> SUFFICES ASSUME ~raced'
             PROVE  /\ Single'
                    /\ RowsOK(db', used') /\ RowsOK(work', used')
                    /\ \A c \in Calls : Mine(c)'
  BY DEF ReportInv
<1> DEFINE Goal == /\ Single'
                   /\ RowsOK(db', used') /\ RowsOK(work', used')
                   /\ \A c \in Calls : Mine(c)'
<1>0. raced \/ (/\ Single /\ RowsOK(db, used) /\ RowsOK(work, used)
                /\ \A c \in Calls : Mine(c))
  BY DEF ReportInv
<1>1. ASSUME NEW c \in Calls, CallStep(c) PROVE Goal
  <2>1. pc[c] \in Active /\ ~raced
    BY <1>1, Works
  <2>2. \A d \in Calls \ {c} : pc[d] \notin Active /\ pc'[d] = pc[d]
    BY <1>0, <1>1, <2>1, OthersSame DEF Single, SameCall
  <2>3. RowsOK(db', used') /\ RowsOK(work', used')
    BY <1>0, <1>1, <2>1, RowsStep DEF Mine
  <2>4. Mine(c)'
    BY <1>0, <1>1, <2>1, OwnStep
  <2>5. \A d \in Calls \ {c} : Mine(d)'
    BY <2>2, IdleMine
  <2> QED
    BY <2>2, <2>3, <2>4, <2>5 DEF Single
<1>2. ASSUME NEW c \in Calls, Arrives(c) PROVE Goal
  <2>1. ~raced /\ \A d \in Calls : pc[d] \notin Active
    BY <1>2 DEF Arrives, Arrive, TypeOK
  <2>2. /\ \A d \in Calls \ {c} : pc'[d] = pc[d]
        /\ pc'[c] = "get" /\ UNCHANGED <<db, work, used>>
    BY <1>2, ArriveSame DEF SameCall, store
  <2>3. RowsOK(db', used') /\ RowsOK(work', used')
    BY <1>0, <2>1, <2>2
  <2>4. Mine(c)'
    BY <2>2 DEF Mine, Current, SectionsDone, VectorsDone
  <2>5. \A d \in Calls \ {c} : Mine(d)'
    BY <2>1, <2>2, IdleMine
  <2> QED
    BY <2>1, <2>2, <2>3, <2>4, <2>5 DEF Single
<1>3. ASSUME Edit PROVE Goal
  <2>1. ~raced /\ \A d \in Calls : pc'[d] \notin Active
    BY <1>3 DEF Edit, history
  <2>2. UNCHANGED <<db, work, used>>
    BY <1>3 DEF Edit, store
  <2> QED
    BY <1>0, <2>1, <2>2, IdleMine DEF Single
<1>4. ASSUME Crash PROVE Goal
  <2>1. ~raced /\ used' = used /\ db' = db /\ work' = db
    BY <1>4, CrashDoes DEF Crash
  <2>2. \A d \in Calls : pc'[d] \notin Active
    BY <1>4, CrashDoes DEF Active
  <2> QED
    BY <1>0, <2>1, <2>2, IdleMine DEF Single
<1>5. ASSUME UNCHANGED vars PROVE Goal
  <2>1. UNCHANGED <<disk, db, work, used, op, pc, key, todo, id, text, pend, missing,
                    links, err, raced>>
    BY <1>5 DEF vars, store, args, locals, history
  <2>2. \A c \in Calls : Mine(c) => Mine(c)'
    <3> SUFFICES ASSUME NEW c \in Calls, Mine(c) PROVE Mine(c)'
      OBVIOUS
    <3>1. NextSection(c)' = NextSection(c) /\ Batch(c)' = Batch(c) /\ Bare' = Bare
      BY <2>1 DEF NextSection, Batch, Bare, There
    <3>2. Matching(NextSection(c))' = Matching(NextSection(c)) /\ Edges(work)' = Edges(work)
      BY <2>1, <3>1 DEF Matching, Edges, There
    <3>3. Current(c)'
      BY <2>1, <3>1, <3>2 DEF Mine, Current
    <3>4. SectionsDone(c) => SectionsDone(c)'
      BY <2>1 DEF SectionsDone, Done
    <3>5. VectorsDone(c) => VectorsDone(c)'
      BY <2>1, <3>1 DEF VectorsDone
    <3> QED
      BY <2>1, <3>3, <3>4, <3>5 DEF Mine
  <2>3. Single => Single'
    BY <2>1 DEF Single
  <2> QED
    BY <1>0, <2>1, <2>2, <2>3
<1> QED
  BY <1>1, <1>2, <1>3, <1>4, <1>5, NextSteps

\* The step in which a call ends, unless the process is killed, is its own.
LEMMA EndsItself ==
  ASSUME TypeOK, [Next]_vars, NEW c \in Calls, pc[c] \in Active, pc'[c] = "over",
         crashes' = crashes
  PROVE  CallStep(c)
<1>1. pc'[c] # pc[c]
  BY DEF Active
<1>2. ASSUME NEW d \in Calls, CallStep(d) PROVE d = c
  BY <1>1, <1>2, OthersSame DEF SameCall
<1>3. ASSUME NEW d \in Calls, Arrives(d) PROVE FALSE
  BY <1>1, <1>3, ArriveSame DEF SameCall
<1>4. ~(Edit \/ UNCHANGED vars)
  BY <1>1, QuietSame DEF SameCall
<1>5. ~Crash
  <2>1. crashes \in Nat
    BY KnowledgeConstants DEF TypeOK
  <2> QED
    BY <2>1 DEF Crash
<1> QED
  BY <1>2, <1>3, <1>4, <1>5, NextSteps

IndexTrue ==
  \A c \in Calls : Ends(c, "index", "lcommit") /\ ~err[c] =>
    /\ Edges(db') \subseteq db'.edges
    /\ \A s \in Sections : disk[s] # NoText =>
         {db'.chunk[i] : i \in {j \in Ids : db'.key[j] = s /\ There(db', j)}}
           = {{disk[s]}}

ReindexTrue ==
  \A c \in Calls :
    Ends(c, "reindex", "report") /\ ~Admits(c)
      /\ (err[c] => \A i \in Ids \ missing[c] : db.vec[i] = NoVector) =>
      \A i \in Ids : There(db', i) => db'.vec[i] # NoVector

\* The last step of index() commits what SectionsDone says of the open transaction.
LEMMA IndexReports ==
  ASSUME TypeOK, ReportInv, [Next]_vars
  PROVE  IndexTrue
<1> SUFFICES ASSUME NEW c \in Calls, Ends(c, "index", "lcommit"), ~err[c]
             PROVE  /\ Edges(db') \subseteq db'.edges
                    /\ \A s \in Sections : disk[s] # NoText =>
                         {db'.chunk[i] : i \in {j \in Ids : db'.key[j] = s /\ There(db', j)}}
                           = {{disk[s]}}
  BY DEF IndexTrue
<1>1. op[c] = "index" /\ pc[c] = "lcommit" /\ ~err[c] /\ ~raced
  BY DEF Ends
<1>2. CallStep(c)
  BY <1>1, EndsItself DEF Ends, Active
<1>3. db' = work
  BY <1>1, <1>2 DEF CallStep, GetConnection, ReadSection, ChunkingFails, Upsert,
     CommitChunks, SelectMissing, StoreVectors, CommitVectors, ReportVectors,
     ClientRaises, ReadLinks, InsertLinks, LinkRaises, CommitLinks, Declines, SelectRows,
     Change, TryEmbed, Delete,
     CommitChange, CountHits, CommitHits, Commit
<1>4. OneRow(work) /\ Current(c) /\ SectionsDone(c)
  BY <1>1 DEF ReportInv, RowsOK, Mine
<1>5. Edges(db') \subseteq db'.edges
  BY <1>1, <1>3, <1>4 DEF Current
<1>6. ASSUME NEW s \in Sections, disk[s] # NoText
      PROVE  {work.chunk[i] : i \in {j \in Ids : work.key[j] = s /\ There(work, j)}}
               = {{disk[s]}}
  <2>1. Done(s)
    BY <1>1, <1>4 DEF SectionsDone, Active
  <2>2. PICK i \in Ids : work.key[i] = s /\ work.chunk[i] = {disk[s]}
    BY <1>6, <2>1 DEF Done
  <2>3. {disk[s]} \in Contents
    BY <1>6 DEF TypeOK, Contents
  <2>4. There(work, i)
    BY <2>2, <2>3, Apart DEF There
  <2>5. {j \in Ids : work.key[j] = s /\ There(work, j)} = {i}
    BY <1>4, <2>2, <2>4 DEF OneRow
  <2> QED
    BY <2>2, <2>5
<1> QED
  BY <1>3, <1>5, <1>6

\* If no chunk had a vector before, as many vectors as chunks without one means that
\* these chunks have them.
LEMMA CountTells ==
  ASSUME TypeOK, NEW c \in Calls, err[c], ~Admits(c), Bare \subseteq missing[c],
         \A i \in Ids \ missing[c] : work.vec[i] = NoVector
  PROVE  Bare = {}
<1> DEFINE V == {i \in Ids : work.vec[i] # NoVector}
           M == missing[c]
<1>1. M \subseteq Ids /\ V \subseteq M
  BY DEF TypeOK
<1>2. IsFiniteSet(M)
  BY <1>1, KnowledgeConstants, FS_Subset
<1>3. Cardinality(V) = Cardinality(M)
  BY DEF Admits
<1>4. V = M
  <2> HIDE DEF V, M
  <2> QED
    BY <1>1, <1>2, <1>3, FS_Subset
<1> QED
  BY <1>4 DEF Bare

\* When reindex() reports, all it had to do is committed.
LEMMA ReindexReports ==
  ASSUME TypeOK, ReportInv, [Next]_vars
  PROVE  ReindexTrue
<1> SUFFICES ASSUME NEW c \in Calls, Ends(c, "reindex", "report"), ~Admits(c),
                    err[c] => \A i \in Ids \ missing[c] : db.vec[i] = NoVector
             PROVE  \A i \in Ids : There(db', i) => db'.vec[i] # NoVector
  BY DEF ReindexTrue
<1>1. op[c] = "reindex" /\ pc[c] = "report" /\ pc'[c] = "over" /\ ~raced
  BY DEF Ends
<1>2. CallStep(c)
  BY <1>1, EndsItself DEF Ends, Active
<1>3. ReportVectors(c)
  BY <1>1, <1>2 DEF CallStep, GetConnection, ReadSection, ChunkingFails, Upsert,
     CommitChunks, SelectMissing, StoreVectors, CommitVectors, ClientRaises, ReadLinks,
     InsertLinks, LinkRaises, CommitLinks, Declines, SelectRows, Change, TryEmbed, Delete,
     CommitChange, CountHits, CommitHits
<1>4. db' = db
  BY <1>3 DEF ReportVectors, store
<1>5. db = work /\ Bare \subseteq missing[c] /\ (err[c] \/ Bare = {})
  BY <1>1 DEF ReportInv, Mine, Current, VectorsDone
<1>6. Bare = {}
  BY <1>5, CountTells
<1> QED
  BY <1>4, <1>5, <1>6 DEF Bare

\* A report without errors is true, whatever failed or was killed before it: index() has
\* stored the text and the links of every section, reindex() has left no chunk without a
\* vector, unless an embedding failed and older vectors were counted in its place; as long
\* as calls do not overlap.
THEOREM ReportsCorrect == Spec => ReportsTrue
<1>1. KnowledgeInv => TypeOK /\ AllHands
  BY DEF KnowledgeInv, CallOK, AllHands
<1>2. TypeOK /\ AllHands /\ ReportInv /\ [Next]_vars => ReportInv'
  BY ReportStep
<1>3. TypeOK /\ ReportInv /\ [Next]_vars => IndexTrue /\ ReindexTrue
  BY IndexReports, ReindexReports
<1>4. IndexTrue /\ ReindexTrue =>
        [\A c \in Calls :
           /\ Ends(c, "index", "lcommit") /\ ~err[c] =>
                /\ Edges(db') \subseteq db'.edges
                /\ \A s \in Sections : disk[s] # NoText =>
                     {db'.chunk[i] : i \in {j \in Ids : db'.key[j] = s /\ There(db', j)}}
                       = {{disk[s]}}
           /\ Ends(c, "reindex", "report") /\ ~Admits(c)
                /\ (err[c] => \A i \in Ids \ missing[c] : db.vec[i] = NoVector) =>
                \A i \in Ids : There(db', i) => db'.vec[i] # NoVector]_vars
  BY DEF IndexTrue, ReindexTrue
<1> QED
  BY <1>1, <1>2, <1>3, <1>4, ReportInit, KnowledgeInvariant, PTL DEF Spec, ReportsTrue
=============================================================================
