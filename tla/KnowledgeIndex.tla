--------------------------- MODULE KnowledgeIndex ---------------------------
(***************************************************************************)
(* The knowledge base of the kb pack (src/src/otutil/tools/_knowledge): a  *)
(* table of chunks, a table of their vectors and a table of links between  *)
(* them, in one SQLite file behind one connection                          *)
(* (src/src/ot/utils/sqlite_pool.py).                                      *)
(*                                                                         *)
(* kb.index() reads Markdown files and goes through three phases, each     *)
(* committed: chunks, vectors, links.  kb.write(), append(), update() and  *)
(* delete() change single chunks and ask for the vector before they        *)
(* commit.  No call holds the pool's lock: each takes the connection with  *)
(* get(), which rolls an open transaction back, and goes on without it.    *)
(* There is one transaction for all calls.                                 *)
(*                                                                         *)
(* A content is the set of the texts it was put together from: the text of *)
(* a file, or the text a call was given.  A vector is named by the content *)
(* it was computed from.  Each section stands for a (source_path, anchor). *)
(***************************************************************************)
EXTENDS Naturals, FiniteSets

CONSTANTS Sections,   \* (source_path, anchor) of the chunks of the files
          Texts,      \* what a section may say
          FirstDisk,  \* what they say at first
          Links,      \* which text has a link to which topic
          Calls,      \* calls made in a run, each once
          Ids,        \* ids of chunks that can be in use in a run
          BatchSize,  \* embedding_batch_size
          MaxEdits, MaxCrashes,   \* bounds of the instance
          Note,       \* the topic of entries that come from no file
          NoText,     \* there is no such file, it is empty or cannot be read
          NoChunk, NoVector, NoId, Unsaid

ASSUME KnowledgeConstants ==
  /\ Sections # {} /\ Note \notin Sections
  /\ FirstDisk \in [Sections -> Texts \cup {NoText}]
  /\ Links \subseteq Texts \X (Sections \cup {Note})
  /\ Texts \cap Calls = {} /\ NoText \notin Texts
  /\ Ids # {} /\ IsFiniteSet(Ids) /\ NoId \notin Ids
  /\ BatchSize \in Nat \ {0} /\ MaxEdits \in Nat /\ MaxCrashes \in Nat
  /\ \A x \in SUBSET (Texts \cup Calls) : x \notin {NoChunk, NoVector, Unsaid}

VARIABLES
  disk,      \* the text of each section
  db,        \* what is committed
  work,      \* what the connection sees
  intx,      \* conn.in_transaction
  used,      \* uuids handed out
  op, pc,    \* of each call: what it is, and where it is
  mode,      \* of index(): overwrite
  key,       \* the topic it is about
  todo,      \* the sections, or (id, content) pairs, it has not come to yet
  id, text,  \* the row it has found for the section at hand, and the section's text
  pend,      \* (id, content) pairs it has changed or will
  missing,   \* reindex(): the chunks it has found without a vector
  links,     \* the edges it has found
  err,       \* it has an error to report
  edits, crashes,
  said,      \* history: the content of each chunk according to its callers
  raced,     \* history: calls have overlapped
  disturbed, \* history: chunks changed or rolled back while in another call's hands
  unembedded \* history: chunks whose last embedding failed or was cut off

store == <<db, work, intx>>
args  == <<op, mode, key>>
locals == <<todo, id, text, pend, missing, links, err>>
history == <<said, raced, disturbed, unembedded>>
vars == <<disk, store, used, args, pc, locals, edits, crashes, history>>

Contents == SUBSET (Texts \cup Calls)
Pairs == Ids \X Contents

Ops == {"none", "index", "reindex", "write", "append", "update", "delete", "search",
        "read"}

Active == {"get", "file", "upsert", "commit", "embed", "vcommit", "report", "relink", "link",
           "lcommit", "select", "change", "tryembed", "ccommit", "scommit"}

Tables == [key : [Ids -> Sections \cup {Note}], chunk : [Ids -> Contents \cup {NoChunk}],
           vec : [Ids -> Contents \cup {NoVector}], edges : SUBSET (Ids \X Ids)]

TypeOK ==
  /\ disk \in [Sections -> Texts \cup {NoText}]
  /\ db \in Tables /\ work \in Tables /\ intx \in BOOLEAN
  /\ ~intx => work = db
  /\ used \subseteq Ids
  /\ op \in [Calls -> Ops]
  /\ pc \in [Calls -> Active \cup {"new", "over"}]
  /\ mode \in [Calls -> {"skip", "update"}]
  /\ key \in [Calls -> Sections \cup {Note}]
  /\ todo \in [Calls -> (SUBSET Sections) \cup (SUBSET Pairs)]
  /\ id \in [Calls -> Ids \cup {NoId}]
  /\ text \in [Calls -> Texts \cup {NoText}]
  /\ pend \in [Calls -> SUBSET Pairs]
  /\ missing \in [Calls -> SUBSET Ids]
  /\ links \in [Calls -> SUBSET (Ids \X Ids)]
  /\ err \in [Calls -> BOOLEAN]
  /\ edits \in 0..MaxEdits /\ crashes \in 0..MaxCrashes
  /\ said \in [Ids -> Contents \cup {NoChunk, Unsaid}]
  /\ raced \in BOOLEAN
  /\ disturbed \subseteq Ids /\ unembedded \subseteq Ids

There(t, i) == t.chunk[i] # NoChunk

FirstId == CHOOSE i \in Ids : TRUE
FirstSection == CHOOSE s \in Sections : TRUE

\* There may be a chunk: a note, or one section, perhaps with another text than its file
\* has now, whose embedding may have failed, the first time or a later one.
Init ==
  /\ disk = FirstDisk
  /\ \E k \in {FirstSection, Note}, x \in {NoChunk} \cup {{t} : t \in Texts},
        v \in {NoVector} \cup {{t} : t \in Texts} :
       /\ k = Note => v = x
       /\ x = NoChunk => k = FirstSection /\ v = NoVector
       /\ db = [key |-> [i \in Ids |-> IF i = FirstId /\ x # NoChunk THEN k ELSE Note],
                chunk |-> [i \in Ids |-> IF i = FirstId THEN x ELSE NoChunk],
                vec |-> [i \in Ids |-> IF i = FirstId THEN v ELSE NoVector],
                edges |-> {}]
       /\ used = IF x = NoChunk THEN {} ELSE {FirstId}
       /\ unembedded = IF x \in {NoChunk, v} THEN {} ELSE {FirstId}
  /\ work = db
  /\ intx = FALSE
  /\ op = [c \in Calls |-> "none"]
  /\ pc = [c \in Calls |-> "new"]
  /\ mode = [c \in Calls |-> "skip"]
  /\ key = [c \in Calls |-> Note]
  /\ todo = [c \in Calls |-> {}]
  /\ id = [c \in Calls |-> NoId]
  /\ text = [c \in Calls |-> NoText]
  /\ pend = [c \in Calls |-> {}]
  /\ missing = [c \in Calls |-> {}]
  /\ links = [c \in Calls |-> {}]
  /\ err = [c \in Calls |-> FALSE]
  /\ edits = 0 /\ crashes = 0
  /\ said = [i \in Ids |-> Unsaid]
  /\ raced = FALSE
  /\ disturbed = {}
-----------------------------------------------------------------------------
(***************************************************************************)
(* The connection, the tables, and what a call has in its hands            *)
(***************************************************************************)

Go(c, p) == pc' = [pc EXCEPT ![c] = p]

\* The call is over, and what it has read is gone.
End(c) ==
  /\ Go(c, "over")
  /\ op' = [op EXCEPT ![c] = "none"] /\ mode' = [mode EXCEPT ![c] = "skip"]
  /\ key' = [key EXCEPT ![c] = Note] /\ todo' = [todo EXCEPT ![c] = {}]
  /\ id' = [id EXCEPT ![c] = NoId] /\ text' = [text EXCEPT ![c] = NoText]
  /\ pend' = [pend EXCEPT ![c] = {}] /\ missing' = [missing EXCEPT ![c] = {}]
  /\ links' = [links EXCEPT ![c] = {}] /\ err' = [err EXCEPT ![c] = FALSE]

\* A statement that writes: it opens a transaction or joins the one that is open.
Execute(w) == work' = w /\ intx' = TRUE /\ UNCHANGED db

Commit == db' = work /\ intx' = FALSE /\ UNCHANGED work

Rollback == work' = db /\ intx' = FALSE /\ UNCHANGED db

IdsOf(S) == {p[1] : p \in S}

\* The chunks a call works on until it is over.
Held(c) == IdsOf(pend[c]) \cup (IF id[c] = NoId THEN {} ELSE {id[c]})

HeldByOthers(c) == UNION {Held(d) : d \in Calls \ {c}}

Changed == {i \in Ids : <<db.key[i], db.chunk[i], db.vec[i]>>
                          # <<work.key[i], work.chunk[i], work.vec[i]>>}

Disturb(S) == disturbed' = disturbed \cup S

\* A change of i begins: until it is committed and reported, it may be there or not.
Begun(S) == said' = [i \in Ids |-> IF i \in S THEN Unsaid ELSE said[i]]

Matching(k) == {i \in Ids : There(work, i) /\ work.key[i] = k}

WithVectors(w, S) ==
  [w EXCEPT !.vec = [i \in Ids |-> IF i \in IdsOf(S)
                                     THEN (CHOOSE p \in S : p[1] = i)[2] ELSE @[i]]]

NextSection(c) == CHOOSE s \in todo[c] : TRUE

\* To the next section, or to the commit after the last.
SectionDone(c) ==
  /\ todo' = [todo EXCEPT ![c] = @ \ {NextSection(c)}]
  /\ Go(c, IF todo[c] = {NextSection(c)} THEN "commit" ELSE "file")

NextPair(c) == CHOOSE p \in todo[c] : TRUE

\* The pairs of the next sub-batch.
Batch(c) ==
  LET full == {S \in SUBSET pend[c] : Cardinality(S) = BatchSize}
  IN IF full = {} THEN pend[c] ELSE CHOOSE S \in full : TRUE

-----------------------------------------------------------------------------
(***************************************************************************)
(* Plausible bugs, each a variant of a definition below                    *)
(***************************************************************************)

\* a section that is there is not looked at again
ReadSectionOnce(c) ==
  LET s == NextSection(c)
  IN /\ pc[c] = "file"
     /\ IF disk[s] = NoText \/ (Matching(s) # {} /\ mode[c] = "skip")
          THEN SectionDone(c) /\ UNCHANGED <<id, text>>
          ELSE /\ id' = [id EXCEPT ![c] = IF Matching(s) = {} THEN NoId
                                            ELSE CHOOSE j \in Matching(s) : TRUE]
               /\ text' = [text EXCEPT ![c] = disk[s]]
               /\ Go(c, "upsert")
               /\ UNCHANGED todo
     /\ UNCHANGED <<disk, store, used, args, pend, missing, links, err, edits, crashes,
                    history>>

\* an edge to the topic, not to the id
EdgesToTopics(t) ==
  {e \in Ids \X (Sections \cup {Note}) :
     There(t, e[1]) /\ \E x \in t.chunk[e[1]] : <<x, e[2]>> \in Links}

\* INSERT OR IGNORE: a vector that is there stays
StoreVectorsIgnore(c) ==
  \E ok \in SUBSET Batch(c) :
    /\ pc[c] = "embed"
    /\ IF ok = {} THEN UNCHANGED store
         ELSE Execute(WithVectors(work, {p \in ok : work.vec[p[1]] = NoVector}))
    /\ unembedded' = (unembedded \cup IdsOf(Batch(c))) \ IdsOf(ok)
    /\ err' = [err EXCEPT ![c] = @ \/ ok # Batch(c)]
    /\ Go(c, "vcommit")
    /\ UNCHANGED <<disk, used, args, todo, id, text, pend, missing, links, edits, crashes,
                   said, raced, disturbed>>

\* a sub-batch with failures is tried again
CommitVectorsRetry(c) ==
  LET rest == IF err[c] THEN pend[c] ELSE pend[c] \ Batch(c)
  IN /\ pc[c] = "vcommit"
     /\ Commit
     /\ pend' = [pend EXCEPT ![c] = rest]
     /\ Go(c, IF rest # {} THEN "embed"
              ELSE IF op[c] = "reindex" THEN "report" ELSE "relink")
     /\ UNCHANGED <<disk, used, args, todo, id, text, missing, links, err, edits, crashes,
                    history>>

\* a failed embedding returns before the commit
TryEmbedReturns(c) ==
  LET p == NextPair(c)
  IN /\ pc[c] = "tryembed"
     /\ \/ /\ Execute(WithVectors(work, {p}))
           /\ unembedded' = unembedded \ {p[1]}
           /\ todo' = [todo EXCEPT ![c] = @ \ {p}]
           /\ Go(c, IF todo[c] = {p} THEN "ccommit" ELSE "change")
           /\ UNCHANGED <<args, id, text, pend, missing, links, err, said>>
        \/ /\ UNCHANGED store
           /\ unembedded' = unembedded \cup {p[1]}
           /\ said' = [said EXCEPT ![p[1]] = p[2]]
           /\ End(c)
     /\ UNCHANGED <<disk, used, edits, crashes, raced, disturbed>>

\* no trigger removes the vectors
WithoutTrigger(w, S) ==
  [w EXCEPT !.chunk = [i \in Ids |-> IF i \in S THEN NoChunk ELSE @[i]],
            !.edges = {e \in @ : e[1] \notin S /\ e[2] \notin S}]

\* DELETE FROM chunks; a trigger removes the vectors, the foreign keys the edges.
Without(w, S) ==
  [w EXCEPT !.chunk = [i \in Ids |-> IF i \in S THEN NoChunk ELSE @[i]],
            !.vec = [i \in Ids |-> IF i \in S THEN NoVector ELSE @[i]],
            !.edges = {e \in @ : e[1] \notin S /\ e[2] \notin S}]
-----------------------------------------------------------------------------
(***************************************************************************)
(* Calls begin                                                             *)
(***************************************************************************)

\* Calls are taken in a fixed order.
Arrive(c, o, k, m) ==
  /\ pc[c] = "new"
  /\ c = CHOOSE d \in Calls : pc[d] = "new"
  /\ o \notin {"append", "update", "delete"} => k = Note
  /\ o # "index" => m = "skip"
  /\ op' = [op EXCEPT ![c] = o]
  /\ key' = [key EXCEPT ![c] = k]
  /\ mode' = [mode EXCEPT ![c] = m]
  /\ Go(c, "get")
  /\ raced' = (raced \/ \E d \in Calls : pc[d] \in Active)
  /\ UNCHANGED <<disk, store, used, locals, edits, crashes, said, disturbed, unembedded>>

\* get_connection(): a transaction that is open is rolled back, whoever opened it.
\* read() and its like only look at the tables afterwards.
GetConnection(c) ==
  /\ pc[c] = "get"
  /\ Rollback
  /\ Disturb(Changed \cap HeldByOthers(c))
  /\ IF op[c] = "read"
       THEN End(c)
       ELSE /\ Go(c, IF op[c] = "index" THEN "file" ELSE "select")
            /\ todo' = [todo EXCEPT ![c] = IF op[c] = "index" THEN Sections ELSE {}]
            /\ UNCHANGED <<args, id, text, pend, missing, links, err>>
  /\ UNCHANGED <<disk, used, edits, crashes, said, raced, unembedded>>
-----------------------------------------------------------------------------
(***************************************************************************)
(* index(), first phase: chunks                                            *)
(***************************************************************************)

ReadSection(c) ==
  LET s == NextSection(c)
      found == Matching(s)
      i == IF found = {} THEN NoId ELSE CHOOSE j \in found : TRUE
  IN /\ pc[c] = "file"
     /\ IF disk[s] = NoText \/ (i # NoId /\ work.chunk[i] = {disk[s]} /\ mode[c] = "skip")
          THEN SectionDone(c) /\ UNCHANGED <<id, text>>
          ELSE /\ id' = [id EXCEPT ![c] = i]
               /\ text' = [text EXCEPT ![c] = disk[s]]
               /\ Go(c, "upsert")
               /\ UNCHANGED todo
     /\ UNCHANGED <<disk, store, used, args, pend, missing, links, err, edits, crashes,
                    history>>

\* chunk_file() raises, for instance on front matter that is not YAML.
ChunkingFails(c) ==
  /\ pc[c] = "file"
  /\ disk[NextSection(c)] # NoText
  /\ SectionDone(c)
  /\ err' = [err EXCEPT ![c] = TRUE]
  /\ UNCHANGED <<disk, store, used, args, id, text, pend, missing, links, edits, crashes,
                 history>>

\* The row that was found is updated, if it is there still; or one is inserted, which
\* the unique index refuses if another call has inserted the section meanwhile.
Upsert(c) ==
  LET s == NextSection(c)
      i == IF id[c] # NoId THEN id[c] ELSE CHOOSE j \in Ids : j \notin used
      refused == id[c] = NoId /\ Matching(s) # {}
  IN /\ pc[c] = "upsert"
     /\ id[c] = NoId => used # Ids
     /\ used' = used \cup {i}
     /\ Execute(IF refused \/ (id[c] # NoId /\ ~There(work, i)) THEN work
                  ELSE [work EXCEPT !.key[i] = s, !.chunk[i] = {text[c]}])
     /\ IF refused THEN err' = [err EXCEPT ![c] = TRUE] /\ UNCHANGED <<pend, disturbed>>
          ELSE /\ pend' = [pend EXCEPT ![c] = {p \in @ : p[1] # i} \cup {<<i, {text[c]}>>}]
               /\ Disturb({i} \cap HeldByOthers(c))
               /\ UNCHANGED err
     /\ Begun({i})
     /\ SectionDone(c)
     /\ id' = [id EXCEPT ![c] = NoId]
     /\ text' = [text EXCEPT ![c] = NoText]
     /\ UNCHANGED <<disk, args, missing, links, edits, crashes, raced, unembedded>>

\* What the chunks are from now on, unless a call says otherwise.
CommitChunks(c) ==
  /\ pc[c] = "commit"
  /\ Commit
  /\ Go(c, IF pend[c] = {} THEN "relink" ELSE "embed")
  /\ said' = [i \in Ids |-> IF i \in IdsOf(pend[c])
                              THEN (CHOOSE p \in pend[c] : p[1] = i)[2] ELSE said[i]]
  /\ UNCHANGED <<disk, used, args, locals, edits, crashes, raced, disturbed, unembedded>>
-----------------------------------------------------------------------------
(***************************************************************************)
(* index(), second phase, and reindex(): vectors                           *)
(***************************************************************************)

Bare == {i \in Ids : There(work, i) /\ work.vec[i] = NoVector}

\* reindex(): chunks without a vector.
SelectMissing(c) ==
  /\ op[c] = "reindex" /\ pc[c] = "select"
  /\ IF Bare = {} THEN End(c)
       ELSE /\ missing' = [missing EXCEPT ![c] = Bare]
            /\ pend' = [pend EXCEPT ![c] = {<<i, work.chunk[i]>> : i \in Bare}]
            /\ Go(c, "embed")
            /\ UNCHANGED <<args, todo, id, text, links, err>>
  /\ UNCHANGED <<disk, store, used, edits, crashes, history>>

\* The API gives the vectors of the sub-batch, or of some of it when it is asked for
\* one at a time and fails on others or too often.
StoreVectors(c) ==
  \E ok \in SUBSET Batch(c) :
    /\ pc[c] = "embed"
    /\ IF ok = {} THEN UNCHANGED store ELSE Execute(WithVectors(work, ok))
    /\ unembedded' = (unembedded \cup IdsOf(Batch(c))) \ IdsOf(ok)
    /\ err' = [err EXCEPT ![c] = @ \/ ok # Batch(c)]
    /\ Go(c, "vcommit")
    /\ UNCHANGED <<disk, used, args, todo, id, text, pend, missing, links, edits, crashes,
                   said, raced, disturbed>>

CommitVectors(c) ==
  LET rest == pend[c] \ Batch(c)
  IN /\ pc[c] = "vcommit"
     /\ Commit
     /\ pend' = [pend EXCEPT ![c] = rest]
     /\ Go(c, IF rest # {} THEN "embed"
              ELSE IF op[c] = "reindex" THEN "report" ELSE "relink")
     /\ UNCHANGED <<disk, used, args, todo, id, text, missing, links, err, edits, crashes,
                    history>>

\* An embedding has failed, and the report says so: it compares how many chunks had no
\* vector with how many vectors there are now, older ones included.
Admits(c) ==
  err[c] /\ Cardinality(missing[c]) # Cardinality({i \in Ids : work.vec[i] # NoVector})

\* reindex() counts the vectors and reports.
ReportVectors(c) ==
  /\ pc[c] = "report"
  /\ End(c)
  /\ UNCHANGED <<disk, store, used, edits, crashes, history>>

\* There is no client for the API (no key): the call ends in the middle.
ClientRaises(c) ==
  /\ pc[c] = "embed"
  /\ unembedded' = unembedded \cup IdsOf(pend[c])
  /\ End(c)
  /\ UNCHANGED <<disk, store, used, edits, crashes, said, raced, disturbed>>
-----------------------------------------------------------------------------
(***************************************************************************)
(* index(), third phase: links                                             *)
(***************************************************************************)

Edges(t) ==
  {e \in Ids \X Ids :
     /\ e[1] # e[2] /\ There(t, e[1]) /\ There(t, e[2])
     /\ \E x \in t.chunk[e[1]] : <<x, t.key[e[2]]>> \in Links}

ReadLinks(c) ==
  /\ pc[c] = "relink"
  /\ links' = [links EXCEPT ![c] = Edges(work)]
  /\ Go(c, "link")
  /\ UNCHANGED <<disk, store, used, args, todo, id, text, pend, missing, err, edits, crashes,
                 history>>

Dangling(c) == {e \in links[c] : ~There(work, e[1]) \/ ~There(work, e[2])}

InsertLinks(c) ==
  /\ pc[c] = "link"
  /\ Dangling(c) = {}
  /\ IF links[c] = {} THEN UNCHANGED store
       ELSE Execute([work EXCEPT !.edges = @ \cup links[c]])
  /\ Go(c, "lcommit")
  /\ UNCHANGED <<disk, used, args, locals, edits, crashes, history>>

\* A chunk was deleted meanwhile: the foreign key refuses the edge, index() ends, and
\* the edges before that one stay in the open transaction.
LinkRaises(c) ==
  /\ pc[c] = "link"
  /\ Dangling(c) # {}
  /\ \E before \in SUBSET (links[c] \ Dangling(c)) :
       Execute([work EXCEPT !.edges = @ \cup before])
  /\ End(c)
  /\ UNCHANGED <<disk, used, edits, crashes, history>>

CommitLinks(c) ==
  /\ pc[c] = "lcommit"
  /\ Commit
  /\ End(c)
  /\ UNCHANGED <<disk, used, edits, crashes, history>>
-----------------------------------------------------------------------------
(***************************************************************************)
(* Single chunks                                                           *)
(***************************************************************************)

\* The topic is there, or is not: the call ends without a change.
Declines(c) ==
  /\ op[c] \in {"write", "append", "update", "delete"} /\ pc[c] = "select"
  /\ (op[c] = "write") = (Matching(key[c]) # {})
  /\ End(c)
  /\ UNCHANGED <<disk, store, used, edits, crashes, history>>

\* The rows the call is going to write: write() has a new id, append() takes one of the
\* topic and what it reads there, update() takes all.
SelectRows(c) ==
  /\ op[c] \in {"write", "append", "update"} /\ pc[c] = "select"
  /\ (op[c] = "write") = (Matching(key[c]) = {})
  /\ op[c] = "write" => used # Ids
  /\ \E S \in CASE op[c] = "write"  -> {{<<CHOOSE i \in Ids : i \notin used, {c}>>}}
                [] op[c] = "append" -> {{<<i, work.chunk[i] \cup {c}>>} : i \in Matching(key[c])}
                [] op[c] = "update" -> {Matching(key[c]) \X {{c}}} :
       /\ pend' = [pend EXCEPT ![c] = S]
       /\ todo' = [todo EXCEPT ![c] = S]
       /\ used' = used \cup IdsOf(S)
  /\ Go(c, "change")
  /\ UNCHANGED <<disk, store, args, id, text, missing, links, err, edits, crashes,
                 history>>

\* INSERT, or UPDATE of a row that may be gone.
Change(c) ==
  LET i == NextPair(c)[1]
  IN /\ pc[c] = "change"
     /\ Execute(IF op[c] = "write" \/ There(work, i)
                  THEN [work EXCEPT !.chunk[i] = NextPair(c)[2]] ELSE work)
     /\ Disturb({i} \cap HeldByOthers(c))
     /\ Begun({i})
     /\ Go(c, "tryembed")
     /\ UNCHANGED <<disk, used, args, locals, edits, crashes, raced, unembedded>>

\* The transaction stays open while the API is asked.  A failure is only a warning.
TryEmbed(c) ==
  LET p == NextPair(c)
  IN /\ pc[c] = "tryembed"
     /\ \/ Execute(WithVectors(work, {p})) /\ unembedded' = unembedded \ {p[1]}
        \/ UNCHANGED store /\ unembedded' = unembedded \cup {p[1]}
     /\ todo' = [todo EXCEPT ![c] = @ \ {p}]
     /\ Go(c, IF todo[c] = {p} THEN "ccommit" ELSE "change")
     /\ UNCHANGED <<disk, used, args, id, text, pend, missing, links, err, edits, crashes, said,
                    raced, disturbed>>

Delete(c) ==
  LET S == Matching(key[c])
  IN /\ op[c] = "delete" /\ pc[c] = "select"
     /\ S # {}
     /\ Execute(Without(work, S))
     /\ Disturb(S \cap HeldByOthers(c))
     /\ Begun(S)
     /\ pend' = [pend EXCEPT ![c] = S \X {{}}]
     /\ Go(c, "ccommit")
     /\ UNCHANGED <<disk, used, args, todo, id, text, missing, links, err, edits, crashes,
                    raced, unembedded>>

\* "Written", "Appended", "Updated", "Deleted".
CommitChange(c) ==
  /\ pc[c] = "ccommit"
  /\ Commit
  /\ said' = [i \in Ids |-> IF i \notin IdsOf(pend[c]) THEN said[i]
                              ELSE IF op[c] = "delete" THEN NoChunk
                              ELSE (CHOOSE p \in pend[c] : p[1] = i)[2]]
  /\ End(c)
  /\ UNCHANGED <<disk, used, edits, crashes, raced, disturbed, unembedded>>

\* search() counts the hits; without results it writes nothing.
CountHits(c) ==
  /\ op[c] = "search" /\ pc[c] = "select"
  /\ \/ End(c) /\ UNCHANGED store
     \/ (\E i \in Ids : There(work, i)) /\ Execute(work) /\ Go(c, "scommit")
        /\ UNCHANGED <<args, locals>>
  /\ UNCHANGED <<disk, used, edits, crashes, history>>

CommitHits(c) ==
  /\ pc[c] = "scommit"
  /\ Commit
  /\ End(c)
  /\ UNCHANGED <<disk, used, edits, crashes, history>>
-----------------------------------------------------------------------------
(***************************************************************************)
(* The files and the process                                               *)
(***************************************************************************)

Edit ==
  /\ edits < MaxEdits
  /\ \A c \in Calls : pc[c] \notin Active
  /\ edits' = edits + 1
  /\ \E s \in Sections, x \in Texts \cup {NoText} : disk' = [disk EXCEPT ![s] = x]
  /\ UNCHANGED <<store, used, args, pc, locals, crashes, history>>

\* The process is killed: what is not committed is gone, and every call with it.
Crash ==
  /\ crashes < MaxCrashes
  /\ crashes' = crashes + 1
  /\ Rollback
  /\ unembedded' = unembedded \cup UNION {IdsOf(pend[c]) : c \in Calls}
  /\ pc' = [c \in Calls |-> IF pc[c] \in Active THEN "over" ELSE pc[c]]
  /\ op' = [c \in Calls |-> "none"] /\ mode' = [c \in Calls |-> "skip"]
  /\ key' = [c \in Calls |-> Note] /\ todo' = [c \in Calls |-> {}]
  /\ id' = [c \in Calls |-> NoId] /\ text' = [c \in Calls |-> NoText]
  /\ pend' = [c \in Calls |-> {}] /\ missing' = [c \in Calls |-> {}]
  /\ links' = [c \in Calls |-> {}] /\ err' = [c \in Calls |-> FALSE]
  /\ UNCHANGED <<disk, used, edits, said, raced, disturbed>>
-----------------------------------------------------------------------------
CallStep(c) ==
  \/ GetConnection(c) \/ ReadSection(c) \/ ChunkingFails(c) \/ Upsert(c)
  \/ CommitChunks(c) \/ SelectMissing(c) \/ StoreVectors(c) \/ CommitVectors(c)
  \/ ReportVectors(c) \/ ClientRaises(c) \/ ReadLinks(c) \/ InsertLinks(c) \/ LinkRaises(c)
  \/ CommitLinks(c) \/ Declines(c) \/ SelectRows(c) \/ Change(c) \/ TryEmbed(c)
  \/ Delete(c) \/ CommitChange(c) \/ CountHits(c) \/ CommitHits(c)

Next ==
  \/ \E c \in Calls : CallStep(c)
  \/ \E c \in Calls, o \in Ops \ {"none"}, k \in Sections \cup {Note},
        m \in {"skip", "update"} : Arrive(c, o, k, m)
  \/ Edit
  \/ Crash

\* Threads are scheduled and a call of the embedding API returns or raises.
Spec == Init /\ [][Next]_vars /\ \A c \in Calls : WF_vars(CallStep(c))
-----------------------------------------------------------------------------
(***************************************************************************)
(* Properties                                                              *)
(***************************************************************************)

\* A vector without its chunk, which a search would look up in vain, is left behind
\* only when a call deleted or rolled back the chunk while another was embedding it:
\* delete(), failures and kills leave none.
OrphanVectors ==
  \A i \in Ids : db.vec[i] # NoVector /\ ~There(db, i) => i \in disturbed

\* A chunk and its vector agree however the calls interleave, unless an embedding
\* failed or was cut off, a call is at work on the chunk, or calls collided on it.
Embedded ==
  \A i \in Ids : There(db, i) =>
    \/ db.vec[i] = db.chunk[i]
    \/ i \in unembedded \cup disturbed
    \/ \E c \in Calls : i \in Held(c)

\* What a call was told is stored or deleted is, also after the failures, rollbacks and
\* kills of other calls, until the next change begins and unless calls collided on it.
StoredAsSaid ==
  \A i \in Ids : said[i] # Unsaid =>
    db.chunk[i] = said[i] \/ i \in disturbed

\* Calls did not overlap and c ends now.
Ends(c, o, p) ==
  op[c] = o /\ pc[c] = p /\ pc'[c] = "over" /\ crashes' = crashes /\ ~raced

\* What a report without errors means, whatever failed or was killed before: after
\* index() each section is one chunk with the text of its file and the links of the
\* text are there; after reindex() no chunk is without a vector, if no chunk had one
\* before or no embedding failed.  (Older vectors can make up for failed ones in
\* reindex()'s count of errors.)
ReportsTrue ==
  [][\A c \in Calls :
       /\ Ends(c, "index", "lcommit") /\ ~err[c] =>
            /\ Edges(db') \subseteq db'.edges
            /\ \A s \in Sections : disk[s] # NoText =>
                 {db'.chunk[i] : i \in {j \in Ids : db'.key[j] = s /\ There(db', j)}}
                   = {{disk[s]}}
       /\ Ends(c, "reindex", "report") /\ ~Admits(c)
            /\ (err[c] => \A i \in Ids \ missing[c] : db.vec[i] = NoVector) =>
            \A i \in Ids : There(db', i) => db'.vec[i] # NoVector]_vars

\* Every call comes back, however often the API fails.
CallsEnd == []<>(\A c \in Calls : pc[c] \notin Active)
=============================================================================
