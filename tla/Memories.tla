------------------------------ MODULE Memories ------------------------------
(***************************************************************************)
(* What the memory store promises of its rows: each step of the database   *)
(* is a whole call.  A change replaces one content, by a text of its own   *)
(* or by the old content with something appended, and has the old content  *)
(* in the history; a text is stored once; a deleted memory has no history  *)
(* and does not come back.  Of calls that overlap, one that failed may     *)
(* leave an entry in a history, refresh() may forget or misplace one,      *)
(* reindex() may write a vector that is out of date, and a deletion may    *)
(* take effect in two steps (and stop after the first): memories first and *)
(* their histories afterwards, or the other way round.                     *)
(***************************************************************************)
CONSTANTS Mems, Calls, Unborn, Gone, NoVector

VARIABLES rows,
          raced,   \* the operations that have overlapped another call
          torn     \* memories that are half deleted

Present(m) == rows[m].content \notin {Unborn, Gone}

Init ==
  /\ \A m \in Mems : /\ rows[m].content \in {Unborn, {}}
                     /\ rows[m].vector = NoVector /\ rows[m].history = {}
  /\ \A m, n \in Mems : rows[m].content = {} /\ rows[n].content = {} => m = n
  /\ raced = {} /\ torn = {}
-----------------------------------------------------------------------------
\* The embedding of the content may have arrived.
Embeds(m) == rows'[m].vector \in {rows[m].vector, rows[m].content} \/ "reindex" \in raced

\* A call that failed may have left an entry.
Collects(m) ==
  /\ rows[m].history \subseteq rows'[m].history
  /\ \/ rows'[m].history = rows[m].history
     \/ raced # {} /\ Present(m) /\ rows'[m].history = rows[m].history \cup {rows[m].content}
     \/ "refresh" \in raced

\* No call has changed the memory.
Stays(m) == rows'[m].content = rows[m].content /\ Embeds(m) /\ Collects(m)

Create(m) ==
  /\ rows[m].content = Unborn /\ \A n \in Mems : rows[n].content # {}
  /\ rows'[m].content = {} /\ rows'[m].vector \in {NoVector, {}} /\ rows'[m].history = {}

\* What a call stores is new: it takes effect once.
New(c) ==
  \A m \in Mems : Present(m) => \A old \in {rows[m].content} \cup rows[m].history : c \notin old

Replace(m, c) ==
  /\ Present(m) /\ New(c)
  /\ rows'[m].content \in {{c}, rows[m].content \cup {c}}
  /\ rows'[m].vector \in {NoVector, rows'[m].content}
  /\ rows[m].history \subseteq rows'[m].history
  /\ rows'[m].history = rows[m].history \cup {rows[m].content} \/ "refresh" \in raced

Remove(m) ==
  /\ Present(m) \/ m \in torn
  /\ rows'[m].content = Gone /\ rows'[m].vector = NoVector /\ rows'[m].history = {}

\* The first half of a deletion.
Tear(m) ==
  /\ raced # {} /\ Present(m)
  /\ \/ rows'[m].content = rows[m].content /\ Embeds(m) /\ rows'[m].history = {}
     \/ rows'[m].content = Gone /\ rows'[m].vector = NoVector /\ Collects(m)

\* The memories of S are half deleted now, those of which nothing is left are not.
Torn(S) ==
  torn' = {m \in torn \cup S : rows'[m].content \notin {Unborn, Gone} \/ rows'[m].history # {}}

Call ==
  /\ \E m \in Mems : /\ Create(m) \/ \E c \in Calls : Replace(m, c)
                     /\ \A n \in Mems \ {m} : Stays(n)
  /\ Torn({}) /\ UNCHANGED raced

Delete ==
  \E S \in SUBSET Mems :
    /\ \/ (\A m \in S : Remove(m)) /\ Torn({})
       \/ (\A m \in S : Tear(m)) /\ Torn(S)
    /\ \A n \in Mems \ S : Stays(n)
    /\ UNCHANGED raced

Embed == (\A m \in Mems : Stays(m)) /\ Torn({}) /\ UNCHANGED raced

Overlap == raced \subseteq raced' /\ UNCHANGED <<rows, torn>>

Next == Call \/ Delete \/ Embed \/ Overlap

Spec == Init /\ [][Next]_<<rows, raced, torn>>
=============================================================================
