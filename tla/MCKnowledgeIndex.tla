-------------------------- MODULE MCKnowledgeIndex --------------------------
(***************************************************************************)
(* Constants for model-checking KnowledgeIndex: one of the texts links to  *)
(* notes, and there is always an id for the next chunk.                    *)
(***************************************************************************)
EXTENDS KnowledgeIndex

CONSTANTS t1

MCFirstDisk == [s \in Sections |-> t1]

MCLinks == {<<t1, Note>>}

\* Enough ids: there may be one, and a call makes at most one per section, or one.
ASSUME Cardinality(Ids) > Cardinality(Calls) * Cardinality(Sections)
=============================================================================
