---------------------------- MODULE KnowledgeStore ----------------------------
(***************************************************************************)
(* The personal knowledge base: IngestionPipeline and LocalVectorStore over *)
(* SQLiteKnowledgeRepository.                                              *)
(*                                                                         *)
(* ingest_document and remove_document run on threads of the tool pool; a  *)
(* call that timed out goes on beside its successors.  The index is a      *)
(* dictionary in memory that each thread changes item by item; the tables  *)
(* change one transaction at a time, and any transaction may find the      *)
(* database locked.  After a restart the index is read from the tables.    *)
(***************************************************************************)
EXTENDS Naturals, FiniteSets

CONSTANTS
    Tasks,       \* threads of the tool pool
    MaxDocs,     \* bound: documents parsed
    ChunkCount,  \* document |-> number of its chunks, 0 when its text is blank
    MaxCrashes   \* bound

ASSUME DocsAssumption == MaxDocs \in Nat /\ ChunkCount \in [1 .. MaxDocs -> Nat]
ASSUME CrashesAssumption == MaxCrashes \in Nat

VARIABLES
    docs,    \* knowledge_documents
    rows,    \* knowledge_chunks
    index,   \* LocalVectorStore._chunks
    made,    \* documents parsed; their ids are 1, 2, ...
    pc, doc, \* per task: where its call is, and the document
    todo,    \* per task: positions of the chunks still to index or to delete
    seen,    \* per task: the index when its scan began
    raced,   \* documents removed while they were ingested
    apart,   \* documents a failure or a race may have left in one place only
    gone,    \* documents removed after their ingestion had ended
    crashes

stores  == <<docs, rows, index>>
tasks   == <<pc, doc, todo, seen>>
history == <<raced, apart, gone>>
vars    == <<stores, made, tasks, history, crashes>>

Docs == 1 .. MaxDocs
NoDoc == 0
Positions(d) == 1 .. ChunkCount[d]
ChunksOf(d)  == {d} \X Positions(d)
Chunks       == UNION {ChunksOf(d) : d \in Docs}
Of(S, d)     == {c \in S : c[1] = d}
FirstOf(S)   == CHOOSE i \in S : \A j \in S : i <= j

Ingesting(d) == \E t \in Tasks : doc[t] = d /\ pc[t] \in {"document", "index", "chunks"}
Quiet(d)     == \A t \in Tasks : doc[t] # d

Init ==
    /\ docs = {} /\ rows = {} /\ index = {} /\ made = 0
    /\ pc   = [t \in Tasks |-> "idle"]
    /\ doc  = [t \in Tasks |-> NoDoc]
    /\ todo = [t \in Tasks |-> {}]
    /\ seen = [t \in Tasks |-> {}]
    /\ raced = {} /\ apart = {} /\ gone = {} /\ crashes = 0

Goto(t, s) == pc' = [pc EXCEPT ![t] = s]

\* The call returns or raises; the tool turns an exception into a result.
Leave(t) ==
    /\ Goto(t, "idle")
    /\ doc'  = [doc EXCEPT ![t] = NoDoc]
    /\ todo' = [todo EXCEPT ![t] = {}]
    /\ seen' = [seen EXCEPT ![t] = {}]

------------------------------------------------------------------------------
\* ingest_file parses, chunks and embeds.  For a document with no text the chunker names a
\* variable it does not have, and raises before anything is stored.
Parse(t) ==
    /\ pc[t] = "idle" /\ made < MaxDocs
    /\ made' = made + 1
    /\ IF ChunkCount[made + 1] = 0 THEN UNCHANGED tasks
       ELSE /\ Goto(t, "document")
            /\ doc' = [doc EXCEPT ![t] = made + 1]
            /\ todo' = [todo EXCEPT ![t] = Positions(made + 1)]
            /\ UNCHANGED seen
    /\ UNCHANGED <<stores, history, crashes>>

\* save_document commits or raises.
SaveDocument(t) ==
    /\ pc[t] = "document"
    /\ \/ docs' = docs \union {doc[t]} /\ Goto(t, "index") /\ UNCHANGED <<doc, todo, seen>>
       \/ UNCHANGED docs /\ Leave(t)
    /\ UNCHANGED <<rows, index, made, history, crashes>>

\* Mutant: positions counted from the wrong end of enumerate().
IndexShifted(t) ==
    /\ pc[t] = "index"
    /\ LET i == FirstOf(todo[t]) IN
        /\ index' = index \union {<<doc[t], i - 1>>}
        /\ todo' = [todo EXCEPT ![t] = @ \ {i}]
        /\ Goto(t, IF todo[t] = {i} THEN "chunks" ELSE "index")
    /\ UNCHANGED <<docs, rows, made, doc, seen, history, crashes>>

\* add_chunks puts one chunk after the other into the dictionary ...
IndexChunk(t) ==
    /\ pc[t] = "index"
    /\ LET i == FirstOf(todo[t]) IN
        /\ index' = index \union {<<doc[t], i>>}
        /\ todo' = [todo EXCEPT ![t] = @ \ {i}]
        /\ Goto(t, IF todo[t] = {i} THEN "chunks" ELSE "index")
    /\ UNCHANGED <<docs, rows, made, doc, seen, history, crashes>>

\* Mutant: a commit after each chunk.
SaveSomeChunks(t) ==
    /\ pc[t] = "chunks"
    /\ \/ rows' = rows \union ChunksOf(doc[t]) /\ UNCHANGED apart
       \/ /\ rows' = rows \union {<<doc[t], 1>>}
          /\ apart' = apart \union {doc[t]}
    /\ Leave(t)
    /\ UNCHANGED <<docs, index, made, raced, gone, crashes>>

\* ... and saves them all in one transaction.
SaveChunks(t) ==
    /\ pc[t] = "chunks"
    /\ \/ rows' = rows \union ChunksOf(doc[t]) /\ UNCHANGED apart
       \/ apart' = apart \union {doc[t]} /\ UNCHANGED rows
    /\ Leave(t)
    /\ UNCHANGED <<docs, index, made, raced, gone, crashes>>

\* delete_document iterates over the dictionary; the id is one that was listed.
Remove(t, d) ==
    /\ pc[t] = "idle" /\ d \in docs \union gone
    /\ Goto(t, "scan")
    /\ doc'  = [doc EXCEPT ![t] = d]
    /\ seen' = [seen EXCEPT ![t] = index]
    /\ raced' = IF Ingesting(d) THEN raced \union {d} ELSE raced
    /\ apart' = IF Ingesting(d) THEN apart \union {d} ELSE apart
    /\ UNCHANGED <<stores, made, todo, gone, crashes>>

\* "dictionary changed size during iteration", or the chunks of the document.
EndScan(t) ==
    /\ pc[t] = "scan"
    /\ IF Cardinality(index) # Cardinality(seen[t]) THEN Leave(t)
       ELSE /\ Goto(t, "delete")
            /\ \E view \in {seen[t], index} :
                todo' = [todo EXCEPT ![t] = {c[2] : c \in Of(view, doc[t])}]
            /\ seen' = [seen EXCEPT ![t] = {}]
            /\ UNCHANGED doc
    /\ UNCHANGED <<stores, made, history, crashes>>

\* A chunk that another removal has deleted raises KeyError.
DeleteChunk(t) ==
    /\ pc[t] = "delete" /\ todo[t] # {}
    /\ LET i == FirstOf(todo[t]) IN
       IF <<doc[t], i>> \in index
       THEN /\ index' = index \ {<<doc[t], i>>}
            /\ todo' = [todo EXCEPT ![t] = @ \ {i}]
            /\ UNCHANGED <<pc, doc, seen>>
       ELSE UNCHANGED index /\ Leave(t)
    /\ UNCHANGED <<docs, rows, made, history, crashes>>

\* Mutant: the chunks are left to ON DELETE CASCADE, which SQLite ignores
\* unless foreign keys are switched on.
DeleteDocumentRow(t) ==
    /\ pc[t] = "delete" /\ todo[t] = {}
    /\ \/ /\ docs' = docs \ {doc[t]}
          /\ gone' = IF doc[t] \in raced THEN gone ELSE gone \union {doc[t]}
          /\ UNCHANGED <<rows, apart>>
       \/ apart' = apart \union {doc[t]} /\ UNCHANGED <<docs, rows, gone>>
    /\ Leave(t)
    /\ UNCHANGED <<index, made, raced, crashes>>

\* The rows of the chunks and of the document go in one transaction.
DeleteDocument(t) ==
    /\ pc[t] = "delete" /\ todo[t] = {}
    /\ \/ /\ docs' = docs \ {doc[t]}
          /\ rows' = rows \ Of(rows, doc[t])
          /\ gone' = IF doc[t] \in raced THEN gone ELSE gone \union {doc[t]}
          /\ UNCHANGED apart
       \/ apart' = apart \union {doc[t]} /\ UNCHANGED <<docs, rows, gone>>
    /\ Leave(t)
    /\ UNCHANGED <<index, made, raced, crashes>>

\* The process dies and starts again: _load_chunks_from_repo, whose failure is
\* only logged.
Restart ==
    /\ crashes < MaxCrashes /\ crashes' = crashes + 1
    /\ pc'   = [t \in Tasks |-> "idle"]
    /\ doc'  = [t \in Tasks |-> NoDoc]
    /\ todo' = [t \in Tasks |-> {}]
    /\ seen' = [t \in Tasks |-> {}]
    /\ \/ index' = rows /\ apart' = {}
       \/ index' = {} /\ apart' = 1 .. made
    /\ UNCHANGED <<docs, rows, made, raced, gone>>

Step(t) ==
    \/ SaveDocument(t) \/ IndexChunk(t) \/ SaveChunks(t)
    \/ EndScan(t) \/ DeleteChunk(t) \/ DeleteDocument(t)

Next ==
    \/ \E t \in Tasks : Parse(t) \/ Step(t)
    \/ \E t \in Tasks, d \in Docs : Remove(t, d)
    \/ Restart

Spec == Init /\ [][Next]_vars

------------------------------------------------------------------------------
TypeOK ==
    /\ docs \subseteq Docs /\ rows \subseteq Chunks /\ index \subseteq Chunks
    /\ made \in 0 .. MaxDocs /\ crashes \in 0 .. MaxCrashes
    /\ pc \in [Tasks -> {"idle", "document", "index", "chunks", "scan", "delete"}]
    /\ doc \in [Tasks -> Docs \union {NoDoc}]
    /\ todo \in [Tasks -> SUBSET Nat]
    /\ seen \in [Tasks -> SUBSET Chunks]
    /\ raced \subseteq Docs /\ apart \subseteq Docs /\ gone \subseteq Docs

\* A document removed after its ingestion had ended is found in no place ever
\* again, whatever overlapped the removal, failed or was restarted since.
RemovedIsGone ==
    \A d \in gone : d \notin docs /\ Of(rows, d) = {} /\ Of(index, d) = {}

\* No call at work on a document, and no failed transaction or race since the
\* start: memory and tables hold the same chunks of it, all or none of them.
IndexMatchesRows ==
    \A d \in Docs \ apart : Quiet(d) =>
        Of(index, d) = Of(rows, d) /\ Of(rows, d) \in {{}, ChunksOf(d)}
==============================================================================
