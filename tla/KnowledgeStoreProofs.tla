------------------------- MODULE KnowledgeStoreProofs -------------------------
(***************************************************************************)
(* Theorems about KnowledgeStore, for every pool, any documents and any    *)
(* number of chunks, failures and restarts.                                *)
(***************************************************************************)
EXTENDS KnowledgeStore, WellFoundedInduction, TLAPS

USE DocsAssumption, CrashesAssumption

------------------------------------------------------------------------------
\* Every set of naturals that is not empty has a first element.
LEMMA FirstOfType ==
  ASSUME NEW S, S \subseteq Nat, S # {}
  PROVE  FirstOf(S) \in S /\ \A j \in S : FirstOf(S) <= j
<1>1. \E x \in S : \A y \in S : ~ (<<y, x>> \in OpToRel(<, Nat))
  BY NatLessThanWellFounded, WFMin
<1>2. PICK x \in S : \A y \in S : ~ (<<y, x>> \in OpToRel(<, Nat))
  BY <1>1
<1>3. \A y \in S : ~ (y < x)
  BY <1>2 DEF OpToRel
<1>4. \A y \in S : x <= y
  BY <1>3
<1> QED
  BY <1>4 DEF FirstOf

------------------------------------------------------------------------------
\* Types, and what ties a task to its document.
TaskOK(t) ==
    /\ pc[t] = "idle" <=> doc[t] = NoDoc
    /\ pc[t] # "idle" => doc[t] \in 1 .. made
    /\ \A i \in todo[t] : i \in Positions(doc[t])
    /\ pc[t] \in {"idle", "scan", "chunks"} => todo[t] = {}
    /\ pc[t] = "index" => todo[t] # {}
    /\ pc[t] = "document" => todo[t] = Positions(doc[t]) /\ todo[t] # {}

TypeInv ==
    /\ TypeOK
    /\ \A t \in Tasks : TaskOK(t)
    /\ docs \subseteq 1 .. made /\ gone \subseteq 1 .. made
    /\ raced \subseteq 1 .. made /\ apart \subseteq 1 .. made

\* Chunks are the pairs of a document and one of its positions.
LEMMA ChunkPairs ==
  /\ \A d \in Docs : \A i \in Positions(d) : <<d, i>> \in Chunks
  /\ \A c \in Chunks : c[1] \in Docs /\ c[2] \in Positions(c[1]) /\ c = <<c[1], c[2]>>
  /\ \A d \in Docs : Positions(d) \subseteq Nat /\ ChunksOf(d) \subseteq Chunks
<1>1. \A d \in Docs : Positions(d) \subseteq Nat
  BY DEF Docs, Positions
<1> QED
  BY <1>1 DEF Chunks, ChunksOf

\* The initial state has its types.
LEMMA TypeInvInit == Init => TypeInv
BY DEF Init, TypeInv, TypeOK, TaskOK, Docs, NoDoc

\* The next chunk a task indexes or deletes is one of its document.
LEMMA NextChunk ==
  ASSUME TypeInv, NEW t \in Tasks, pc[t] # "idle", todo[t] # {}
  PROVE  /\ FirstOf(todo[t]) \in todo[t]
         /\ \A j \in todo[t] : FirstOf(todo[t]) <= j
         /\ FirstOf(todo[t]) \in Positions(doc[t]) /\ doc[t] \in Docs
         /\ <<doc[t], FirstOf(todo[t])>> \in Chunks
<1>1. doc[t] \in Docs /\ todo[t] \subseteq Nat /\ TaskOK(t)
  BY DEF TypeInv, TypeOK, TaskOK, Docs
<1>2. FirstOf(todo[t]) \in todo[t] /\ \A j \in todo[t] : FirstOf(todo[t]) <= j
  BY <1>1, FirstOfType
<1> QED
  BY <1>1, <1>2, ChunkPairs DEF TaskOK

\* Every step keeps the types.
LEMMA TypeInvNext == TypeInv /\ [Next]_vars => TypeInv'
<1> SUFFICES ASSUME TypeInv, [Next]_vars PROVE TypeInv'
  OBVIOUS
<1> DEFINE SetsOK == /\ docs \subseteq 1 .. made /\ gone \subseteq 1 .. made
                     /\ raced \subseteq 1 .. made /\ apart \subseteq 1 .. made
<1>0. /\ TypeOK /\ SetsOK /\ \A t \in Tasks : TaskOK(t)
      /\ \A d \in Docs : Positions(d) \subseteq Nat
      /\ made \in Nat /\ made <= MaxDocs /\ 1 .. made \subseteq Docs
  BY ChunkPairs DEF TypeInv, TypeOK, Docs
<1>1. ASSUME NEW t \in Tasks, Parse(t) PROVE TypeInv'
  <2>1. made' = made + 1 /\ made' \in Docs /\ made' \in 0 .. MaxDocs
    BY <1>0, <1>1 DEF Parse, Docs
  <2>2. 1 .. made \subseteq 1 .. made'
    BY <1>0, <2>1
  <2>3. SetsOK'
    BY <1>0, <1>1, <2>2 DEF Parse, stores, history
  <2>4. CASE ChunkCount[made + 1] = 0
    BY <1>0, <1>1, <2>1, <2>2, <2>3, <2>4
    DEF Parse, tasks, stores, history, TypeInv, TypeOK, TaskOK
  <2>5. CASE ChunkCount[made + 1] # 0
    <3>1. Positions(made') # {} /\ Positions(made') \subseteq Nat
      BY <1>0, <2>1, <2>5 DEF Positions, Docs
    <3>2. /\ pc' = [pc EXCEPT ![t] = "document"] /\ doc' = [doc EXCEPT ![t] = made']
          /\ todo' = [todo EXCEPT ![t] = Positions(made')]
          /\ UNCHANGED <<docs, rows, index, seen, raced, apart, gone, crashes>>
      BY <1>1, <2>1, <2>5 DEF Parse, Goto, stores, history
    <3>3. TypeOK'
      BY <1>0, <2>1, <3>1, <3>2 DEF TypeOK
    <3>4. ASSUME NEW u \in Tasks PROVE TaskOK(u)'
      <4>1. CASE u = t
        BY <1>0, <2>1, <3>1, <3>2, <4>1 DEF TypeOK, TaskOK, NoDoc, Docs
      <4>2. CASE u # t
        BY <1>0, <2>2, <3>2, <4>2 DEF TypeOK, TaskOK
      <4> QED
        BY <4>1, <4>2
    <3> QED
      BY <2>3, <3>3, <3>4 DEF TypeInv
  <2> QED
    BY <2>4, <2>5
<1>2. ASSUME NEW t \in Tasks, SaveDocument(t) PROVE TypeInv'
  <2>1. doc[t] \in 1 .. made
    BY <1>0, <1>2 DEF SaveDocument, TaskOK
  <2>2. TypeOK' /\ SetsOK'
    BY <1>0, <1>2, <2>1 DEF SaveDocument, Goto, Leave, history, TypeOK, NoDoc
  <2>3. ASSUME NEW u \in Tasks PROVE TaskOK(u)'
    BY <1>0, <1>2 DEF SaveDocument, Goto, Leave, history, TypeOK, TaskOK, NoDoc
  <2> QED
    BY <2>2, <2>3 DEF TypeInv
<1>3. ASSUME NEW t \in Tasks, IndexChunk(t) PROVE TypeInv'
  <2>1. pc[t] = "index" /\ todo[t] # {}
    BY <1>0, <1>3 DEF IndexChunk, TaskOK
  <2> DEFINE i == FirstOf(todo[t])
  <2>2. i \in todo[t] /\ <<doc[t], i>> \in Chunks
    BY <2>1, NextChunk
  <2>3. /\ index' = index \union {<<doc[t], i>>}
        /\ todo' = [todo EXCEPT ![t] = @ \ {i}]
        /\ pc' = [pc EXCEPT ![t] = IF todo[t] = {i} THEN "chunks" ELSE "index"]
        /\ UNCHANGED <<docs, rows, made, doc, seen, raced, apart, gone, crashes>>
    BY <1>3 DEF IndexChunk, Goto, history
  <2> HIDE DEF i
  <2>4. TypeOK'
    BY <1>0, <2>2, <2>3 DEF TypeOK
  <2>5. ASSUME NEW u \in Tasks PROVE TaskOK(u)'
    BY <1>0, <2>1, <2>2, <2>3 DEF TypeOK, TaskOK
  <2> QED
    BY <1>0, <2>3, <2>4, <2>5 DEF TypeInv
<1>4. ASSUME NEW t \in Tasks, SaveChunks(t) PROVE TypeInv'
  <2>1. doc[t] \in 1 .. made /\ doc[t] \in Docs /\ ChunksOf(doc[t]) \subseteq Chunks
    BY <1>0, <1>4, ChunkPairs DEF SaveChunks, TaskOK
  <2>2. TypeOK' /\ SetsOK'
    BY <1>0, <1>4, <2>1 DEF SaveChunks, Leave, Goto, TypeOK, NoDoc
  <2>3. ASSUME NEW u \in Tasks PROVE TaskOK(u)'
    BY <1>0, <1>4 DEF SaveChunks, Leave, Goto, TypeOK, TaskOK, NoDoc
  <2> QED
    BY <2>2, <2>3 DEF TypeInv
<1>5. ASSUME NEW t \in Tasks, NEW d \in Docs, Remove(t, d) PROVE TypeInv'
  <2>1. d \in 1 .. made
    BY <1>0, <1>5 DEF Remove
  <2>2. TypeOK' /\ SetsOK'
    BY <1>0, <1>5, <2>1 DEF Remove, Goto, stores, TypeOK
  <2>3. ASSUME NEW u \in Tasks PROVE TaskOK(u)'
    <3>1. todo[t] = {}
      BY <1>0, <1>5 DEF Remove, TaskOK
    <3> QED
      BY <1>0, <1>5, <2>1, <3>1 DEF Remove, Goto, stores, TypeOK, TaskOK, NoDoc, Docs
  <2> QED
    BY <2>2, <2>3 DEF TypeInv
<1>6. ASSUME NEW t \in Tasks, EndScan(t) PROVE TypeInv'
  <2>1. CASE Cardinality(index) # Cardinality(seen[t])
    <3>1. TypeOK' /\ SetsOK'
      BY <1>0, <1>6, <2>1 DEF EndScan, Leave, Goto, stores, history, TypeOK, NoDoc
    <3>2. ASSUME NEW u \in Tasks PROVE TaskOK(u)'
      BY <1>0, <1>6, <2>1 DEF EndScan, Leave, Goto, stores, history, TypeOK, TaskOK, NoDoc
    <3> QED
      BY <3>1, <3>2 DEF TypeInv
  <2>2. CASE Cardinality(index) = Cardinality(seen[t])
    <3>1. PICK view \in {seen[t], index} :
                 todo' = [todo EXCEPT ![t] = {c[2] : c \in Of(view, doc[t])}]
      BY <1>6, <2>2 DEF EndScan
    <3>2. doc[t] \in 1 .. made /\ doc[t] \in Docs /\ view \subseteq Chunks
      BY <1>0, <1>6 DEF EndScan, TaskOK, TypeOK
    <3> DEFINE found == {c[2] : c \in Of(view, doc[t])}
    <3>3. found \subseteq Positions(doc[t])
      BY <3>2, ChunkPairs DEF Of
    <3> HIDE DEF found
    <3>4. /\ pc[t] = "scan" /\ pc' = [pc EXCEPT ![t] = "delete"]
          /\ todo' = [todo EXCEPT ![t] = found]
          /\ seen' = [seen EXCEPT ![t] = {}]
          /\ UNCHANGED <<docs, rows, index, made, doc, raced, apart, gone, crashes>>
      BY <1>6, <2>2, <3>1 DEF EndScan, Goto, stores, history, found
    <3>5. TypeOK'
      BY <1>0, <3>2, <3>3, <3>4 DEF TypeOK
    <3>6. ASSUME NEW u \in Tasks PROVE TaskOK(u)'
      BY <1>0, <3>2, <3>3, <3>4 DEF TypeOK, TaskOK
    <3> QED
      BY <1>0, <3>4, <3>5, <3>6 DEF TypeInv
  <2> QED
    BY <2>1, <2>2
<1>7. ASSUME NEW t \in Tasks, DeleteChunk(t) PROVE TypeInv'
  <2> DEFINE i == FirstOf(todo[t])
  <2>1. /\ pc[t] = "delete"
        /\ UNCHANGED <<docs, rows, made, raced, apart, gone, crashes>>
        /\ \/ /\ index' = index \ {<<doc[t], i>>}
              /\ todo' = [todo EXCEPT ![t] = @ \ {i}]
              /\ UNCHANGED <<pc, doc, seen>>
           \/ UNCHANGED index /\ Leave(t)
    BY <1>7 DEF DeleteChunk, history
  <2> HIDE DEF i
  <2>2. CASE UNCHANGED index /\ Leave(t)
    <3>1. TypeOK' /\ SetsOK'
      BY <1>0, <2>1, <2>2 DEF Leave, Goto, TypeOK, NoDoc
    <3>2. ASSUME NEW u \in Tasks PROVE TaskOK(u)'
      BY <1>0, <2>1, <2>2 DEF Leave, Goto, TypeOK, TaskOK, NoDoc
    <3> QED
      BY <3>1, <3>2 DEF TypeInv
  <2>3. CASE /\ index' = index \ {<<doc[t], i>>}
             /\ todo' = [todo EXCEPT ![t] = @ \ {i}]
             /\ UNCHANGED <<pc, doc, seen>>
    <3>1. TypeOK' /\ SetsOK'
      BY <1>0, <2>1, <2>3 DEF TypeOK
    <3>2. ASSUME NEW u \in Tasks PROVE TaskOK(u)'
      BY <1>0, <2>1, <2>3 DEF TypeOK, TaskOK
    <3> QED
      BY <3>1, <3>2 DEF TypeInv
  <2> QED
    BY <2>1, <2>2, <2>3
<1>8. ASSUME NEW t \in Tasks, DeleteDocument(t) PROVE TypeInv'
  <2>1. doc[t] \in 1 .. made /\ doc[t] \in Docs /\ Of(rows, doc[t]) \subseteq rows
    BY <1>0, <1>8 DEF DeleteDocument, TaskOK, Of
  <2>2. TypeOK' /\ SetsOK'
    BY <1>0, <1>8, <2>1 DEF DeleteDocument, Leave, Goto, TypeOK, NoDoc
  <2>3. ASSUME NEW u \in Tasks PROVE TaskOK(u)'
    BY <1>0, <1>8 DEF DeleteDocument, Leave, Goto, TypeOK, TaskOK, NoDoc
  <2> QED
    BY <2>2, <2>3 DEF TypeInv
<1>9. CASE Restart
  BY <1>0, <1>9 DEF Restart, TypeInv, TypeOK, TaskOK, NoDoc
<1>10. CASE UNCHANGED vars
  BY <1>0, <1>10 DEF vars, stores, tasks, history, TypeInv, TypeOK, TaskOK
<1> QED
  BY <1>1, <1>2, <1>3, <1>4, <1>5, <1>6, <1>7, <1>8, <1>9, <1>10 DEF Next, Step

\* The type invariant holds in every reachable state.
THEOREM TypeCorrect == Spec => []TypeOK
<1>1. Init => TypeInv
  BY TypeInvInit
<1>2. TypeInv /\ [Next]_vars => TypeInv'
  BY TypeInvNext
<1>3. TypeInv => TypeOK
  BY DEF TypeInv
<1> QED
  BY <1>1, <1>2, <1>3, PTL DEF Spec

------------------------------------------------------------------------------
\* What is in the tables and in memory, document by document.
Ingests(t)  == pc[t] \in {"document", "index", "chunks"}
Whole(S, d) == \A i \in Positions(d) : <<d, i>> \in S
None(S, d)  == \A i \in Positions(d) : <<d, i>> \notin S

\* A removal that was not raced since the start works on a document nobody adds
\* chunks to, and has in its hands every chunk of it that is left.
RemoverOK(t, d) ==
    pc[t] \in {"scan", "delete"} /\ doc[t] = d /\ (d \notin raced \/ d \notin apart) =>
        /\ ~ Ingesting(d)
        /\ \A i \in Positions(d) : <<d, i>> \in index =>
             /\ pc[t] = "scan" => <<d, i>> \in seen[t]
             /\ pc[t] = "delete" => i \in todo[t]

\* An ingestion has indexed what it no longer has to do.
IngestOK(t, d) ==
    Ingests(t) /\ doc[t] = d /\ d \notin apart =>
        /\ None(rows, d)
        /\ \A i \in Positions(d) : <<d, i>> \in index <=> i \notin todo[t]

\* A removal that will find every chunk it still has to delete.
Completes(t, d) ==
    pc[t] = "delete" /\ doc[t] = d /\ \A i \in todo[t] : <<d, i>> \in index

\* Removals delete from the first chunk on; what they have deleted in memory is
\* still in the tables only while one of them is on its way to the end.
SettledOK(d) ==
    d \notin apart /\ ~ Ingesting(d) =>
        /\ \A i \in Positions(d) : <<d, i>> \in index =>
             /\ <<d, i>> \in rows
             /\ \A j \in Positions(d) : i <= j => <<d, j>> \in index
        /\ \/ \A i \in Positions(d) : <<d, i>> \in rows => <<d, i>> \in index
           \/ \E t \in Tasks : Completes(t, d)

DocOK(d) ==
    /\ d \notin 1 .. made => None(rows, d) /\ None(index, d)
    /\ Whole(rows, d) \/ None(rows, d)
    /\ d \in gone => d \notin docs /\ None(rows, d) /\ None(index, d) /\ ~ Ingesting(d)
    /\ SettledOK(d)

IngestOnce ==
    \A t \in Tasks, u \in Tasks :
        Ingests(t) /\ Ingests(u) /\ doc[t] = doc[u] => t = u

StoreInv ==
    /\ IngestOnce
    /\ \A t \in Tasks, d \in Docs : RemoverOK(t, d) /\ IngestOK(t, d)
    /\ \A d \in Docs : DocOK(d)

\* The initial state satisfies the invariant of the stores.
LEMMA StoreInvInit == Init => StoreInv
BY DEF Init, StoreInv, IngestOnce, RemoverOK, IngestOK, DocOK, SettledOK,
       Ingests, Ingesting, Whole, None

\* A new document has no chunks anywhere, and nobody else works on it.
LEMMA StoreParse ==
  ASSUME TypeInv, TypeInv', StoreInv, NEW t \in Tasks, Parse(t)
  PROVE  StoreInv'
<1> USE DEF Ingests, Ingesting, Whole, None
<1> DEFINE Same(u) == /\ pc'[u] = pc[u] /\ doc'[u] = doc[u]
                      /\ todo'[u] = todo[u] /\ seen'[u] = seen[u]
<1>0. /\ TypeOK /\ TypeOK' /\ IngestOnce
      /\ \A u \in Tasks : TaskOK(u) /\ TaskOK(u)'
      /\ \A u \in Tasks, d \in Docs : RemoverOK(u, d) /\ IngestOK(u, d)
      /\ \A d \in Docs : DocOK(d)
      /\ made \in Nat /\ \A d \in Docs : d \in Nat /\ d # NoDoc
  <2>1. TypeOK /\ \A u \in Tasks : TaskOK(u)
    BY DEF TypeInv
  <2>2. TypeOK' /\ \A u \in Tasks : TaskOK(u)'
    BY DEF TypeInv
  <2>3. made \in Nat /\ \A d \in Docs : d \in Nat /\ d # NoDoc
    BY <2>1 DEF TypeOK, Docs, NoDoc
  <2> QED
    BY <2>1, <2>2, <2>3 DEF StoreInv
<1>1. /\ made' = made + 1 /\ made' \in Docs /\ \A u \in Tasks \ {t} : Same(u)
      /\ pc[t] = "idle"
      /\ \/ Same(t)
         \/ /\ pc'[t] = "document" /\ doc'[t] = made' /\ todo'[t] = Positions(made')
            /\ seen'[t] = seen[t]
      /\ UNCHANGED <<docs, rows, index, raced, apart, gone>>
  BY <1>0 DEF Parse, Goto, tasks, stores, history, Docs, TypeOK
<1>2. IngestOnce'
  BY <1>0, <1>1 DEF IngestOnce, TaskOK
<1>3. ASSUME NEW u \in Tasks, NEW d \in Docs PROVE RemoverOK(u, d)'
  BY <1>0, <1>1, SMTT(60) DEF RemoverOK, TaskOK
<1>4. ASSUME NEW u \in Tasks, NEW d \in Docs PROVE IngestOK(u, d)'
  BY <1>0, <1>1 DEF IngestOK, TaskOK, DocOK
<1>5. ASSUME NEW d \in Docs PROVE DocOK(d)'
  <2>0. /\ d \notin 1 .. made => None(rows, d) /\ None(index, d)
        /\ Whole(rows, d) \/ None(rows, d)
        /\ d \in gone => d \notin docs /\ None(rows, d) /\ None(index, d) /\ ~ Ingesting(d)
        /\ SettledOK(d)
    BY <1>0 DEF DocOK
  <2>1. (d \notin 1 .. made => None(rows, d) /\ None(index, d))'
    BY <1>0, <1>1, <2>0
  <2>2. (Whole(rows, d) \/ None(rows, d))'
    BY <1>0, <1>1, <2>0
  <2>3. (d \in gone => d \notin docs /\ None(rows, d) /\ None(index, d) /\ ~ Ingesting(d))'
    <3>1. gone \subseteq 1 .. made
      BY DEF TypeInv
    <3> QED
      BY <1>0, <1>1, <2>0, <3>1
  <2>4. SettledOK(d)'
    BY <1>0, <1>1, <2>0 DEF SettledOK, Completes, TaskOK
  <2> QED
    BY <2>1, <2>2, <2>3, <2>4 DEF DocOK
<1> QED
  BY <1>2, <1>3, <1>4, <1>5 DEF StoreInv

\* Only the row of the document appears.
LEMMA StoreSaveDocument ==
  ASSUME TypeInv, TypeInv', StoreInv, NEW t \in Tasks, SaveDocument(t)
  PROVE  StoreInv'
<1> USE DEF Ingests, Ingesting, Whole, None
<1> DEFINE Same(u) == /\ pc'[u] = pc[u] /\ doc'[u] = doc[u]
                      /\ todo'[u] = todo[u] /\ seen'[u] = seen[u]
<1>0. /\ TypeOK /\ TypeOK' /\ IngestOnce
      /\ \A u \in Tasks : TaskOK(u) /\ TaskOK(u)'
      /\ \A u \in Tasks, d \in Docs : RemoverOK(u, d) /\ IngestOK(u, d)
      /\ \A d \in Docs : DocOK(d)
      /\ made \in Nat /\ \A d \in Docs : d \in Nat /\ d # NoDoc
  <2>1. TypeOK /\ \A u \in Tasks : TaskOK(u)
    BY DEF TypeInv
  <2>2. TypeOK' /\ \A u \in Tasks : TaskOK(u)'
    BY DEF TypeInv
  <2>3. made \in Nat /\ \A d \in Docs : d \in Nat /\ d # NoDoc
    BY <2>1 DEF TypeOK, Docs, NoDoc
  <2> QED
    BY <2>1, <2>2, <2>3 DEF StoreInv
<1>1. /\ pc[t] = "document" /\ docs' \subseteq docs \union {doc[t]}
      /\ \A u \in Tasks \ {t} : Same(u)
      /\ \/ pc'[t] = "index" /\ doc'[t] = doc[t] /\ todo'[t] = todo[t]
         \/ pc'[t] = "idle" /\ doc'[t] = NoDoc /\ todo'[t] = {} /\ seen'[t] = {}
      /\ UNCHANGED <<rows, index, made, raced, apart, gone>>
  BY <1>0 DEF SaveDocument, Goto, Leave, history, TypeOK
<1>2. IngestOnce'
  BY <1>0, <1>1 DEF IngestOnce, TaskOK
<1>3. ASSUME NEW u \in Tasks, NEW d \in Docs PROVE RemoverOK(u, d)'
  BY <1>0, <1>1, SMTT(60) DEF RemoverOK, TaskOK
<1>4. ASSUME NEW u \in Tasks, NEW d \in Docs PROVE IngestOK(u, d)'
  BY <1>0, <1>1 DEF IngestOK, TaskOK, IngestOnce
<1>5. ASSUME NEW d \in Docs PROVE DocOK(d)'
  <2>0. /\ d \notin 1 .. made => None(rows, d) /\ None(index, d)
        /\ Whole(rows, d) \/ None(rows, d)
        /\ d \in gone => d \notin docs /\ None(rows, d) /\ None(index, d) /\ ~ Ingesting(d)
        /\ SettledOK(d)
    BY <1>0 DEF DocOK
  <2>1. (d \notin 1 .. made => None(rows, d) /\ None(index, d))'
    BY <1>0, <1>1, <2>0
  <2>2. (Whole(rows, d) \/ None(rows, d))'
    BY <1>0, <1>1, <2>0
  <2>3. (d \in gone => d \notin docs /\ None(rows, d) /\ None(index, d) /\ ~ Ingesting(d))'
    BY <1>0, <1>1, <2>0 DEF TaskOK
  <2>4. SettledOK(d)'
    <3>1. CASE d = doc[t]
      <4>1. d \notin apart => None(rows, d) /\ None(index, d)
        BY <1>0, <1>1, <3>1 DEF IngestOK, TaskOK
      <4> QED
        BY <1>1, <4>1 DEF SettledOK
    <3>2. CASE d # doc[t]
      BY <1>0, <1>1, <2>0, <3>2 DEF SettledOK, Completes, TaskOK
    <3> QED
      BY <3>1, <3>2
  <2> QED
    BY <2>1, <2>2, <2>3, <2>4 DEF DocOK
<1> QED
  BY <1>2, <1>3, <1>4, <1>5 DEF StoreInv

\* Only one task indexes chunks of a document, and no removal counts on it.
LEMMA StoreIndexChunk ==
  ASSUME TypeInv, TypeInv', StoreInv, NEW t \in Tasks, IndexChunk(t)
  PROVE  StoreInv'
<1> USE DEF Ingests, Ingesting, Whole, None
<1> DEFINE Same(u) == /\ pc'[u] = pc[u] /\ doc'[u] = doc[u]
                      /\ todo'[u] = todo[u] /\ seen'[u] = seen[u]
<1>0. /\ TypeOK /\ TypeOK' /\ IngestOnce
      /\ \A u \in Tasks : TaskOK(u) /\ TaskOK(u)'
      /\ \A u \in Tasks, d \in Docs : RemoverOK(u, d) /\ IngestOK(u, d)
      /\ \A d \in Docs : DocOK(d)
      /\ made \in Nat /\ \A d \in Docs : d \in Nat /\ d # NoDoc
  <2>1. TypeOK /\ \A u \in Tasks : TaskOK(u)
    BY DEF TypeInv
  <2>2. TypeOK' /\ \A u \in Tasks : TaskOK(u)'
    BY DEF TypeInv
  <2>3. made \in Nat /\ \A d \in Docs : d \in Nat /\ d # NoDoc
    BY <2>1 DEF TypeOK, Docs, NoDoc
  <2> QED
    BY <2>1, <2>2, <2>3 DEF StoreInv
<1> DEFINE i == FirstOf(todo[t])
<1>a. i \in todo[t] /\ i \in Positions(doc[t]) /\ doc[t] \in Docs /\ doc[t] \in 1 .. made
  <2>1. pc[t] = "index" /\ pc[t] # "idle" /\ todo[t] # {}
    BY <1>0 DEF IndexChunk, TaskOK
  <2> QED
    BY <1>0, <2>1, NextChunk DEF TaskOK
<1> HIDE DEF i
<1>1. /\ pc[t] = "index" /\ pc'[t] \in {"index", "chunks"}
      /\ doc'[t] = doc[t] /\ todo'[t] = todo[t] \ {i} /\ seen'[t] = seen[t]
      /\ \A u \in Tasks \ {t} : Same(u)
      /\ \A d \in Docs : \A j \in Positions(d) :
           <<d, j>> \in index' <=> <<d, j>> \in index \/ (d = doc[t] /\ j = i)
      /\ UNCHANGED <<docs, rows, made, raced, apart, gone>>
  BY <1>0, <1>a DEF IndexChunk, Goto, history, TypeOK, i
<1>2. IngestOnce'
  BY <1>0, <1>1 DEF IngestOnce, TaskOK
<1>3. ASSUME NEW u \in Tasks, NEW d \in Docs PROVE RemoverOK(u, d)'
  BY <1>0, <1>1, SMTT(60) DEF RemoverOK, TaskOK
<1>4. ASSUME NEW u \in Tasks, NEW d \in Docs PROVE IngestOK(u, d)'
  BY <1>0, <1>1, <1>a, SMTT(60) DEF IngestOK, TaskOK, IngestOnce
<1>5. ASSUME NEW d \in Docs PROVE DocOK(d)'
  <2>0. /\ d \notin 1 .. made => None(rows, d) /\ None(index, d)
        /\ Whole(rows, d) \/ None(rows, d)
        /\ d \in gone => d \notin docs /\ None(rows, d) /\ None(index, d) /\ ~ Ingesting(d)
        /\ SettledOK(d)
    BY <1>0 DEF DocOK
  <2>1. (d \notin 1 .. made => None(rows, d) /\ None(index, d))'
    BY <1>0, <1>1, <1>a, <2>0
  <2>2. (Whole(rows, d) \/ None(rows, d))'
    BY <1>0, <1>1, <2>0
  <2>3. (d \in gone => d \notin docs /\ None(rows, d) /\ None(index, d) /\ ~ Ingesting(d))'
    BY <1>0, <1>1, <2>0 DEF TaskOK
  <2>4. SettledOK(d)'
    BY <1>0, <1>1, <2>0, SMTT(60) DEF SettledOK, Completes, TaskOK
  <2> QED
    BY <2>1, <2>2, <2>3, <2>4 DEF DocOK
<1> QED
  BY <1>2, <1>3, <1>4, <1>5 DEF StoreInv

\* The rows appear together, when every chunk is in the index.
LEMMA StoreSaveChunks ==
  ASSUME TypeInv, TypeInv', StoreInv, NEW t \in Tasks, SaveChunks(t)
  PROVE  StoreInv'
<1> USE DEF Ingests, Ingesting, Whole, None
<1> DEFINE Same(u) == /\ pc'[u] = pc[u] /\ doc'[u] = doc[u]
                      /\ todo'[u] = todo[u] /\ seen'[u] = seen[u]
<1>0. /\ TypeOK /\ TypeOK' /\ IngestOnce
      /\ \A u \in Tasks : TaskOK(u) /\ TaskOK(u)'
      /\ \A u \in Tasks, d \in Docs : RemoverOK(u, d) /\ IngestOK(u, d)
      /\ \A d \in Docs : DocOK(d)
      /\ made \in Nat /\ \A d \in Docs : d \in Nat /\ d # NoDoc
  <2>1. TypeOK /\ \A u \in Tasks : TaskOK(u)
    BY DEF TypeInv
  <2>2. TypeOK' /\ \A u \in Tasks : TaskOK(u)'
    BY DEF TypeInv
  <2>3. made \in Nat /\ \A d \in Docs : d \in Nat /\ d # NoDoc
    BY <2>1 DEF TypeOK, Docs, NoDoc
  <2> QED
    BY <2>1, <2>2, <2>3 DEF StoreInv
<1>1. /\ pc[t] = "chunks" /\ doc[t] \in Docs /\ doc[t] \in 1 .. made
      /\ pc'[t] = "idle" /\ doc'[t] = NoDoc /\ todo'[t] = {} /\ seen'[t] = {}
      /\ \A u \in Tasks \ {t} : Same(u)
      /\ \/ /\ \A d \in Docs : \A j \in Positions(d) :
                 <<d, j>> \in rows' <=> <<d, j>> \in rows \/ d = doc[t]
            /\ UNCHANGED apart
         \/ apart' = apart \union {doc[t]} /\ UNCHANGED rows
      /\ UNCHANGED <<docs, index, made, raced, gone>>
  BY <1>0 DEF SaveChunks, Leave, Goto, ChunksOf, TaskOK, TypeOK
<1>2. IngestOnce'
  BY <1>0, <1>1 DEF IngestOnce, TaskOK
<1>3. ASSUME NEW u \in Tasks, NEW d \in Docs PROVE RemoverOK(u, d)'
  <2>1. (\A v \in Tasks \ {t} : Same(v)) /\ pc'[t] = "idle" /\ apart \subseteq apart'
        /\ UNCHANGED <<index, raced>>
    BY <1>1
  <2> QED
    BY <1>0, <2>1 DEF RemoverOK
<1>4. ASSUME NEW u \in Tasks, NEW d \in Docs PROVE IngestOK(u, d)'
  BY <1>0, <1>1 DEF IngestOK, TaskOK, IngestOnce
<1>5. ASSUME NEW d \in Docs PROVE DocOK(d)'
  <2>0. /\ d \notin 1 .. made => None(rows, d) /\ None(index, d)
        /\ Whole(rows, d) \/ None(rows, d)
        /\ d \in gone => d \notin docs /\ None(rows, d) /\ None(index, d) /\ ~ Ingesting(d)
        /\ SettledOK(d)
    BY <1>0 DEF DocOK
  <2>1. (d \notin 1 .. made => None(rows, d) /\ None(index, d))'
    BY <1>0, <1>1, <2>0
  <2>2. (Whole(rows, d) \/ None(rows, d))'
    BY <1>0, <1>1, <2>0
  <2>3. (d \in gone => d \notin docs /\ None(rows, d) /\ None(index, d) /\ ~ Ingesting(d))'
    BY <1>0, <1>1, <2>0 DEF TaskOK
  <2>4. SettledOK(d)'
    <3>1. CASE d = doc[t]
      <4>1. d \notin apart => None(rows, d) /\ Whole(index, d)
        BY <1>0, <1>1, <3>1 DEF IngestOK, TaskOK
      <4> QED
        BY <1>1, <3>1, <4>1 DEF SettledOK
    <3>2. CASE d # doc[t]
      BY <1>0, <1>1, <2>0, <3>2 DEF SettledOK, Completes, TaskOK
    <3> QED
      BY <3>1, <3>2
  <2> QED
    BY <2>1, <2>2, <2>3, <2>4 DEF DocOK
<1> QED
  BY <1>2, <1>3, <1>4, <1>5 DEF StoreInv

\* A removal sees every chunk of its document when it begins.
LEMMA StoreRemove ==
  ASSUME TypeInv, TypeInv', StoreInv, NEW t \in Tasks, NEW e \in Docs, Remove(t, e)
  PROVE  StoreInv'
<1> USE DEF Ingests, Ingesting, Whole, None
<1> DEFINE Same(u) == /\ pc'[u] = pc[u] /\ doc'[u] = doc[u]
                      /\ todo'[u] = todo[u] /\ seen'[u] = seen[u]
<1>0. /\ TypeOK /\ TypeOK' /\ IngestOnce
      /\ \A u \in Tasks : TaskOK(u) /\ TaskOK(u)'
      /\ \A u \in Tasks, d \in Docs : RemoverOK(u, d) /\ IngestOK(u, d)
      /\ \A d \in Docs : DocOK(d)
      /\ made \in Nat /\ \A d \in Docs : d \in Nat /\ d # NoDoc
  <2>1. TypeOK /\ \A u \in Tasks : TaskOK(u)
    BY DEF TypeInv
  <2>2. TypeOK' /\ \A u \in Tasks : TaskOK(u)'
    BY DEF TypeInv
  <2>3. made \in Nat /\ \A d \in Docs : d \in Nat /\ d # NoDoc
    BY <2>1 DEF TypeOK, Docs, NoDoc
  <2> QED
    BY <2>1, <2>2, <2>3 DEF StoreInv
<1>1. /\ pc[t] = "idle" /\ pc'[t] = "scan" /\ doc'[t] = e /\ seen'[t] = index
      /\ todo'[t] = todo[t] /\ \A u \in Tasks \ {t} : Same(u)
      /\ Ingesting(e) => e \in raced' /\ e \in apart'
      /\ raced \subseteq raced' /\ apart \subseteq apart'
      /\ UNCHANGED <<docs, rows, index, made, gone>>
  BY <1>0 DEF Remove, Goto, stores, TypeOK
<1>2. IngestOnce'
  BY <1>0, <1>1 DEF IngestOnce, TaskOK
<1>3. ASSUME NEW u \in Tasks, NEW d \in Docs PROVE RemoverOK(u, d)'
  BY <1>0, <1>1, SMTT(60) DEF RemoverOK, TaskOK
<1>4. ASSUME NEW u \in Tasks, NEW d \in Docs PROVE IngestOK(u, d)'
  BY <1>0, <1>1 DEF IngestOK, TaskOK, IngestOnce
<1>5. ASSUME NEW d \in Docs PROVE DocOK(d)'
  <2>0. /\ d \notin 1 .. made => None(rows, d) /\ None(index, d)
        /\ Whole(rows, d) \/ None(rows, d)
        /\ d \in gone => d \notin docs /\ None(rows, d) /\ None(index, d) /\ ~ Ingesting(d)
        /\ SettledOK(d)
    BY <1>0 DEF DocOK
  <2>1. (d \notin 1 .. made => None(rows, d) /\ None(index, d))'
    BY <1>0, <1>1, <2>0
  <2>2. (Whole(rows, d) \/ None(rows, d))'
    BY <1>0, <1>1, <2>0
  <2>3. (d \in gone => d \notin docs /\ None(rows, d) /\ None(index, d) /\ ~ Ingesting(d))'
    BY <1>0, <1>1, <2>0 DEF TaskOK
  <2>4. SettledOK(d)'
    BY <1>0, <1>1, <2>0 DEF SettledOK, Completes, TaskOK
  <2> QED
    BY <2>1, <2>2, <2>3, <2>4 DEF DocOK
<1> QED
  BY <1>2, <1>3, <1>4, <1>5 DEF StoreInv

\* What a removal is to delete holds every chunk that is left of the document.
LEMMA StoreEndScan ==
  ASSUME TypeInv, TypeInv', StoreInv, NEW t \in Tasks, EndScan(t)
  PROVE  StoreInv'
<1> USE DEF Ingests, Ingesting, Whole, None
<1> DEFINE Same(u) == /\ pc'[u] = pc[u] /\ doc'[u] = doc[u]
                      /\ todo'[u] = todo[u] /\ seen'[u] = seen[u]
<1>0. /\ TypeOK /\ TypeOK' /\ IngestOnce
      /\ \A u \in Tasks : TaskOK(u) /\ TaskOK(u)'
      /\ \A u \in Tasks, d \in Docs : RemoverOK(u, d) /\ IngestOK(u, d)
      /\ \A d \in Docs : DocOK(d)
      /\ made \in Nat /\ \A d \in Docs : d \in Nat /\ d # NoDoc
  <2>1. TypeOK /\ \A u \in Tasks : TaskOK(u)
    BY DEF TypeInv
  <2>2. TypeOK' /\ \A u \in Tasks : TaskOK(u)'
    BY DEF TypeInv
  <2>3. made \in Nat /\ \A d \in Docs : d \in Nat /\ d # NoDoc
    BY <2>1 DEF TypeOK, Docs, NoDoc
  <2> QED
    BY <2>1, <2>2, <2>3 DEF StoreInv
<1>1. /\ pc[t] = "scan" /\ \A u \in Tasks \ {t} : Same(u)
      /\ \/ pc'[t] = "idle" /\ doc'[t] = NoDoc /\ todo'[t] = {} /\ seen'[t] = {}
         \/ /\ pc'[t] = "delete" /\ doc'[t] = doc[t]
            /\ \A d \in Docs : \A i \in Positions(d) :
                 doc[t] = d /\ <<d, i>> \in index /\ <<d, i>> \in seen[t] => i \in todo'[t]
      /\ UNCHANGED <<docs, rows, index, made, raced, apart, gone>>
  <2>1. CASE Cardinality(index) # Cardinality(seen[t])
    BY <1>0, <2>1 DEF EndScan, Leave, Goto, stores, history, TypeOK
  <2>2. CASE Cardinality(index) = Cardinality(seen[t])
    <3>1. PICK view \in {seen[t], index} :
                 todo' = [todo EXCEPT ![t] = {c[2] : c \in Of(view, doc[t])}]
      BY <2>2 DEF EndScan
    <3>2. todo'[t] = {c[2] : c \in Of(view, doc[t])}
      BY <1>0, <3>1 DEF TypeOK
    <3>3. ASSUME NEW d \in Docs, NEW i \in Positions(d), doc[t] = d,
                 <<d, i>> \in index, <<d, i>> \in seen[t]
          PROVE  i \in todo'[t]
      <4>1. <<d, i>> \in Of(view, doc[t]) /\ <<d, i>>[2] = i
        BY <3>3 DEF Of
      <4> QED
        BY <3>2, <4>1
    <3> QED
      BY <1>0, <2>2, <3>3 DEF EndScan, Goto, stores, history, TypeOK
  <2> QED
    BY <2>1, <2>2
<1>2. IngestOnce'
  BY <1>0, <1>1 DEF IngestOnce, TaskOK
<1>3. ASSUME NEW u \in Tasks, NEW d \in Docs PROVE RemoverOK(u, d)'
  BY <1>0, <1>1, SMTT(60) DEF RemoverOK, TaskOK
<1>4. ASSUME NEW u \in Tasks, NEW d \in Docs PROVE IngestOK(u, d)'
  BY <1>0, <1>1 DEF IngestOK, TaskOK, IngestOnce
<1>5. ASSUME NEW d \in Docs PROVE DocOK(d)'
  <2>0. /\ d \notin 1 .. made => None(rows, d) /\ None(index, d)
        /\ Whole(rows, d) \/ None(rows, d)
        /\ d \in gone => d \notin docs /\ None(rows, d) /\ None(index, d) /\ ~ Ingesting(d)
        /\ SettledOK(d)
    BY <1>0 DEF DocOK
  <2>1. (d \notin 1 .. made => None(rows, d) /\ None(index, d))'
    BY <1>0, <1>1, <2>0
  <2>2. (Whole(rows, d) \/ None(rows, d))'
    BY <1>0, <1>1, <2>0
  <2>3. (d \in gone => d \notin docs /\ None(rows, d) /\ None(index, d) /\ ~ Ingesting(d))'
    BY <1>0, <1>1, <2>0 DEF TaskOK
  <2>4. SettledOK(d)'
    BY <1>0, <1>1, <2>0 DEF SettledOK, Completes, TaskOK
  <2> QED
    BY <2>1, <2>2, <2>3, <2>4 DEF DocOK
<1> QED
  BY <1>2, <1>3, <1>4, <1>5 DEF StoreInv

\* The chunk that goes is the first that is left.
LEMMA StoreDeleteChunk ==
  ASSUME TypeInv, TypeInv', StoreInv, NEW t \in Tasks, DeleteChunk(t)
  PROVE  StoreInv'
<1> USE DEF Ingests, Ingesting, Whole, None
<1> DEFINE Same(u) == /\ pc'[u] = pc[u] /\ doc'[u] = doc[u]
                      /\ todo'[u] = todo[u] /\ seen'[u] = seen[u]
<1>0. /\ TypeOK /\ TypeOK' /\ IngestOnce
      /\ \A u \in Tasks : TaskOK(u) /\ TaskOK(u)'
      /\ \A u \in Tasks, d \in Docs : RemoverOK(u, d) /\ IngestOK(u, d)
      /\ \A d \in Docs : DocOK(d)
      /\ made \in Nat /\ \A d \in Docs : d \in Nat /\ d # NoDoc
  <2>1. TypeOK /\ \A u \in Tasks : TaskOK(u)
    BY DEF TypeInv
  <2>2. TypeOK' /\ \A u \in Tasks : TaskOK(u)'
    BY DEF TypeInv
  <2>3. made \in Nat /\ \A d \in Docs : d \in Nat /\ d # NoDoc
    BY <2>1 DEF TypeOK, Docs, NoDoc
  <2> QED
    BY <2>1, <2>2, <2>3 DEF StoreInv
<1> DEFINE i == FirstOf(todo[t])
<1>a. /\ i \in todo[t] /\ i \in Positions(doc[t]) /\ doc[t] \in Docs
      /\ \A j \in todo[t] : i <= j
      /\ \A j \in todo[t] : j \in Positions(doc[t])
  <2>1. pc[t] = "delete" /\ pc[t] # "idle" /\ todo[t] # {}
    BY <1>0 DEF DeleteChunk
  <2> QED
    BY <1>0, <2>1, NextChunk DEF TaskOK
<1> HIDE DEF i
<1>1. /\ pc[t] = "delete" /\ \A u \in Tasks \ {t} : Same(u)
      /\ \/ /\ <<doc[t], i>> \in index
            /\ \A d \in Docs : \A j \in Positions(d) :
                 <<d, j>> \in index' <=> <<d, j>> \in index /\ ~ (d = doc[t] /\ j = i)
            /\ pc'[t] = pc[t] /\ doc'[t] = doc[t] /\ todo'[t] = todo[t] \ {i} /\ seen'[t] = seen[t]
         \/ /\ <<doc[t], i>> \notin index /\ UNCHANGED index
            /\ pc'[t] = "idle" /\ doc'[t] = NoDoc /\ todo'[t] = {} /\ seen'[t] = {}
      /\ UNCHANGED <<docs, rows, made, raced, apart, gone>>
  BY <1>0, <1>a DEF DeleteChunk, Leave, Goto, history, TypeOK, i
<1>2. IngestOnce'
  BY <1>0, <1>1 DEF IngestOnce, TaskOK
<1>3. ASSUME NEW u \in Tasks, NEW d \in Docs PROVE RemoverOK(u, d)'
  BY <1>0, <1>1, SMTT(60) DEF RemoverOK, TaskOK
<1>4. ASSUME NEW u \in Tasks, NEW d \in Docs PROVE IngestOK(u, d)'
  BY <1>0, <1>1, <1>a, SMTT(60) DEF IngestOK, RemoverOK, TaskOK
<1>5. ASSUME NEW d \in Docs PROVE DocOK(d)'
  <2>0. /\ d \notin 1 .. made => None(rows, d) /\ None(index, d)
        /\ Whole(rows, d) \/ None(rows, d)
        /\ d \in gone => d \notin docs /\ None(rows, d) /\ None(index, d) /\ ~ Ingesting(d)
        /\ SettledOK(d)
    BY <1>0 DEF DocOK
  <2>1. (d \notin 1 .. made => None(rows, d) /\ None(index, d))'
    BY <1>0, <1>1, <2>0
  <2>2. (Whole(rows, d) \/ None(rows, d))'
    BY <1>0, <1>1, <2>0
  <2>3. (d \in gone => d \notin docs /\ None(rows, d) /\ None(index, d) /\ ~ Ingesting(d))'
    BY <1>0, <1>1, <2>0 DEF TaskOK
  <2>4. SettledOK(d)'
    <3>1. CASE d = doc[t]
      <4> SUFFICES ASSUME d \notin apart, ~ Ingesting(d) PROVE SettledOK(d)'
        BY <1>1, <3>1 DEF SettledOK
      <4>1. \A j \in Positions(d) : <<d, j>> \in index =>
              /\ <<d, j>> \in rows
              /\ \A k \in Positions(d) : j <= k => <<d, k>> \in index
        BY <2>0 DEF SettledOK
      <4>2. \A j \in Positions(d) : <<d, j>> \in index => j \in todo[t]
        BY <1>0, <1>1, <3>1 DEF RemoverOK
      <4>3. CASE <<d, i>> \in index
        <5>1. Completes(t, d)'
          BY <1>1, <1>a, <3>1, <4>1, <4>3 DEF Completes
        <5>2. \A j \in Positions(d) : j \in Nat
          BY <3>1, ChunkPairs
        <5>3. \A j \in Positions(d) : (<<d, j>> \in index)' =>
                /\ (<<d, j>> \in rows)'
                /\ \A k \in Positions(d) : j <= k => (<<d, k>> \in index)'
          BY <1>1, <1>a, <3>1, <4>1, <4>2, <4>3, <5>2
        <5> QED
          BY <5>1, <5>3 DEF SettledOK
      <4>4. CASE <<d, i>> \notin index
        <5>1. ~ Completes(t, d)
          BY <1>a, <4>4 DEF Completes
        <5>2. ASSUME NEW u \in Tasks, Completes(u, d) PROVE Completes(u, d)'
          BY <1>1, <3>1, <4>4, <5>1, <5>2 DEF Completes
        <5> QED
          BY <1>1, <2>0, <3>1, <4>1, <4>4, <5>2 DEF SettledOK
      <4> QED
        BY <4>3, <4>4
    <3>2. CASE d # doc[t]
      <4>1. ASSUME NEW u \in Tasks, Completes(u, d) PROVE Completes(u, d)'
        <5>1. u # t /\ \A j \in todo[u] : j \in Positions(d)
          BY <1>0, <3>2, <4>1 DEF Completes, TaskOK
        <5> QED
          BY <1>1, <3>2, <4>1, <5>1 DEF Completes
      <4>2. Ingesting(d) => Ingesting(d)'
        BY <1>1, <3>2
      <4> QED
        BY <1>1, <2>0, <3>2, <4>1, <4>2 DEF SettledOK
    <3> QED
      BY <3>1, <3>2
  <2> QED
    BY <2>1, <2>2, <2>3, <2>4 DEF DocOK
<1> QED
  BY <1>2, <1>3, <1>4, <1>5 DEF StoreInv

\* When the rows go, no chunk of the document is left in memory.
LEMMA StoreDeleteDocument ==
  ASSUME TypeInv, TypeInv', StoreInv, NEW t \in Tasks, DeleteDocument(t)
  PROVE  StoreInv'
<1> USE DEF Ingests, Ingesting, Whole, None
<1> DEFINE Same(u) == /\ pc'[u] = pc[u] /\ doc'[u] = doc[u]
                      /\ todo'[u] = todo[u] /\ seen'[u] = seen[u]
<1>0. /\ TypeOK /\ TypeOK' /\ IngestOnce
      /\ \A u \in Tasks : TaskOK(u) /\ TaskOK(u)'
      /\ \A u \in Tasks, d \in Docs : RemoverOK(u, d) /\ IngestOK(u, d)
      /\ \A d \in Docs : DocOK(d)
      /\ made \in Nat /\ \A d \in Docs : d \in Nat /\ d # NoDoc
  <2>1. TypeOK /\ \A u \in Tasks : TaskOK(u)
    BY DEF TypeInv
  <2>2. TypeOK' /\ \A u \in Tasks : TaskOK(u)'
    BY DEF TypeInv
  <2>3. made \in Nat /\ \A d \in Docs : d \in Nat /\ d # NoDoc
    BY <2>1 DEF TypeOK, Docs, NoDoc
  <2> QED
    BY <2>1, <2>2, <2>3 DEF StoreInv
<1>1. /\ pc[t] = "delete" /\ todo[t] = {} /\ doc[t] \in Docs
      /\ pc'[t] = "idle" /\ doc'[t] = NoDoc /\ todo'[t] = {} /\ seen'[t] = {}
      /\ \A u \in Tasks \ {t} : Same(u)
      /\ \/ /\ docs' = docs \ {doc[t]} /\ UNCHANGED apart
            /\ \A d \in Docs : \A j \in Positions(d) :
                 <<d, j>> \in rows' <=> <<d, j>> \in rows /\ d # doc[t]
            /\ gone' = IF doc[t] \in raced THEN gone ELSE gone \union {doc[t]}
         \/ apart' = apart \union {doc[t]} /\ UNCHANGED <<docs, rows, gone>>
      /\ UNCHANGED <<index, made, raced>>
  BY <1>0 DEF DeleteDocument, Leave, Goto, Of, TaskOK, TypeOK
<1>2. IngestOnce'
  BY <1>0, <1>1 DEF IngestOnce, TaskOK
<1>3. ASSUME NEW u \in Tasks, NEW d \in Docs PROVE RemoverOK(u, d)'
  BY <1>0, <1>1, SMTT(60) DEF RemoverOK, TaskOK
<1>4. ASSUME NEW u \in Tasks, NEW d \in Docs PROVE IngestOK(u, d)'
  BY <1>0, <1>1 DEF IngestOK, TaskOK, IngestOnce
<1>5. ASSUME NEW d \in Docs PROVE DocOK(d)'
  <2>0. /\ d \notin 1 .. made => None(rows, d) /\ None(index, d)
        /\ Whole(rows, d) \/ None(rows, d)
        /\ d \in gone => d \notin docs /\ None(rows, d) /\ None(index, d) /\ ~ Ingesting(d)
        /\ SettledOK(d)
    BY <1>0 DEF DocOK
  <2>1. (d \notin 1 .. made => None(rows, d) /\ None(index, d))'
    BY <1>0, <1>1, <2>0
  <2>2. (Whole(rows, d) \/ None(rows, d))'
    BY <1>0, <1>1, <2>0
  <2>3. (d \in gone => d \notin docs /\ None(rows, d) /\ None(index, d) /\ ~ Ingesting(d))'
    <3>1. d = doc[t] /\ d \notin raced => None(index, d) /\ ~ Ingesting(d)
      BY <1>0, <1>1 DEF RemoverOK
    <3>2. Ingesting(d)' => Ingesting(d)
      BY <1>1
    <3> QED
      BY <1>0, <1>1, <2>0, <3>1, <3>2
  <2>4. SettledOK(d)'
    <3>1. CASE d = doc[t]
      <4>1. d \notin apart => None(index, d) /\ ~ Ingesting(d)
        BY <1>0, <1>1, <3>1 DEF RemoverOK
      <4> QED
        BY <1>1, <3>1, <4>1 DEF SettledOK
    <3>2. CASE d # doc[t]
      BY <1>0, <1>1, <2>0, <3>2 DEF SettledOK, Completes
    <3> QED
      BY <3>1, <3>2
  <2> QED
    BY <2>1, <2>2, <2>3, <2>4 DEF DocOK
<1> QED
  BY <1>2, <1>3, <1>4, <1>5 DEF StoreInv

\* A restart reads whole documents from the table, and nobody is at work.
LEMMA StoreRestart ==
  ASSUME TypeInv, StoreInv, Restart
  PROVE  StoreInv'
<1> USE DEF Ingests, Ingesting, Whole, None
<1>1. /\ \A u \in Tasks : pc'[u] = "idle"
      /\ \/ index' = rows /\ apart' = {}
         \/ index' = {} /\ apart' = 1 .. made
      /\ UNCHANGED <<docs, rows, made, raced, gone>>
  BY DEF Restart
<1>2. IngestOnce'
  BY <1>1 DEF IngestOnce
<1>3. ASSUME NEW u \in Tasks, NEW d \in Docs PROVE RemoverOK(u, d)' /\ IngestOK(u, d)'
  BY <1>1 DEF RemoverOK, IngestOK
<1>4. ASSUME NEW d \in Docs PROVE DocOK(d)'
  <2>1. /\ d \notin 1 .. made => None(rows, d) /\ None(index, d)
        /\ Whole(rows, d) \/ None(rows, d)
        /\ d \in gone => d \notin docs /\ None(rows, d) /\ None(index, d)
    BY DEF StoreInv, DocOK
  <2> QED
    BY <1>1, <2>1 DEF DocOK, SettledOK
<1> QED
  BY <1>2, <1>3, <1>4 DEF StoreInv

\* Every step keeps the invariant of the stores.
LEMMA StoreInvNext == TypeInv /\ StoreInv /\ [Next]_vars => StoreInv'
<1> SUFFICES ASSUME TypeInv, StoreInv, [Next]_vars PROVE StoreInv'
  OBVIOUS
<1>0. TypeInv'
  BY TypeInvNext
<1>1. ASSUME NEW t \in Tasks, Parse(t) PROVE StoreInv'
  BY <1>0, <1>1, StoreParse
<1>2. ASSUME NEW t \in Tasks, SaveDocument(t) PROVE StoreInv'
  BY <1>0, <1>2, StoreSaveDocument
<1>3. ASSUME NEW t \in Tasks, IndexChunk(t) PROVE StoreInv'
  BY <1>0, <1>3, StoreIndexChunk
<1>4. ASSUME NEW t \in Tasks, SaveChunks(t) PROVE StoreInv'
  BY <1>0, <1>4, StoreSaveChunks
<1>5. ASSUME NEW t \in Tasks, NEW d \in Docs, Remove(t, d) PROVE StoreInv'
  BY <1>0, <1>5, StoreRemove
<1>6. ASSUME NEW t \in Tasks, EndScan(t) PROVE StoreInv'
  BY <1>0, <1>6, StoreEndScan
<1>7. ASSUME NEW t \in Tasks, DeleteChunk(t) PROVE StoreInv'
  BY <1>0, <1>7, StoreDeleteChunk
<1>8. ASSUME NEW t \in Tasks, DeleteDocument(t) PROVE StoreInv'
  BY <1>0, <1>8, StoreDeleteDocument
<1>9. CASE Restart
  BY <1>9, StoreRestart
<1>10. CASE UNCHANGED vars
  BY <1>10
  DEF vars, stores, tasks, history, StoreInv, IngestOnce, RemoverOK, IngestOK, DocOK,
      SettledOK, Completes, Whole, None, Ingests, Ingesting
<1> QED
  BY <1>1, <1>2, <1>3, <1>4, <1>5, <1>6, <1>7, <1>8, <1>9, <1>10 DEF Next, Step

\* Both invariants hold in every state.
LEMMA StoreInvariant == Spec => [](TypeInv /\ StoreInv)
<1>1. Init => TypeInv /\ StoreInv
  BY TypeInvInit, StoreInvInit
<1>2. TypeInv /\ StoreInv /\ [Next]_vars => (TypeInv /\ StoreInv)'
  BY TypeInvNext, StoreInvNext
<1> QED
  BY <1>1, <1>2, PTL DEF Spec

\* A document removed after its ingestion stays removed, from the tables and
\* from memory (LocalVectorStore.delete_document).
THEOREM RemovedForGood == Spec => []RemovedIsGone
<1>1. TypeInv /\ StoreInv => RemovedIsGone
  <2> SUFFICES ASSUME TypeInv, StoreInv, NEW d \in gone
               PROVE  d \notin docs /\ Of(rows, d) = {} /\ Of(index, d) = {}
    BY DEF RemovedIsGone
  <2>1. d \in Docs /\ rows \subseteq Chunks /\ index \subseteq Chunks
    BY DEF TypeInv, TypeOK
  <2>2. d \notin docs /\ None(rows, d) /\ None(index, d)
    BY <2>1 DEF StoreInv, DocOK
  <2> QED
    BY <2>1, <2>2, ChunkPairs DEF None, Of
<1> QED
  BY <1>1, StoreInvariant, PTL

\* Memory and tables agree on every document at rest that no failure touched
\* (LocalVectorStore.add_chunks, delete_document, _load_chunks_from_repo).
THEOREM StoresAgree == Spec => []IndexMatchesRows
<1>1. TypeInv /\ StoreInv => IndexMatchesRows
  <2> SUFFICES ASSUME TypeInv, StoreInv, NEW d \in Docs \ apart, Quiet(d)
               PROVE  Of(index, d) = Of(rows, d) /\ Of(rows, d) \in {{}, ChunksOf(d)}
    BY DEF IndexMatchesRows
  <2>1. rows \subseteq Chunks /\ index \subseteq Chunks
    BY DEF TypeInv, TypeOK
  <2>2. \A i \in Positions(d) : <<d, i>> \in index <=> <<d, i>> \in rows
    BY DEF Quiet, StoreInv, DocOK, SettledOK, Completes, Ingesting
  <2>3. Whole(rows, d) \/ None(rows, d)
    BY DEF StoreInv, DocOK
  <2>4. \A c \in Chunks : c[1] = d => c[2] \in Positions(d) /\ c = <<d, c[2]>>
    BY ChunkPairs
  <2>5. Of(index, d) = Of(rows, d)
    BY <2>1, <2>2, <2>4 DEF Of
  <2>6. CASE Whole(rows, d)
    <3>1. Of(rows, d) \subseteq ChunksOf(d)
      BY <2>1, <2>4 DEF Of, ChunksOf
    <3>2. ChunksOf(d) \subseteq Of(rows, d)
      BY <2>6 DEF Of, ChunksOf, Whole
    <3> QED
      BY <2>5, <3>1, <3>2
  <2>7. CASE None(rows, d)
    <3>1. Of(rows, d) = {}
      BY <2>1, <2>4, <2>7 DEF Of, None
    <3> QED
      BY <2>5, <3>1
  <2> QED
    BY <2>3, <2>5, <2>6, <2>7
<1> QED
  BY <1>1, StoreInvariant, PTL

==============================================================================
