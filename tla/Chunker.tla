------------------------------- MODULE Chunker -------------------------------
(***************************************************************************)
(* ConfigurableTextChunker._pack_segments: segments of a text are packed   *)
(* into chunks.  A segment is its length after strip(), a chunk the set of *)
(* the positions of the segments it joins.                                 *)
(***************************************************************************)
EXTENDS Naturals, Sequences, FiniteSets, FiniteSetsExt

CONSTANTS
    MaxSize,     \* chunk_size
    SegmentSizes, MaxSegments   \* the texts that are checked

ASSUME ChunkerAssumption ==
    MaxSize \in Nat \ {0} /\ SegmentSizes \subseteq Nat /\ MaxSegments \in Nat

Joiner == 2     \* the blank line put between two segments of a chunk
Texts  == UNION {[1 .. n -> SegmentSizes] : n \in 0 .. MaxSegments}

Nonblank(text) == {k \in 1 .. Len(text) : text[k] > 0}

\* len(curr_text) for the segments of a chunk.
TextLen(text, chunk) ==
    MapThenSumSet(LAMBDA k : text[k], chunk) + Joiner * (Cardinality(chunk) - 1)

\* The test does not count the blank line that joining adds.
Fits(text, chunk, k) == TextLen(text, chunk) + text[k] <= MaxSize

Pack(text) ==
    LET upTo[k \in 0 .. Len(text)] ==
            IF k = 0 THEN << >>
            ELSE LET done == upTo[k - 1] IN
                 IF text[k] = 0 THEN done
                 ELSE IF done # << >> /\ Fits(text, done[Len(done)], k)
                      THEN [done EXCEPT ![Len(done)] = @ \union {k}]
                      ELSE Append(done, {k})
    IN  upTo[Len(text)]

\* The chunks hold every segment that is not blank once and in order, each is
\* as long as the size allows, and one of several segments exceeds it by a
\* joiner at most: nothing of a document is lost or found twice by a search.
PackedWhole ==
    \A text \in Texts :
        LET chunks == Pack(text) IN
        /\ UNION {chunks[i] : i \in DOMAIN chunks} = Nonblank(text)
        /\ \A i \in DOMAIN chunks :
            /\ chunks[i] # {}
            /\ Cardinality(chunks[i]) = 1 \/ TextLen(text, chunks[i]) <= MaxSize + Joiner
            /\ i > 1 =>
                /\ \A a \in chunks[i - 1], b \in chunks[i] : a < b
                /\ TextLen(text, chunks[i - 1]) + text[Min(chunks[i])] > MaxSize
==============================================================================
