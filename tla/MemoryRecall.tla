----------------------------- MODULE MemoryRecall -----------------------------
(***************************************************************************)
(* Which memories come to mind: RelatedMemoryFinder for a candidate,       *)
(* LexicalMemoryRetriever and MemoryContextBuilder for a request.          *)
(*                                                                         *)
(* A memory is [id, words, all, kind, importance, updated, size, text]:    *)
(* its words without stop words, or all of them but the stop words where   *)
(* `user` and its like are left out too (words \subseteq all), importance  *)
(* in tenths, the length of its line in a prompt, and what its text is     *)
(* apart from case.  Scores, which the code has as floating point numbers, *)
(* are fractions <<numerator, denominator>>.                               *)
(***************************************************************************)
LOCAL INSTANCE Naturals
LOCAL INSTANCE FiniteSets
LOCAL INSTANCE SequencesExt

Less(a, b) == a[1] * b[2] < b[1] * a[2]
Equal(a, b) == a[1] * b[2] = b[1] * a[2]

AtMost(limit, s) == SubSeq(s, 1, IF Len(s) < limit THEN Len(s) ELSE limit)

------------------------------------------------------------------------------
\* find_related: the Jaccard similarity, and a tenth for the same type.
Similarity(candidate, m) ==
    LET common == Cardinality(candidate.words \intersect m.words)
        either == Cardinality(candidate.words \union m.words)
    IN  <<10 * common + (IF m.kind = candidate.kind THEN either ELSE 0), 10 * either>>

\* The sort is stable: among equals, the older row first.
Related(candidate, memories, limit) ==
    IF candidate.words = {} THEN << >>
    ELSE LET hits == {i \in DOMAIN memories : /\ memories[i].words # {}
                                              /\ Similarity(candidate, memories[i])[1] > 0}
             Before(i, j) ==
                LET a == Similarity(candidate, memories[i])
                    b == Similarity(candidate, memories[j])
                IN  \/ Less(b, a)
                    \/ Equal(a, b) /\ memories[i].importance > memories[j].importance
                    \/ Equal(a, b) /\ memories[i].importance = memories[j].importance /\ i < j
             order == SetToSortSeq(hits, Before)
         IN  AtMost(limit, [k \in DOMAIN order |-> memories[order[k]]])

------------------------------------------------------------------------------
\* retrieve: seven tenths for the share of the query, three for that of the memory; and
\* below 0.15 it is no match.
Lexical(query, m) ==
    LET common == Cardinality(query \intersect m.all)
        q == Cardinality(query)
        n == Cardinality(m.all)
    IN  <<common * (7 * n + 3 * q), 10 * q * n>>

\* 0.8 of the lexical score and 0.2 of the importance.
Relevance(query, m) ==
    LET l == Lexical(query, m) IN <<80 * l[1] + 2 * m.importance * l[2], 100 * l[2]>>

Matches(query, m) == m.all # {} /\ ~ Less(Lexical(query, m), <<15, 100>>)

Preferred(query, a, b) ==
    LET r == Relevance(query, a)
        s == Relevance(query, b)
    IN  \/ Less(s, r)
        \/ Equal(r, s) /\ a.importance > b.importance
        \/ Equal(r, s) /\ a.importance = b.importance /\ a.updated > b.updated
        \/ Equal(r, s) /\ a.importance = b.importance /\ a.updated = b.updated /\ a.id < b.id

Retrieved(query, memories, limit) ==
    IF query = {} THEN << >>
    ELSE AtMost(limit, SetToSortSeq({m \in memories : Matches(query, m)},
                                    LAMBDA a, b : Preferred(query, a, b)))

------------------------------------------------------------------------------
\* build: no text twice, at most maxMemories of them, and up to the first line that does not
\* fit behind the header.
Deduplicated(matches) ==
    FoldLeft(LAMBDA kept, m : IF \E i \in DOMAIN kept : kept[i].text = m.text THEN kept
                              ELSE Append(kept, m), << >>, matches)

Recalled(matches, header, maxMemories, maxCharacters) ==
    FoldLeft(LAMBDA c, m : IF c.full \/ c.size + m.size + 1 > maxCharacters
                           THEN [c EXCEPT !.full = TRUE]
                           ELSE [c EXCEPT !.facts = Append(@, m), !.size = @ + m.size + 1],
             [facts |-> << >>, size |-> header, full |-> FALSE],
             AtMost(maxMemories, Deduplicated(matches))).facts

Context(query, memories, limit, header, maxMemories, maxCharacters) ==
    Recalled(Retrieved(query, memories, limit), header, maxMemories, maxCharacters)

------------------------------------------------------------------------------
\* retrieve and build: a memory that matches nothing changes nothing, wherever it comes in
\* the order of importance.
UnrelatedIsSilent(query, memories, m, limit, header, maxMemories, maxCharacters) ==
    m.all \intersect query = {} =>
        Context(query, memories \union {m}, limit, header, maxMemories, maxCharacters)
        = Context(query, memories, limit, header, maxMemories, maxCharacters)

\* Importance orders what matches and never makes a match: a memory that grows more important
\* does not fall back among the others, and comes in only if it matched before.
ImportanceOnlyOrders(query, memories, m, more, limit) ==
    LET old == Retrieved(query, memories \union {m}, limit)
        new == Retrieved(query, memories \union {more}, limit)
        Place(s, id) == CHOOSE i \in 1 .. Len(s) + 1 :
                            IF i = Len(s) + 1 THEN \A j \in DOMAIN s : s[j].id # id ELSE s[i].id = id
    IN  /\ Place(new, m.id) <= Place(old, m.id) \/ Place(old, m.id) = Len(old) + 1
        /\ Place(new, m.id) \in DOMAIN new => Matches(query, m)

\* The limit cuts: what a smaller limit gives is the beginning of what a larger one gives,
\* of related memories as of retrieved ones, and none comes twice.
LimitCuts(query, candidate, memories, limit) ==
    LET order == SetToSortSeq(memories, LAMBDA a, b : a.id < b.id) IN
    /\ IsPrefix(Retrieved(query, memories, limit), Retrieved(query, memories, limit + 1))
    /\ IsPrefix(Related(candidate, order, limit), Related(candidate, order, limit + 1))
    /\ IsInjective(Related(candidate, order, limit))
    /\ Len(Related(candidate, order, limit)) <= limit

\* The context stays within its characters, says nothing twice and leaves out a memory only
\* for one that is worth more: each text in it has no better one outside, unless that did not
\* fit.
ContextBounded(query, memories, limit, header, maxMemories, maxCharacters) ==
    LET c == Context(query, memories, limit, header, maxMemories, maxCharacters) IN
    /\ c # << >> => FoldLeft(LAMBDA n, m : n + m.size + 1, header, c) <= maxCharacters
    /\ IsInjective([i \in DOMAIN c |-> c[i].text])
    /\ \A m \in memories, i \in DOMAIN c :
          Matches(query, m) /\ Preferred(query, m, c[i]) => \E j \in 1 .. i : c[j].text = m.text
==============================================================================
