-------------------------------- MODULE MCMemory --------------------------------
\* Two claims, extractions of up to two candidates; three requests, and room
\* for two jobs at a time.  Beside it, on small tables: what is made of the model's
\* answer about a candidate, and which memories a request recalls.
EXTENDS MemoryCoordinator, FiniteSets

MCClaims == {"likes_tea", "lives_in_ulm"}

Judgement == INSTANCE MemoryJudgement
Recall == INSTANCE MemoryRecall

------------------------------------------------------------------------------
\* Three memories of which any may have gone, two of them shown; confidences on both sides
\* of the threshold 0.9, out of range, and NaN.
Answers ==
    [readable : BOOLEAN, action : Judgement!Actions \union {"other"},
     target : {"m1", "m2", "m3", Judgement!NoTarget},
     confidence : {-1, 8, 9, 11, Judgement!NaN}]
Rows == {[m \in there |-> [content |-> m, born |-> 0]] : there \in SUBSET {"m1", "m2", "m3"}}

\* Every decision the resolver can come to costs at most the memory it names.
ASSUME DecisionAssumption ==
    \A rows \in Rows, related \in SUBSET {"m1", "m2"}, unanswered \in BOOLEAN, reply \in Answers :
        Judgement!DestroysOnlyNamed(rows, related, unanswered, reply, 9, "fresh")

\* Two texts that say "b ab a" and "ba a b" with blanks to spare, and every evidence of up to
\* five letters.
Letters(n) == UNION {[1 .. k -> 0 .. 2] : k \in 0 .. n}
Sources == {<<0, 2, 0, 0, 1, 2, 0, 1>>, <<2, 1, 0, 1, 0, 2, 0>>}
Indicators ==
    [firstPerson |-> {<<1>>}, imperatives |-> {<<2>>}, preferences |-> {<<2>>},
     projects |-> {<<2, 1>>}, education |-> {<<1, 2>>}]
Candidate(evidence, kind) == [evidence |-> evidence, kind |-> kind, learning |-> FALSE]

\* Accepted evidence is in the user's words, in their order.
ASSUME EvidenceAssumption ==
    \A evidence \in Letters(5), source \in Sources, kind \in {"FACT", "PREFERENCE"} :
        Judgement!WordsAreTheUsers(Candidate(evidence, kind), source, Indicators)

\* It may end inside a word: of the text "ba a b", "a a" is accepted.
ASSUME PartialWordAssumption ==
    Judgement!Supported(Candidate(<<1, 0, 1>>, "FACT"), <<2, 1, 0, 1, 0, 2, 0>>, Indicators)

------------------------------------------------------------------------------
\* Memories that agree with a query of one or two words in none, some or all, that say the
\* same as another or not; limits of two, a context of two facts and nine characters.
Memory(id, words, kind, importance, text) ==
    [id |-> id, words |-> words, all |-> words, kind |-> kind, importance |-> importance,
     updated |-> id, size |-> 2 + Cardinality(words), text |-> text]
Queries == SUBSET {"a", "b"}
Memories(id) ==
    {Memory(id, words, "FACT", importance, 0) : words \in Queries, importance \in {0, 10}}
    \union {Memory(id, {"a"}, "PROJECT", 10, id), Memory(id, {"b", "c", "d"}, "FACT", 5, id)}
Pairs == {{m, n} : m \in Memories(1), n \in Memories(2)}

\* Retrieval and context keep their promises about a third memory beside any two.
ASSUME RecallAssumption ==
    \A query \in Queries, pair \in Pairs, m \in Memories(3) :
        /\ Recall!UnrelatedIsSilent(query, pair, m, 2, 1, 2, 9)
        /\ Recall!ImportanceOnlyOrders(query, pair, m, [m EXCEPT !.importance = 10], 2)
        /\ Recall!ContextBounded(query, pair \union {m}, 3, 1, 2, 9)
        /\ Recall!LimitCuts(query, [words |-> query, kind |-> "FACT"], pair \union {m}, 2)
==============================================================================
