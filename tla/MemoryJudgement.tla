--------------------------- MODULE MemoryJudgement ---------------------------
(***************************************************************************)
(* What may become of a candidate memory: MemoryEvidenceValidator, which   *)
(* looks for its evidence in the user's words; LLMMemoryResolver with      *)
(* MemoryResolutionParser, which makes a decision of whatever the model    *)
(* answered; MemoryResolutionValidator, which takes back a destructive one *)
(* it does not trust; and MemoryResolutionExecutor on MemoryManager and    *)
(* SQLiteMemoryRepository, which carries it out.                           *)
(*                                                                         *)
(* Confidences are in tenths; NaN, which json.loads and float accept, is a *)
(* value that is never below another.  rows maps the identifiers of the    *)
(* memories to [content, born].                                            *)
(***************************************************************************)
EXTENDS Integers, FiniteSets, SequencesExt

NaN == 99
Below(a, b) == a # NaN /\ a < b

NoTarget == "none"
Destructive == {"UPDATE", "REPLACE"}
Actions == Destructive \union {"CREATE", "KEEP_BOTH", "IGNORE"}

------------------------------------------------------------------------------
(* Decisions.                                                              *)

Ignored == [action |-> "IGNORE", target |-> NoTarget, confidence |-> 0]

\* MemoryResolutionDecision refuses these.
Malformed(d) ==
    \/ Below(d.confidence, 0) \/ (d.confidence # NaN /\ d.confidence > 10)
    \/ d.action \in Destructive /\ d.target = NoTarget
    \/ d.action = "CREATE" /\ d.target # NoTarget

\* An answer is readable when it is an object, in a block or not, that has an action, a
\* reason of the list and a number for its confidence.
Parsed(answer) ==
    LET d == [action |-> answer.action, target |-> answer.target, confidence |-> answer.confidence]
    IN  IF answer.readable /\ answer.action \in Actions /\ ~ Malformed(d) THEN d ELSE Ignored

\* The resolver asks the model only about a candidate with related memories, and takes a
\* call that fails for a candidate to ignore.
Resolved(related, fails, answer) ==
    IF related = {} THEN [action |-> "CREATE", target |-> NoTarget, confidence |-> 10]
    ELSE IF fails THEN Ignored ELSE Parsed(answer)

Validated(d, related, threshold) ==
    IF d.action \notin Destructive THEN d
    ELSE IF d.target \notin related THEN Ignored
    ELSE IF Below(d.confidence, threshold) THEN [d EXCEPT !.action = "KEEP_BOTH"]
    ELSE d

------------------------------------------------------------------------------
(* Rows.  A method that raises leaves them alone.                          *)

Without(rows, id) == [m \in DOMAIN rows \ {id} |-> rows[m]]
With(rows, id, row) == [m \in DOMAIN rows \union {id} |-> IF m = id THEN row ELSE rows[m]]

Add(rows, id, row)    == IF id \in DOMAIN rows THEN rows ELSE With(rows, id, row)
Update(rows, id, row) == IF id \in DOMAIN rows THEN [rows EXCEPT ![id] = row] ELSE rows
Delete(rows, id)      == Without(rows, id)

\* replace: the deletion and the insertion are one transaction.
Replace(rows, old, id, row) ==
    IF old \in DOMAIN rows /\ id \notin DOMAIN Without(rows, old)
    THEN Add(Delete(rows, old), id, row) ELSE rows

\* MemoryManager: update_memory keeps created_at of the memory it has read.
Created(rows, id, content, now) == Add(rows, id, [content |-> content, born |-> now])
Changed(rows, id, content) ==
    IF id \in DOMAIN rows THEN Update(rows, id, [content |-> content, born |-> rows[id].born]) ELSE rows
Replaced(rows, old, id, content, now) ==
    IF old \in DOMAIN rows THEN Replace(rows, old, id, [content |-> content, born |-> now]) ELSE rows

Executed(rows, d, content, fresh, now) ==
    CASE d.action = "IGNORE" -> rows
      [] d.action \in {"CREATE", "KEEP_BOTH"} -> Created(rows, fresh, content, now)
      [] d.action = "UPDATE" -> Changed(rows, d.target, content)
      [] d.action = "REPLACE" -> Replaced(rows, d.target, fresh, content, now)

\* MemoryResolutionValidator enforces "correctness of resolution decisions": whatever the
\* model answers, and whichever memories have gone since it was asked, a candidate costs at
\* most the one memory the answer names, which was shown to the model, with a confidence
\* that is not below the threshold; and no memory is lost without one in its place.
DestroysOnlyNamed(rows, related, fails, answer, threshold, fresh) ==
    LET after == Executed(rows, Validated(Resolved(related, fails, answer), related, threshold),
                          "candidate", fresh, 1)
        spoilt == {m \in DOMAIN rows : m \notin DOMAIN after \/ after[m] # rows[m]}
    IN  /\ Cardinality(DOMAIN after) >= Cardinality(DOMAIN rows)
        /\ spoilt \subseteq {answer.target} \intersect related
        /\ spoilt # {} => /\ answer.readable /\ answer.action \in Destructive /\ ~ fails
                          /\ ~ Below(answer.confidence, threshold)
                          /\ Cardinality(DOMAIN after) = Cardinality(DOMAIN rows)
        /\ \A m \in DOMAIN after \ DOMAIN rows : m = fresh /\ after[m].content = "candidate"

------------------------------------------------------------------------------
(* Evidence.  A text is a sequence of letters, Blank between its words;    *)
(* indicators are the sets of words the validator looks for.               *)

Blank == 0
Trimmed(text) ==
    LET full == {i \in DOMAIN text : text[i] # Blank} IN
    IF full = {} THEN << >>
    ELSE SubSeq(text, CHOOSE i \in full : \A j \in full : i <= j,
                      CHOOSE i \in full : \A j \in full : j <= i)
\* A run of blanks is one blank.
Squeezed(text) ==
    LET t == Trimmed(text) IN
    FoldLeft(LAMBDA s, l : IF l = Blank /\ Last(s) = Blank THEN s ELSE Append(s, l),
             IF t = << >> THEN << >> ELSE <<Head(t)>>, IF t = << >> THEN << >> ELSE Tail(t))

WordsOf(text) ==
    FoldLeft(LAMBDA ws, l : IF l = Blank THEN Append(ws, << >>)
                            ELSE Append(Front(ws), Append(Last(ws), l)),
             << << >> >>, text)

Occurs(part, whole) ==
    \E i \in 0 .. Len(whole) - Len(part) : SubSeq(whole, i + 1, i + Len(part)) = part

Supported(c, source, ind) ==
    LET evidence == Squeezed(c.evidence)
        words == ToSet(WordsOf(evidence))
    IN  /\ evidence # << >> /\ Squeezed(source) # << >>
        /\ Occurs(evidence, Squeezed(source))
        /\ words \intersect ind.firstPerson # {}
        /\ WordsOf(evidence)[1] \notin ind.imperatives
        /\ c.kind = "PREFERENCE" => words \intersect ind.preferences # {}
        /\ c.kind = "PROJECT" => words \intersect ind.projects # {}
        /\ c.learning => words \intersect ind.education # {}

\* validate is said to match "exact word boundaries/sequence"; it finds the evidence
\* anywhere.  So all words of accepted evidence are the user's, next to each other and in
\* this order, but the first may be the end of a longer word and the last the beginning of one.
WordsAreTheUsers(c, source, ind) ==
    Supported(c, source, ind) =>
        LET said == WordsOf(Squeezed(source))
            used == WordsOf(Squeezed(c.evidence))
        IN  \E k \in 0 .. Len(said) - Len(used) : \A i \in DOMAIN used :
                /\ i \in 2 .. Len(used) - 1 => used[i] = said[k + i]
                /\ i = 1 /\ Len(used) > 1 => IsSuffix(used[i], said[k + i])
                /\ i = Len(used) /\ i > 1 => IsPrefix(used[i], said[k + i])
                /\ Len(used) = 1 => Occurs(used[i], said[k + i])
==============================================================================
