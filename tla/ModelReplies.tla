----------------------------- MODULE ModelReplies -----------------------------
(***************************************************************************)
(* What is made of a request and of the model's answers to it:             *)
(* ExecutionRouter, which plans some requests and answers others at once;  *)
(* ResponseParser with the two loops of AgentRunner, which find text and   *)
(* tool calls in an answer; PlanParser and PlanValidator, which make an    *)
(* answer a plan; MemoryExtractionParser, which makes it candidates.       *)
(***************************************************************************)
LOCAL INSTANCE Integers
LOCAL INSTANCE FiniteSets
LOCAL INSTANCE FiniteSetsExt
LOCAL INSTANCE SequencesExt

(* Requests: the connectors that occur in the text, inside a word or not,  *)
(* and the verbs some word of it begins with.                              *)

Connectors == {"then", "after that", "finally", "afterwards"}
Verbs == {"compare", "evaluate", "analyze", "summarize", "recommend", "gather", "inspect"}

\* In hundredths.
Score(request) ==
    LET connectors == request.holds \intersect Connectors
        begun  == request.begins \intersect (Verbs \union {"check"})
        joined == /\ "and" \in request.holds /\ begun # {}
                  /\ Cardinality(begun) >= 2 \/ connectors # {}
    IN  50 * Cardinality(connectors) + 30 * Cardinality(begun \ {"check"})
            + (IF "check" \in begun THEN 15 ELSE 0) + (IF joined THEN 25 ELSE 0)

Route(request) ==
    [mode |-> IF Score(request) >= 50 THEN "PLANNED" ELSE "DIRECT",
     confidence |-> Min({Score(request), 100})]

------------------------------------------------------------------------------
(* Answers: a content, "none" or "blank" or some text, and calls, each with *)
(* a name or "" and with arguments that are "absent", "not an object" or    *)
(* given.  A chunk of a stream looks the same.                              *)

HasCalls(answer) == answer.calls # << >>

ToolCalls(answer) ==
    LET Call(c) == [tool |-> c.name,
                    arguments |-> IF c.arguments \in {"absent", "not an object"} THEN "empty"
                                  ELSE c.arguments]
        named == SelectSeq(answer.calls, LAMBDA c : c.name # "")
    IN  [i \in DOMAIN named |-> Call(named[i])]

\* Without content the answer itself is shown, as Python prints it.
Shown(answer) ==
    CASE answer.content = "none"  -> <<"the answer itself">>
      [] answer.content = "blank" -> << >>
      [] OTHER -> <<answer.content>>

\* One iteration of run().
Whole(answer) ==
    IF HasCalls(answer) THEN [over |-> FALSE, calls |-> ToolCalls(answer), text |-> << >>]
    ELSE [over |-> TRUE, calls |-> << >>, text |-> Shown(answer)]

\* One iteration of run_stream(); text that comes before the first call is shown.
Take(heard, chunk) ==
    IF HasCalls(chunk)
    THEN [heard EXCEPT !.calls = FoldLeft(LAMBDA cs, c : IF Contains(cs, c) THEN cs ELSE Append(cs, c),
                                          heard.calls, ToolCalls(chunk))]
    ELSE IF chunk.content = "none" \/ heard.calls # << >> THEN heard
    ELSE [heard EXCEPT !.text = Append(@, chunk.content)]

Streamed(chunks) ==
    LET heard == FoldLeft(Take, [calls |-> << >>, text |-> << >>], chunks)
    IN  [over |-> heard.calls = << >>, calls |-> heard.calls, text |-> heard.text]

\* Storing the reply refuses a blank one, which ends a streamed turn with an error.
Stored(text) == \E i \in DOMAIN text : text[i] # "blank"

------------------------------------------------------------------------------
(* JSON in an answer.  Numbers have their value after int() or ten times   *)
(* that after float(), or one of these.                                    *)

Absent == 90
Junk   == 91     \* null where a number is required, or no number
Infinite == 92
NaN == 99

\* A block is opened by ``` at the start.  The planner's parser then takes what is
\* between the outermost braces, the memory's cuts off the marks at both ends.
PlanReadable(around)   == around \in {"nothing", "block", "block, then words"}
MemoryReadable(around) == around \in {"nothing", "block"}

Kinds == {"TOOL", "REASONING", "SYNTHESIS"}

\* A tool is "null", "blank", "no string" or a name.
IsPlanStep(s) ==
    /\ s.sequence > 0
    /\ IF s.kind = "TOOL" THEN s.tool \notin {"null", "blank"} ELSE s.tool = "null"

ReadsStep(s) ==
    /\ s.object
    /\ s.sequence \notin {Absent, Junk, Infinite, NaN}
    /\ s.described
    /\ s.kind \in Kinds
    /\ s.tool # "no string" /\ s.arguments # "not an object"
    /\ IsPlanStep(s)

Synthesis(n) ==
    [object |-> TRUE, sequence |-> n, described |-> TRUE, kind |-> "SYNTHESIS",
     tool |-> "null", arguments |-> "absent"]

\* int() of infinity raises what the parser does not catch.
Refusal(s) == IF s.object /\ s.sequence = Infinite THEN "OverflowError" ELSE "PlanningParseError"

\* The steps of the plan, the synthesis added if there is none, or the error.
ReadPlan(reply) ==
    LET steps   == reply.steps
        unread  == {i \in DOMAIN steps : ~ ReadsStep(steps[i])}
        refused(error) == [error |-> error, steps |-> << >>]
    IN  IF ~ PlanReadable(reply.around) \/ ~ reply.object \/ ~ reply.goal \/ steps = << >>
        THEN refused("PlanningParseError")
        ELSE IF unread # {} THEN refused(Refusal(steps[Min(unread)]))
        ELSE [error |-> "none",
              steps |-> IF \E i \in DOMAIN steps : steps[i].kind = "SYNTHESIS" THEN steps
                        ELSE Append(steps, Synthesis(Max({steps[i].sequence : i \in DOMAIN steps}) + 1))]

Validates(steps, registered, maxSteps) ==
    LET syntheses == {i \in DOMAIN steps : steps[i].kind = "SYNTHESIS"} IN
    /\ steps # << >> /\ Len(steps) <= maxSteps
    /\ \A i \in DOMAIN steps : steps[i].kind = "TOOL" => steps[i].tool \in registered
    /\ {steps[i].sequence : i \in DOMAIN steps} = 1 .. Len(steps)
    /\ Cardinality(syntheses) = 1
    /\ \A i \in syntheses : steps[i].sequence = Len(steps)

\* The executor runs them by their numbers.
Ordered(steps) == [n \in 1 .. Len(steps) |-> CHOOSE s \in ToSet(steps) : s.sequence = n]

------------------------------------------------------------------------------
(* Candidate memories.                                                     *)

MemoryTypes == {"FACT", "PREFERENCE", "PROJECT", "CONTEXT"}

Given(number, default) == IF number = Absent THEN default ELSE number
Scored(item) == [item EXCEPT !.importance = Given(@, 5), !.confidence = Given(@, 10)]

IsScore(number) == number = NaN \/ number \in 0 .. 10
IsCandidate(item) == item.evidence /\ IsScore(item.importance) /\ IsScore(item.confidence)

\* The parser passes over an entry for which MemoryCandidate raises.
Candidates(reply) ==
    LET Reads(item) == /\ item.object /\ item.content
                       /\ item.type \in MemoryTypes
                       /\ IsCandidate(Scored(item))
        read == SelectSeq(reply.memories, Reads)
    IN  IF ~ MemoryReadable(reply.around) \/ ~ reply.object
        THEN [error |-> "MemoryExtractionError", candidates |-> << >>]
        ELSE [error |-> "none", candidates |-> [i \in DOMAIN read |-> Scored(read[i])]]

------------------------------------------------------------------------------
\* What it takes for a request to be planned: a connector, two verbs, or one together
\* with "check" and an "and".
IsRouted(request) ==
    LET verbs == request.begins \intersect Verbs IN
    /\ Route(request).confidence \in 0 .. 100
    /\ Route(request).mode = "PLANNED" <=>
            \/ request.holds \intersect Connectors # {}
            \/ Cardinality(verbs) >= 2
            \/ verbs # {} /\ "check" \in request.begins /\ "and" \in request.holds

\* However an answer is cut into chunks, run_stream makes the calls that run would make
\* of it, and if there is none both end the turn.  This needs every call to have a name.
ChunksMakeNoDifference(chunks) ==
    LET calls == FlattenSeq([i \in DOMAIN chunks |-> chunks[i].calls])
        whole == Whole([content |-> "none", calls |-> calls])
    IN  (\A i \in DOMAIN calls : calls[i].name # "") =>
            /\ Streamed(chunks).over = whole.over
            /\ ToSet(Streamed(chunks).calls) = ToSet(whole.calls)
            /\ Cardinality(ToSet(Streamed(chunks).calls)) = Len(Streamed(chunks).calls)
            /\ whole.over => Len(Streamed(chunks).text)
                    = Cardinality({i \in DOMAIN chunks : chunks[i].content # "none"})
===============================================================================
