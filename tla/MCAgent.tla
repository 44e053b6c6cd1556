-------------------------------- MODULE MCAgent --------------------------------
(* A tool call that needs confirmation, one that does not; plans of up to two *)
(* steps and a synthesis; room for a plan and its revision, or a second       *)
(* request's.  Beside it, the window on short conversations, turns by voice   *)
(* and what is made of the model's answers.                                   *)
EXTENDS AgentSession, ContextWindow, VoiceTurn

MCGated == {"delete"}
MCPlain == {"read"}

------------------------------------------------------------------------------
Message == {[characters |-> 0, blank |-> TRUE], [characters |-> 1, blank |-> TRUE],
            [characters |-> 1, blank |-> FALSE], [characters |-> 3, blank |-> FALSE]}
Conversations == UNION {[1 .. n -> Message] : n \in 0 .. 6}

\* The window is what it is meant to be, with room for less than one message and
\* for all of them.
ASSUME WindowAssumption ==
    \A messages \in Conversations, maxMessages \in {1, 3, 9}, maxCharacters \in {2, 5} :
        WindowIsExact(messages, maxMessages, maxCharacters)

\* It moves on, over stored conversations: the repository takes no blank message.
ASSUME GrowthAssumption ==
    \A messages \in UNION {[1 .. n -> {m \in Message : ~ m.blank}] : n \in 1 .. 7},
       message \in Message, maxMessages \in {1, 3, 9}, maxCharacters \in {2, 5} :
        ~ message.blank => WindowMovesOn(messages, message, maxMessages, maxCharacters)

------------------------------------------------------------------------------
Limits == [wait |-> 3, minSpeech |-> 2, maxUtterance |-> 6, endSilence |-> 2]

\* Frames that are one or two ticks apart.
Recordings ==
    LET Streams[n \in 0 .. 7] ==
            IF n = 0 THEN {<< >>}
            ELSE {Append(s, [at |-> gap + IF s = << >> THEN 0 ELSE s[Len(s)].at, loud |-> loud]) :
                    s \in Streams[n - 1], gap \in {1, 2}, loud \in BOOLEAN}
    IN  Streams[7]

\* The detector keeps its invariant up to the frame that ends the recording, and
\* completes on an utterance.
ASSUME DetectorAssumption ==
    \A whole \in Recordings : \A n \in 1 .. Len(whole) :
        LET frames == SubSeq(whole, 1, n)
            vad    == Heard(Limits, frames)
        IN  Heard(Limits, SubSeq(whole, 1, n - 1)).state \in {"WAITING_FOR_SPEECH", "SPEECH_ACTIVE"} =>
                /\ VadOK(Limits, vad, frames[n].at)
                /\ vad.state = "COMPLETE" => IsUtterance(Limits, frames)

\* wait_timeout does not bound the wait for speech: each short noise starts it again.
ASSUME PostponedAssumption ==
    \E frames \in Recordings :
        /\ \A i \in 1 .. Len(frames) - 2 : ~ (frames[i].loud /\ frames[i + 1].loud)
        /\ frames[Len(frames)].at > 2 * Limits.wait
        /\ Heard(Limits, frames).state = "WAITING_FOR_SPEECH"

\* Every turn ends where it began.
ASSUME TurnAssumption ==
    \A capture \in {"fails", "ERROR", "TIMEOUT", "COMPLETE"},
       transcription \in {"text", "empty", "raises"}, agent \in {"answers", "asks", "raises"} :
        TurnComesBack(capture, transcription, agent)

------------------------------------------------------------------------------
Replies == INSTANCE ModelReplies

\* A request is planned exactly for its signals, and its confidence is one.
ASSUME RoutedAssumption ==
    \A holds \in SUBSET (Replies!Connectors \union {"and"}),
       begins \in SUBSET (Replies!Verbs \union {"check"}) :
        Replies!IsRouted([holds |-> holds, begins |-> begins])

Asked  == [name : {"read", "delete", ""}, arguments : {"absent"}]
            \union {[name |-> "read", arguments |-> "given"]}
Chunk  == [content : {"none", "blank", "words"}, calls : SeqOf(Asked, 2)]
Stream == SeqOf(Chunk, 2)

\* A stream comes to the calls of the answer it is cut from.
ASSUME ChunksAssumption == \A chunks \in Stream : Replies!ChunksMakeNoDifference(chunks)

\* Calls without a name: run() spends an iteration on them, run_stream() takes the answer
\* for the final one, in which there may be nothing to store.
ASSUME UnnamedAssumption ==
    LET nameless == [content |-> "words", calls |-> <<[name |-> "", arguments |-> "absent"]>>] IN
    /\ ~ Replies!Whole(nameless).over /\ Replies!Whole(nameless).calls = << >>
    /\ Replies!Streamed(<<nameless>>).over
    /\ ~ Replies!Stored(Replies!Streamed(<<nameless>>).text)

\* An answer of nothing at all is stored when it comes in one piece, as Python prints it,
\* and is an error when it is streamed.
ASSUME NothingAssumption ==
    LET nothing == [content |-> "none", calls |-> << >>] IN
    /\ Replies!Stored(Replies!Whole(nothing).text)
    /\ ~ Replies!Stored(Replies!Streamed(<<nothing>>).text)

\* A stream may show words and then turn out to ask for tools.
ASSUME WordsFirstAssumption ==
    \E chunks \in Stream : LET heard == Replies!Streamed(chunks) IN ~ heard.over /\ heard.text # << >>

------------------------------------------------------------------------------
PlanStep ==
    [object : {TRUE}, sequence : 0 .. 3, described : {TRUE}, kind : Replies!Kinds,
     tool : {"null", "blank", "read", "delete", "unknown"}, arguments : {"given"}]
PlanReply(steps) == [around |-> "block", object |-> TRUE, goal |-> TRUE, steps |-> steps]

Passes(plan_) ==
    /\ plan_.error = "none"
    /\ Replies!Validates(plan_.steps, Calls, MaxSteps + 1)
Does(step) ==
    CASE step.kind = "TOOL" -> step.tool
      [] step.kind = "REASONING" -> Think
      [] step.kind = "SYNTHESIS" -> Answer

\* The plans that are read from some reply and pass the validator, in the order the
\* executor gives them, are the plans this module drafts.
ASSUME DraftsAssumption ==
    LET steps == {s \in PlanStep : Replies!ReadsStep(s)}
        plans_ == {Replies!ReadPlan(PlanReply(r)) : r \in SeqOf(steps, MaxSteps + 1)}
        run == {Replies!Ordered(p.steps) : p \in {q \in plans_ : Passes(q)}}
    IN  {[i \in DOMAIN s |-> Does(s[i])] : s \in run}
            = {[i \in DOMAIN d.steps |-> d.steps[i].do] : d \in Drafts}

\* A plan that leaves its synthesis to the parser passes, unless it has as many steps as
\* the prompt allows: the added one is one too many.
ASSUME OneTooManyAssumption ==
    \A n \in 1 .. MaxSteps + 1 :
        LET thinking == [i \in 1 .. n |-> [Replies!Synthesis(i) EXCEPT !.kind = "REASONING"]]
            read == Replies!ReadPlan(PlanReply(thinking))
        IN  read.error = "none" /\ (Passes(read) <=> n <= MaxSteps)

\* An infinite sequence number is an error of another kind than the parser declares.
ASSUME InfiniteAssumption ==
    Replies!ReadPlan(PlanReply(<<Replies!Synthesis(Replies!Infinite)>>)).error = "OverflowError"

------------------------------------------------------------------------------
Scores == {-1, 0, 10, 11, Replies!Absent, Replies!Junk, Replies!NaN}
Entry ==
    [object : BOOLEAN, content : BOOLEAN, type : {"FACT", "HUNCH"}, evidence : BOOLEAN,
     importance : Scores, confidence : Scores]

\* An entry that cannot be read costs no other entry.
ASSUME SiblingsAssumption ==
    \A entry \in Entry :
        LET good == [object |-> TRUE, content |-> TRUE, type |-> "FACT", evidence |-> TRUE,
                     importance |-> 3, confidence |-> 7]
            reply == [around |-> "block", object |-> TRUE, memories |-> <<good, entry, good>>]
            read  == Replies!Candidates(reply).candidates
        IN  read[1] = good /\ read[Len(read)] = good /\ Len(read) \in {2, 3}

\* A candidate that is kept has both scores, and a score that is no number is kept too.
ASSUME ScoresAssumption ==
    LET Kept(entry) == Replies!Candidates([around |-> "nothing", object |-> TRUE,
                                           memories |-> <<entry>>]).candidates
    IN  /\ \A entry \in Entry : \A i \in DOMAIN Kept(entry) :
                {Kept(entry)[i].importance, Kept(entry)[i].confidence} \subseteq 0 .. 10 \union {Replies!NaN}
        /\ \E entry \in Entry : Kept(entry) # << >> /\ Kept(entry)[1].importance = Replies!NaN
==============================================================================
