-------------------------------- MODULE MCChat --------------------------------
\* Two prompts under way at once, three sessions, two failed writes or restarts.
\* Beside it, the conversations on disk under two threads, and every path through one life
\* of the application; and what a worker does to the desktop when the agent does not answer.
EXTENDS ChatController

Store == INSTANCE ConversationStore
Life == INSTANCE ApplicationLife

\* Up to nine statements of two threads on one conversation.
ASSUME NumbersAssumption == Store!NumbersInOrder({"gui", "agent"}, "session", 9)

\* Any stage of the wiring may raise, any shutdown step be interrupted, in any loop.
Paths ==
    [dirs : BOOLEAN, fails : 0 .. Len(Life!Wiring), loop : {"chat", "voice", "gui"},
     crash : BOOLEAN, interrupt : 0 .. Len(Life!ShutdownSteps)]
ASSUME WiringAssumption == Life!NamesBound
ASSUME LifeAssumption == \A path \in Paths : Life!EverythingStopped(path)

------------------------------------------------------------------------------
Commands == INSTANCE DesktopCommands

\* Three names, of which one holds "me", one ends in a suffix and one has a suffix more.
GamesName   == <<"ga", "me", "s">>
NotesName   == <<"notes", ".", "txt">>
BackupName  == <<"notes", ".", "txt", ".", "md">>
Item(name, dir, held) == [name |-> name, dir |-> dir, held |-> held, full |-> TRUE]
Either(name, dir) == {<< >>} \union {<<Item(name, dir, held)>> : held \in BOOLEAN}
FirstDesk  == {a \o b : a \in Either(GamesName, TRUE), b \in Either(NotesName, FALSE)}
SecondDesk == {a \o b : a \in {<< >>, <<Item(NotesName, FALSE, FALSE)>>},
                        b \in {<< >>, <<Item(BackupName, FALSE, FALSE)>>, <<Item(BackupName, TRUE, FALSE)>>}}
Desks == {<< >>} \union {<<a>> : a \in FirstDesk} \union {<<a, b>> : a \in FirstDesk, b \in SecondDesk}

Verbs   == {<<"del", "ete">>, <<"remove">>, <<"create">>, <<"show">>,
            <<"tell", " ", "me", " ", "about">>, <<"confirm", " ", "action">>}
Pronouns == {<<"it">>, <<"the", " ", "file">>}
Objects == {<<"folder", " ", "ga", "me", "s">>,
            <<"notes", ".", "txt">>, <<"file", " ", "notes">>, <<"'", "notes", ".", "txt", "'">>,
            <<"my", " ", "mo", "del">>, <<"folder", " ", "in", " ", "document", "s">>}
Prompt(text, past) == [text |-> text, past |-> past, attached |-> << >>, greets |-> FALSE]
Requests ==
    {Prompt(verb \o <<" ">> \o object, << >>) : verb \in Verbs, object \in Objects \union Pronouns}
    \union {Prompt(verb \o <<" ">> \o object, <<NotesName, GamesName>>) :
                verb \in Verbs, object \in Pronouns}

ASSUME CommandsAssumption ==
    \A prompt \in Requests, desks \in Desks, sealed \in {{}, {<<"desktop", 1>>, <<"documents", 0>>}} :
        /\ Commands!LossAlludedTo(prompt, desks, sealed)
        /\ Commands!ToldOfTheDesktop(prompt, desks, sealed)

\* What asks for no deletion may delete, by a piece of a word: "del" in "model" leads there,
\* "me" in "games" is what is then found.  Tests of the flag that cancels come only with the
\* tokens of the answer, after the deed.  A folder that cannot be removed is emptied, and
\* called not found.  An approval may be reported with nothing done.
ASSUME UnaskedAssumption ==
    LET games == <<<<Item(GamesName, TRUE, FALSE)>>>>
        asked == Prompt(<<"tell", " ", "me", " ", "about", " ", "my", " ", "mo", "del">>, << >>)
    IN  /\ Commands!Fallback(asked, games, {}).desks = <<<< >>>>
        /\ Commands!Run(asked, games, {}, FALSE, 0, 0, 5).ending = "failed"
        /\ Commands!Run(asked, games, {}, FALSE, 0, 0, 5).does.desks = <<<< >>>>
ASSUME EmptiedAssumption ==
    LET does == Commands!Fallback(Prompt(<<"remove", " ", "ga", "me", "s">>, << >>),
                                  <<<<Item(GamesName, TRUE, TRUE)>>>>, {})
    IN  does.told = "not found" /\ ~does.desks[1][1].full
ASSUME ApprovedAssumption ==
    Commands!Fallback(Prompt(<<"confirm", " ", "action">>, << >>), <<<< >>>>, {<<"desktop", 1>>}).told = "approved"

\* A picture a little wider than high is called a portrait.
ASSUME PortraitAssumption == Commands!Shape(12, 10) = "portrait" /\ Commands!Shape(10, 12) = "portrait"
==============================================================================
