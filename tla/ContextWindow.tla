---------------------------- MODULE ContextWindow ----------------------------
(***************************************************************************)
(* ContextWindowPolicy: which messages of a conversation go to the model.  *)
(* A message is its number of characters and whether it is blank; the      *)
(* messages are chosen by their positions, oldest first.                   *)
(***************************************************************************)
LOCAL INSTANCE Naturals
LOCAL INSTANCE Sequences
LOCAL INSTANCE FiniteSets
LOCAL INSTANCE FiniteSetsExt

AlwaysRecent == 4

\* Older messages without text are dropped.
Cleaned(messages) ==
    {i \in DOMAIN messages : i + AlwaysRecent > Len(messages) \/ ~ messages[i].blank}

\* From the newest message backwards, until the first one that does not fit.
Selected(messages, maxMessages, maxCharacters) ==
    LET n == Len(messages)
        downTo[i \in 1 .. n] ==
            IF i = n THEN [chosen |-> {n}, characters |-> messages[n].characters, full |-> FALSE]
            ELSE LET w == downTo[i + 1]
                     characters == w.characters + messages[i].characters
                 IN  IF w.full \/ i \notin Cleaned(messages) THEN w
                     ELSE IF Cardinality(w.chosen) >= maxMessages \/ characters > maxCharacters
                     THEN [w EXCEPT !.full = TRUE]
                     ELSE [w EXCEPT !.chosen = @ \union {i}, !.characters = characters]
    IN  IF n = 0 THEN {} ELSE downTo[1].chosen

------------------------------------------------------------------------------
\* What the model is to see: of the cleaned messages, every one that fits with
\* all newer ones in both budgets, and the newest in any case.  So no message is
\* skipped for an older one, and none is left out that had its place.
Expected(messages, maxMessages, maxCharacters) ==
    {i \in Cleaned(messages) :
        LET newer == {j \in Cleaned(messages) : j >= i} IN
        \/ i = Len(messages)
        \/ /\ Cardinality(newer) <= maxMessages
           /\ MapThenSumSet(LAMBDA j : messages[j].characters, newer) <= maxCharacters}

WindowIsExact(messages, maxMessages, maxCharacters) ==
    Selected(messages, maxMessages, maxCharacters) = Expected(messages, maxMessages, maxCharacters)

\* As a conversation without blank messages grows, the window never goes back to
\* a message it has dropped.
WindowMovesOn(messages, message, maxMessages, maxCharacters) ==
    Selected(Append(messages, message), maxMessages, maxCharacters) \ {Len(messages) + 1}
        \subseteq Selected(messages, maxMessages, maxCharacters)
==============================================================================
