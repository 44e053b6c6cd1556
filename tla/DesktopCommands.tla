--------------------------- MODULE DesktopCommands ---------------------------
(***************************************************************************)
(* What a ChatWorker (src/app/gui/chat/worker.py) makes of one prompt: it  *)
(* passes on what the agent streams and, when the agent failed or none is  *)
(* wired, carries the prompt out on the desktop itself, by keyword, with   *)
(* no tool, approval or guard in between.                                  *)
(*                                                                         *)
(* A text is a sequence of parts: words broken where the code looks for a  *)
(* piece of one (<<"mo", "del">>), with " ", "'" and "." parts of their    *)
(* own; it is in lower case.  A desktop is the sequence of its items as    *)
(* iterdir lists them, each [name, dir, held, full]: "held" items cannot   *)
(* be removed, "full" ones still have their contents.                      *)
(***************************************************************************)
EXTENDS Integers, Sequences, FiniteSets
LOCAL INSTANCE SequencesExt

Within(part, text) ==
    \E i \in 0 .. Len(text) - Len(part) : SubSeq(text, i + 1, i + Len(part)) = part
Says(text, keys) == \E key \in keys : Within(key, text)

Keep(text, places) ==
    LET at == SelectSeq([i \in DOMAIN text |-> i], LAMBDA i : i \in places) IN
    [k \in DOMAIN at |-> text[at[k]]]

Punctuation == {".", ",", "'"}
Stripped(word) ==
    LET inner == {i \in DOMAIN word : word[i] \notin Punctuation} IN
    Keep(word, {k \in DOMAIN word : \E i, j \in inner : i <= k /\ k <= j})
Words(text) ==
    LET split == FoldLeft(LAMBDA acc, p : IF p = " " THEN Append(acc, << >>)
                              ELSE [acc EXCEPT ![Len(acc)] = Append(@, p)], <<<< >>>>, text)
    IN  SelectSeq([i \in DOMAIN split |-> Stripped(split[i])], LAMBDA w : w # << >>)
Joined(words) == FoldLeft(LAMBDA acc, w : IF acc = << >> THEN w ELSE acc \o <<" ">> \o w, << >>, words)

\* The first text between quotation marks, blanks taken off; found or not.
Quoted(text) ==
    LET marks == {i \in DOMAIN text : text[i] = "'"}
        pairs == {<<i, j>> \in marks \X marks : i + 1 < j /\ \A k \in marks : ~(i < k /\ k < j)}
    IN  IF pairs = {} THEN [found |-> FALSE, name |-> << >>]
        ELSE LET p == CHOOSE p \in pairs : \A q \in pairs : p[1] <= q[1]
             IN  [found |-> TRUE, name |-> Joined(Words(SubSeq(text, p[1] + 1, p[2] - 1)))]

\* The run of parts, none of them in "stops", after the first of "nouns" a blank follows.
NameAfter(nouns, stops, text) ==
    LET blank(i) == i \in DOMAIN text /\ text[i] = " "
        start(i) == CHOOSE j \in i + 1 .. Len(text) + 1 : ~blank(j) /\ \A k \in i + 1 .. j - 1 : blank(k)
        skip(j)  == IF j \in DOMAIN text /\ text[j] = "'" THEN j + 1 ELSE j
        ends(j)  == CHOOSE e \in j .. Len(text) + 1 :
                        /\ e \notin DOMAIN text \/ text[e] \in stops
                        /\ \A k \in j .. e - 1 : text[k] \notin stops
        name(i)  == LET j == skip(start(i)) IN SubSeq(text, j, ends(j) - 1)
        hits     == {i \in DOMAIN text : text[i] \in nouns /\ blank(i + 1) /\ name(i) # << >>}
    IN  IF hits = {} THEN << >> ELSE name(CHOOSE i \in hits : \A k \in hits : i <= k)

------------------------------------------------------------------------------
(***************************************************************************)
(* What the prompt names.                                                  *)
(***************************************************************************)
Drive(d) == {<<"in", " ", d, " ", "drive">>, <<"on", " ", d, " ", "drive">>} \union
            {<<"in", " ", d, mark>> : mark \in {":", "\\", "/"}}
Places ==
    << <<"C", Drive("c")>>, <<"D", Drive("d")>>, <<"documents", {<<"in", " ", "document">>}>>,
       <<"downloads", {<<"in", " ", "download">>}>> >>
Place(text) ==
    LET said == SelectSeq(Places, LAMBDA p : Says(text, p[2])) IN
    IF said = << >> THEN "desktop" ELSE said[1][1]

\* Where _parse_create_target looks for a name the place has been taken out.
Without(part, text) ==
    LET starts == {j \in 1 .. Len(text) - Len(part) + 1 : SubSeq(text, j, j + Len(part) - 1) = part}
    IN  Keep(text, {i \in DOMAIN text : \A j \in starts : i < j \/ j + Len(part) <= i})
Unplaced(text) ==
    FoldLeft(LAMBDA t, place : Without(place, t), text,
             << <<"in", " ", "c", " ", "drive">>, <<"on", " ", "c", " ", "drive">>,
                <<"in", " ", "c", ":">>, <<"in", " ", "d", " ", "drive">>,
                <<"on", " ", "d", " ", "drive">>, <<"in", " ", "d", ":">>,
                <<"in", " ", "desktop">>, <<"on", " ", "desktop">>,
                <<"in", " ", "document", "s">>, <<"in", " ", "download", "s">> >>)
FolderName(text) ==
    LET clean  == Unplaced(text)
        named  == NameAfter({"folder", "dir", "ectory", "named", "called"},
                            Punctuation \union {" "}, clean)
        others == SelectSeq(Words(clean), LAMBDA w : w \notin
                      {<<"create">>, <<"make">>, <<"mk", "dir">>, <<"folder">>, <<"dir", "ectory">>,
                       <<"dir">>, <<"a">>, <<"an">>, <<"the">>, <<"my">>, <<"new">>, <<"in">>,
                       <<"on">>, <<"of">>, <<"to">>})
    IN  CASE Quoted(text).found -> Quoted(text).name
          [] OTHER -> IF named \notin {<< >>, <<"in">>, <<"on">>, <<"a">>, <<"an">>, <<"the">>,
                                       <<"c">>, <<"d">>} THEN named
                      ELSE IF others = << >> THEN <<"new_folder">> ELSE others[1]

Suffix == {"txt", "md", "json", "py", "csv", "log"}
FileName(text) ==
    LET named == NameAfter({"file", "named", "called"}, {" ", ",", "'"}, text)
        name  == IF named = << >> THEN <<"notes", ".", "txt">> ELSE named
    IN  IF Len(name) > 1 /\ name[Len(name) - 1] = "." /\ name[Len(name)] \in Suffix THEN name
        ELSE name \o <<".", "txt">>

\* _resolve_desktop_target: << >> when nothing was resolved.
Pool(desks, dirs) ==
    LET listed == FoldLeft(LAMBDA acc, d : acc \o d, << >>, desks)
        add(acc, item) == IF item.dir # dirs \/ Contains(acc, item.name) THEN acc
                          ELSE Append(acc, item.name)
    IN  FoldLeft(add, << >>, listed)
FirstOf(names, Test(_)) ==
    LET hit == SelectInSeq(names, Test) IN IF hit = 0 THEN << >> ELSE names[hit]
Noise == {<<"del", "ete">>, <<"remove">>, <<"rm", "dir">>, <<"rm">>, <<"folder">>,
          <<"dir", "ectory">>, <<"dir">>, <<"file">>, <<"on">>, <<"from">>, <<"the">>,
          <<"desktop">>, <<"a">>, <<"an">>, <<"my">>, <<"called">>, <<"named">>, <<"please">>,
          <<"can">>, <<"you">>, <<"to">>, <<"in">>, <<"it">>, <<"this">>, <<"that">>}
Pronouns == {<<"it">>, <<"that">>, <<"the", " ", "folder">>, <<"the", " ", "file">>, <<"same">>}
Resolve(text, past, desks, dirs) ==
    LET pool    == Pool(desks, dirs)
        words   == SelectSeq(Words(text), LAMBDA w : w \notin Noise)
        phrase  == Joined(words)
        mention == IF ~Says(text, Pronouns) THEN << >>
                   ELSE FirstOf([i \in DOMAIN past |->
                            FirstOf(pool, LAMBDA n : Within(n, Reverse(past)[i]))], LAMBDA n : n # << >>)
        whole   == FirstOf(pool, LAMBDA n : Within(phrase, n))
        partly  == FirstOf([i \in DOMAIN words |-> FirstOf(pool, LAMBDA n : Within(words[i], n))],
                           LAMBDA n : n # << >>)
    IN  CASE Quoted(text).found -> Quoted(text).name
          [] ~Quoted(text).found /\ mention # << >> -> mention
          [] ~Quoted(text).found /\ mention = << >> /\ words # << >> ->
                IF whole # << >> THEN whole ELSE IF partly # << >> THEN partly ELSE phrase
          [] OTHER -> IF Len(pool) = 1 THEN pool[1] ELSE << >>

------------------------------------------------------------------------------
(***************************************************************************)
(* What is done.  A directory is <<"desktop", i>> or <<place, 0>>; the ones *)
(* in "sealed" cannot be written to.  A result is what the desktops hold   *)
(* afterwards, the folders made elsewhere, and what the user is told;      *)
(* "error" is an exception.                                                *)
(***************************************************************************)
Named(desk, name) == SelectSeq(desk, LAMBDA it : it.name = name)
Exists(desk, name) == Named(desk, name) # << >>

\* _force_delete_target: rmtree empties what it cannot remove.
Struck(desk, names) ==
    LET kept == SelectSeq(desk, LAMBDA it : it.name \notin names \/ it.held) IN
    [i \in DOMAIN kept |-> IF kept[i].name \in names /\ kept[i].dir
                           THEN [kept[i] EXCEPT !.full = FALSE] ELSE kept[i]]

Done(desks, made, told, where, name) ==
    [desks |-> desks, made |-> made, told |-> told, at |-> where, name |-> name]
Nothing(desks, told) == Done(desks, {}, told, <<"nowhere", 0>>, << >>)

\* "confirm action" and "create folder" both make the folder the prompt names.
MakeFolder(text, desks, sealed, told, otherwise) ==
    LET place == Place(text)
        name  == FolderName(text)
        at    == <<place, IF place = "desktop" THEN 1 ELSE 0>>
        isFile == at[2] = 1 /\ \E i \in DOMAIN Named(desks[1], name) : ~Named(desks[1], name)[i].dir
    IN  CASE desks = << >> -> Nothing(desks, "error")
          [] desks # << >> /\ name = << >> -> Done(desks, {}, told, at, name)
          [] OTHER ->
             IF at \in sealed \/ isFile THEN Nothing(desks, otherwise)
             ELSE IF at[2] = 0 THEN Done(desks, {<<at, name>>}, told, at, name)
             ELSE Done(IF Exists(desks[1], name) THEN desks
                       ELSE [desks EXCEPT ![1] = Append(@, [name |-> name, dir |-> TRUE,
                                                            held |-> FALSE, full |-> FALSE])],
                       {}, told, at, name)

\* A file of the name is written anew on every desktop that lets itself be written.
WriteFile(text, desks, sealed) ==
    LET name    == FileName(text)
        open(i) == <<"desktop", i>> \notin sealed /\ \A k \in DOMAIN Named(desks[i], name) : ~Named(desks[i], name)[k].dir
        written(i) == Append(SelectSeq(desks[i], LAMBDA it : it.name # name),
                             [name |-> name, dir |-> FALSE, held |-> FALSE, full |-> FALSE])
        hits    == {i \in DOMAIN desks : open(i)}
    IN  IF hits = {} THEN Nothing(desks, "not created")
        ELSE Done([i \in DOMAIN desks |-> IF i \in hits THEN written(i) ELSE desks[i]], {},
                  "file created", <<"desktop", CHOOSE i \in hits : \A k \in hits : i <= k>>, name)

\* A folder's name is sought first; any word that is not noise ends the search there.
Delete(text, past, desks) ==
    LET folder == Resolve(text, past, desks, TRUE)
        isDir  == folder # << >>
        target == IF isDir THEN folder ELSE Resolve(text, past, desks, FALSE)
        names(i) == IF Exists(desks[i], target) THEN {target}
                    ELSE IF isDir THEN {}
                    ELSE {target \o <<".", s>> : s \in Suffix \ {"csv"}}
        after  == [i \in DOMAIN desks |-> Struck(desks[i], names(i))]
        gone   == {<<i, n>> \in UNION {{i} \X names(i) : i \in DOMAIN desks} :
                      Exists(desks[i], n) /\ ~Exists(after[i], n)}
        first  == CHOOSE g \in gone : \A other \in gone : g[1] <= other[1]
    IN  CASE target = << >> -> Nothing(desks, "not resolved")
          [] target # << >> /\ gone = {} -> Nothing(after, "not found")
          [] OTHER -> Done(after, {}, IF isDir THEN "folder deleted" ELSE "file deleted", <<"desktop", first[1]>>, target)

------------------------------------------------------------------------------
\* _analyze_image_file, in hundredths of the ratio and whole mean levels.
Ratio(w, h) == IF h = 0 THEN 100 ELSE (200 * w + h) \div (2 * h)
Shape(w, h) == LET r == Ratio(w, h) IN
    IF 95 <= r /\ r <= 105 THEN "square" ELSE IF r > 130 THEN "landscape" ELSE "portrait"
Tone(r, g, b) ==
    LET levels == {r, g, b} IN
    IF \A x, y \in levels : x < y + 15 THEN "grey"
    ELSE IF b > r /\ b > g THEN "blue" ELSE IF r > g /\ r > b THEN "red"
    ELSE IF g > r /\ g > b THEN "green" ELSE "mixed"
Light(r, g, b) == IF r + g + b < 210 THEN "dark" ELSE IF r + g + b > 555 THEN "bright" ELSE "medium"
Detail(variance) == IF variance > 2500 THEN "high" ELSE IF variance > 800 THEN "moderate" ELSE "low"
Analysis(image) ==
    IF ~image.opens THEN [told |-> "notice"]
    ELSE [told |-> "report", shape |-> Shape(image.width, image.height),
          tone |-> Tone(image.red, image.green, image.blue),
          light |-> Light(image.red, image.green, image.blue), detail |-> Detail(image.variance)]

\* What is read of the attachments of the message the prompt is; one that is gone or of
\* another kind adds nothing.
Contexts(attached) ==
    LET of(a) == IF a.kind = "image" THEN Analysis(a)
                 ELSE [told |-> IF a.opens THEN "content" ELSE "notice"]
        read  == SelectSeq(attached, LAMBDA a : a.exists /\ a.kind \in {"text", "image"})
    IN  [i \in DOMAIN read |-> of(read[i])]

\* The canned text of the coding, explaining and general answers.
Snippet(text) ==
    IF Says(text, {<<"scrape">>, <<"scraping">>}) THEN "scraper"
    ELSE IF Says(text, {<<"csv">>}) THEN "csv reader"
    ELSE IF Says(text, {<<"database">>, <<"sql">>}) THEN "database" ELSE "a frame of the prompt"
Explained(text) ==
    IF Says(text, {<<"microservice">>}) THEN "microservices"
    ELSE IF Says(text, {<<"tcp">>}) /\ Says(text, {<<"udp">>}) THEN "tcp and udp"
    ELSE IF Says(text, {<<"docker">>, <<"container">>}) THEN "containers"
    ELSE IF Says(text, {<<"quantum">>}) THEN "quantum" ELSE "a frame of the topic"
General(text) == "processed, active and verified"

\* The tests of run, in their order, each with what it leads to.
Branches(text, contexts, greets) ==
    << <<"approve", Says(text, {<<"confirm", " ", "action">>, <<"approve", " ", "action">>})>>,
       <<"attached", contexts # << >> /\ (Len(text) < 5 \/ Says(text, {<<"read">>, <<"explain">>,
            <<"summarize">>, <<"what">>, <<"show">>, <<"analyze">>, <<"file">>, <<"attached">>,
            <<"image">>, <<"document">>}))>>,
       <<"folder", Says(text, {<<"create">>, <<"make">>, <<"mk", "dir">>})
            /\ Says(text, {<<"folder">>, <<"dir">>})>>,
       <<"file", Says(text, {<<"create">>, <<"write">>, <<"make">>}) /\ Says(text, {<<"file">>})>>,
       <<"delete", Says(text, {<<"del">>, <<"remove">>, <<"rm", "dir">>, <<"erase">>, <<"unlink">>})>>,
       <<"list", Says(text, {<<"list">>, <<"show">>, <<"ls">>, <<"dir">>})
            /\ Says(text, {<<"desktop">>, <<"file">>, <<"folder">>})>>,
       <<"code", Says(text, {<<"write", " ", "code">>, <<"python", " ", "script">>,
            <<"write", " ", "a", " ", "python">>, <<"function">>, <<"create", " ", "script">>,
            <<"html">>, <<"css">>, <<"javascript">>, <<"sql">>, <<"regex">>, <<"code", " ", "to">>})>>,
       <<"explain", Says(text, {<<"what", " ", "is">>, <<"how", " ", "to">>, <<"explain">>,
            <<"compare">>, <<"why">>, <<"difference">>, <<"define">>, <<"describe">>,
            <<"tell", " ", "me", " ", "about">>, <<"summarize">>})>>,
       <<"greet", greets /\ Len(Words(text)) <= 4>>,
       <<"who", Says(text, {<<"who", " ", "are", " ", "you">>, <<"what", " ", "are", " ", "you">>})>>,
       <<"help", Says(text, {<<"help">>})>>,
       <<"general", TRUE>> >>
Branch(prompt) ==
    SelectSeq(Branches(prompt.text, Contexts(prompt.attached), prompt.greets), LAMBDA b : b[2])[1][1]

Fallback(prompt, desks, sealed) ==
    LET text == prompt.text IN
    CASE Branch(prompt) = "approve" -> MakeFolder(text, desks, sealed, "approved and executed", "approved")
      [] Branch(prompt) = "folder"  -> MakeFolder(text, desks, sealed, "folder created", "not created")
      [] Branch(prompt) = "file"    -> WriteFile(text, desks, sealed)
      [] Branch(prompt) = "delete"  -> Delete(text, prompt.past, desks)
      [] Branch(prompt) = "code"    -> Nothing(desks, Snippet(text))
      [] Branch(prompt) = "explain" -> Nothing(desks, Explained(text))
      [] Branch(prompt) = "general" -> Nothing(desks, General(text))
      [] OTHER -> Nothing(desks, Branch(prompt))

------------------------------------------------------------------------------
(***************************************************************************)
(* AgentRunner.stream_run, and the worker around it.  The runner streams   *)
(* once its run is over: the words of the answer, or one notice.           *)
(***************************************************************************)
Streams(answer) == IF answer = 0 THEN <<"notice">> ELSE [i \in 1 .. answer |-> "text"]

\* "cancel" is the number of tests of _is_cancelled that still read FALSE; "tokens" the
\* length of the fallback's answer.  "shown" counts the tokens the chat received.
Run(prompt, desks, sealed, wired, answer, cancel, tokens) ==
    LET stream == IF wired THEN Streams(answer) ELSE << >>
        does   == Fallback(prompt, desks, sealed)
        left   == cancel - Len(stream)
        End(ending, shown, what) == [ending |-> ending, shown |-> shown, does |-> what]
    IN  CASE cancel < Len(stream) -> End("failed", cancel, Nothing(desks, "cancelled"))
          [] cancel >= Len(stream) /\ wired /\ answer > 0 ->
                End("completed", answer, Nothing(desks, "the agent's answer"))
          [] OTHER -> IF does.told = "error" THEN End("failed", 0, does)
                      ELSE IF left < tokens THEN End("failed", left, does)
                      ELSE End("completed", tokens, does)

------------------------------------------------------------------------------
\* The items of a desktop that one command took away or emptied.
Lost(before, after) ==
    UNION {{<<i, item.name>> : item \in ToSet(before[i]) \ ToSet(after[i])} : i \in DOMAIN before}

\* Whatever a command takes from a desktop was alluded to: it is the quoted name, a word
\* of the prompt is in its name, an earlier message holds its name, or it is the only one of
\* its kind; or it is what was alluded to with a suffix added, or a file written anew.
LossAlludedTo(prompt, desks, sealed) ==
    LET does    == Fallback(prompt, desks, sealed)
        words   == SelectSeq(Words(prompt.text), LAMBDA w : w \notin Noise)
        names   == UNION {{item.name : item \in ToSet(desks[i])} : i \in DOMAIN desks}
        alluded(n) == \/ Quoted(prompt.text).found /\ Quoted(prompt.text).name = n
                      \/ \E i \in DOMAIN words : Within(words[i], n)
                      \/ \E i \in DOMAIN prompt.past : Within(n, prompt.past[i])
                      \/ \E kind \in BOOLEAN : Pool(desks, kind) = <<n>>
    IN  \A lost \in Lost(desks, does.desks) :
            \/ alluded(lost[2])
            \/ \E n \in names, s \in Suffix : alluded(n) /\ lost[2] = n \o <<".", s>>
            \/ Branch(prompt) = "file" /\ lost[2] = FileName(prompt.text)

\* Unless a folder could only be emptied, or a file was written anew, the user is told of
\* a loss as a deletion, of the desktop where something is missing; and told of a folder
\* where there is one.
ToldOfTheDesktop(prompt, desks, sealed) ==
    LET does    == Fallback(prompt, desks, sealed)
        removed == {lost \in Lost(desks, does.desks) : ~Exists(does.desks[lost[1]], lost[2])}
        deleted == does.told \in {"folder deleted", "file deleted"}
    IN  /\ deleted <=> removed # {}
        /\ deleted => does.at \in {<<"desktop", lost[1]>> : lost \in removed}
        /\ does.told \in {"folder created", "approved and executed"} /\ does.name # << >> =>
                <<does.at, does.name>> \in does.made \/ Exists(does.desks[1], does.name)
==============================================================================
