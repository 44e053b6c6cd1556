---------------------------- MODULE MCToolExecutor ----------------------------
(* ToolExecutor with a few calls on a small pool, and the tools that run     *)
(* there: what each asks for and how it is reported, the file tools on every *)
(* small tree, the lookup of names on small machines.                        *)
EXTENDS Integers, ToolExecutor, FileTools, NameLookup, TLC

CONSTANTS k1, k2, k3, a1, a2, w1, w2

------------------------------------------------------------------------------
Roots == [home |-> << >>, desktop |-> <<"a">>, documents |-> <<"b">>, workspace |-> <<"a", "a">>]
Paths == {<<"a">>, <<"b">>, <<"a", "a">>, <<"a", "b">>}
Trees == {t \in UNION {[{<< >>} \union S -> {Dir, "old"}] : S \in SUBSET Paths} : WellFormed(t)}

Requests(roots, paths) ==
    LET at == [root : roots, path : paths, absolute : {FALSE}] IN
    UNION {{[op |-> "create_directory"] @@ w,
            [op |-> "write_text_file", content |-> "new"] @@ w,
            [op |-> "delete_path", recursive |-> TRUE] @@ w,
            [op |-> "delete_path", recursive |-> FALSE] @@ w}
           \union {[op |-> "move_path", to |-> v] @@ w : v \in at} : w \in at}

Plain == Requests({"home"}, Paths)
Named == Requests({"home", "desktop", "music"},
                  {<<"a">>, <<"documents">>, <<"documents", "a">>, <<"..", "b">>, <<"a", "..">>})

Between(t) == {Result(Roots, t, t, r) : r \in Plain}

\* The file tools keep their promises on every tree of the bounds, whatever
\* other operation came between the checks and the effect ...
ASSUME OverlapAssumption ==
    \A t \in Trees : \A now \in Between(t), r \in Plain :
        /\ KeepsTheTree(Roots, t, now, r)
        /\ TouchesItsTarget(Roots, t, now, r)
        /\ MoveKeepsFiles(Roots, t, now, r)

\* ... and for every way to name a place.
ASSUME NamedAssumption ==
    \A t \in Trees, r \in Named :
        /\ KeepsTheTree(Roots, t, t, r)
        /\ TouchesItsTarget(Roots, t, t, r)
        /\ NamedRootStays(Roots, t, t, r)

\* But the check covers the named root alone: another one can be deleted.
ASSUME OtherRootAssumption ==
    \E t \in Trees, r \in Named :
        /\ r.op = "delete_path" /\ r.root = "desktop"
        /\ IsDir(t, Roots["documents"]) /\ ~ IsDir(Result(Roots, t, t, r), Roots["documents"])

------------------------------------------------------------------------------
Names   == {<<"x">>, <<"x", "y">>, <<"y", "x">>}
Entries == [name : Names, path : {<<"p">>, <<"q">>, <<"p", "q">>}]
Machines ==
    [builtIn   : {<< >>, <<[name |-> <<"x">>, path |-> <<"p">>, aliases |-> {<<"y">>}]>>},
     appPaths  : {<< >>} \union {<<e>> : e \in Entries},
     startMenu : {<< >>} \union {<<e>> : e \in Entries} \union {<<e, f>> : e, f \in Entries}]
Queries == Names \union {<<"y">>}
OpenWindows == [id : {1}, title : Names, process : {{<<"x">>}, {<<"y">>}}]

\* Lookups on every small machine, with room for two applications and for all.
ASSUME LookupAssumption ==
    \A machine \in Machines, maxEntries \in {2, 9}, query \in Queries :
        NamesAreUnique(machine, maxEntries, query)

ASSUME InstallAssumption ==
    \A machine \in {m \in Machines : Len(m.startMenu) < 2}, maxEntries \in {2, 9},
       entry \in Entries, query \in Queries :
        UnrelatedInstall(machine, maxEntries, entry, query)

ASSUME WindowsAssumption ==
    \A windows \in SUBSET OpenWindows, w \in OpenWindows, query \in Queries :
        OneWindowMore(windows, w, query)

\* A shortcut to a built-in application takes its place, and the alias goes with
\* it: the preference for built-in ones comes after the merging by path.
ASSUME AliasLostAssumption ==
    \E machine \in Machines :
        /\ machine.builtIn # << >>
        /\ Resolve(Applications(machine, 9), <<"y">>, <<"y">>) = {}

------------------------------------------------------------------------------
Tools == INSTANCE ToolCatalogue

Value(type, text, number) == [type |-> type, text |-> text, number |-> number]
Values ==
    {Value("string", t, 0) : t \in {<< >>, <<" ">>, <<"a">>, <<"a", ".", "b">>}}
    \union {Value("integer", << >>, n) : n \in {0, 1, 200, 201}}
    \union {Value("boolean", << >>, 1), Value("number", << >>, 1), Value("array", << >>, 0),
            Value("null", << >>, 0)}

\* Every tool with all it takes, with what it needs only, and with one argument
\* too few or too many, each argument with every value (one of each type beyond
\* the first two arguments).
Few(k) == IF k <= 2 THEN Values ELSE {Value("string", <<"a">>, 0), Value("integer", << >>, 1)}
Arguments(i) ==
    LET takes == Tools!Catalogue(Tools!Nothing)[i].takes
        needs == Tools!Catalogue(Tools!Nothing)[i].needs
        names == {DOMAIN takes, needs, needs \union {"other"}} \union {needs \ {p} : p \in needs}
    IN  UNION {[ps -> Few(Cardinality(ps))] : ps \in names}

AllTools == DOMAIN Tools!Catalogue(Tools!Nothing)

ASSUME ReportAssumption ==
    \A i \in AllTools : \A a \in Arguments(i) :
        LET each == Tools!Catalogue(a)[i] IN
        \A works \in BOOLEAN :
            /\ Tools!AsksFirst(each, a, works)
            /\ \A approved \in BOOLEAN : Tools!ToldTruly(each, a, approved, works)

\* What an envelope tool has done breaks the turn that asked for it, and what it
\* has not done counts as a completed step of a plan.
ASSUME EnvelopeAssumption ==
    LET a == [document_id |-> Value("string", <<"a">>, 0)]
        each == Tools!RemoveDocument(a) IN
    /\ Tools!Report(each, a, FALSE, TRUE).done
    /\ Tools!ToldToModel(Tools!Report(each, a, FALSE, TRUE)) = "broken"
    /\ Tools!ToldToPlan(Tools!Report(each, a, FALSE, FALSE)) = "completed"

ASSUME PathKindAssumption ==
    \A n \in 0 .. 4 : \A t \in [1 .. n -> {".", "/", "a", " "}] : Tools!PathsHaveAKind(t)

ListedEntries == [name : 1 .. 3, kind : {"directory", "file", "other"}]
ASSUME ExcerptAssumption ==
    \A entries \in SUBSET ListedEntries, limit \in 1 .. 3 :
        (\A d, e \in entries : d.name = e.name => d = e)
            => Tools!ExcerptIsHonest(entries, limit)

Programs == [name : {"", "n", "m"}, version : {1, 2}]
ASSUME InstalledAssumption ==
    \A one, two \in {<< >>} \union {<<e>> : e \in Programs} \union {<<e, f>> : e, f \in Programs} :
        Tools!InstalledOnce(<<one, two>>)

Sample    == {"capture_screen", "click_screen", "create_file", "get_current_time", "find_running_process"}
Said      == {"screen", "file", "time", "process", "hello"}
Queried == [empty : BOOLEAN, greets : BOOLEAN, words : SUBSET Said, names : SUBSET Sample]
ASSUME OfferAssumption ==
    /\ Tools!CanStart(Tools!Catalogue(Tools!Nothing))
    /\ UNION {Tools!CategoryMap[c] : c \in DOMAIN Tools!CategoryMap}
            \subseteq Tools!Registry(Tools!Catalogue(Tools!Nothing))
    /\ \A request \in Queried, words \in SUBSET Said :
        Tools!MoreWordsMoreTools(request, words, Sample)

\* The first word the patterns know can take the right tool away.
ASSUME ScreenAssumption ==
    LET plain == [empty |-> FALSE, greets |-> FALSE, words |-> {}, names |-> {}] IN
    /\ "capture_screen" \in Tools!Offered(plain, Sample)
    /\ "capture_screen" \notin Tools!Offered([plain EXCEPT !.words = {"screen"}], Sample)

------------------------------------------------------------------------------
Desk == INSTANCE DesktopControl

KeyNames == {"ctrl", "control", "alt", "c", "s", "f4", "enter", ""}
KeyLists == UNION {[1 .. n -> KeyNames] : n \in 1 .. 3}
Scalar(type, n) == [type |-> type, number |-> n]
Inputs ==
    {[op |-> op, keys |-> keys] : op \in {"press_key", "press_hotkey"}, keys \in KeyLists}
    \union {[op |-> "type_text", max |-> 2,
             text |-> [type |-> "string", nul |-> nul, length |-> Len(keys), letters |-> keys]] :
                nul \in BOOLEAN, keys \in KeyLists}
    \union [op : {"click_screen"}, button : {"left", "middle"}, size : {[width |-> 2, height |-> 1]},
            x : {Scalar("integer", n) : n \in -1 .. 2} \union {Scalar("boolean", 1)},
            y : {Scalar("integer", n) : n \in 0 .. 1}]

ASSUME KeysAssumption ==
    /\ \A keys \in KeyLists : Desk!HotkeysAreCanonical(keys)
    /\ \A one \in Inputs, ours \in 0 .. 2, front \in 1 .. 2 : Desk!NothingHeld(one, ours, front)

\* The policy allows alt+f4, but the backend knows no f4; and an error between the
\* events leaves the modifier held.
ASSUME HotkeyGapAssumption ==
    /\ Desk!HotkeyAllowed(<<"alt", "f4">>) /\ Desk!Hotkey(<<"alt", "f4">>) = << >>
    /\ \A keys \in KeyLists : Desk!HotkeyAllowed(keys) /\ keys # <<"alt", "f4">> =>
            Desk!Sent([op |-> "press_hotkey", keys |-> keys], 0, 1) # << >>
    /\ Desk!Held(SubSeq(Desk!Hotkey(<<"ctrl", "s">>), 1, 2)) = {"ctrl", "s"}

\* Three windows of other programs or of the assistant itself, of two titles.
Handles  == 1 .. 3
Desktops ==
    {[alive |-> alive, visible |-> visible, owner |-> owner, title |-> title,
      process |-> [h \in Handles |-> {<<"p">>}], rank |-> [h \in Handles |-> Len(title[h])]] :
        <<alive, visible, owner, title>> \in
            {q \in (SUBSET Handles) \X (SUBSET Handles) \X {<<"o", "o", "o">>, <<"j", "o", "o">>}
                    \X [Handles -> {<<"x">>, <<"x", "y">>}] : q[2] \subseteq q[1]}}
References ==
    {[kind |-> "id", handle |-> h, query |-> << >>] : h \in Handles}
    \union {[kind |-> "name", handle |-> 0, query |-> q] : q \in {<<"x">>, <<"y">>, <<"p">>}}
Afters == [accepted : BOOLEAN, front : Handles]

ASSUME FocusAssumption ==
    \A registry \in {{}, {1}, {1, 2}}, d \in Desktops, ref \in References, limit \in {1, 3} :
        /\ Desk!DeadIsForgotten(registry, d, "j", limit, ref)
        /\ \A after \in Afters : Desk!FocusIsMeant(registry, d, d, after, "j", limit, ref)

\* A name is looked up again when the tool runs, and what is past the limit of the
\* list does not make it ambiguous: the window may be another than approved.
ASSUME OtherWindowAssumption ==
    \E before, now \in Desktops :
        LET ref == [kind |-> "name", handle |-> 0, query |-> <<"x">>] IN
        /\ Desk!ShownForApproval({}, before, "j", 1, ref) = {2}
        /\ Desk!Meant({}, before, "j", 3, ref) = {2, 3}
        /\ Desk!FocusWindow({}, now, [accepted |-> TRUE, front |-> 3], "j", 1, ref)
               = [status |-> "focused", window |-> 3]
==============================================================================
