------------------------------ MODULE NameLookup ------------------------------
(***************************************************************************)
(* Which program or window a name stands for: ApplicationResolver, which   *)
(* gathers the installed applications and matches a query against them,    *)
(* and DesktopResolver, which does the same with the visible windows.      *)
(* Names and paths are sequences of letters, in lower case already; only   *)
(* entries whose file exists are given.                                    *)
(***************************************************************************)
LOCAL INSTANCE Naturals
LOCAL INSTANCE SequencesExt

Application(entry, source) ==
    [name |-> entry.name, path |-> entry.path, source |-> source,
     aliases |-> IF source = "Built-in" THEN entry.aliases ELSE {}]

\* discovered, a dictionary by path, in the order of its first insertions.
At(found, path) == {i \in DOMAIN found : found[i].path = path}
KeepOld(found, app) == IF At(found, app.path) = {} THEN Append(found, app) ELSE found
TakeNew(found, app) ==
    IF At(found, app.path) = {} THEN Append(found, app)
    ELSE [i \in DOMAIN found |-> IF i \in At(found, app.path) THEN app ELSE found[i]]

Scan(found, entries, source, maxEntries, Put(_, _)) ==
    FoldLeft(LAMBDA f, e : IF Len(f) >= maxEntries THEN f ELSE Put(f, Application(e, source)),
             found, entries)

Discovered(machine, maxEntries) ==
    LET builtIn  == FoldLeft(LAMBDA f, e : TakeNew(f, Application(e, "Built-in")), << >>, machine.builtIn)
        appPaths == Scan(builtIn, machine.appPaths, "App Paths", maxEntries, KeepOld)
    IN  Scan(appPaths, machine.startMenu, "Start Menu", maxEntries, TakeNew)

\* One application for each name: the first of the best.
Priority(app) == CASE app.source = "Built-in"   -> 3
                   [] app.source = "Start Menu" -> 2
                   [] app.source = "App Paths"  -> 1
Better(a, b) ==
    Priority(a) > Priority(b) \/ (Priority(a) = Priority(b) /\ Len(a.path) < Len(b.path))

Deduplicated(found) ==
    FoldLeft(LAMBDA best, app :
                IF app.name \in DOMAIN best /\ ~ Better(app, best[app.name]) THEN best
                ELSE [n \in DOMAIN best \union {app.name} |-> IF n = app.name THEN app ELSE best[n]],
             << >>, found)

Applications(machine, maxEntries) ==
    LET best == Deduplicated(Discovered(machine, maxEntries)) IN {best[n] : n \in DOMAIN best}

------------------------------------------------------------------------------
\* The candidates of a query are the matches of the first level that has any;
\* none is NOT_FOUND, one is RESOLVED, several are AMBIGUOUS.
Occurs(part, whole) ==
    \E i \in 0 .. Len(whole) - Len(part) : SubSeq(whole, i + 1, i + Len(part)) = part

FirstMatches(levels) ==
    LET hits == {k \in DOMAIN levels : levels[k] # {}} IN
    IF hits = {} THEN {} ELSE levels[CHOOSE k \in hits : \A j \in hits : k <= j]

\* "canonical" is what ALIASES makes of the query, or the query.
Resolve(apps, query, canonical) ==
    FirstMatches(<<{a \in apps : a.name = query},
                   {a \in apps : {query, canonical} \intersect a.aliases # {}},
                   {a \in apps : IsPrefix(query, a.name) \/ IsPrefix(canonical, a.name)},
                   {a \in apps : Occurs(query, a.name) \/ Occurs(canonical, a.name)}>>)

\* A process answers to its name with and without its extension.
ResolveWindow(windows, query) ==
    FirstMatches(<<{w \in windows : w.title = query},
                   {w \in windows : query \in w.process},
                   {w \in windows : IsPrefix(query, w.title)},
                   {w \in windows : Occurs(query, w.title)}>>)

------------------------------------------------------------------------------
\* Of what was discovered, each name keeps its best application, names and paths
\* are unique, and so the full name of an application resolves to it alone.
NamesAreUnique(machine, maxEntries, query) ==
    LET apps  == Applications(machine, maxEntries)
        found == Discovered(machine, maxEntries) IN
    /\ \A a, b \in apps : a.name = b.name \/ a.path = b.path => a = b
    /\ \A i \in DOMAIN found : \E a \in apps : a.name = found[i].name /\ ~ Better(found[i], a)
    /\ \A a \in apps : Resolve(apps, a.name, query) = {a}

\* Installing something else does not change what a name stands for: the name
\* does not occur in it, and it takes nobody's path.
UnrelatedInstall(machine, maxEntries, entry, query) ==
    LET before == Applications(machine, maxEntries)
        after  == Applications([machine EXCEPT !.startMenu = Append(@, entry)], maxEntries) IN
    ~ Occurs(query, entry.name) /\ (\A a \in before : a.path # entry.path)
        => Resolve(after, query, query) = Resolve(before, query, query)

\* A window that opens while a query waits joins the candidates, takes their place
\* or changes nothing; it never makes another window the answer.
OneWindowMore(windows, w, query) ==
    LET before == ResolveWindow(windows, query)
        after  == ResolveWindow(windows \union {w}, query) IN
    after \in {before, before \union {w}, {w}}
==============================================================================
