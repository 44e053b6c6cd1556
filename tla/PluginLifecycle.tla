--------------------------- MODULE PluginLifecycle ---------------------------
(***************************************************************************)
(* Plugins from their manifests to their end: the order DynamicPluginLoader *)
(* loads them in, what PluginLifecycleCoordinator makes of each, and the   *)
(* operations of PluginManager with the application's tool registry.       *)
(*                                                                         *)
(* A manifest is [id, file, deps, tools, listens, breaks].  What a plugin's *)
(* hooks do is its own code: it registers its tools, listens to the        *)
(* events or not, and raises at the point `breaks`.  A state of the        *)
(* manager is                                                              *)
(*   catalog    for each plugin in the registry its status, its running    *)
(*              instance (0: none) and its manifest file,                  *)
(*   tools      the tools in the registry and the instance behind each,    *)
(*   listeners  the instances the event bus calls, in this order,          *)
(*   made       how many instances there have been; they are numbered,     *)
(*   closed     the instances that were told to shut down,                 *)
(*   up         _is_initialized.                                           *)
(***************************************************************************)
LOCAL INSTANCE Naturals
LOCAL INSTANCE FiniteSets
LOCAL INSTANCE SequencesExt

BreakPoints == {"never", "import", "initialize", "hooks", "events"}

------------------------------------------------------------------------------
\* resolve_dependencies: Kahn's algorithm.  A later manifest with the same id
\* takes the place of an earlier one, in a dictionary that keeps the place.
IdsOf(ms) == {ms[i].id : i \in DOMAIN ms}
ManifestOf(ms, id) == SelectLastInSeq(ms, LAMBDA m : m.id = id)
InOrder(ms) ==
    FoldLeft(LAMBDA ids, m : IF Contains(ids, m.id) THEN ids ELSE Append(ids, m.id), << >>, ms)
Dependents(ms, id) ==
    FlattenSeq([i \in DOMAIN ms |->
        [j \in 1 .. Len(SelectSeq(ms[i].deps, LAMBDA d : d = id)) |-> ms[i].id]])
Degree(ms, id) ==
    Cardinality(UNION {{<<i, j>> : j \in {k \in DOMAIN ms[i].deps : ms[i].deps[k] \in IdsOf(ms)}} :
                       i \in {k \in DOMAIN ms : ms[k].id = id}})

\* One round of the loop: the first plugin of the queue is next to be loaded.
Settle(sort, ms) ==
    FoldLeft(LAMBDA s, id : [s EXCEPT !.degree[id] = @ - 1,
                                      !.queue = IF s.degree[id] = 1 THEN Append(@, id) ELSE @],
             [sort EXCEPT !.queue = Tail(@), !.sorted = Append(@, Head(sort.queue))],
             Dependents(ms, Head(sort.queue)))

\* The orders it may return: what a cycle holds back is appended in any order.
Resolved(ms) ==
    LET degree == [id \in IdsOf(ms) |-> Degree(ms, id)]
        Sort[n \in 0 .. Cardinality(IdsOf(ms))] ==
            IF n = 0 THEN [degree |-> degree, sorted |-> << >>,
                           queue  |-> SelectSeq(InOrder(ms), LAMBDA id : degree[id] = 0)]
            ELSE IF Sort[n - 1].queue = << >> THEN Sort[n - 1] ELSE Settle(Sort[n - 1], ms)
        sorted == Sort[Cardinality(IdsOf(ms))].sorted
        missing == IF Len(sorted) < Len(ms) THEN IdsOf(ms) \ ToSet(sorted) ELSE {}
    IN  {[i \in DOMAIN ids |-> ms[ManifestOf(ms, ids[i])]] :
            ids \in {sorted \o rest : rest \in SetToSeqs(missing)}}

------------------------------------------------------------------------------
NothingLoaded ==
    [catalog |-> << >>, tools |-> {}, listeners |-> << >>, made |-> 0, closed |-> {}, up |-> FALSE]

InCatalog(s, id) == id \in DOMAIN s.catalog
Entered(s, m, status, instance) ==
    [s EXCEPT !.catalog = [id \in DOMAIN s.catalog \union {m.id} |->
        IF id = m.id THEN [status |-> status, instance |-> instance, file |-> m.file]
        ELSE s.catalog[id]]]

\* sdk.tools.register, once for each tool: a name that is taken raises, and the tools
\* registered before it stay.
ToolsGiven(s, m) ==
    FoldLeft(LAMBDA r, n :
                IF ~ r.ok \/ \E t \in r.s.tools : t.name = n THEN [r EXCEPT !.ok = FALSE]
                ELSE [r EXCEPT !.s.tools = @ \union {[name |-> n, instance |-> s.made]}],
             [s |-> s, ok |-> TRUE], m.tools)

Listening(s, m) == IF m.listens THEN [s EXCEPT !.listeners = Append(@, s.made)] ELSE s

\* register_plugin, load_plugin_class and initialize_plugin.  A class that cannot be
\* imported raises before the coordinator is called, so nothing sets FAILED.
Activated(s, m) ==
    LET born  == [s EXCEPT !.made = @ + 1]
        given == ToolsGiven(born, m)
        ready == Listening(given.s, m)
    IN  IF m.breaks = "import" THEN [s |-> Entered(s, m, "VALIDATED", 0), ok |-> FALSE]
        ELSE IF m.breaks = "initialize" THEN [s |-> Entered(born, m, "FAILED", 0), ok |-> FALSE]
        ELSE IF m.breaks = "hooks" \/ ~ given.ok
             THEN [s |-> Entered(given.s, m, "FAILED", 0), ok |-> FALSE]
        ELSE IF m.breaks = "events" THEN [s |-> Entered(ready, m, "FAILED", 0), ok |-> FALSE]
        ELSE [s |-> Entered(ready, m, "ACTIVE", born.made), ok |-> TRUE]

\* discover_and_load_all: what raises is caught, and the plugin is FAILED.
LoadAll(s, order) ==
    FoldLeft(LAMBDA t, m : LET r == Activated(t, m) IN
                           IF r.ok THEN r.s ELSE Entered(r.s, m, "FAILED", 0),
             s, order)

Initialize(s, ms) ==
    IF s.up THEN {s} ELSE {[LoadAll(s, order) EXCEPT !.up = TRUE] : order \in Resolved(ms)}

\* load_plugin reads the manifest file again, which may have changed or gone.
LoadFile(s, disk, file) ==
    IF file \in DOMAIN disk THEN Activated(s, disk[file]) ELSE [s |-> s, ok |-> FALSE]

\* unload_plugin and disable_plugin: what shutdown() raises is logged.
Unload(s, id) ==
    IF ~ InCatalog(s, id) THEN s
    ELSE IF s.catalog[id].instance = 0 THEN s
    ELSE [s EXCEPT !.closed = @ \union {s.catalog[id].instance},
                   !.catalog[id].instance = 0, !.catalog[id].status = "DISABLED"]

Reload(s, disk, id) ==
    IF InCatalog(s, id) THEN LoadFile(Unload(s, id), disk, s.catalog[id].file)
    ELSE [s |-> s, ok |-> FALSE]

Enable(s, disk, id) ==
    IF InCatalog(s, id) /\ s.catalog[id].status = "DISABLED" THEN Reload(s, disk, id)
    ELSE [s |-> s, ok |-> TRUE]

ShutdownPlugins(s) ==
    LET active == {id \in DOMAIN s.catalog : s.catalog[id].status = "ACTIVE"} IN
    [s EXCEPT !.catalog = [id \in DOMAIN s.catalog |->
                  IF id \in active THEN [s.catalog[id] EXCEPT !.instance = 0, !.status = "DISABLED"]
                  ELSE s.catalog[id]],
              !.closed = @ \union {s.catalog[id].instance : id \in active},
              !.up = FALSE]

\* What a call of one of the four tools or of the manager leaves.
AfterCall(s, ms, disk) ==
    UNION {{Unload(s, id), Reload(s, disk, id).s, Enable(s, disk, id).s} : id \in IdsOf(ms)}
    \union Initialize(s, ms) \union {ShutdownPlugins(s)}

\* The states after n calls.
AfterCalls(ms, disk, n) ==
    FoldLeft(LAMBDA seen, k : seen \union UNION {AfterCall(s, ms, disk) : s \in seen},
             {NothingLoaded}, [k \in 1 .. n |-> k])

------------------------------------------------------------------------------
\* What depends on itself, through others or not.
DependsOn(ms) ==
    LET direct == UNION {{<<ms[i].id, d>> : d \in ToSet(ms[i].deps)} : i \in DOMAIN ms}
        Reach[n \in 0 .. Len(ms)] ==
            IF n = 0 THEN direct
            ELSE Reach[n - 1] \union
                 {<<pq[1][1], pq[2][2]>> : pq \in {pq \in Reach[n - 1] \X direct : pq[1][2] = pq[2][1]}}
    IN  Reach[Len(ms)]
HeldBack(ms, id) ==
    \E x \in IdsOf(ms) : <<x, x>> \in DependsOn(ms) /\ (x = id \/ <<id, x>> \in DependsOn(ms))

\* resolve_dependencies: every plugin comes once, and after each plugin it depends on,
\* unless it depends on a cycle.
DependenciesComeFirst(ms) ==
    \A order \in Resolved(ms) :
        LET Place(id) == CHOOSE i \in DOMAIN order : order[i].id = id IN
        /\ IdsOf(order) = IdsOf(ms) /\ Len(order) = Cardinality(IdsOf(ms))
        /\ \A i \in DOMAIN order : \A d \in ToSet(order[i].deps) \intersect IdsOf(ms) :
               HeldBack(ms, order[i].id) \/ Place(d) < i

\* discover_and_load_all isolates faults: a plugin in order, whose tools no other plugin
\* has, becomes active whatever the others do.
FaultsIsolated(ms) ==
    \A s \in Initialize(NothingLoaded, ms) : \A i \in DOMAIN ms :
        (/\ ms[i].breaks = "never" /\ IsInjective(ms[i].tools)
         /\ \A j \in DOMAIN ms \ {i} : ToSet(ms[j].tools) \intersect ToSet(ms[i].tools) = {})
        => s.catalog[ms[i].id].status = "ACTIVE"

\* A plugin is active exactly while it has an instance that was not shut down, and
\* after shutdown none has.
InstancesMatch(ms, disk, n) ==
    \A s \in AfterCalls(ms, disk, n) :
        /\ \A id \in DOMAIN s.catalog : LET e == s.catalog[id] IN
               /\ (e.status = "ACTIVE") <=> (e.instance # 0)
               /\ e.instance \notin s.closed
               /\ \A other \in DOMAIN s.catalog \ {id} : e.instance = 0 \/ e.instance # s.catalog[other].instance
        /\ \A id \in DOMAIN s.catalog : ShutdownPlugins(s).catalog[id].instance = 0

\* What the code does of "Hot-reloads a plugin": a plugin that has registered a tool is
\* never active again once its instance is gone, for the tool stays and its name is taken.
ReloadNeedsNoTool(ms, disk, n) ==
    \A s \in AfterCalls(ms, disk, n) : \A i \in DOMAIN ms : InCatalog(s, ms[i].id) =>
        LET r == Reload(s, disk, ms[i].id) IN
        r.ok <=> /\ s.catalog[ms[i].id].file \in DOMAIN disk
                 /\ LET m == disk[s.catalog[ms[i].id].file] IN
                    m.breaks = "never" /\ IsInjective(m.tools)
                    /\ \A t \in s.tools : ~ Contains(m.tools, t.name)
==============================================================================
