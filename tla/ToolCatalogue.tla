---------------------------- MODULE ToolCatalogue ----------------------------
(***************************************************************************)
(* The built-in tools, what BaseTool.validate_arguments lets through, what *)
(* ToolExecutor reports of a call and what becomes of the report, and      *)
(* which tools ToolFilter offers the model for a request.                  *)
(*                                                                         *)
(* A tool is a function of its arguments: what its schema asks for, what   *)
(* execute() refuses by itself, and what the call it makes does.  An       *)
(* argument has its JSON type, its letters ("text", where "/" stands for   *)
(* both separators) and its number (1 for true).                           *)
(***************************************************************************)
LOCAL INSTANCE Integers
LOCAL INSTANCE FiniteSets
LOCAL INSTANCE SequencesExt
LOCAL INSTANCE FiniteSetsExt

Letters(a, p) == IF p \in DOMAIN a THEN a[p].text ELSE << >>
Blank(t)      == \A i \in DOMAIN t : t[i] = " "
BadLimit(a, max) == "limit" \in DOMAIN a /\ a["limit"].number \notin 1 .. max

\* The tools answer with a value and raise what fails, or they catch it and
\* answer with a ToolResult of their own, an "envelope".
Tool(name, level, takes, needs, answers) ==
    [name |-> name, level |-> level, takes |-> takes, needs |-> needs, answers |-> answers,
     invalid |-> FALSE, refused |-> FALSE, does |-> "nothing"]
Safe(name, takes, needs)     == Tool(name, "safe", takes, needs, "value")
Guarded(name, takes, needs)  == Tool(name, "confirmation", takes, needs, "value")
Wrapping(name, takes, needs) == Tool(name, "safe", takes, needs, "envelope")

Nothing == [p \in {} |-> "string"]
Place   == [root |-> "string", relative_path |-> "string"]
Paging  == [limit |-> "integer"]
Asking  == [query |-> "string"]

------------------------------------------------------------------------------
(* The tools, in the order of their registration.                          *)

GetCurrentTime(a) == Safe("get_current_time", Nothing, {})
GetSystemInfo(a)  == Safe("get_system_info", Nothing, {})
GetDiskUsage(a) ==
    [Safe("get_disk_usage", [path |-> "string"], {}) EXCEPT
        !.refused = "path" \in DOMAIN a /\ Letters(a, "path") = << >>]

ListRunningProcesses(a) ==
    [Safe("list_running_processes", Paging, {}) EXCEPT !.refused = BadLimit(a, 200)]
FindRunningProcess(a) ==
    [Safe("find_running_process", [query |-> "string", limit |-> "integer"], {"query"}) EXCEPT
        !.refused = Blank(Letters(a, "query")) \/ BadLimit(a, 200)]

ListInstalledApplications(a) ==
    [Safe("list_installed_applications", Paging, {}) EXCEPT !.refused = BadLimit(a, 500)]
FindInstalledApplication(a) ==
    [Safe("find_installed_application", [query |-> "string", limit |-> "integer"], {"query"}) EXCEPT
        !.refused = Blank(Letters(a, "query")) \/ BadLimit(a, 500)]
ResolveApplication(a) ==
    [Safe("resolve_application", Asking, {"query"}) EXCEPT !.refused = Blank(Letters(a, "query"))]
LaunchApplication(a) ==
    [Guarded("launch_application", [application_id |-> "string"], {"application_id"}) EXCEPT
        !.refused = Blank(Letters(a, "application_id")), !.does = "launches"]

\* Which tool a path is for goes by its last name: directories have no dot in
\* it, unless it begins with one; files have one.
LastName(t) ==
    LET slashes == {i \in DOMAIN t : t[i] = "/"} IN
    SubSeq(t, Max(slashes \union {0}) + 1, Len(t))
HasDot(t)      == \E i \in DOMAIN t : t[i] = "."
EndsInSlash(t) == t # << >> /\ t[Len(t)] = "/"
NoDirectory(t) == HasDot(LastName(t)) /\ LastName(t)[1] # "."
NoFileToWrite(t)  == EndsInSlash(t) \/ ~ HasDot(LastName(t))
NoFileToCreate(t) ==
    Blank(t) \/ EndsInSlash(t) \/ Blank(LastName(t)) \/ ~ HasDot(LastName(t))

InspectPath(a)   == Safe("inspect_path", Place, {"root", "relative_path"})
ListDirectory(a) ==
    Safe("list_directory", [root |-> "string", relative_path |-> "string", limit |-> "integer"], {"root"})
CreateDirectory(a) ==
    [Guarded("create_directory", Place, {"root", "relative_path"}) EXCEPT
        !.invalid = NoDirectory(Letters(a, "relative_path")), !.does = "files"]
CreateFile(a) ==
    [Guarded("create_file", Place, {"root", "relative_path"}) EXCEPT
        !.invalid = NoFileToCreate(Letters(a, "relative_path")), !.does = "files"]
WriteTextFile(a) ==
    [Guarded("write_text_file", [root |-> "string", relative_path |-> "string", content |-> "string"],
             {"root", "relative_path", "content"}) EXCEPT
        !.invalid = NoFileToWrite(Letters(a, "relative_path")) \/ Blank(Letters(a, "content")),
        !.does = "files"]
MovePath(a) ==
    [Guarded("move_path", [source_root |-> "string", source_relative_path |-> "string",
                           destination_root |-> "string", destination_relative_path |-> "string"],
             {"source_root", "source_relative_path", "destination_root", "destination_relative_path"})
        EXCEPT !.does = "files"]
DeletePath(a) ==
    [Guarded("delete_path", [root |-> "string", relative_path |-> "string", recursive |-> "boolean"],
             {"root", "relative_path"}) EXCEPT !.does = "files"]

GetActiveWindow(a)    == Safe("get_active_window", Nothing, {})
ListVisibleWindows(a) == Safe("list_visible_windows", Nothing, {})
FocusWindow(a) ==
    [Guarded("focus_window", [window_id |-> "string"], {"window_id"}) EXCEPT !.does = "input"]
TypeText(a) == [Guarded("type_text", [text |-> "string"], {"text"}) EXCEPT !.does = "input"]
PressKey(a) == [Guarded("press_key", [key |-> "string"], {"key"}) EXCEPT !.does = "input"]
PressHotkey(a) == [Guarded("press_hotkey", [keys |-> "array"], {"keys"}) EXCEPT !.does = "input"]
ClickScreen(a) ==
    [Guarded("click_screen", [x |-> "integer", y |-> "integer", button |-> "string"],
             {"x", "y", "button"}) EXCEPT !.does = "input"]

CaptureScreen(a)      == Wrapping("capture_screen", [prompt |-> "string", target |-> "string"], {})
ExplainError(a)       == Wrapping("explain_error", [prompt |-> "string"], {})
ReadClipboardImage(a) == Wrapping("read_clipboard_image", [prompt |-> "string"], {})
AnalyzeRegion(a) ==
    Wrapping("analyze_region", [x |-> "integer", y |-> "integer", width |-> "integer",
                                height |-> "integer", prompt |-> "string"], {"x", "y", "width", "height"})

DecomposeGoal(a) ==
    [Wrapping("decompose_goal", [objective |-> "string"], {"objective"}) EXCEPT
        !.refused = Letters(a, "objective") = << >>, !.does = "plans"]
ExecutePlan(a) ==
    [Wrapping("execute_plan", [plan_id |-> "string"], {"plan_id"}) EXCEPT
        !.refused = Letters(a, "plan_id") = << >>, !.does = "plans"]
GetPlanStatus(a) ==
    [Wrapping("get_plan_status", [plan_id |-> "string"], {"plan_id"}) EXCEPT
        !.refused = Letters(a, "plan_id") = << >>]
ControlPlan(a) ==
    [Wrapping("control_plan", [plan_id |-> "string", action |-> "string"], {"plan_id", "action"})
        EXCEPT !.does = "plans"]

IngestDocument(a) ==
    [Wrapping("ingest_document", [file_path |-> "string"], {"file_path"}) EXCEPT
        !.refused = Letters(a, "file_path") = << >>, !.does = "knowledge"]
SearchKnowledge(a) ==
    [Wrapping("search_knowledge", [query |-> "string", top_k |-> "integer"], {"query"}) EXCEPT
        !.refused = Letters(a, "query") = << >>]
SummarizeDocument(a) ==
    [Wrapping("summarize_document", [document_id |-> "string"], {"document_id"}) EXCEPT
        !.refused = Letters(a, "document_id") = << >>]
ListDocuments(a) == Wrapping("list_documents", Nothing, {})
RemoveDocument(a) ==
    [Wrapping("remove_document", [document_id |-> "string"], {"document_id"}) EXCEPT
        !.refused = Letters(a, "document_id") = << >>, !.does = "knowledge"]

OnPlugin(a, name) ==
    [Wrapping(name, [plugin_id |-> "string"], {"plugin_id"}) EXCEPT
        !.refused = Letters(a, "plugin_id") = << >>, !.does = "plugins"]
ListPlugins(a)   == Wrapping("list_plugins", Nothing, {})
EnablePlugin(a)  == OnPlugin(a, "enable_plugin")
DisablePlugin(a) == OnPlugin(a, "disable_plugin")
ReloadPlugin(a)  == OnPlugin(a, "reload_plugin")

GetHealthReport(a)     == Wrapping("get_health_report", Nothing, {})
GetRuntimeTelemetry(a) == Wrapping("get_runtime_telemetry", Nothing, {})
ExportTelemetry(a) ==
    [Wrapping("export_telemetry", [format |-> "string", destination_path |-> "string"],
              {"format", "destination_path"}) EXCEPT !.does = "files"]

Catalogue(a) ==
    <<GetCurrentTime(a), GetSystemInfo(a), GetDiskUsage(a), ListRunningProcesses(a),
      FindRunningProcess(a), ListInstalledApplications(a), FindInstalledApplication(a),
      ResolveApplication(a), LaunchApplication(a), InspectPath(a), ListDirectory(a),
      CreateDirectory(a), CreateFile(a), WriteTextFile(a), MovePath(a), DeletePath(a),
      GetActiveWindow(a), ListVisibleWindows(a), FocusWindow(a), TypeText(a), PressKey(a),
      PressHotkey(a), ClickScreen(a), CaptureScreen(a), ExplainError(a), ReadClipboardImage(a),
      AnalyzeRegion(a), DecomposeGoal(a), ExecutePlan(a), GetPlanStatus(a), ControlPlan(a),
      IngestDocument(a), SearchKnowledge(a), SummarizeDocument(a), ListDocuments(a),
      RemoveDocument(a), ListPlugins(a), EnablePlugin(a), DisablePlugin(a), ReloadPlugin(a),
      GetHealthReport(a), GetRuntimeTelemetry(a), ExportTelemetry(a)>>

\* The registry raises on the second tool of a name, which ends the start.
Registry(tools) == {tools[i].name : i \in DOMAIN tools}
CanStart(tools) == Cardinality(Registry(tools)) = Len(tools)

------------------------------------------------------------------------------
(* One call: validated, approved, made, reported.                          *)

\* isinstance: in Python true and false are integers, and these are numbers.
Fits(type, wanted) ==
    \/ type = wanted
    \/ wanted = "integer" /\ type = "boolean"
    \/ wanted = "number" /\ type \in {"integer", "boolean"}

Validated(tool, a) ==
    /\ tool.needs \subseteq DOMAIN a
    /\ \A p \in DOMAIN a : p \in DOMAIN tool.takes /\ Fits(a[p].type, tool.takes[p])
    /\ ~ tool.invalid

\* What the call did, and the ToolResult of the executor, which reports any
\* answer as a success.
Report(tool, a, approved, works) ==
    LET runs == Validated(tool, a) /\ (tool.level = "safe" \/ approved)
        done == runs /\ ~ tool.refused /\ works
    IN  [runs |-> runs, done |-> done,
         success |-> runs /\ (done \/ tool.answers = "envelope"),
         output  |-> IF done \/ (runs /\ tool.answers = "envelope") THEN tool.answers ELSE "none"]

\* The runner gives the model the output as JSON, which an envelope does not
\* become: the turn fails there.  A plan notes the output as a text.
ToldToModel(report) ==
    IF ~ report.success THEN "error" ELSE IF report.output = "envelope" THEN "broken" ELSE "output"
ToldToPlan(report) == IF report.success THEN "completed" ELSE "failed"

\* What the tools list: an excerpt of what there is, by name, directories first;
\* what is neither file nor directory is counted only.
Excerpt(entries, limit) ==
    LET listed == {e \in entries : e.kind # "other"}
        Before(d, e) == \/ d.kind = "directory" /\ e.kind = "file"
                        \/ d.kind = e.kind /\ d.name < e.name
        sorted == SetToSortSeq(listed, Before)
    IN  [shown |-> SubSeq(sorted, 1, Min({limit, Len(sorted)})),
         total |-> Cardinality(entries), truncated |-> Len(sorted) > limit]

\* The installed programs: of the keys of the registry, the first entry of a name.
Installed(keys) ==
    FoldLeft(LAMBDA found, e : IF e.name = "" \/ (\E f \in found : f.name = e.name) THEN found
                               ELSE found \union {e},
             {}, FlattenSeq(keys))

------------------------------------------------------------------------------
(* ToolFilter: the tools offered for a request, which is the words of it   *)
(* that the patterns know, the names of tools that occur in it, and        *)
(* whether it begins with a greeting or is empty.                          *)

CategoryMap ==
    [time |-> {"get_current_time"},
     system |-> {"get_system_info", "get_disk_usage", "list_running_processes", "find_running_process"},
     application |-> {"list_installed_applications", "find_installed_application",
                      "resolve_application", "launch_application"},
     filesystem |-> {"inspect_path", "list_directory", "create_directory", "create_file",
                     "write_text_file", "move_path", "delete_path"},
     desktop |-> {"get_active_window", "list_visible_windows", "focus_window", "type_text",
                  "press_key", "press_hotkey", "click_screen"}]

KeywordPatterns ==
    [time |-> {"time", "date", "clock", "hour", "now", "day"},
     system |-> {"system", "disk", "process", "cpu", "ram", "memory", "usage", "specs"},
     application |-> {"open", "launch", "start", "app", "application", "notepad", "chrome", "calc",
                      "calculator", "installed"},
     filesystem |-> {"folder", "file", "directory", "desktop", "downloads", "documents", "path",
                     "write", "read", "delete", "move", "inspect", "create", "list dir"},
     desktop |-> {"window", "focus", "type", "click", "key", "hotkey", "screen", "press"}]

Matched(request, registered) ==
    LET categories == {c \in DOMAIN KeywordPatterns : KeywordPatterns[c] \intersect request.words # {}}
    IN  (UNION {CategoryMap[c] : c \in categories} \union request.names) \intersect registered

Offered(request, registered) ==
    IF request.empty \/ request.greets THEN {}
    ELSE IF Matched(request, registered) = {} THEN registered ELSE Matched(request, registered)

------------------------------------------------------------------------------
\* What a tool is said to have done it has done, when the model is told; when a
\* plan is told, only of the tools that raise what fails.
ToldTruly(tool, a, approved, works) ==
    LET report == Report(tool, a, approved, works) IN
    /\ ToldToModel(report) = "output" => report.done
    /\ ToldToPlan(report) = "completed" /\ ~ report.done => tool.answers = "envelope"

\* Nothing that writes files, acts on windows or starts programs happens without
\* an approval, but for the export that writes where it is told.
AsksFirst(tool, a, works) ==
    Report(tool, a, FALSE, works).done /\ tool.does \in {"files", "input", "launches"}
        => tool.name = "export_telemetry"

\* Every path is a directory's or a file's to the tools that make one, to both
\* only when its last name begins with a dot, and the two tools for files agree.
PathsHaveAKind(t) ==
    /\ NoDirectory(t) => ~ NoFileToCreate(t)
    /\ ~ NoDirectory(t) /\ ~ NoFileToCreate(t) => LastName(t)[1] = "."
    /\ NoFileToCreate(t) = NoFileToWrite(t)

\* An excerpt that does not say it is cut off has every file and directory.
ExcerptIsHonest(entries, limit) ==
    LET page == Excerpt(entries, limit) IN
    /\ ~ page.truncated => \A e \in entries : e.kind # "other" => e \in ToSet(page.shown)
    /\ page.truncated => Len(page.shown) = limit /\ limit < page.total

\* A program is listed once, and whatever a later key says of it is left out.
InstalledOnce(keys) ==
    /\ \A e, f \in Installed(keys) : e.name = f.name => e = f
    /\ \A i \in DOMAIN keys : \A k \in DOMAIN keys[i] :
        keys[i][k].name # "" => \E e \in Installed(keys) : e.name = keys[i][k].name

\* A request the patterns know is offered no fewer tools for more words in it,
\* and a tool of no category only by its name.
MoreWordsMoreTools(request, words, registered) ==
    LET longer == [request EXCEPT !.words = @ \union words] IN
    Matched(request, registered) # {} =>
        /\ Offered(request, registered) \subseteq Offered(longer, registered)
        /\ \A name \in Offered(request, registered) :
            name \in request.names \/ \E c \in DOMAIN CategoryMap : name \in CategoryMap[c]
==============================================================================
