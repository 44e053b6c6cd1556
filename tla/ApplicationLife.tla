--------------------------- MODULE ApplicationLife ---------------------------
(***************************************************************************)
(* One life of the program, from main() to its end: Bootstrap, the wiring  *)
(* of _initialize_llm and _initialize_agent, one of the three loops, and   *)
(* the shutdown that run(), the GUI loop and main() each ask for.          *)
(*                                                                         *)
(* A path through it is a record                                           *)
(*   dirs         whether Bootstrap could make the directories,            *)
(*   fails        the stage of the wiring that raises (0: none),           *)
(*   loop         "chat", "voice" or "gui",                                *)
(*   crash        whether the loop raises,                                 *)
(*   interrupt    the shutdown step a KeyboardInterrupt ends (0: none).    *)
(* The application is [state, container, asked]: asked are the services    *)
(* that were told to stop since they were registered.                      *)
(***************************************************************************)
LOCAL INSTANCE Naturals
LOCAL INSTANCE FiniteSets
LOCAL INSTANCE SequencesExt

\* A stage binds local names to new objects, out of names bound before, and registers
\* services when nothing in it has raised.
Stage(makes, uses, registers) == [makes |-> makes, uses |-> uses, registers |-> registers]

ModelStages == <<
    Stage({<<"scheduler", "PriorityInferenceScheduler">>}, {}, {"inference_scheduler"}),
    Stage({<<"llm_manager", "LLMManager">>}, {"scheduler"}, {"llm_manager"}) >>

StoreStages == <<
    Stage({<<"retriever", "LexicalMemoryRetriever">>, <<"memory_manager", "MemoryManager">>,
           <<"executor", "MemoryResolutionExecutor">>, <<"coordinator", "MemoryWriteCoordinator">>},
          {"llm_manager"}, {"memory_manager", "memory_coordinator"}),
    Stage({<<"conversation_manager", "ConversationManager">>, <<"active_session", "ConversationSession">>},
          {}, {"conversation_manager", "conversation_active_session"}),
    Stage({<<"approval_manager", "ApprovalManager">>}, {}, {"approval_manager"}) >>

ServiceStages == <<
    Stage({<<"filesystem_service", "FilesystemService">>}, {}, {"filesystem_service"}),
    Stage({<<"desktop_service", "DesktopService">>}, {}, {"desktop_service"}),
    Stage({<<"registry", "ToolRegistry">>},
          {"filesystem_service", "desktop_service", "approval_manager"}, {}),
    Stage({<<"vision_manager", "VisionManager">>}, {"registry"}, {"vision_manager"}) >>

SubsystemStages == <<
    Stage({<<"planner_manager", "PlannerManager">>}, {"executor", "vision_manager", "registry"},
          {"planner_manager"}),
    Stage({<<"knowledge_manager", "KnowledgeManager">>}, {"registry"}, {"knowledge_manager"}),
    Stage({<<"plugin_manager", "PluginManager">>},
          {"registry", "memory_manager", "vision_manager", "knowledge_manager", "planner_manager"},
          {"plugin_manager"}),
    Stage({<<"observability_manager", "ObservabilityManager">>},
          {"plugin_manager", "knowledge_manager", "planner_manager", "registry"},
          {"observability_manager"}) >>

AgentStages == <<
    Stage({<<"executor", "ToolExecutor">>}, {"registry", "approval_manager"}, {}),
    Stage({<<"agent_runner", "AgentRunner">>}, {"llm_manager", "registry", "executor"},
          {"tool_registry", "tool_executor", "agent_runner"}),
    Stage({<<"task_executor", "TaskExecutor">>}, {"llm_manager", "registry", "executor"},
          {"planning_executor"}),
    Stage({<<"controller", "AgentController">>},
          {"llm_manager", "agent_runner", "retriever", "coordinator", "conversation_manager",
           "task_executor", "approval_manager", "active_session"}, {"controller"}) >>

Wiring == ModelStages \o StoreStages \o ServiceStages \o SubsystemStages \o AgentStages

\* The local variables before stage k: the last object bound to a name is the one it has.
Binders(name, k) ==
    {i \in 1 .. k - 1 : \E o \in Wiring[i].makes : o[1] = name}
ObjectOf(name, k) ==
    LET i == CHOOSE j \in Binders(name, k) : \A l \in Binders(name, k) : l <= j
    IN  (CHOOSE o \in Wiring[i].makes : o[1] = name)[2]

\* The services with a thread, a pool or a connection of their own.
Living == {"voice_runtime", "memory_coordinator", "inference_scheduler", "tool_executor", "llm_manager"}

\* _shutdown_services: the tool executor comes twice; the methods that three further steps
\* look for do not exist.
ShutdownSteps == <<"voice_runtime", "memory_coordinator", "inference_scheduler", "tool_executor",
                   "approval_manager", "tool_executor", "llm_manager">>

------------------------------------------------------------------------------
NewApplication == [state |-> "STOPPED", container |-> {}, asked |-> {}]

\* initialize() and Bootstrap.setup().
Initialized(path) ==
    [NewApplication EXCEPT !.container = {"settings", "logger"},
                           !.state = IF path.dirs THEN "STOPPED" ELSE "ERROR"]

\* An Exception of one service is logged and the next one is asked.
ShutdownServices(a, last) ==
    [a EXCEPT !.asked = @ \union
        {ShutdownSteps[i] : i \in {j \in 1 .. last : ShutdownSteps[j] \in a.container}}]

\* shutdown(), whole or ended inside step `interrupt`.
Shutdown(a, interrupt) ==
    IF a.state = "STOPPED" THEN a
    ELSE IF interrupt = 0
         THEN [ShutdownServices(a, Len(ShutdownSteps)) EXCEPT !.state = "STOPPED"]
         ELSE [ShutdownServices(a, interrupt) EXCEPT !.state = "STOPPING"]

\* Everything the stages before the failing one registered, and what the loop did.
Wired(a, path) ==
    LET done == IF path.fails = 0 THEN Len(Wiring) ELSE path.fails - 1 IN
    [a EXCEPT !.container = @ \union UNION {Wiring[i].registers : i \in 1 .. done}
                            \union IF path.fails = 0 /\ path.loop = "voice"
                                   THEN {"voice_manager", "voice_runtime"} ELSE {},
              !.state = "RUNNING"]

\* The loop of the GUI shuts down itself, before run() does.
Looped(a, path) ==
    IF path.fails = 0 /\ path.loop = "gui" THEN Shutdown(a, path.interrupt) ELSE a

Crashed(a, path) ==
    IF path.fails # 0 \/ path.crash THEN [a EXCEPT !.state = "ERROR"] ELSE a

\* run(), when it was not refused, with its finally.
Run(a, path) ==
    LET looped == Looped(Wired(a, path), path) IN
    IF path.interrupt # 0 /\ looped.state = "STOPPING" THEN Shutdown(looped, 0)
    ELSE Shutdown(Crashed(looped, path), path.interrupt)

\* main(), with its finally.
Main(path) ==
    LET a == Initialized(path) IN
    Shutdown(IF a.state = "STOPPED" THEN Run(a, path) ELSE a, 0)

------------------------------------------------------------------------------
\* _initialize_agent: every name is bound before it is used; and the one that is bound
\* twice, `executor`, is the tool executor for the agent and the task executor, but still the
\* memory's executor when the planner manager takes it.
NamesBound ==
    /\ \A k \in DOMAIN Wiring : \A name \in Wiring[k].uses : Binders(name, k) # {}
    /\ \A k \in DOMAIN Wiring : "executor" \in Wiring[k].uses =>
           ObjectOf("executor", k) = IF Wiring[k].makes = {<<"planner_manager", "PlannerManager">>}
                                     THEN "MemoryResolutionExecutor" ELSE "ToolExecutor"

\* shutdown(), run() and main(): on every path the program ends STOPPED, and every service
\* that lives on a thread and was registered has been asked to stop, also when the wiring
\* or the loop raised and when a first shutdown was interrupted.
EverythingStopped(path) ==
    LET a == Main(path) IN
    /\ a.state = "STOPPED"
    /\ Living \intersect a.container \subseteq a.asked
==============================================================================
