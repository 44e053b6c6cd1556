----------------------------- MODULE PlanExecutor -----------------------------
(***************************************************************************)
(* The hierarchical planner: PlanExecutor over TaskGraph, RecoveryEngine   *)
(* and SQLitePlanRepository.                                               *)
(*                                                                         *)
(* The planner's tools run in the tool pool, so a loop of execute_plan, a  *)
(* pause, a resume and a cancellation of the same plan overlap; they meet  *)
(* in the dictionary _active_plans ("flag") and in the two tables.  A row  *)
(* of planner_nodes is found by the node's id alone and keeps the plan it  *)
(* was first stored for.  The process may die between any two steps.       *)
(***************************************************************************)
EXTENDS Naturals, FiniteSets

CONSTANTS
    Loops,       \* threads that execute plans
    Plans,
    Nodes,       \* node ids, in the order of a plan; every plan has the same
    Deps,        \* node |-> the nodes it depends on
    MaxRetries,  \* PlanNode.max_retries
    MaxCrashes, MaxControls   \* bounds of the model

ASSUME NodesAssumption == Nodes \subseteq Nat \ {0}
ASSUME DepsAssumption == Deps \in [Nodes -> SUBSET Nodes]
ASSUME BoundsAssumption == MaxRetries \in Nat /\ MaxCrashes \in Nat /\ MaxControls \in Nat

VARIABLES
    planRow,   \* planner_plans: plan |-> status
    nodeRow,   \* planner_nodes: node |-> owner, status and retry count
    flag,      \* _active_plans
    pc, of,    \* per loop: where execute_plan is, and the plan
    graph,     \* per loop: its TaskGraph, a function on the nodes it has
    stored,    \* per loop: the nodes current_plan was last built with
    ready,     \* per loop: ready nodes of this round it has not come to
    node,      \* per loop: the node it executes
    late,      \* per loop: nodes started since the plan was last told to stop
    done,      \* nodes that were executed and verified, with their plans
    crashes, controls

tables == <<planRow, nodeRow>>
loop   == <<pc, of, graph, stored, ready, node>>
bounds == <<crashes, controls>>
vars   == <<tables, flag, loop, late, done, bounds>>

NoPlan == "none"
NoNode == 0
ASSUME PlansAssumption == NoPlan \notin Plans
Empty  == [n \in {} |-> n]
PlanStatuses == {"absent", "created", "running", "paused", "completed", "failed", "cancelled"}
NodeStatuses == {"pending", "running", "completed", "failed"}
NodeStates   == [at : NodeStatuses, tries : 0 .. MaxRetries]

\* TaskGraph.
Fresh       == [n \in Nodes |-> [at |-> "pending", tries |-> 0]]
Complete(g) == \A n \in DOMAIN g : g[n].at = "completed"
Failed(g)   == \E n \in DOMAIN g : g[n].at = "failed"

\* Mutant: a failed dependency is as good as a completed one.
ReadyAnyway(g) ==
    {n \in DOMAIN g : g[n].at = "pending" /\ \A d \in Deps[n] : g[d].at \in {"completed", "failed"}}

Ready(g) ==
    {n \in DOMAIN g : g[n].at = "pending" /\ \A d \in Deps[n] : g[d].at = "completed"}

\* Mutant: the retry after the last one is tried as well.
AfterOneFailureMore(s) ==
    IF s.tries <= MaxRetries THEN [at |-> "pending", tries |-> s.tries + 1]
                             ELSE [s EXCEPT !.at = "failed"]

\* determine_recovery, applied.  (A plan of the decomposer names no alternative
\* tool, and a rollback marks the node FAILED, as the prompt does.)
AfterFailure(s) ==
    IF s.tries < MaxRetries THEN [at |-> "pending", tries |-> s.tries + 1]
                            ELSE [s EXCEPT !.at = "failed"]

First(S) == CHOOSE n \in S : \A m \in S : n <= m

\* save_plan: the plan's row and, for each node, a new row or the status and
\* retry count of the row that has its id.
Save(p, s, g) ==
    /\ planRow' = [planRow EXCEPT ![p] = s]
    /\ nodeRow' = [n \in Nodes |->
        IF n \notin DOMAIN g THEN nodeRow[n]
        ELSE [owner |-> IF nodeRow[n].owner = NoPlan THEN p ELSE nodeRow[n].owner,
              at |-> g[n].at, tries |-> g[n].tries]]

\* get_plan: the nodes whose rows name the plan.
Stored(p) ==
    [n \in {m \in Nodes : nodeRow[m].owner = p} |->
        [at |-> nodeRow[n].at, tries |-> nodeRow[n].tries]]

Init ==
    /\ pc     = [l \in Loops |-> "idle"]
    /\ of     = [l \in Loops |-> NoPlan]
    /\ graph  = [l \in Loops |-> Empty]
    /\ stored = [l \in Loops |-> Empty]
    /\ ready  = [l \in Loops |-> {}]
    /\ node   = [l \in Loops |-> NoNode]
    /\ late   = [l \in Loops |-> 0]
    /\ flag   = [p \in Plans |-> "none"]
    /\ planRow = [p \in Plans |-> "absent"]
    /\ nodeRow = [n \in Nodes |-> [owner |-> NoPlan, at |-> "pending", tries |-> 0]]
    /\ done = {} /\ crashes = 0 /\ controls = 0

Goto(l, s) == pc' = [pc EXCEPT ![l] = s]
SetNode(l, n, s) == graph' = [graph EXCEPT ![l][n] = s]

\* On to the next node of the round, or to the next round.
NextOrScan(l) == Goto(l, IF ready[l] = {} THEN "scan" ELSE "next")

\* execute_plan returns or raises.
Leave(l) ==
    /\ Goto(l, "idle")
    /\ of'     = [of EXCEPT ![l] = NoPlan]
    /\ graph'  = [graph EXCEPT ![l] = Empty]
    /\ stored' = [stored EXCEPT ![l] = Empty]
    /\ ready'  = [ready EXCEPT ![l] = {}]
    /\ node'   = [node EXCEPT ![l] = NoNode]
    /\ late'   = [late EXCEPT ![l] = 0]

------------------------------------------------------------------------------
\* create_plan_for_goal: the decomposer's plan is stored.
Create(p) ==
    /\ planRow[p] = "absent"
    /\ Save(p, "created", Fresh)
    /\ UNCHANGED <<flag, loop, late, done, bounds>>

\* execute_plan and resume_plan read the plan ...
Fetch(l, p) ==
    /\ pc[l] = "idle" /\ planRow[p] # "absent" /\ controls < MaxControls
    /\ controls' = controls + 1
    /\ of'     = [of EXCEPT ![l] = p]
    /\ graph'  = [graph EXCEPT ![l] = Stored(p)]
    /\ stored' = [stored EXCEPT ![l] = Stored(p)]
    /\ Goto(l, "start")
    /\ UNCHANGED <<tables, flag, ready, node, late, done, crashes>>

\* ... and set it going, whatever its state and whoever else executes it.
Begin(l) ==
    /\ pc[l] = "start"
    /\ flag' = [flag EXCEPT ![of[l]] = "running"]
    /\ late' = [m \in Loops |-> IF of[m] = of[l] THEN 0 ELSE late[m]]
    /\ Save(of[l], "running", graph[l])
    /\ Goto(l, "scan")
    /\ UNCHANGED <<of, graph, stored, ready, node, done, bounds>>

\* One round: the nodes that are ready now, unless the plan is to stop.
Scan(l) ==
    /\ pc[l] = "scan"
    /\ IF flag[of[l]] # "running" \/ Complete(graph[l])
       THEN Goto(l, "final") /\ UNCHANGED ready
       ELSE IF Ready(graph[l]) = {}
       THEN Goto(l, "stalled") /\ UNCHANGED ready
       ELSE Goto(l, "next") /\ ready' = [ready EXCEPT ![l] = Ready(graph[l])]
    /\ UNCHANGED <<tables, flag, of, graph, stored, node, late, done, bounds>>

\* Mutant: the flag is read once a round.
TakeRegardless(l) ==
    /\ pc[l] = "next"
    /\ Goto(l, "go")
    /\ node' = [node EXCEPT ![l] = First(ready[l])]
    /\ UNCHANGED <<tables, flag, of, graph, stored, ready, late, done, bounds>>

\* The next node of the round, if the flag still says so ...
Take(l) ==
    /\ pc[l] = "next"
    /\ IF flag[of[l]] = "running"
       THEN /\ Goto(l, "go")
            /\ node' = [node EXCEPT ![l] = First(ready[l])]
       ELSE Goto(l, "scan") /\ UNCHANGED node
    /\ UNCHANGED <<tables, flag, of, graph, stored, ready, late, done, bounds>>

\* ... is executed.
Start(l) ==
    /\ pc[l] = "go"
    /\ SetNode(l, node[l], [graph[l][node[l]] EXCEPT !.at = "running"])
    /\ ready' = [ready EXCEPT ![l] = @ \ {node[l]}]
    /\ late'  = [late EXCEPT ![l] = IF flag[of[l]] = "running" THEN @ ELSE @ + 1]
    /\ Goto(l, "busy")
    /\ UNCHANGED <<tables, flag, of, stored, node, done, bounds>>

Succeed(l) ==
    /\ pc[l] = "busy"
    /\ SetNode(l, node[l], [graph[l][node[l]] EXCEPT !.at = "completed"])
    /\ done' = done \cup {<<of[l], node[l]>>}
    /\ NextOrScan(l)
    /\ UNCHANGED <<tables, flag, of, stored, ready, node, late, bounds>>

\* Mutant: a retry is not counted.
FailUncounted(l) ==
    /\ pc[l] = "busy"
    /\ SetNode(l, node[l], [graph[l][node[l]] EXCEPT !.at = "pending"])
    /\ NextOrScan(l)
    /\ UNCHANGED <<tables, flag, of, stored, ready, node, late, done, bounds>>

\* The node raises or is not verified: a retry, or the end of it.
Fail(l) ==
    /\ pc[l] = "busy"
    /\ SetNode(l, node[l], AfterFailure(graph[l][node[l]]))
    /\ NextOrScan(l)
    /\ UNCHANGED <<tables, flag, of, stored, ready, node, late, done, bounds>>

\* Mutant: a loop that ends with nothing left to do has completed its plan.
FinishIdle(l) ==
    /\ pc[l] \in {"final", "stalled"}
    /\ Save(of[l], IF flag[of[l]] = "running" THEN "completed" ELSE flag[of[l]], graph[l])
    /\ Leave(l)
    /\ UNCHANGED <<flag, done, bounds>>

\* The outcome is stored.  A loop that stopped for a pause and finds the plan
\* resumed stores the nodes it began with.
Finish(l) ==
    /\ pc[l] \in {"final", "stalled"}
    /\ LET g == graph[l]  p == of[l] IN
        \/ /\ Complete(g)
           /\ Save(p, "completed", g)
        \/ /\ ~ Complete(g) /\ flag[p] \in {"paused", "cancelled"}
           /\ Save(p, flag[p], g)
        \/ /\ ~ Complete(g) /\ flag[p] = "running"
           /\ IF pc[l] = "stalled" /\ Failed(g) THEN Save(p, "failed", g)
                                              ELSE Save(p, "running", stored[l])
    /\ Leave(l)
    /\ UNCHANGED <<flag, done, bounds>>

\* Writing the execution log or the plan raises.
Abort(l) ==
    /\ pc[l] \in {"start", "next", "scan", "final", "stalled"} /\ crashes < MaxCrashes
    /\ crashes' = crashes + 1
    /\ Leave(l)
    /\ UNCHANGED <<tables, flag, done, controls>>

\* control_plan, from any thread at any time.
Control(p, s) ==
    /\ planRow[p] # "absent" /\ flag[p] # s /\ controls < MaxControls
    /\ controls' = controls + 1
    /\ flag' = [flag EXCEPT ![p] = s]
    /\ UNCHANGED <<tables, loop, late, done, crashes>>

Crash ==
    /\ crashes < MaxCrashes
    /\ crashes' = crashes + 1
    /\ pc'     = [l \in Loops |-> "idle"]
    /\ of'     = [l \in Loops |-> NoPlan]
    /\ graph'  = [l \in Loops |-> Empty]
    /\ stored' = [l \in Loops |-> Empty]
    /\ ready'  = [l \in Loops |-> {}]
    /\ node'   = [l \in Loops |-> NoNode]
    /\ late'   = [l \in Loops |-> 0]
    /\ flag'   = [p \in Plans |-> "none"]
    /\ UNCHANGED <<tables, done, controls>>

------------------------------------------------------------------------------
Step(l) ==
    \/ Begin(l) \/ Scan(l) \/ Take(l) \/ Start(l) \/ Succeed(l) \/ Fail(l)
    \/ Finish(l) \/ Abort(l)

Next ==
    \/ \E p \in Plans : Create(p) \/ \E s \in {"paused", "cancelled"} : Control(p, s)
    \/ \E l \in Loops : Step(l) \/ \E p \in Plans : Fetch(l, p)
    \/ Crash

\* The threads of the pool run, and every tool comes back.
Spec == Init /\ [][Next]_vars /\ \A l \in Loops : WF_vars(Step(l))

------------------------------------------------------------------------------
TypeOK ==
    /\ planRow \in [Plans -> PlanStatuses]
    /\ nodeRow \in [Nodes -> [owner : Plans \cup {NoPlan}, at : NodeStatuses, tries : 0 .. MaxRetries]]
    /\ flag \in [Plans -> {"none", "running", "paused", "cancelled"}]
    /\ pc \in [Loops -> {"idle", "start", "scan", "next", "go", "busy", "final", "stalled"}]
    /\ of \in [Loops -> Plans \cup {NoPlan}]
    /\ DOMAIN graph = Loops /\ DOMAIN stored = Loops
    /\ \A l \in Loops :
        /\ DOMAIN graph[l] \in SUBSET Nodes /\ DOMAIN stored[l] = DOMAIN graph[l]
        /\ graph[l] \in [DOMAIN graph[l] -> NodeStates]
        /\ stored[l] \in [DOMAIN graph[l] -> NodeStates]
        /\ ready[l] \in SUBSET DOMAIN graph[l]
        /\ pc[l] \in {"go", "busy"} => node[l] \in DOMAIN graph[l]
    /\ late \in [Loops -> Nat]
    /\ done \in SUBSET (Plans \X Nodes)

\* A plan the store calls COMPLETED has had every node of the decomposer's plan
\* executed and verified for it, in this session or an earlier one: pauses,
\* resumptions, second loops, storage errors and restarts included.
CompletedMeansDone ==
    \A p \in Plans : planRow[p] = "completed" => {p} \X Nodes \subseteq done

\* A node is under way only when the nodes it depends on have been executed and
\* verified for the plan; what a loop learnt from the tables counts only if
\* some loop really did it.
DependenciesFirst ==
    \A l \in Loops : pc[l] = "busy" => {of[l]} \X Deps[node[l]] \subseteq done

\* After a pause or a cancellation a loop starts at most the one node it had
\* already picked; none of the rest of its round.
StopsAfterOneNode == \A l \in Loops : late[l] <= 1

\* Every execution of a plan comes to an end: retries are bounded and the flag
\* ends the loop.
ExecutionEnds == \A l \in Loops : pc[l] # "idle" ~> pc[l] = "idle"
==============================================================================
