-------------------------- MODULE PlanExecutorProofs --------------------------
(***************************************************************************)
(* Theorems about PlanExecutor, for any threads, nodes, dependencies and   *)
(* bounds: types and the pause for any plans, what completion means for a  *)
(* plan whose nodes share their ids with no other.                         *)
(***************************************************************************)
EXTENDS PlanExecutor, WellFoundedInduction, TLAPS

USE NodesAssumption, DepsAssumption, BoundsAssumption, PlansAssumption DEF NoNode

Pcs    == {"idle", "start", "scan", "next", "go", "busy", "final", "stalled"}
Rows   == [owner : Plans \cup {NoPlan}, at : NodeStatuses, tries : 0 .. MaxRetries]
Graphs == UNION {[S -> NodeStates] : S \in SUBSET Nodes}

\* Types, as the executor needs them: a loop that has left "idle" has a plan, one that is
\* about to take a node has one to take.
TypeInv ==
    /\ planRow \in [Plans -> PlanStatuses]
    /\ nodeRow \in [Nodes -> Rows]
    /\ flag \in [Plans -> {"none", "running", "paused", "cancelled"}]
    /\ pc \in [Loops -> Pcs]
    /\ of \in [Loops -> Plans \cup {NoPlan}]
    /\ graph \in [Loops -> Graphs] /\ stored \in [Loops -> Graphs]
    /\ ready \in [Loops -> SUBSET Nodes]
    /\ node \in [Loops -> Nodes \cup {NoNode}]
    /\ late \in [Loops -> Nat]
    /\ done \in SUBSET (Plans \X Nodes)
    /\ \A l \in Loops :
        /\ DOMAIN stored[l] = DOMAIN graph[l] /\ ready[l] \subseteq DOMAIN graph[l]
        /\ IF pc[l] = "idle" THEN ready[l] = {} ELSE of[l] \in Plans
        /\ pc[l] = "next" => ready[l] # {}
        /\ pc[l] \in {"go", "busy"} => node[l] \in DOMAIN graph[l]

\* A loop that started a node after the plan was told to stop has picked no other.
LateInv ==
    \A l \in Loops :
        /\ late[l] \in {0, 1}
        /\ pc[l] = "idle" => late[l] = 0
        /\ late[l] = 1 => flag[of[l]] # "running" /\ pc[l] # "go"

------------------------------------------------------------------------------
(* The graph, the rows and the node that is taken.                         *)

\* The first of some nodes is one of them.
LEMMA FirstIsOne ==
  ASSUME NEW S, S \subseteq Nodes, S # {}
  PROVE  First(S) \in S
<1>1. S \subseteq Nat
  OBVIOUS
<1>2. \E x \in S : \A y \in S : ~ (<<y, x>> \in OpToRel(<, Nat))
  BY <1>1, NatLessThanWellFounded, WFMin
<1>3. \E x \in S : \A y \in S : ~ (y < x)
  BY <1>1, <1>2 DEF OpToRel
<1>4. \E x \in S : \A y \in S : x <= y
  BY <1>1, <1>3
<1> QED
  BY <1>4 DEF First

\* A graph is typed, node by node.
LEMMA GraphTypes ==
  ASSUME NEW g \in Graphs
  PROVE  DOMAIN g \in SUBSET Nodes /\ \A n \in DOMAIN g : g[n] \in NodeStates
<1>1. PICK S \in SUBSET Nodes : g \in [S -> NodeStates]
  BY DEF Graphs
<1> QED
  BY <1>1

\* A node of a graph is set, and the others stay.
LEMMA GraphSet ==
  ASSUME NEW g \in Graphs, NEW n \in DOMAIN g, NEW s \in NodeStates
  PROVE  /\ [g EXCEPT ![n] = s] \in Graphs /\ DOMAIN [g EXCEPT ![n] = s] = DOMAIN g
         /\ \A m \in DOMAIN g : [g EXCEPT ![n] = s][m] = IF m = n THEN s ELSE g[m]
BY DEF Graphs

\* A loop without a plan has a graph without nodes.
LEMMA EmptyGraph == Empty \in Graphs /\ DOMAIN Empty = {}
<1>1. Empty \in [{} -> NodeStates]
  BY DEF Empty
<1>2. {} \in SUBSET Nodes
  OBVIOUS
<1> QED
  BY <1>1, <1>2 DEF Graphs, Empty

\* What the tables give is a graph on the plan's nodes.
LEMMA StoredTypes ==
  ASSUME TypeInv, NEW p \in Plans
  PROVE  /\ Stored(p) \in Graphs
         /\ DOMAIN Stored(p) = {m \in Nodes : nodeRow[m].owner = p}
         /\ \A n \in DOMAIN Stored(p) : Stored(p)[n].at = nodeRow[n].at
<1> DEFINE D == {m \in Nodes : nodeRow[m].owner = p}
<1>1. \A n \in D : [at |-> nodeRow[n].at, tries |-> nodeRow[n].tries] \in NodeStates
  BY DEF TypeInv, Rows, NodeStates
<1>2. Stored(p) \in [D -> NodeStates]
  BY <1>1 DEF Stored
<1> QED
  BY <1>2 DEF Graphs, Stored

\* Saving keeps the rows' types and gives a row at most an owner.
LEMMA SaveTypes ==
  ASSUME TypeInv, NEW p \in Plans, NEW s \in PlanStatuses, NEW g \in Graphs, Save(p, s, g)
  PROVE  /\ planRow' \in [Plans -> PlanStatuses] /\ nodeRow' \in [Nodes -> Rows]
         /\ planRow'[p] = s /\ \A q \in Plans \ {p} : planRow'[q] = planRow[q]
         /\ \A n \in Nodes :
                IF n \notin DOMAIN g THEN nodeRow'[n] = nodeRow[n]
                ELSE /\ nodeRow'[n].at = g[n].at
                     /\ nodeRow'[n].owner = IF nodeRow[n].owner = NoPlan THEN p ELSE nodeRow[n].owner
<1> DEFINE row(n) == [owner |-> IF nodeRow[n].owner = NoPlan THEN p ELSE nodeRow[n].owner,
                      at |-> g[n].at, tries |-> g[n].tries]
<1>1. \A n \in Nodes : nodeRow[n] \in Rows
  BY DEF TypeInv
<1>2. \A n \in DOMAIN g : row(n) \in Rows
  BY <1>1, GraphTypes DEF Rows, NodeStates
<1>3. nodeRow' = [n \in Nodes |-> IF n \notin DOMAIN g THEN nodeRow[n] ELSE row(n)]
  BY DEF Save
<1>4. nodeRow' \in [Nodes -> Rows]
  BY <1>1, <1>2, <1>3
<1> QED
  BY <1>3, <1>4 DEF Save, TypeInv

\* A node that failed is pending again or has failed for good.
LEMMA FailureTypes ==
  ASSUME NEW s \in NodeStates
  PROVE  AfterFailure(s) \in NodeStates /\ AfterFailure(s).at # "completed"
BY DEF AfterFailure, NodeStates, NodeStatuses

------------------------------------------------------------------------------
(* Types.                                                                  *)

\* What a loop leaves behind when it returns, raises or dies.
LEMMA LeaveTypes ==
  ASSUME TypeInv, NEW l \in Loops, Leave(l),
         planRow' \in [Plans -> PlanStatuses], nodeRow' \in [Nodes -> Rows],
         UNCHANGED <<flag, done>>
  PROVE  TypeInv'
<1>1. Empty \in Graphs /\ DOMAIN Empty = {}
  BY EmptyGraph
<1>2. /\ of' = [of EXCEPT ![l] = NoPlan] /\ pc' = [pc EXCEPT ![l] = "idle"]
      /\ graph' = [graph EXCEPT ![l] = Empty] /\ stored' = [stored EXCEPT ![l] = Empty]
      /\ ready' = [ready EXCEPT ![l] = {}] /\ node' = [node EXCEPT ![l] = NoNode]
      /\ late' = [late EXCEPT ![l] = 0]
  BY DEF Leave, Goto
<1>3. /\ pc' \in [Loops -> Pcs] /\ of' \in [Loops -> Plans \cup {NoPlan}]
      /\ graph' \in [Loops -> Graphs] /\ stored' \in [Loops -> Graphs]
      /\ ready' \in [Loops -> SUBSET Nodes] /\ node' \in [Loops -> Nodes \cup {NoNode}]
      /\ late' \in [Loops -> Nat]
  BY <1>1, <1>2 DEF TypeInv, Pcs
<1>4. ASSUME NEW m \in Loops
      PROVE  /\ DOMAIN stored'[m] = DOMAIN graph'[m] /\ ready'[m] \subseteq DOMAIN graph'[m]
             /\ IF pc'[m] = "idle" THEN ready'[m] = {} ELSE of'[m] \in Plans
             /\ pc'[m] = "next" => ready'[m] # {}
             /\ pc'[m] \in {"go", "busy"} => node'[m] \in DOMAIN graph'[m]
  BY <1>1, <1>2 DEF TypeInv
<1> QED
  BY <1>3, <1>4 DEF TypeInv

\* A loop sets one of its nodes and goes on.
LEMMA NodeTypes ==
  ASSUME TypeInv, NEW l \in Loops, pc[l] \in {"go", "busy"},
         NEW s \in NodeStates, SetNode(l, node[l], s)
  PROVE  /\ graph' \in [Loops -> Graphs] /\ node[l] \in DOMAIN graph[l]
         /\ \A m \in Loops : DOMAIN graph'[m] = DOMAIN graph[m] /\ (m # l => graph'[m] = graph[m])
         /\ \A n \in DOMAIN graph[l] : graph'[l][n] = IF n = node[l] THEN s ELSE graph[l][n]
<1>1. node[l] \in DOMAIN graph[l] /\ graph[l] \in Graphs
  BY DEF TypeInv
<1>2. graph' = [graph EXCEPT ![l] = [graph[l] EXCEPT ![node[l]] = s]]
  BY DEF SetNode
<1> DEFINE g == [graph[l] EXCEPT ![node[l]] = s]
<1>3. /\ g \in Graphs /\ DOMAIN g = DOMAIN graph[l]
      /\ \A n \in DOMAIN graph[l] : g[n] = IF n = node[l] THEN s ELSE graph[l][n]
  BY <1>1, GraphSet
<1> HIDE DEF g
<1>4. graph' = [graph EXCEPT ![l] = g]
  BY <1>2 DEF g
<1> QED
  BY <1>1, <1>3, <1>4 DEF TypeInv

\* Every step keeps the types.
LEMMA TypeStep ==
  ASSUME TypeInv, [Next]_vars
  PROVE  TypeInv'
<1> USE DEF loop, tables, bounds, Goto
<1>s. ASSUME NEW l \in Loops, pc[l] \in {"go", "busy"}
      PROVE  /\ [graph[l][node[l]] EXCEPT !.at = "running"] \in NodeStates
             /\ [graph[l][node[l]] EXCEPT !.at = "completed"] \in NodeStates
             /\ AfterFailure(graph[l][node[l]]) \in NodeStates
  <2>1. graph[l][node[l]] \in NodeStates
    BY <1>s, GraphTypes DEF TypeInv
  <2> QED
    BY <2>1, FailureTypes DEF NodeStates, NodeStatuses
<1>1. ASSUME NEW p \in Plans, Create(p)
      PROVE  TypeInv'
  <2>1. Fresh \in Graphs
    BY DEF Fresh, Graphs, NodeStates, NodeStatuses
  <2>2. planRow' \in [Plans -> PlanStatuses] /\ nodeRow' \in [Nodes -> Rows]
    BY <1>1, <2>1, SaveTypes DEF Create, PlanStatuses
  <2> QED
    BY <1>1, <2>2 DEF Create, TypeInv
<1>2. ASSUME NEW l \in Loops, NEW p \in Plans, Fetch(l, p)
      PROVE  TypeInv'
  <2>1. Stored(p) \in Graphs
    BY StoredTypes
  <2>2. /\ of' = [of EXCEPT ![l] = p] /\ pc' = [pc EXCEPT ![l] = "start"]
        /\ graph' = [graph EXCEPT ![l] = Stored(p)] /\ stored' = [stored EXCEPT ![l] = Stored(p)]
        /\ UNCHANGED <<planRow, nodeRow, flag, ready, node, late, done>> /\ pc[l] = "idle"
    BY <1>2 DEF Fetch
  <2>3. /\ pc' \in [Loops -> Pcs] /\ of' \in [Loops -> Plans \cup {NoPlan}]
        /\ graph' \in [Loops -> Graphs] /\ stored' \in [Loops -> Graphs]
    BY <2>1, <2>2 DEF TypeInv, Pcs
  <2>4. ASSUME NEW m \in Loops
        PROVE  /\ DOMAIN stored'[m] = DOMAIN graph'[m] /\ ready'[m] \subseteq DOMAIN graph'[m]
               /\ IF pc'[m] = "idle" THEN ready'[m] = {} ELSE of'[m] \in Plans
               /\ pc'[m] = "next" => ready'[m] # {}
               /\ pc'[m] \in {"go", "busy"} => node'[m] \in DOMAIN graph'[m]
    BY <2>2 DEF TypeInv
  <2> QED
    BY <2>2, <2>3, <2>4 DEF TypeInv
<1>3. ASSUME NEW l \in Loops, Begin(l)
      PROVE  TypeInv'
  <2>1. of[l] \in Plans /\ graph[l] \in Graphs
    BY <1>3 DEF Begin, TypeInv
  <2>2. planRow' \in [Plans -> PlanStatuses] /\ nodeRow' \in [Nodes -> Rows]
    BY <1>3, <2>1, SaveTypes DEF Begin, PlanStatuses
  <2> QED
    BY <1>3, <2>1, <2>2 DEF Begin, TypeInv, Pcs
<1>4. ASSUME NEW l \in Loops, Scan(l)
      PROVE  TypeInv'
  <2>1. Ready(graph[l]) \subseteq DOMAIN graph[l] /\ Ready(graph[l]) \subseteq Nodes
    BY GraphTypes DEF Ready, TypeInv
  <2>2. /\ pc[l] = "scan"
        /\ UNCHANGED <<planRow, nodeRow, flag, of, graph, stored, node, late, done>>
        /\ \/ pc' \in {[pc EXCEPT ![l] = "final"], [pc EXCEPT ![l] = "stalled"]} /\ ready' = ready
           \/ /\ pc' = [pc EXCEPT ![l] = "next"] /\ Ready(graph[l]) # {}
              /\ ready' = [ready EXCEPT ![l] = Ready(graph[l])]
    BY <1>4 DEF Scan
  <2>3. ready' \in [Loops -> SUBSET Nodes] /\ pc' \in [Loops -> Pcs]
    BY <2>1, <2>2 DEF TypeInv, Pcs
  <2>4. ASSUME NEW m \in Loops
        PROVE  /\ DOMAIN stored'[m] = DOMAIN graph'[m] /\ ready'[m] \subseteq DOMAIN graph'[m]
               /\ IF pc'[m] = "idle" THEN ready'[m] = {} ELSE of'[m] \in Plans
               /\ pc'[m] = "next" => ready'[m] # {}
               /\ pc'[m] \in {"go", "busy"} => node'[m] \in DOMAIN graph'[m]
    BY <2>1, <2>2 DEF TypeInv
  <2> QED
    BY <2>2, <2>3, <2>4 DEF TypeInv
<1>5. ASSUME NEW l \in Loops, Take(l)
      PROVE  TypeInv'
  <2>1. First(ready[l]) \in ready[l] /\ ready[l] \subseteq DOMAIN graph[l] /\ ready[l] \subseteq Nodes
    BY <1>5, FirstIsOne DEF Take, TypeInv
  <2>2. /\ pc[l] = "next"
        /\ UNCHANGED <<planRow, nodeRow, flag, of, graph, stored, ready, late, done>>
        /\ \/ pc' = [pc EXCEPT ![l] = "go"] /\ node' = [node EXCEPT ![l] = First(ready[l])]
           \/ pc' = [pc EXCEPT ![l] = "scan"] /\ node' = node
    BY <1>5 DEF Take
  <2>3. node' \in [Loops -> Nodes \cup {NoNode}] /\ pc' \in [Loops -> Pcs]
    BY <2>1, <2>2 DEF TypeInv, Pcs
  <2>4. ASSUME NEW m \in Loops
        PROVE  /\ DOMAIN stored'[m] = DOMAIN graph'[m] /\ ready'[m] \subseteq DOMAIN graph'[m]
               /\ IF pc'[m] = "idle" THEN ready'[m] = {} ELSE of'[m] \in Plans
               /\ pc'[m] = "next" => ready'[m] # {}
               /\ pc'[m] \in {"go", "busy"} => node'[m] \in DOMAIN graph'[m]
    BY <2>1, <2>2 DEF TypeInv
  <2> QED
    BY <2>2, <2>3, <2>4 DEF TypeInv
<1>6. ASSUME NEW l \in Loops, Start(l)
      PROVE  TypeInv'
  <2>1. /\ graph' \in [Loops -> Graphs] /\ node[l] \in DOMAIN graph[l]
        /\ \A m \in Loops : DOMAIN graph'[m] = DOMAIN graph[m]
    BY <1>6, <1>s, NodeTypes DEF Start
  <2>2. /\ ready' = [ready EXCEPT ![l] = ready[l] \ {node[l]}] /\ pc' = [pc EXCEPT ![l] = "busy"]
        /\ late' \in [Loops -> Nat] /\ pc[l] = "go"
        /\ UNCHANGED <<planRow, nodeRow, flag, of, stored, node, done>>
    BY <1>6 DEF Start, TypeInv
  <2>3. ready' \in [Loops -> SUBSET Nodes] /\ pc' \in [Loops -> Pcs]
    BY <2>2 DEF TypeInv, Pcs
  <2>4. ASSUME NEW m \in Loops
        PROVE  /\ DOMAIN stored'[m] = DOMAIN graph'[m] /\ ready'[m] \subseteq DOMAIN graph'[m]
               /\ IF pc'[m] = "idle" THEN ready'[m] = {} ELSE of'[m] \in Plans
               /\ pc'[m] = "next" => ready'[m] # {}
               /\ pc'[m] \in {"go", "busy"} => node'[m] \in DOMAIN graph'[m]
    BY <2>1, <2>2 DEF TypeInv
  <2> QED
    BY <2>1, <2>2, <2>3, <2>4 DEF TypeInv
<1>7. ASSUME NEW l \in Loops, Succeed(l) \/ Fail(l)
      PROVE  TypeInv'
  <2>1. /\ graph' \in [Loops -> Graphs] /\ node[l] \in DOMAIN graph[l]
        /\ \A m \in Loops : DOMAIN graph'[m] = DOMAIN graph[m]
    BY <1>7, <1>s, NodeTypes DEF Succeed, Fail
  <2>2. /\ pc[l] = "busy" /\ pc' = [pc EXCEPT ![l] = IF ready[l] = {} THEN "scan" ELSE "next"]
        /\ UNCHANGED <<planRow, nodeRow, flag, of, stored, node, ready, late>>
    BY <1>7 DEF Succeed, Fail, NextOrScan
  <2>3. done' \in SUBSET (Plans \X Nodes)
    <3>1. of[l] \in Plans /\ node[l] \in Nodes /\ done \in SUBSET (Plans \X Nodes)
      BY <2>1, <2>2, GraphTypes DEF TypeInv
    <3> QED
      BY <1>7, <3>1 DEF Succeed, Fail
  <2> QED
    BY <2>1, <2>2, <2>3 DEF TypeInv, Pcs
<1>8. ASSUME NEW l \in Loops, Finish(l)
      PROVE  TypeInv'
  <2>1. of[l] \in Plans /\ graph[l] \in Graphs /\ stored[l] \in Graphs
    BY <1>8 DEF Finish, TypeInv
  <2>2. \E s \in PlanStatuses, g \in Graphs : Save(of[l], s, g)
    BY <1>8, <2>1 DEF Finish, PlanStatuses
  <2>3. planRow' \in [Plans -> PlanStatuses] /\ nodeRow' \in [Nodes -> Rows]
    BY <2>1, <2>2, SaveTypes
  <2> QED
    BY <1>8, <2>3, LeaveTypes DEF Finish
<1>9. ASSUME NEW l \in Loops, Abort(l)
      PROVE  TypeInv'
  <2>1. Leave(l) /\ UNCHANGED <<planRow, nodeRow, flag, done>>
    BY <1>9 DEF Abort
  <2>2. planRow' \in [Plans -> PlanStatuses] /\ nodeRow' \in [Nodes -> Rows]
    BY <2>1 DEF TypeInv
  <2> QED
    BY <2>1, <2>2, LeaveTypes
<1>10. ASSUME NEW p \in Plans, NEW s \in {"paused", "cancelled"}, Control(p, s)
       PROVE  TypeInv'
  BY <1>10 DEF Control, TypeInv
<1>11. CASE Crash
  <2>1. Empty \in Graphs /\ DOMAIN Empty = {}
    BY EmptyGraph
  <2> QED
    BY <1>11, <2>1 DEF Crash, TypeInv, Pcs
<1>12. CASE UNCHANGED vars
  BY <1>12 DEF vars, TypeInv
<1> QED
  BY <1>1, <1>2, <1>3, <1>4, <1>5, <1>6, <1>7, <1>8, <1>9, <1>10, <1>11, <1>12 DEF Next, Step

------------------------------------------------------------------------------
(* Stopping.                                                               *)

\* Only setting the plan going again frees a loop that started a node too many.
LEMMA LateStep ==
  ASSUME TypeInv, LateInv, [Next]_vars
  PROVE  LateInv'
<1> USE DEF loop, tables, bounds, Goto, LateInv
<1>1. ASSUME NEW l \in Loops, Leave(l), UNCHANGED flag
      PROVE  LateInv'
  BY <1>1 DEF Leave, TypeInv
<1>2. ASSUME NEW l \in Loops, Step(l)
      PROVE  LateInv'
  <2>1. CASE Begin(l)
    BY <2>1 DEF Begin, TypeInv
  <2>2. CASE Scan(l)
    BY <2>2 DEF Scan, TypeInv
  <2>3. CASE Take(l)
    BY <2>3 DEF Take, TypeInv
  <2>4. CASE Start(l)
    BY <2>4 DEF Start, TypeInv
  <2>5. CASE Succeed(l) \/ Fail(l)
    BY <2>5 DEF Succeed, Fail, NextOrScan, TypeInv
  <2>6. CASE Finish(l) \/ Abort(l)
    BY <1>1, <2>6 DEF Finish, Abort
  <2> QED
    BY <1>2, <2>1, <2>2, <2>3, <2>4, <2>5, <2>6 DEF Step
<1>3. ASSUME NEW p \in Plans, NEW l \in Loops, Fetch(l, p)
      PROVE  LateInv'
  BY <1>3 DEF Fetch, TypeInv
<1>4. ASSUME NEW p \in Plans, NEW s \in {"paused", "cancelled"}, Control(p, s)
      PROVE  LateInv'
  BY <1>4 DEF Control, TypeInv
<1>5. CASE Crash
  BY <1>5 DEF Crash
<1>6. CASE UNCHANGED vars \/ \E p \in Plans : Create(p)
  BY <1>6 DEF vars, Create
<1> QED
  BY <1>2, <1>3, <1>4, <1>5, <1>6 DEF Next

------------------------------------------------------------------------------
(* Completion, where no other plan has these nodes.                        *)

\* Whatever a row, a graph, a loop's first copy or a round says is completed has been
\* executed and verified; the stored plan has all its nodes, and so has every loop.
DoneInv(p) ==
    /\ \A n \in Nodes : nodeRow[n].at = "completed" => <<p, n>> \in done
    /\ planRow[p] # "absent" => \A n \in Nodes : nodeRow[n].owner = p
    /\ \A l \in Loops :
        /\ \A n \in DOMAIN graph[l] :
            graph[l][n].at = "completed" \/ stored[l][n].at = "completed" => <<p, n>> \in done
        /\ \A n \in ready[l] : {p} \X Deps[n] \subseteq done
        /\ pc[l] \in {"go", "busy"} => {p} \X Deps[node[l]] \subseteq done
        /\ pc[l] # "idle" => planRow[p] # "absent" /\ DOMAIN graph[l] = Nodes
    /\ CompletedMeansDone

\* The pairs of a plan and some nodes, one by one.
LEMMA PairsIn ==
  ASSUME NEW p, NEW S, NEW D, \A n \in S : <<p, n>> \in D
  PROVE  {p} \X S \subseteq D
OBVIOUS

\* A save keeps the tables true, if what is saved is.
LEMMA SaveDone ==
  ASSUME NEW p, Plans = {p}, TypeInv, DoneInv(p),
         NEW s \in PlanStatuses \ {"absent"}, NEW g \in Graphs, Save(p, s, g),
         DOMAIN g = Nodes, \A n \in Nodes : g[n].at = "completed" => <<p, n>> \in done,
         s = "completed" => Complete(g), done' = done
  PROVE  /\ \A n \in Nodes : nodeRow'[n].at = "completed" => <<p, n>> \in done'
         /\ planRow'[p] # "absent" /\ \A n \in Nodes : nodeRow'[n].owner = p
         /\ CompletedMeansDone'
<1>1. /\ planRow'[p] = s
      /\ \A n \in Nodes :
            /\ nodeRow'[n].at = g[n].at
            /\ nodeRow'[n].owner = IF nodeRow[n].owner = NoPlan THEN p ELSE nodeRow[n].owner
  <2>1. p \in Plans /\ s \in PlanStatuses
    OBVIOUS
  <2> QED
    BY <2>1, SaveTypes
<1>2. \A n \in Nodes : nodeRow[n].owner \in {p, NoPlan}
  BY DEF TypeInv, Rows
<1>3. s = "completed" => {p} \X Nodes \subseteq done
  <2>1. s = "completed" => \A n \in Nodes : <<p, n>> \in done
    BY DEF Complete
  <2> QED
    BY <2>1, PairsIn
<1> QED
  BY <1>1, <1>2, <1>3 DEF CompletedMeansDone

\* A loop that leaves takes only its own away.
LEMMA LeaveDone ==
  ASSUME NEW p, TypeInv, NEW l \in Loops, Leave(l), DoneInv(p), done' = done
  PROVE  \A m \in Loops :
            /\ \A n \in DOMAIN graph'[m] :
                graph'[m][n].at = "completed" \/ stored'[m][n].at = "completed" => <<p, n>> \in done'
            /\ \A n \in ready'[m] : {p} \X Deps[n] \subseteq done'
            /\ pc'[m] \in {"go", "busy"} => {p} \X Deps[node'[m]] \subseteq done'
            /\ pc'[m] # "idle" => planRow[p] # "absent" /\ DOMAIN graph'[m] = Nodes
<1>1. DOMAIN Empty = {}
  BY DEF Empty
<1>2. /\ pc' = [pc EXCEPT ![l] = "idle"] /\ graph' = [graph EXCEPT ![l] = Empty]
      /\ stored' = [stored EXCEPT ![l] = Empty] /\ ready' = [ready EXCEPT ![l] = {}]
      /\ node' = [node EXCEPT ![l] = NoNode]
  BY DEF Leave, Goto
<1> QED
  BY <1>1, <1>2 DEF DoneInv, TypeInv

\* Every step keeps what is called completed true.
LEMMA DoneStep ==
  ASSUME NEW p, Plans = {p}, TypeInv, DoneInv(p), [Next]_vars
  PROVE  DoneInv(p)'
<1> USE DEF loop, tables, bounds, Goto
<1> DEFINE LoopDone(m) ==
            /\ \A n \in DOMAIN graph[m] :
                graph[m][n].at = "completed" \/ stored[m][n].at = "completed" => <<p, n>> \in done
            /\ \A n \in ready[m] : {p} \X Deps[n] \subseteq done
            /\ pc[m] \in {"go", "busy"} => {p} \X Deps[node[m]] \subseteq done
            /\ pc[m] # "idle" => planRow[p] # "absent" /\ DOMAIN graph[m] = Nodes
<1>0. p \in Plans /\ \A l \in Loops : LoopDone(l) /\ (pc[l] # "idle" => of[l] = p)
  BY DEF DoneInv, TypeInv
<1>a. ASSUME NEW s \in PlanStatuses \ {"absent"}, NEW g \in Graphs, Save(p, s, g),
             DOMAIN g = Nodes, \A n \in Nodes : g[n].at = "completed" => <<p, n>> \in done,
             s = "completed" => Complete(g), done' = done,
             \A m \in Loops : LoopDone(m)'
      PROVE  DoneInv(p)'
  BY <1>a, SaveDone DEF DoneInv
<1>b. ASSUME UNCHANGED <<planRow, nodeRow>>, done \subseteq done', \A m \in Loops : LoopDone(m)'
      PROVE  DoneInv(p)'
  BY <1>b DEF DoneInv, CompletedMeansDone
<1>1. CASE Create(p)
  <2>1. /\ Fresh \in Graphs /\ DOMAIN Fresh = Nodes /\ \A n \in Nodes : Fresh[n].at = "pending"
    BY DEF Fresh, Graphs, NodeStates, NodeStatuses
  <2>2. Save(p, "created", Fresh) /\ planRow' = [planRow EXCEPT ![p] = "created"]
        /\ UNCHANGED <<pc, graph, stored, ready, node, done>>
    BY <1>1 DEF Create, Save
  <2>3. \A m \in Loops : LoopDone(m)'
    BY <1>0, <2>2 DEF TypeInv
  <2> QED
    BY <1>a, <2>1, <2>2, <2>3 DEF PlanStatuses
<1>2. ASSUME NEW l \in Loops, Fetch(l, p)
      PROVE  DoneInv(p)'
  <2>1. /\ DOMAIN Stored(p) = Nodes
        /\ \A n \in Nodes : Stored(p)[n].at = "completed" => <<p, n>> \in done
    BY <1>0, <1>2, StoredTypes DEF Fetch, DoneInv
  <2>2. /\ pc' = [pc EXCEPT ![l] = "start"] /\ pc[l] = "idle" /\ planRow[p] # "absent"
        /\ graph' = [graph EXCEPT ![l] = Stored(p)] /\ stored' = [stored EXCEPT ![l] = Stored(p)]
        /\ UNCHANGED <<planRow, nodeRow, ready, node, done>>
    BY <1>2 DEF Fetch
  <2>3. \A m \in Loops : LoopDone(m)'
    BY <1>0, <2>1, <2>2 DEF TypeInv
  <2> QED
    BY <1>b, <2>2, <2>3
<1>3. ASSUME NEW l \in Loops, Begin(l)
      PROVE  DoneInv(p)'
  <2>1. /\ of[l] = p /\ graph[l] \in Graphs /\ DOMAIN graph[l] = Nodes
        /\ \A n \in Nodes : graph[l][n].at = "completed" => <<p, n>> \in done
    BY <1>0, <1>3 DEF Begin, TypeInv
  <2>2. /\ Save(p, "running", graph[l]) /\ planRow' = [planRow EXCEPT ![p] = "running"]
        /\ pc[l] = "start" /\ pc' = [pc EXCEPT ![l] = "scan"]
        /\ UNCHANGED <<graph, stored, ready, node, done>>
    BY <1>3, <2>1 DEF Begin, Save
  <2>3. \A m \in Loops : LoopDone(m)'
    BY <1>0, <2>2 DEF TypeInv
  <2> QED
    BY <1>a, <2>1, <2>2, <2>3 DEF PlanStatuses
<1>4. ASSUME NEW l \in Loops, Scan(l)
      PROVE  DoneInv(p)'
  <2>1. /\ UNCHANGED <<planRow, nodeRow, graph, stored, node, done>> /\ pc[l] = "scan"
        /\ \E s \in {"final", "stalled", "next"} : pc' = [pc EXCEPT ![l] = s]
        /\ ready' \in {ready, [ready EXCEPT ![l] = Ready(graph[l])]}
    BY <1>4 DEF Scan
  <2>2. \A n \in Ready(graph[l]) : {p} \X Deps[n] \subseteq done
    <3> TAKE n \in Ready(graph[l])
    <3>1. n \in Nodes /\ DOMAIN graph[l] = Nodes /\ Deps[n] \subseteq Nodes
      BY <1>0, <2>1 DEF Ready
    <3>2. \A d \in Deps[n] : <<p, d>> \in done
      BY <1>0, <3>1 DEF Ready
    <3> DEFINE D == Deps[n]
    <3>3. \A d \in D : <<p, d>> \in done
      BY <3>2
    <3> HIDE DEF D
    <3>4. {p} \X D \subseteq done
      BY <3>3, PairsIn
    <3> QED
      BY <3>4 DEF D
  <2>3. \A m \in Loops : LoopDone(m)'
    BY <1>0, <2>1, <2>2 DEF TypeInv
  <2> QED
    BY <1>b, <2>1, <2>3
<1>5. ASSUME NEW l \in Loops, Take(l)
      PROVE  DoneInv(p)'
  <2>1. /\ UNCHANGED <<planRow, nodeRow, graph, stored, ready, done>> /\ pc[l] = "next"
        /\ \/ pc' = [pc EXCEPT ![l] = "go"] /\ node' = [node EXCEPT ![l] = First(ready[l])]
           \/ pc' = [pc EXCEPT ![l] = "scan"] /\ node' = node
    BY <1>5 DEF Take
  <2>2. First(ready[l]) \in ready[l]
    BY <2>1, FirstIsOne DEF TypeInv
  <2>3. ASSUME NEW m \in Loops
        PROVE  LoopDone(m)'
    <3>1. m # l => pc'[m] = pc[m] /\ node'[m] = node[m]
      BY <2>1 DEF TypeInv
    <3>2. pc'[l] = "scan" \/ (pc'[l] = "go" /\ node'[l] = First(ready[l]))
      BY <2>1 DEF TypeInv
    <3>3. pc[l] # "idle" /\ UNCHANGED <<planRow, graph, stored, ready, done>>
      BY <2>1
    <3> QED
      BY <1>0, <2>2, <3>1, <3>2, <3>3
  <2> QED
    BY <1>b, <2>1, <2>3
<1>6. ASSUME NEW l \in Loops, Start(l)
      PROVE  DoneInv(p)'
  <2>1. graph[l][node[l]] \in NodeStates /\ pc[l] = "go"
    BY <1>6, GraphTypes DEF Start, TypeInv
  <2>2. [graph[l][node[l]] EXCEPT !.at = "running"] \in NodeStates
        /\ [graph[l][node[l]] EXCEPT !.at = "running"].at = "running"
    BY <2>1 DEF NodeStates, NodeStatuses
  <2>3. /\ \A m \in Loops : DOMAIN graph'[m] = DOMAIN graph[m] /\ (m # l => graph'[m] = graph[m])
        /\ \A n \in DOMAIN graph[l] : n # node[l] => graph'[l][n] = graph[l][n]
        /\ graph'[l][node[l]].at = "running"
    BY <1>6, <2>1, <2>2, NodeTypes DEF Start
  <2>4. /\ UNCHANGED <<planRow, nodeRow, stored, node, done>>
        /\ pc' = [pc EXCEPT ![l] = "busy"] /\ ready' = [ready EXCEPT ![l] = ready[l] \ {node[l]}]
    BY <1>6 DEF Start
  <2>5. ASSUME NEW m \in Loops
        PROVE  LoopDone(m)'
    <3>1. ASSUME NEW n \in DOMAIN graph'[m],
                 graph'[m][n].at = "completed" \/ stored'[m][n].at = "completed"
          PROVE  <<p, n>> \in done'
      BY <1>0, <2>3, <2>4, <3>1
    <3>2. /\ \A n \in ready'[m] : {p} \X Deps[n] \subseteq done'
          /\ pc'[m] \in {"go", "busy"} => {p} \X Deps[node'[m]] \subseteq done'
          /\ pc'[m] # "idle" => planRow'[p] # "absent" /\ DOMAIN graph'[m] = Nodes
      BY <1>0, <2>1, <2>3, <2>4 DEF TypeInv
    <3> QED
      BY <3>1, <3>2
  <2> QED
    BY <1>b, <2>4, <2>5
<1>7. ASSUME NEW l \in Loops, Succeed(l) \/ Fail(l)
      PROVE  DoneInv(p)'
  <2>1. graph[l][node[l]] \in NodeStates /\ pc[l] = "busy" /\ of[l] = p
    BY <1>0, <1>7, GraphTypes DEF Succeed, Fail, TypeInv
  <2> DEFINE s == IF Succeed(l) THEN [graph[l][node[l]] EXCEPT !.at = "completed"]
                  ELSE AfterFailure(graph[l][node[l]])
  <2>2. s \in NodeStates /\ (~ Succeed(l) => s.at # "completed") /\ SetNode(l, node[l], s)
    BY <1>7, <2>1, FailureTypes DEF NodeStates, NodeStatuses, Succeed, Fail
  <2> HIDE DEF s
  <2>3. /\ \A m \in Loops : DOMAIN graph'[m] = DOMAIN graph[m] /\ (m # l => graph'[m] = graph[m])
        /\ \A n \in DOMAIN graph[l] : n # node[l] => graph'[l][n] = graph[l][n]
        /\ graph'[l][node[l]] = s
    BY <2>1, <2>2, NodeTypes
  <2>4. /\ UNCHANGED <<planRow, nodeRow, stored, ready, node>> /\ done \subseteq done'
        /\ \E t \in {"scan", "next"} : pc' = [pc EXCEPT ![l] = t]
        /\ Succeed(l) => <<p, node[l]>> \in done'
    BY <1>7, <2>1 DEF Succeed, Fail, NextOrScan
  <2>5. ASSUME NEW m \in Loops
        PROVE  LoopDone(m)'
    <3>1. ASSUME NEW n \in DOMAIN graph'[m],
                 graph'[m][n].at = "completed" \/ stored'[m][n].at = "completed"
          PROVE  <<p, n>> \in done'
      BY <1>0, <2>2, <2>3, <2>4, <3>1
    <3>2. /\ \A n \in ready'[m] : {p} \X Deps[n] \subseteq done'
          /\ pc'[m] \in {"go", "busy"} => {p} \X Deps[node'[m]] \subseteq done'
          /\ pc'[m] # "idle" => planRow'[p] # "absent" /\ DOMAIN graph'[m] = Nodes
      BY <1>0, <2>1, <2>3, <2>4 DEF TypeInv
    <3> QED
      BY <3>1, <3>2
  <2> QED
    BY <1>b, <2>4, <2>5
<1>8. ASSUME NEW l \in Loops, Finish(l)
      PROVE  DoneInv(p)'
  <2>1. /\ of[l] = p /\ graph[l] \in Graphs /\ stored[l] \in Graphs
        /\ DOMAIN graph[l] = Nodes /\ DOMAIN stored[l] = Nodes
        /\ \A n \in Nodes : graph[l][n].at = "completed" \/ stored[l][n].at = "completed"
                                => <<p, n>> \in done
    BY <1>0, <1>8 DEF Finish, TypeInv
  <2>2. PICK s \in PlanStatuses \ {"absent"}, g \in {graph[l], stored[l]} :
            Save(p, s, g) /\ (s = "completed" => Complete(g))
    BY <1>8, <2>1 DEF Finish, PlanStatuses
  <2>3. Leave(l) /\ done' = done
    BY <1>8 DEF Finish
  <2>4. planRow'[p] # "absent"
    BY <2>1, <2>2, <1>0, SaveTypes
  <2>5. \A m \in Loops : LoopDone(m)'
    BY <2>3, <2>4, LeaveDone
  <2> QED
    BY <1>a, <2>1, <2>2, <2>3, <2>5
<1>9. ASSUME NEW l \in Loops, Abort(l)
      PROVE  DoneInv(p)'
  <2>1. Leave(l) /\ UNCHANGED <<planRow, nodeRow, done>>
    BY <1>9 DEF Abort
  <2>2. \A m \in Loops : LoopDone(m)'
    BY <2>1, LeaveDone
  <2> QED
    BY <1>b, <2>1, <2>2
<1>10. CASE Crash
  <2>1. \A m \in Loops : LoopDone(m)'
    BY <1>10 DEF Crash, Empty
  <2> QED
    BY <1>b, <1>10, <2>1 DEF Crash
<1>11. ASSUME NEW s, Control(p, s)
       PROVE  DoneInv(p)'
  BY <1>0, <1>b, <1>11 DEF Control
<1>12. CASE UNCHANGED vars
  BY <1>0, <1>b, <1>12 DEF vars
<1> QED
  BY <1>1, <1>2, <1>3, <1>4, <1>5, <1>6, <1>7, <1>8, <1>9, <1>10, <1>11, <1>12 DEF Next, Step

------------------------------------------------------------------------------
(* The theorems.                                                           *)

\* The executor starts in order.
LEMMA TypesStart ==
  ASSUME Init
  PROVE  TypeInv /\ LateInv
<1>1. Empty \in Graphs /\ DOMAIN Empty = {}
  BY EmptyGraph
<1>2. /\ planRow \in [Plans -> PlanStatuses] /\ nodeRow \in [Nodes -> Rows]
      /\ pc \in [Loops -> Pcs]
  BY DEF Init, PlanStatuses, Rows, NodeStatuses, Pcs
<1>3. graph \in [Loops -> Graphs] /\ stored \in [Loops -> Graphs]
  BY <1>1 DEF Init
<1> QED
  BY <1>1, <1>2, <1>3 DEF Init, TypeInv, LateInv

\* Types and the pause: an inductive invariant for any plans.
THEOREM TypesAlways == Spec => [](TypeInv /\ LateInv)
<1>1. TypeInv /\ LateInv /\ [Next]_vars => (TypeInv /\ LateInv)'
  BY TypeStep, LateStep
<1> QED
  BY <1>1, TypesStart, PTL DEF Spec

\* The rows, the graphs of the loops and what they are about to do keep their types.
THEOREM TypeCorrect == Spec => []TypeOK
<1>1. ASSUME TypeInv
      PROVE  TypeOK
  <2>1. ASSUME NEW l \in Loops
        PROVE  /\ DOMAIN graph[l] \in SUBSET Nodes /\ DOMAIN stored[l] = DOMAIN graph[l]
               /\ graph[l] \in [DOMAIN graph[l] -> NodeStates]
               /\ stored[l] \in [DOMAIN graph[l] -> NodeStates]
               /\ ready[l] \in SUBSET DOMAIN graph[l]
               /\ pc[l] \in {"go", "busy"} => node[l] \in DOMAIN graph[l]
    <3>1. graph[l] \in Graphs /\ stored[l] \in Graphs
      BY <1>1 DEF TypeInv
    <3>2. \A g \in Graphs : g \in [DOMAIN g -> NodeStates] /\ DOMAIN g \in SUBSET Nodes
      BY DEF Graphs
    <3> QED
      BY <1>1, <3>1, <3>2 DEF TypeInv
  <2> QED
    BY <1>1, <2>1 DEF TypeInv, TypeOK, Rows, Pcs
<1> QED
  BY <1>1, TypesAlways, PTL

\* After a pause or a cancellation a loop starts at most the node it had picked, with any
\* number of loops, resumptions and plans at once.
THEOREM StopsSoon == Spec => []StopsAfterOneNode
<1>1. LateInv => StopsAfterOneNode
  BY DEF LateInv, StopsAfterOneNode
<1> QED
  BY <1>1, TypesAlways, PTL

\* What is called completed was executed and verified, in a database of one plan: the
\* inductive invariant behind the two theorems that follow.
THEOREM DoneAlways ==
  ASSUME NEW CONSTANT p, Plans = {p}
  PROVE  Spec => []DoneInv(p)
<1>1. Init => DoneInv(p)
  BY DEF Init, DoneInv, CompletedMeansDone, Empty
<1>2. TypeInv /\ DoneInv(p) /\ [Next]_vars => DoneInv(p)'
  BY DoneStep
<1> QED
  BY <1>1, <1>2, TypesAlways, PTL DEF Spec

\* A plan that the store calls COMPLETED has had every node executed and verified, if no
\* other plan shares its nodes' ids (with two plans it is false: see the run).
THEOREM CompletionIsEarned ==
  ASSUME NEW CONSTANT p, Plans = {p}
  PROVE  Spec => []CompletedMeansDone
<1>1. DoneInv(p) => CompletedMeansDone
  BY DEF DoneInv
<1> QED
  BY <1>1, DoneAlways, PTL

\* A node is under way only after the nodes it depends on, under the same condition.
THEOREM DependenciesComeFirst ==
  ASSUME NEW CONSTANT p, Plans = {p}
  PROVE  Spec => []DependenciesFirst
<1>1. TypeInv /\ DoneInv(p) => DependenciesFirst
  BY DEF TypeInv, DoneInv, DependenciesFirst
<1> QED
  BY <1>1, TypesAlways, DoneAlways, PTL

===============================================================================
