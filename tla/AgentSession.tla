----------------------------- MODULE AgentSession -----------------------------
(***************************************************************************)
(* A request from the moment it is typed or spoken to its reply, through   *)
(* AgentController, the plan executor (TaskExecutor), the direct tool loop *)
(* (AgentRunner) and the front ends' approval loop.                        *)
(*                                                                         *)
(* One front end runs: the terminal's loop and the desktop's AgentWorker   *)
(* put a suspended request to the user and resume it with the action's id; *)
(* the voice loop only starts requests.  (The desktop's voice button finds *)
(* no voice runtime: only the voice loop registers one.)  The conversation *)
(* and the slot _active_plan outlive a request, and so do the approvals,   *)
(* which expire meanwhile.                                                 *)
(* A plan is a mutable object; "plans" holds them in the order of their    *)
(* creation, and the slot and the variables root and plan refer to them.   *)
(* What the model answers and whether a tool succeeds is left open.        *)
(***************************************************************************)
EXTENDS Naturals, Sequences, FiniteSets, SequencesExt

CONSTANTS
    Gated, Plain,  \* tool calls (name and arguments): with and without confirmation
    MaxActions, MaxPlans, MaxTurns,   \* bounds of the model
    MaxSteps,      \* tool and reasoning steps of a plan; planning_max_steps
    MaxRounds      \* MAX_AGENT_ITERATIONS

VARIABLES
    status, runs,  \* the rows of the approval runtime: see ApprovalContract
    origin,        \* action |-> the call, the turn and the plans it was made for
    plans, active, \* the plan objects, and the slot _active_plan
    last,          \* the action the conversation's last message asks to confirm
    front,         \* which front end runs
    cancelled,     \* rejected actions for which the controller has cancelled
    pc, turn,      \* where the request is, how many there have been
    given,         \* the approval id passed to the controller
    root, plan,    \* the plan being executed, and the revision of it
    resumed,       \* the plan came from the slot
    tried,         \* failed_attempts
    round, todo    \* model calls so far, tool calls to make

table == <<status, runs, origin>>
exec  == <<root, plan, resumed, tried>>
loop  == <<round, todo>>
vars  == <<table, plans, active, last, front, cancelled, pc, turn, given, exec, loop>>

Calls    == Gated \cup Plain
Actions  == 1 .. MaxActions
NoAction == 0
NoPlan   == 0
Statuses == {"absent", "pending", "approved", "rejected", "expired", "executed", "failed"}
Think    == "think"
Answer   == "answer"

ASSUME CallsAssumption ==
    Gated \cap Plain = {} /\ {Think, Answer} \cap Calls = {}
ASSUME BoundsAssumption ==
    /\ MaxActions \in Nat /\ MaxPlans \in Nat /\ MaxTurns \in Nat
    /\ MaxSteps \in Nat /\ MaxRounds \in Nat

\* One request at a time makes all its calls on the table.
Approvals == INSTANCE ApprovalContract WITH Overtaking <- FALSE

\* The plans PlanValidator lets pass: some steps and, last, one synthesis.
Drafts ==
    {[status |-> "running", steps |-> [i \in 1 .. Len(d) + 1 |->
        [do |-> IF i > Len(d) THEN Answer ELSE d[i], at |-> "pending"]]] :
            d \in BoundedSeq(Calls \cup {Think}, MaxSteps)}

\* The step the executor comes to next: it passes over completed ones.
Undone(p) == {i \in DOMAIN plans[p].steps : plans[p].steps[i].at # "completed"}
Current(p) == CHOOSE i \in Undone(p) : \A j \in Undone(p) : i <= j
Step    == plans[plan].steps[Current(plan)]
Marked(p, s) == [plans EXCEPT ![p].steps[Current(p)].at = s]

\* A failed step fails its plan; the steps behind it are skipped.
Broken(p) ==
    [plans EXCEPT ![p] =
        [status |-> "failed",
         steps  |-> [i \in DOMAIN plans[p].steps |->
            IF i = Current(p) THEN [plans[p].steps[i] EXCEPT !.at = "failed"]
            ELSE IF i \in Undone(p) THEN [plans[p].steps[i] EXCEPT !.at = "skipped"]
            ELSE plans[p].steps[i]]]]

Init ==
    /\ Approvals!Init
    /\ origin  = [a \in Actions |-> [call |-> Think, turn |-> 0, plans |-> {}]]
    /\ plans   = <<>>
    /\ active  = NoPlan
    /\ last    = NoAction
    /\ front \in {"terminal", "desktop", "voice"}
    /\ cancelled   = {}
    /\ pc      = "idle"
    /\ turn    = 0
    /\ given   = NoAction
    /\ root    = NoPlan
    /\ plan    = NoPlan
    /\ resumed = FALSE
    /\ tried   = {}
    /\ round   = 0
    /\ todo    = <<>>

Goto(s) == pc' = s

\* A call of the controller ends; what it kept locally is gone.
Leave(s) ==
    /\ Goto(s)
    /\ root' = NoPlan
    /\ plan' = NoPlan
    /\ resumed' = FALSE
    /\ tried' = {}
    /\ round' = 0
    /\ todo' = <<>>

\* It returns with its reply in the conversation ...
Reply(a) == last' = a /\ Leave("look")

\* Mutant: after an error the front end looks at the last message all the same.
CrashLooking == Leave("look") /\ UNCHANGED last

\* ... or raises.  process_request_stream, which the screens call, lets the exception
\* through and the front end reports it; process_request, which voice calls,
\* tries to store an apology and swallows it, or lets it through.
Crash ==
    /\ Leave("idle")
    /\ last' = last \/ (front = "voice" /\ last' = NoAction)

------------------------------------------------------------------------------
(* The front ends.                                                         *)

\* The user sends a message, or speaks.
Begin ==
    /\ pc = "idle" /\ turn < MaxTurns
    /\ Goto("start")
    /\ turn' = turn + 1
    /\ given' = NoAction
    /\ UNCHANGED <<table, plans, active, last, front, cancelled, exec, loop>>

\* The screens read the last message of the conversation, whoever wrote it, and
\* then the action it asks for; reading that may raise.
Look ==
    /\ pc = "look"
    /\ \/ front # "voice" /\ last # NoAction /\ Goto("ask") /\ given' = last
       \/ Goto("idle") /\ given' = NoAction
    /\ UNCHANGED <<table, plans, active, last, front, cancelled, turn, exec, loop>>

\* The user answers.  A decision the approval manager refuses, or cannot store,
\* is an error in the terminal; the desktop logs it and resumes all the same.
Decide ==
    /\ pc = "ask"
    /\ \/ Approvals!Decide(given) /\ Goto("start")
       \/ /\ Goto(IF front = "desktop" THEN "start" ELSE "idle")
          /\ UNCHANGED <<status, runs>>
    /\ UNCHANGED <<origin, plans, active, last, front, cancelled, turn, given, exec, loop>>

Expire(a) ==
    /\ Approvals!Expire({a})
    /\ UNCHANGED <<origin, plans, active, last, front, cancelled, pc, turn, given, exec, loop>>

------------------------------------------------------------------------------
(* AgentController: what a call does first.                                *)

Presents(s) == pc = "start" /\ given # NoAction /\ status[given] = s

\* Mutant: a rejection is answered without touching the slot.
HearRejectionOnly ==
    /\ Presents("rejected")
    /\ cancelled' = cancelled \union {given}
    /\ Reply(NoAction) \/ Crash
    /\ UNCHANGED <<table, plans, active, front, turn, given>>

\* A rejection clears the slot; its message is stored, or storing it raises.
HearRejection ==
    /\ Presents("rejected")
    /\ active' = NoPlan
    /\ cancelled' = cancelled \union {given}
    /\ Reply(NoAction) \/ Crash
    /\ UNCHANGED <<table, plans, front, turn, given>>

\* An approved action resumes the plan in the slot, if there is one ...
ResumePlan ==
    /\ Presents("approved") /\ active # NoPlan
    /\ plans'   = [plans EXCEPT ![active].status = "running"]
    /\ root' = active
    /\ plan' = active
    /\ resumed' = TRUE
    /\ Goto("plan")
    /\ UNCHANGED <<table, active, last, front, cancelled, turn, given, tried, loop>>

\* ... and is executed itself if not, its result going into the tool loop.
\* The tool executor may fail before it consumes the action, and storing the
\* result may raise.
ResumeDirect ==
    /\ Presents("approved") /\ active = NoPlan
    /\ Approvals!Execute(given) \/ UNCHANGED <<status, runs>>
    /\ \/ last' = NoAction /\ Goto("run") /\ UNCHANGED <<exec, loop>>
       \/ Crash
    /\ UNCHANGED <<origin, plans, active, front, cancelled, turn, given>>

\* Everything else, an action that has expired or was spent included, is a new
\* request: the user's message is stored and the router chooses a path.
Route ==
    /\ pc = "start"
    /\ ~ Presents("approved") /\ ~ Presents("rejected")
    /\ last' = NoAction
    /\ \/ Goto("draft") \/ Goto("run")
    /\ UNCHANGED <<table, plans, active, front, cancelled, turn, given, exec, loop>>

Adopt(d) == Len(plans) < MaxPlans /\ plans' = Append(plans, d)

\* The planner drafts a plan and the executor takes it up.
Draft ==
    /\ pc = "draft"
    /\ \E d \in Drafts : Adopt(d)
    /\ root' = Len(plans')
    /\ plan' = Len(plans')
    /\ Goto("plan")
    /\ UNCHANGED <<table, active, last, front, cancelled, turn, given, resumed, tried, loop>>

\* Reading the action that is presented or storing the user's message raises, and
\* the slot stays as it is; or the router, the planner, the validator, the memory
\* or the model does; or the tool loop has used up its iterations.
Fail ==
    /\ pc \in {"start", "draft"} \/ (pc = "run" /\ todo = <<>>)
    /\ Crash
    /\ UNCHANGED <<table, plans, active, front, cancelled, turn, given>>

------------------------------------------------------------------------------
(* TaskExecutor.execute, one step of the plan at a time.                   *)

\* The outermost execute() returns to the controller, with the action the plan
\* is suspended for, if any; the reply is stored, or storing it raises.
Conclude(a) ==
    /\ active' = IF a = NoAction THEN IF resumed THEN NoPlan ELSE active
                 ELSE IF resumed THEN active ELSE root
    /\ Reply(a) \/ Crash

Working(kinds) ==
    /\ pc = "plan" /\ Undone(plan) # {}
    /\ Step.do \in kinds

Record(c, a) ==
    /\ Approvals!Request(a)
    /\ a = Cardinality({b \in Actions : status[b] # "absent"}) + 1
    /\ origin' = [origin EXCEPT ![a] =
        [call |-> c, turn |-> turn,
         plans |-> IF pc = "plan" THEN {root, plan} ELSE {}]]

\* A reasoning step, the synthesis, or a tool that needs no confirmation.
StepDone ==
    /\ Working(Plain \cup {Think, Answer}) /\ Step.do \notin tried
    /\ plans' = Marked(plan, "completed")
    /\ UNCHANGED <<table, active, last, front, cancelled, pc, turn, given, exec, loop>>

\* The model fails, or the same call has failed before.
StepRaises ==
    /\ Working(tried \cup {Think, Answer})
    /\ plans' = Broken(plan)
    /\ Conclude(NoAction)
    /\ UNCHANGED <<table, front, cancelled, turn, given>>

\* A call that needs confirmation suspends the plan ...
StepAsks(a) ==
    /\ Working(Gated \ tried) /\ Step.at # "waiting"
    /\ Record(Step.do, a)
    /\ plans' = [Marked(plan, "waiting") EXCEPT ![plan].status = "waiting"]
    /\ Conclude(a)
    /\ UNCHANGED <<front, cancelled, turn, given>>

\* Mutant: the suspended step is taken to be authorised by its resumption.
StepTrusted ==
    /\ Working(Gated \ tried) /\ Step.at = "waiting"
    /\ plans' = Marked(plan, "completed")
    /\ UNCHANGED <<table, active, last, front, cancelled, pc, turn, given, exec, loop>>

\* ... and runs when the plan is resumed, under the approval presented.
StepSpends ==
    /\ Working(Gated \ tried) /\ Step.at = "waiting"
    /\ origin[given].call = Step.do
    /\ Approvals!Execute(given)
    /\ plans' = Marked(plan, "completed")
    /\ UNCHANGED <<origin, active, last, front, cancelled, pc, turn, given, exec, loop>>

\* The tool fails, for a suspended step perhaps after spending the approval: a
\* payload that differs makes it FAILED.  The first failure asks for a revised
\* plan; a failure of the revision is final.
StepFails ==
    /\ Working(Calls \ tried)
    /\ \/ UNCHANGED <<status, runs>>
       \/ /\ Step.at = "waiting"
          /\ IF origin[given].call = Step.do
             THEN Approvals!Execute(given) ELSE Approvals!Refuse(given)
    /\ IF plan = root
       THEN /\ tried' = tried \cup {Step.do}
            /\ plans' = Marked(plan, "running")
            /\ Goto("revise")
            /\ UNCHANGED <<active, last, root, plan, resumed, loop>>
       ELSE /\ plans' = Broken(plan)
            /\ Conclude(NoAction)
    /\ UNCHANGED <<origin, front, cancelled, turn, given>>

Revise ==
    /\ pc = "revise"
    /\ \E d \in Drafts : Adopt(d)
    /\ plan' = Len(plans')
    /\ Goto("plan")
    /\ UNCHANGED <<table, active, last, front, cancelled, turn, given, root, resumed, tried, loop>>

\* No revision, or one that raises: it is invalid or runs out of time.
NoRevision ==
    /\ pc = "revise" \/ (pc = "plan" /\ plan # root)
    /\ plans' = Broken(root)
    /\ Conclude(NoAction)
    /\ UNCHANGED <<table, front, cancelled, turn, given>>

\* The plan itself runs out of time between two steps.
TimeOut ==
    /\ pc = "plan" /\ plan = root /\ Undone(plan) # {}
    /\ Crash
    /\ UNCHANGED <<table, plans, active, front, cancelled, turn, given>>

PlanDone ==
    /\ pc = "plan" /\ Undone(plan) = {}
    /\ plans' = [plans EXCEPT ![plan].status = "completed"]
    /\ Conclude(NoAction)
    /\ UNCHANGED <<table, front, cancelled, turn, given>>

------------------------------------------------------------------------------
(* AgentRunner.run and run_stream.                                         *)

\* Mutant: the loop has no limit.
GenerateForever ==
    /\ pc = "run" /\ todo = <<>>
    /\ \/ Reply(NoAction)
       \/ /\ \E cs \in SeqOf(Calls, 2) : todo' = cs
          /\ UNCHANGED <<round, last, pc, exec>>
    /\ UNCHANGED <<table, plans, active, front, cancelled, turn, given>>

\* Mutant: one iteration too many.
GenerateOnceMore ==
    /\ pc = "run" /\ todo = <<>> /\ round <= MaxRounds
    /\ \/ Reply(NoAction)
       \/ /\ \E cs \in SeqOf(Calls, 2) : todo' = cs
          /\ round' = round + 1
          /\ UNCHANGED <<last, pc, exec>>
    /\ UNCHANGED <<table, plans, active, front, cancelled, turn, given>>

\* The model answers, or asks for tools.  Calls without a name are dropped, and still
\* cost an iteration of run().
Generate ==
    /\ pc = "run" /\ todo = <<>> /\ round < MaxRounds
    /\ \/ Reply(NoAction)
       \/ /\ \E cs \in SeqOf(Calls, 2) : todo' = cs
          /\ round' = round + 1
          /\ UNCHANGED <<last, pc, exec>>
    /\ UNCHANGED <<table, plans, active, front, cancelled, turn, given>>

\* A tool runs or fails, and its result goes back to the model ...
CallTool ==
    /\ pc = "run" /\ todo # <<>>
    /\ todo' = Tail(todo)
    /\ UNCHANGED <<table, plans, active, last, front, cancelled, pc, turn, given, exec, round>>

\* ... or needs confirmation, which ends the turn.
CallAsks(a) ==
    /\ pc = "run" /\ todo # <<>> /\ Head(todo) \in Gated
    /\ Record(Head(todo), a)
    /\ Reply(a) \/ Crash
    /\ UNCHANGED <<plans, active, front, cancelled, turn, given>>

------------------------------------------------------------------------------
Work ==
    \/ Look \/ HearRejection \/ ResumePlan \/ ResumeDirect \/ Route
    \/ Draft \/ Fail
    \/ StepDone \/ StepRaises \/ StepSpends \/ StepFails
    \/ Revise \/ NoRevision \/ TimeOut \/ PlanDone
    \/ Generate \/ CallTool
    \/ \E a \in Actions : StepAsks(a) \/ CallAsks(a)

Next ==
    \/ Begin \/ Decide \/ Work
    \/ \E a \in Actions : Expire(a)

\* The request's thread runs; the user need not type, answer, or answer in time.
Spec == Init /\ [][Next]_vars /\ WF_vars(Work)

------------------------------------------------------------------------------
PlanIds == DOMAIN plans

TypeOK ==
    /\ status \in [Actions -> Statuses]
    /\ \A p \in PlanIds :
        /\ plans[p].status \in {"running", "waiting", "failed", "completed"}
        /\ \A i \in DOMAIN plans[p].steps :
            /\ plans[p].steps[i].do \in Calls \cup {Think, Answer}
            /\ plans[p].steps[i].at \in {"pending", "running", "waiting", "failed", "skipped", "completed"}
    /\ active \in PlanIds \cup {NoPlan}
    /\ last \in Actions \cup {NoAction}
    /\ cancelled \subseteq Actions
    /\ pc \in {"idle", "start", "draft", "plan", "revise", "run", "look", "ask"}
    /\ given \in Actions \cup {NoAction}
    /\ root \in PlanIds \cup {NoPlan} /\ plan \in PlanIds \cup {NoPlan}
    /\ resumed \in BOOLEAN
    /\ tried \in SUBSET Calls
    /\ round \in 0 .. MaxRounds

Rests(a) == \A p \in origin[a].plans : plans'[p].steps = plans[p].steps

\* tests/integration/test_blocking_approval_dialog.py: rejecting an action "cancels
\* execution cleanly".  So a plan, revised or not, takes no further step once the user
\* has rejected an action it was suspended for.  It may: see the run agent_refusal.
RefusalEndsPlan == [][\A a \in Actions : status[a] = "rejected" => Rests(a)]_vars

\* It takes none once the controller has heard of the rejection ("Execution cancelled."):
\* no request, approval, revision or error brings the plan back, whichever plan was in
\* the slot meanwhile.
CancelledForGood == [][\A a \in cancelled : Rests(a)]_vars

CompletedSteps(c) ==
    {s \in PlanIds \X (1 .. MaxSteps + 1) :
        /\ s[2] \in DOMAIN plans[s[1]].steps
        /\ plans[s[1]].steps[s[2]] = [do |-> c, at |-> "completed"]}

\* Across suspensions, revisions and resumptions with whatever id the user's
\* answer carried, the gated steps that were completed are covered by actions
\* spent on the same call: executor.py passes the id to the waiting step alone.
StepsSpendApprovals ==
    \A c \in Gated :
        Cardinality(CompletedSteps(c))
        <= Cardinality({a \in Actions : origin[a].call = c /\ status[a] = "executed"})

\* The confirmation read off the last message belongs to the
\* turn being served and has not been decided before, also after failures.
AsksForOwnAction ==
    pc = "ask" =>
        /\ origin[given].turn = turn
        /\ status[given] \in {"pending", "expired"}

\* Every call of the controller comes back, with a reply, an error or a
\* question for the user: one revision, a bounded tool loop, finite plans.
EveryTurnComesBack == pc # "idle" ~> pc \in {"idle", "ask"}
==============================================================================
