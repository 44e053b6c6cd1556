----------------------------- MODULE ToolExecutor -----------------------------
(***************************************************************************)
(* The tool executor: app/tools/executor.py, with the approval table it    *)
(* consumes from (as ApprovalContract promises it) and the window guard of *)
(* the desktop tools (app/tools/builtin/desktop.py and                     *)
(* app/services/desktop/service.py).                                       *)
(*                                                                         *)
(* execute() runs on its caller's thread, hands the tool to a small thread *)
(* pool and waits for it with a timeout.  A call that timed out returns,   *)
(* but its task stays queued or running.  The id of the approval under     *)
(* which a desktop tool runs is handed over in an attribute of the tool    *)
(* instance, which all calls share.                                        *)
(*                                                                         *)
(* One confirmation tool stands for all of them; a call is identified, its *)
(* arguments are not modelled.                                             *)
(***************************************************************************)
EXTENDS Naturals, FiniteSets, Sequences

CONSTANTS
    Calls,       \* the calls of execute(), each made once
    Actions,     \* the ids of pending actions
    NoAction,    \* no approval id
    Windows,     \* the windows that may be in the foreground
    NoWindow,    \* what is recorded when the window cannot be determined
    PoolSize,    \* max_workers of the pool
    MaxCallers   \* how many threads call execute() at a time

ASSUME ExecutorAssumption ==
    /\ IsFiniteSet(Calls)
    /\ NoAction \notin Actions
    /\ PoolSize \in Nat \ {0}
    /\ MaxCallers \in Nat \ {0}
    /\ Windows # {} /\ NoWindow \notin Windows

VARIABLES
    status, runs,  \* the approval table and its consumptions (ApprovalContract)
    expected,      \* the foreground window in each action's metadata
    call,          \* where each call is in execute()
    level,         \* the permission level of the tool of each call
    approval,      \* the approval id each call was given
    task,          \* what became of the task of each call in the pool
    lane,          \* the pool's queue
    open,          \* whether the pool accepts and starts tasks
    slot,          \* the tool's attribute current_approval_action_id
    seen,          \* the approval id each task has read from it
    cancel,        \* _cancel_requested
    window,        \* the window in the foreground
    typed          \* history: the confirmed actions that were carried out, and on
                   \* which window

\* The calls of several threads consume from one table.
Approvals == INSTANCE ApprovalContract WITH Overtaking <- TRUE

table == <<status, runs, expected>>
pool  == <<task, lane, open>>
tool  == <<slot, seen>>
vars  == <<table, call, level, approval, pool, tool, cancel, window, typed>>

Statuses  == {"absent", "pending", "approved", "rejected", "expired", "executed", "failed"}
CallSteps == {"none", "cancelled", "check", "launch", "submit", "wait", "returned"}
TaskSteps == {"none", "queued", "running", "guarding", "done", "dropped"}

Inside(c) == call[c] \notin {"none", "returned"}
Busy      == {c \in Calls : task[c] \in {"running", "guarding"}}

Init ==
    /\ Approvals!Init
    /\ expected = [a \in Actions |-> NoWindow]
    /\ call     = [c \in Calls |-> "none"]
    /\ level    = [c \in Calls |-> "safe"]
    /\ approval = [c \in Calls |-> NoAction]
    /\ task     = [c \in Calls |-> "none"]
    /\ lane     = <<>>
    /\ open     = TRUE
    /\ slot     = NoAction
    /\ seen     = [c \in Calls |-> NoAction]
    /\ cancel   = FALSE
    /\ window \in Windows
    /\ typed    = {}

Goto(c, s) == call' = [call EXCEPT ![c] = s]

------------------------------------------------------------------------------
(* execute(), on the thread of its caller.                                 *)

\* The call arrives and finds the cancellation flag up or down.
Begin(c, l, a) ==
    /\ call[c] = "none"
    /\ Cardinality({d \in Calls : Inside(d)}) < MaxCallers
    /\ a # NoAction => l = "confirmation" /\ status[a] # "absent"
    /\ Goto(c, IF cancel THEN "cancelled" ELSE "check")
    /\ level'    = [level EXCEPT ![c] = l]
    /\ approval' = [approval EXCEPT ![c] = a]
    /\ UNCHANGED <<table, pool, tool, cancel, window, typed>>

\* A cancelled call lowers the flag and returns.
ReturnCancelled(c) ==
    /\ call[c] = "cancelled"
    /\ cancel' = FALSE
    /\ Goto(c, "returned")
    /\ UNCHANGED <<table, level, approval, pool, tool, window, typed>>

\* Mutant: a refused consumption is logged and the call goes on.
AuthorizeLeniently(c) ==
    /\ call[c] = "check"
    /\ level[c] = "confirmation" /\ approval[c] # NoAction
    /\ \/ Approvals!Execute(approval[c])
       \/ status[approval[c]] # "approved" /\ UNCHANGED <<status, runs>>
    /\ Goto(c, "launch")
    /\ UNCHANGED <<expected, level, approval, pool, tool, cancel, window, typed>>

\* A confirmation tool with an approval id runs if consume_approved_action
\* accepts it.  A payload that differs spends the action without running
\* anything; another status, or an error of the database, leaves the row alone.
Authorize(c) ==
    /\ call[c] = "check"
    /\ level[c] = "confirmation" /\ approval[c] # NoAction
    /\ \/ Approvals!Execute(approval[c]) /\ Goto(c, "launch")
       \/ Approvals!Refuse(approval[c]) /\ Goto(c, "returned")
       \/ Goto(c, "returned") /\ UNCHANGED <<status, runs>>
    /\ UNCHANGED <<expected, level, approval, pool, tool, cancel, window, typed>>

\* Without one it is suspended: a pending action is created, with the window
\* in the foreground in its metadata, if that could be determined.
Suspend(c, a) ==
    /\ call[c] = "check"
    /\ level[c] = "confirmation" /\ approval[c] = NoAction
    /\ Approvals!Request(a)
    /\ \E w \in {window, NoWindow} : expected' = [expected EXCEPT ![a] = w]
    /\ Goto(c, "returned")
    /\ UNCHANGED <<level, approval, pool, tool, cancel, window, typed>>

\* An unknown tool, invalid arguments, a missing approval manager, an action
\* that cannot be stored, or a restricted tool end the call.
Refuse(c) ==
    /\ call[c] = "check"
    /\ Goto(c, "returned")
    /\ UNCHANGED <<table, level, approval, pool, tool, cancel, window, typed>>

\* A safe tool needs no approval.
Admit(c) ==
    /\ call[c] = "check"
    /\ level[c] = "safe"
    /\ Goto(c, "launch")
    /\ UNCHANGED <<table, level, approval, pool, tool, cancel, window, typed>>

\* The approval id is stored in the tool (a confirmation tool has the slot).
Launch(c) ==
    /\ call[c] = "launch"
    /\ slot' = IF level[c] = "confirmation" THEN approval[c] ELSE slot
    /\ Goto(c, "submit")
    /\ UNCHANGED <<table, level, approval, pool, seen, cancel, window, typed>>

\* What the finally clause does to the slot.
Cleared(c) == IF level[c] = "confirmation" THEN NoAction ELSE slot

\* pool.submit, or the RuntimeError of a pool that was shut down.
Submit(c) ==
    /\ call[c] = "submit"
    /\ IF open
       THEN /\ task' = [task EXCEPT ![c] = "queued"]
            /\ lane' = Append(lane, c)
            /\ Goto(c, "wait")
            /\ UNCHANGED slot
       ELSE /\ slot' = Cleared(c)
            /\ Goto(c, "returned")
            /\ UNCHANGED <<task, lane>>
    /\ UNCHANGED <<table, level, approval, open, seen, cancel, window, typed>>

\* future.result() returns or raises what the task did.
Collect(c) ==
    /\ call[c] = "wait"
    /\ task[c] \in {"done", "dropped"}
    /\ slot' = Cleared(c)
    /\ Goto(c, "returned")
    /\ UNCHANGED <<table, level, approval, pool, seen, cancel, window, typed>>

\* Mutant: the slot is cleared after a result but not after a timeout.
TimeoutLeavingSlot(c) ==
    /\ call[c] = "wait"
    /\ task[c] \notin {"done", "dropped"}
    /\ Goto(c, "returned")
    /\ UNCHANGED <<table, level, approval, pool, tool, cancel, window, typed>>

\* Mutant: the timeout is only noticed once the task is running.
TimeoutOfRunning(c) ==
    /\ call[c] = "wait"
    /\ task[c] \in {"running", "guarding"}
    /\ slot' = Cleared(c)
    /\ Goto(c, "returned")
    /\ UNCHANGED <<table, level, approval, pool, seen, cancel, window, typed>>

\* future.result() times out; the task is left to itself.
Timeout(c) ==
    /\ call[c] = "wait"
    /\ task[c] \notin {"done", "dropped"}
    /\ slot' = Cleared(c)
    /\ Goto(c, "returned")
    /\ UNCHANGED <<table, level, approval, pool, seen, cancel, window, typed>>

------------------------------------------------------------------------------
(* The pool's workers.                                                     *)

\* A free worker starts the task at the head of the queue.
Start ==
    /\ lane # <<>>
    /\ Cardinality(Busy) < PoolSize
    /\ task' = [task EXCEPT ![Head(lane)] = "running"]
    /\ lane' = Tail(lane)
    /\ UNCHANGED <<table, call, level, approval, open, tool, cancel, window, typed>>

\* A desktop tool reads the slot to find the window it may act on.
ReadSlot(c) ==
    /\ task[c] = "running"
    /\ level[c] = "confirmation"
    /\ seen' = [seen EXCEPT ![c] = slot]
    /\ task' = [task EXCEPT ![c] = "guarding"]
    /\ UNCHANGED <<table, call, level, approval, lane, open, slot, cancel, window, typed>>

\* _verify_foreground_guard: without an expected window everything passes.
GuardPasses(c) == seen[c] # NoAction => expected[seen[c]] \in {window, NoWindow}

\* The tool acts if the guard lets it, or raises without acting.
Act(c) ==
    /\ \/ task[c] = "running" /\ level[c] = "safe"
       \/ task[c] = "guarding" /\ GuardPasses(c)
    /\ task'  = [task EXCEPT ![c] = "done"]
    /\ typed' = IF level[c] = "confirmation"
                THEN typed \cup {[action |-> approval[c], window |-> window]}
                ELSE typed
    /\ UNCHANGED <<table, call, level, approval, lane, open, tool, cancel, window>>

Raise(c) ==
    /\ task[c] \in {"running", "guarding"}
    /\ task' = [task EXCEPT ![c] = "done"]
    /\ UNCHANGED <<table, call, level, approval, lane, open, tool, cancel, window, typed>>

------------------------------------------------------------------------------
(* Everyone else.                                                          *)

\* The user decides, or the action's time is up.
Decision ==
    /\ \E a \in Actions : Approvals!Decide(a) \/ Approvals!Expire({a})
    /\ UNCHANGED <<expected, call, level, approval, pool, tool, cancel, window, typed>>

\* cancel_execution
RequestCancel ==
    /\ ~cancel
    /\ cancel' = TRUE
    /\ UNCHANGED <<table, call, level, approval, pool, tool, window, typed>>

\* Mutant: the pool is shut down but its queue is kept.
ShutdownKeepingQueue ==
    /\ open
    /\ open' = FALSE
    /\ UNCHANGED <<table, call, level, approval, task, lane, tool, cancel, window, typed>>

\* Mutant: the queue is thrown away without resolving its futures.
ShutdownForgettingQueue ==
    /\ open
    /\ open' = FALSE
    /\ lane' = <<>>
    /\ UNCHANGED <<table, call, level, approval, task, tool, cancel, window, typed>>

\* shutdown: wait=False, cancel_futures=True.  What is running runs on.
Shutdown ==
    /\ open
    /\ open' = FALSE
    /\ lane' = <<>>
    /\ task' = [c \in Calls |-> IF task[c] = "queued" THEN "dropped" ELSE task[c]]
    /\ UNCHANGED <<table, call, level, approval, tool, cancel, window, typed>>

\* The user brings another window to the foreground.
Switch(w) ==
    /\ w # window
    /\ window' = w
    /\ UNCHANGED <<table, call, level, approval, pool, tool, cancel, typed>>

Continue(c) ==
    \/ ReturnCancelled(c) \/ Authorize(c) \/ (\E a \in Actions : Suspend(c, a))
    \/ Refuse(c) \/ Admit(c) \/ Launch(c) \/ Submit(c) \/ Collect(c) \/ Timeout(c)

Next ==
    \/ \E c \in Calls :
          \/ \E l \in {"safe", "confirmation", "restricted"}, a \in Actions \cup {NoAction} :
                Begin(c, l, a)
          \/ Continue(c)
          \/ ReadSlot(c) \/ Act(c) \/ Raise(c)
    \/ Start \/ Decision \/ RequestCancel \/ Shutdown
    \/ \E w \in Windows : Switch(w)

\* A caller's thread runs on and its wait times out.  Nothing is assumed of a
\* tool: it may hang its worker for ever.
Spec == Init /\ [][Next]_vars /\ \A c \in Calls : WF_vars(Continue(c))

------------------------------------------------------------------------------
\* Every variable has its type, and the queue holds exactly the queued tasks.
TypeOK ==
    /\ status \in [Actions -> Statuses]
    /\ runs \in [Actions -> Nat]
    /\ expected \in [Actions -> Windows \cup {NoWindow}]
    /\ call \in [Calls -> CallSteps]
    /\ level \in [Calls -> {"safe", "confirmation", "restricted"}]
    /\ approval \in [Calls -> Actions \cup {NoAction}]
    /\ task \in [Calls -> TaskSteps]
    /\ lane \in Seq(Calls)
    /\ \A c \in Calls : task[c] = "queued" <=> \E i \in DOMAIN lane : lane[i] = c
    /\ open \in BOOLEAN
    /\ slot \in Actions \cup {NoAction}
    /\ seen \in [Calls -> Actions \cup {NoAction}]
    /\ cancel \in BOOLEAN
    /\ window \in Windows
    /\ typed \subseteq [action : Actions \cup {NoAction}, window : Windows]
    /\ Cardinality(Busy) <= PoolSize

\* The calls that are past the permission check.
Admitted(c) == call[c] \in {"launch", "submit"} \/ task[c] # "none"

\* A tool that needs confirmation is launched only under an action that this
\* very call consumed: no second call, timeout, retry or cancellation makes two
\* launches of one approval, and a restricted tool is never launched.
LaunchedUnderApproval ==
    /\ \A c \in Calls : Admitted(c) => \/ level[c] = "safe"
                                       \/ level[c] = "confirmation" /\ approval[c] # NoAction
    /\ \A a \in Actions :
          Cardinality({c \in Calls : Admitted(c) /\ approval[c] = a}) <= runs[a]
    /\ \A a \in Actions : runs[a] <= 1

\* When no call of execute() is under way the tool holds no approval id: a
\* timeout, an error or a refused submission leaves none behind for the next.
SlotIsClean == (\A c \in Calls : ~Inside(c)) => slot = NoAction

\* Once the pool is shut down no task is started, also none that was queued.
NothingStartsAfterShutdown ==
    [][\A c \in Calls : ~open /\ task[c] = "queued" => task'[c] # "running"]_vars

\* execute() returns, even when every worker of the pool hangs for ever.
EveryCallReturns == \A c \in Calls : Inside(c) ~> call[c] = "returned"

\* A confirmed tool acts on the window that was recorded when its approval was
\* requested ("Guards against active window changes between approval and
\* execution", app/services/desktop/service.py:256).
GuardedEffect == \A e \in typed : expected[e.action] \in {e.window, NoWindow}
==============================================================================
