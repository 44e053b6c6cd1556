--------------------------- MODULE ApprovalManager ---------------------------
(***************************************************************************)
(* The action approval runtime: app/approval/manager.py on top of          *)
(* app/approval/repository.py.                                             *)
(*                                                                         *)
(* A tool that needs confirmation leaves a row in pending_actions; a user  *)
(* decision, the clock, the shutdown sequence and the executor that finally*)
(* runs the tool all move that row's status.  The row is the only shared   *)
(* state, and every repository method opens a connection of its own, so    *)
(* one SQL statement is one atomic step and a manager method is several of *)
(* them: approve(), reject() and consume_approved_action() each            *)
(*     expire what is due  ->  read the row  ->  write the row             *)
(* and other threads may act in between.                                   *)
(*                                                                         *)
(* Payloads are abstracted to the one thing the code asks of them: whether *)
(* the call presented for consumption has the tool name and the            *)
(* canonicalized arguments the user approved.                              *)
(***************************************************************************)
EXTENDS Naturals

CONSTANTS
    Actions,          \* the action ids that may be handed out
    AgentThreads,     \* threads that run the agent: they create and consume
    DecisionThreads,  \* threads on which a user's yes or no arrives
    ShutdownThreads,  \* threads that run Application.shutdown
    Expiring,         \* whether the manager was given timeout_seconds
    NoAction          \* the target of a thread that is in no call

ASSUME ApprovalAssumption ==
    /\ Expiring \in BOOLEAN
    /\ NoAction \notin Actions

Threads == AgentThreads \cup DecisionThreads \cup ShutdownThreads

Statuses == {"absent", "pending", "approved", "rejected", "expired",
             "executed", "failed"}

\* Where a thread is inside a manager method: about to read the row for a
\* decision or for a consumption, about to write the decision it has
\* committed itself to, to write FAILED, to consume, or working off the list
\* of cancel_all_pending.
Steps == {"idle", "decide", "approve", "reject", "present", "fail", "take",
          "cancel"}

VARIABLES
    status,     \* pending_actions.status, "absent" where there is no row
    lapsed,     \* the rows whose expires_at has passed
    step,       \* where each thread is
    target,     \* the action of the call each thread is in
    wish,       \* what a decision thread was asked to do
    listed,     \* what cancel_all_pending has still to reject, per thread
    approvals,  \* history: how often APPROVED was written, per action
    runs,       \* history: how often a consumption succeeded, per action
    refused     \* history: the actions some caller was told are rejected

store == <<status, lapsed>>
calls == <<step, target, wish, listed>>
past  == <<approvals, runs, refused>>
vars  == <<store, calls, past>>

------------------------------------------------------------------------------
(* The statements of SQLiteApprovalRepository.                             *)

\* Mutant: the new status is misspelt, which no enumeration member accepts.
AfterExpiryMisspelt ==
    [a \in Actions |->
        IF status[a] = "pending" /\ a \in lapsed THEN "timeout" ELSE status[a]]

\* expire_actions: UPDATE ... WHERE status = 'pending' AND expires_at < now.
AfterExpiry ==
    [a \in Actions |->
        IF status[a] = "pending" /\ a \in lapsed THEN "expired" ELSE status[a]]

\* update_status: UPDATE ... WHERE action_id = ?, whatever the status is.
UpdateStatus(a, s) == status' = [status EXCEPT ![a] = s]

\* add: INSERT under a fresh primary key.
Insert(a) == status[a] = "absent" /\ UpdateStatus(a, "pending")

\* Mutant: the UPDATE of atomic_consume matches the row by its id alone.
ConsumableById(a) == a \in Actions

\* atomic_consume succeeds: its UPDATE matched WHERE status = 'approved'.
Consumable(a) == status[a] = "approved"

\* Mutant: list_pending selects what is not finished instead of what is pending.
Unfinished == {a \in Actions : status[a] \in {"pending", "approved"}}

\* list_pending.
Pending == {a \in Actions : status[a] = "pending"}

------------------------------------------------------------------------------
Init ==
    /\ status    = [a \in Actions |-> "absent"]
    /\ lapsed    = {}
    /\ step      = [t \in Threads |-> "idle"]
    /\ target    = [t \in Threads |-> NoAction]
    /\ wish      = [t \in Threads |-> "approve"]
    /\ listed    = [t \in Threads |-> {}]
    /\ approvals = [a \in Actions |-> 0]
    /\ runs      = [a \in Actions |-> 0]
    /\ refused   = {}

\* Move a thread inside its call, or out of it.
Goto(t, s) == step' = [step EXCEPT ![t] = s]
Leave(t)   == /\ Goto(t, "idle")
              /\ target' = [target EXCEPT ![t] = NoAction]

\* create_pending_action: the agent inserts a row under a fresh id.
Create(t, a) ==
    /\ t \in AgentThreads
    /\ step[t] = "idle"
    /\ Insert(a)
    /\ UNCHANGED <<lapsed, calls, past>>

\* The clock passes the expires_at of a row (never, without a timeout).
Lapse(a) ==
    /\ Expiring
    /\ status[a] # "absent"
    /\ a \notin lapsed
    /\ lapsed' = lapsed \cup {a}
    /\ UNCHANGED <<status, calls, past>>

\* get: expire what is due, then return the row.
Get(t) ==
    /\ step[t] = "idle"
    /\ status' = AfterExpiry
    /\ UNCHANGED <<lapsed, calls, past>>

\* approve and reject begin by expiring what is due.
BeginDecision(t, a, w) ==
    /\ t \in DecisionThreads
    /\ step[t] = "idle"
    /\ status' = AfterExpiry
    /\ Goto(t, "decide")
    /\ target' = [target EXCEPT ![t] = a]
    /\ wish'   = [wish EXCEPT ![t] = w]
    /\ UNCHANGED <<lapsed, listed, past>>

\* Mutant: the status that was read is not looked at.
ReadUnchecked(t) ==
    /\ step[t] = "decide"
    /\ IF status[target[t]] # "absent"
       THEN Goto(t, wish[t]) /\ UNCHANGED target
       ELSE Leave(t)
    /\ UNCHANGED <<store, wish, listed, past>>

\* They read the row and raise unless it is PENDING.
ReadForDecision(t) ==
    /\ step[t] = "decide"
    /\ IF status[target[t]] = "pending"
       THEN Goto(t, wish[t]) /\ UNCHANGED target
       ELSE Leave(t)
    /\ UNCHANGED <<store, wish, listed, past>>

\* They write the decision, whatever became of the row since it was read.
WriteApproved(t) ==
    /\ step[t] = "approve"
    /\ UpdateStatus(target[t], "approved")
    /\ approvals' = [approvals EXCEPT ![target[t]] = @ + 1]
    /\ Leave(t)
    /\ UNCHANGED <<lapsed, wish, listed, runs, refused>>

WriteRejected(t) ==
    /\ step[t] = "reject"
    /\ UpdateStatus(target[t], "rejected")
    /\ refused' = refused \cup {target[t]}
    /\ Leave(t)
    /\ UNCHANGED <<lapsed, wish, listed, approvals, runs>>

\* consume_approved_action begins by expiring what is due.
BeginConsume(t, a) ==
    /\ t \in AgentThreads
    /\ step[t] = "idle"
    /\ status' = AfterExpiry
    /\ Goto(t, "present")
    /\ target' = [target EXCEPT ![t] = a]
    /\ UNCHANGED <<lapsed, wish, listed, past>>

\* It reads the row, raises unless it is APPROVED, and compares payloads.
ReadForConsume(t) ==
    /\ step[t] = "present"
    /\ \/ status[target[t]] # "approved" /\ Leave(t)
       \/ /\ status[target[t]] = "approved"
          /\ \E matches \in BOOLEAN : Goto(t, IF matches THEN "take" ELSE "fail")
          /\ UNCHANGED target
    /\ UNCHANGED <<store, wish, listed, past>>

\* A payload mismatch marks the action FAILED and raises.
WriteFailed(t) ==
    /\ step[t] = "fail"
    /\ UpdateStatus(target[t], "failed")
    /\ Leave(t)
    /\ UNCHANGED <<lapsed, wish, listed, past>>

\* Otherwise the action is consumed if it is still APPROVED; if it is not,
\* the call raises "Replay blocked".
Consume(t) ==
    /\ step[t] = "take"
    /\ IF Consumable(target[t])
       THEN /\ UpdateStatus(target[t], "executed")
            /\ runs' = [runs EXCEPT ![target[t]] = @ + 1]
       ELSE UNCHANGED <<status, runs>>
    /\ Leave(t)
    /\ UNCHANGED <<lapsed, wish, listed, approvals, refused>>

\* cancel_all_pending lists the PENDING rows, without expiring any ...
BeginCancelAll(t) ==
    /\ t \in ShutdownThreads
    /\ step[t] = "idle"
    /\ Pending # {}
    /\ Goto(t, "cancel")
    /\ listed' = [listed EXCEPT ![t] = Pending]
    /\ UNCHANGED <<store, target, wish, past>>

\* Go on to the next row of the list, or return after the last.
Advance(t, a) ==
    /\ listed' = [listed EXCEPT ![t] = @ \ {a}]
    /\ IF listed[t] = {a} THEN Goto(t, "idle") ELSE UNCHANGED step

\* ... and writes REJECTED to each, whatever became of it since.
CancelOne(t, a) ==
    /\ step[t] = "cancel"
    /\ a \in listed[t]
    /\ UpdateStatus(a, "rejected")
    /\ refused' = refused \cup {a}
    /\ Advance(t, a)
    /\ UNCHANGED <<lapsed, target, wish, approvals, runs>>

\* A statement may fail (ApprovalPersistenceError).  cancel_all_pending logs
\* the error and goes on to the next row; every other method raises.
DatabaseError(t) ==
    /\ \/ /\ step[t] = "cancel"
          /\ \E a \in listed[t] : Advance(t, a)
          /\ UNCHANGED target
       \/ /\ step[t] \notin {"idle", "cancel"}
          /\ Leave(t)
          /\ UNCHANGED listed
    /\ UNCHANGED <<store, wish, past>>

\* The process dies and is started again: the calls are gone, the rows stay.
Restart ==
    /\ \E t \in Threads : step[t] # "idle"
    /\ step'   = [t \in Threads |-> "idle"]
    /\ target' = [t \in Threads |-> NoAction]
    /\ listed' = [t \in Threads |-> {}]
    /\ UNCHANGED <<store, wish, past>>

\* What a thread does next once it is inside a call.
Continue(t) ==
    \/ ReadForDecision(t) \/ WriteApproved(t) \/ WriteRejected(t)
    \/ ReadForConsume(t) \/ WriteFailed(t) \/ Consume(t)
    \/ \E a \in Actions : CancelOne(t, a)

Next ==
    \/ \E t \in Threads :
          \/ Get(t)
          \/ BeginCancelAll(t)
          \/ Continue(t)
          \/ DatabaseError(t)
          \/ \E a \in Actions :
                \/ Create(t, a)
                \/ BeginConsume(t, a)
                \/ \E w \in {"approve", "reject"} : BeginDecision(t, a, w)
    \/ \E a \in Actions : Lapse(a)
    \/ Restart

Spec == Init /\ [][Next]_vars

------------------------------------------------------------------------------
\* Every variable has its type, and a thread's step fits its role and target.
TypeOK ==
    /\ status \in [Actions -> Statuses]
    /\ lapsed \subseteq Actions
    /\ step \in [Threads -> Steps]
    /\ target \in [Threads -> Actions \cup {NoAction}]
    /\ wish \in [Threads -> {"approve", "reject"}]
    /\ listed \in [Threads -> SUBSET Actions]
    /\ approvals \in [Actions -> Nat]
    /\ runs \in [Actions -> Nat]
    /\ refused \subseteq Actions
    /\ \A t \in Threads :
          /\ step[t] \in {"decide", "approve", "reject"} => t \in DecisionThreads
          /\ step[t] \in {"present", "fail", "take"} => t \in AgentThreads
          /\ step[t] \notin {"idle", "cancel"} => target[t] \in Actions

\* Executions never outnumber the user's approvals of that very action, and an
\* approval still unspent is counted on top: two consumers that both read
\* APPROVED cannot share one approval (manager.consume_approved_action relies
\* on the WHERE clause of repository.atomic_consume for this).
EveryRunApproved ==
    \A a \in Actions :
        runs[a] + (IF status[a] = "approved" THEN 1 ELSE 0) <= approvals[a]

\* An action authorises at most one execution of its tool: the promise of
\* consume_approved_action ("atomically consumes it once", "Replay blocked").
ConsumedOnce == \A a \in Actions : runs[a] <= 1

\* Once reject() or cancel_all_pending() has told its caller that an action is
\* rejected, no later step consumes it.
RejectionIsFinal ==
    [][\A a \in refused : runs'[a] = runs[a]]_vars

\* Every status change and every execution is one the contract allows
\* (docs/ARCHITECTURE.md section 7: "atomic status transitions"): to the letter
\* where one thread makes every call, else with a decision that may overtake
\* the row's expiry and a mismatch that may overtake its execution.
Overtaking == \E s, t \in Threads : s # t
Contract == INSTANCE ApprovalContract
KeepsContract == Contract!Spec
==============================================================================
