---------------------------- MODULE ApprovalCenter ----------------------------
(***************************************************************************)
(* The native approval center: app/gui/approval/worker.py and              *)
(* controller.py on top of the approval runtime.                           *)
(*                                                                         *)
(* A click on Approve or Reject starts an ApprovalWorker thread, one at a  *)
(* time.  It first asks the ApprovalManager; when that raises, or finds no *)
(* row, it writes the decision to the table itself; and when the decision  *)
(* is to approve, it creates the directory of a directory tool itself.     *)
(* The agent that asked for the action is resumed elsewhere and consumes   *)
(* the same row, so both modules act on one table.                         *)
(***************************************************************************)
EXTENDS ApprovalManager

CONSTANT Worker     \* the thread of the ApprovalWorker, one of DecisionThreads

VARIABLES
    phase,    \* what the worker does next: "none" when none is running
    subject,  \* the action the worker was started for
    decision, \* the decision it was started with
    made      \* history: the actions whose directory the worker has created

center     == <<phase, subject, decision, made>>
centerVars == <<vars, center>>

CenterInit ==
    /\ Init
    /\ phase    = "none"
    /\ subject  = NoAction
    /\ decision = "approve"
    /\ made     = {}

\* resolve_action, for an action on the screen, waits for a running worker and
\* starts one, which calls the manager.
Resolve(a, w) ==
    /\ phase = "none"
    /\ status[a] # "absent"
    /\ BeginDecision(Worker, a, w)
    /\ phase' = "manager" /\ subject' = a /\ decision' = w
    /\ UNCHANGED made

\* The manager's call goes on; an exception is logged and dropped.
InManager ==
    /\ phase = "manager"
    /\ \/ /\ ReadForDecision(Worker)
          /\ phase' = IF step'[Worker] = "idle" THEN "fallback" ELSE "manager"
       \/ /\ WriteApproved(Worker) \/ WriteRejected(Worker)
          /\ phase' = "reread"
       \/ DatabaseError(Worker) /\ phase' = "fallback"
    /\ UNCHANGED <<subject, decision, made>>

\* manager.get after a decision that was accepted; it may fail too.
Reread ==
    /\ phase = "reread"
    /\ \/ Get(Worker) /\ phase' = "act"
       \/ UNCHANGED vars /\ phase' = "fallback"
    /\ UNCHANGED <<subject, decision, made>>

\* repo.update_status with the decision, without a look at the row's status.
Fallback ==
    /\ phase = "fallback"
    /\ phase' = "act"
    /\ \/ UNCHANGED vars
       \/ /\ decision = "approve"
          /\ UpdateStatus(subject, "approved")
          /\ approvals' = [approvals EXCEPT ![subject] = @ + 1]
          /\ UNCHANGED <<lapsed, calls, runs, refused>>
       \/ /\ decision = "reject"
          /\ UpdateStatus(subject, "rejected")
          /\ refused' = refused \cup {subject}
          /\ UNCHANGED <<lapsed, calls, runs, approvals>>
    /\ UNCHANGED <<subject, decision, made>>

\* The worker creates the directory itself when the decision is to approve,
\* whatever came of the decision; then it reports and ends.
Act ==
    /\ phase = "act"
    /\ phase' = "none"
    /\ made' = IF decision = "approve" THEN made \cup {subject} ELSE made
    /\ UNCHANGED <<vars, subject, decision>>

\* The agent, and the shutdown sequence of the main thread.
Elsewhere ==
    /\ \E t \in AgentThreads \cup ShutdownThreads :
          \/ BeginCancelAll(t) \/ DatabaseError(t) \/ Continue(t)
          \/ \E a \in Actions : Create(t, a) \/ BeginConsume(t, a)
    /\ UNCHANGED center

CenterNext ==
    \/ \E a \in Actions, w \in {"approve", "reject"} : Resolve(a, w)
    \/ InManager \/ Reread \/ Fallback \/ Act
    \/ \E a \in Actions : Lapse(a) /\ UNCHANGED center
    \/ Elsewhere

CenterSpec == CenterInit /\ [][CenterNext]_centerVars
==============================================================================
