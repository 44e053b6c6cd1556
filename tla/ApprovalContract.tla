--------------------------- MODULE ApprovalContract ---------------------------
(***************************************************************************)
(* What the approval runtime promises about one action, as                 *)
(* docs/ARCHITECTURE.md section 7 and the checks of ApprovalManager state  *)
(* it: a row is created PENDING, leaves PENDING once, by a decision or by  *)
(* its timeout, and an APPROVED row is spent once, by the execution it     *)
(* authorises or by a mismatching one.  Nothing leaves a final status.     *)
(*                                                                         *)
(* Where calls of several threads overtake one another the promise is      *)
(* weaker in two places, and in no other: a decision taken on a PENDING    *)
(* row may be written after the row expired, and a mismatch found on an    *)
(* APPROVED row after the row was executed.                                *)
(***************************************************************************)
EXTENDS Naturals

CONSTANTS
    Actions,
    Overtaking   \* whether calls of several threads may overtake one another

VARIABLES status, runs

vars == <<status, runs>>

Init ==
    /\ status = [a \in Actions |-> "absent"]
    /\ runs   = [a \in Actions |-> 0]

\* From where a decision, and from where a mismatch, may move a row.
Decidable == {"pending"} \cup (IF Overtaking THEN {"expired"} ELSE {})
Refusable == {"approved"} \cup (IF Overtaking THEN {"executed"} ELSE {})

Move(a, from, to) ==
    /\ status[a] \in from
    /\ status' = [status EXCEPT ![a] = to]

Request(a) == Move(a, {"absent"}, "pending") /\ UNCHANGED runs
Decide(a)  == /\ \E s \in {"approved", "rejected"} : Move(a, Decidable, s)
              /\ UNCHANGED runs
Execute(a) == /\ Move(a, {"approved"}, "executed")
              /\ runs' = [runs EXCEPT ![a] = @ + 1]
Refuse(a)  == Move(a, Refusable, "failed") /\ UNCHANGED runs

\* One statement expires every row that is due.
Expire(S) ==
    /\ S # {}
    /\ \A a \in S : status[a] = "pending"
    /\ status' = [a \in Actions |-> IF a \in S THEN "expired" ELSE status[a]]
    /\ UNCHANGED runs

Next ==
    \/ \E a \in Actions : Request(a) \/ Decide(a) \/ Execute(a) \/ Refuse(a)
    \/ \E S \in SUBSET Actions : Expire(S)

Spec == Init /\ [][Next]_vars
==============================================================================
