---------------------------- MODULE PriorityService ----------------------------
(***************************************************************************)
(* What the inference scheduler promises its clients: one request is served*)
(* at a time, always from the most urgent class that has one waiting, and  *)
(* in order of arrival within the class.  After closing nothing is         *)
(* accepted, and what was accepted is still served.                        *)
(***************************************************************************)
EXTENDS Naturals, Sequences

CONSTANTS Clients, Priorities, Nobody
VARIABLES
    open,     \* whether requests are accepted
    lane,     \* the clients waiting in each class, in order of arrival
    serving,  \* the client being served
    answer    \* what each client got: none, pending, result or error

vars == <<open, lane, serving, answer>>

Init ==
    /\ open = FALSE
    /\ lane = [p \in Priorities |-> <<>>]
    /\ serving = Nobody
    /\ answer = [c \in Clients |-> "none"]

Open  == ~open /\ open' = TRUE /\ UNCHANGED <<lane, serving, answer>>
Close == open /\ open' = FALSE /\ UNCHANGED <<lane, serving, answer>>

Request(c, p) ==
    /\ open
    /\ answer[c] = "none"
    /\ answer' = [answer EXCEPT ![c] = "pending"]
    /\ lane' = [lane EXCEPT ![p] = Append(@, c)]
    /\ UNCHANGED <<open, serving>>

Serve(p) ==
    /\ serving = Nobody
    /\ lane[p] # <<>>
    /\ \A q \in Priorities : q < p => lane[q] = <<>>
    /\ serving' = Head(lane[p])
    /\ lane' = [lane EXCEPT ![p] = Tail(@)]
    /\ UNCHANGED <<open, answer>>

Answer ==
    /\ serving # Nobody
    /\ \E r \in {"result", "error"} : answer' = [answer EXCEPT ![serving] = r]
    /\ serving' = Nobody
    /\ UNCHANGED <<open, lane>>

Collect(c) ==
    /\ answer[c] \in {"result", "error"}
    /\ answer' = [answer EXCEPT ![c] = "none"]
    /\ UNCHANGED <<open, lane, serving>>

Next ==
    \/ Open \/ Close \/ Answer
    \/ \E p \in Priorities : Serve(p)
    \/ \E c \in Clients : Collect(c) \/ \E p \in Priorities : Request(c, p)

Spec == Init /\ [][Next]_vars
==============================================================================
