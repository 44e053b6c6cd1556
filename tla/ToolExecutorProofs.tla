-------------------------- MODULE ToolExecutorProofs --------------------------
(***************************************************************************)
(* Theorems about ToolExecutor, for every number of calls, callers,        *)
(* actions, windows and workers; and, at the end, about the file tools.    *)
(***************************************************************************)
EXTENDS ToolExecutor, FileTools, FiniteSetTheorems, SequenceTheorems, WellFoundedInduction, TLAPS

\* A task is queued at most once, and exists only once its call has made it.
LaneInv ==
    /\ \A i, j \in DOMAIN lane : lane[i] = lane[j] => i = j
    /\ \A c \in Calls : task[c] # "none" => call[c] \in {"wait", "returned"}

\* An approval id in the slot belongs to a call that will clear it.
SlotInv ==
    slot # NoAction =>
        \E c \in Calls : call[c] \in {"submit", "wait"} /\ level[c] = "confirmation"

\* Where a consumed row may be: a mismatching call may still mark it failed.
Spent == {"executed", "failed"}

\* A consumed action has one call past the permission check, which is not
\* let through a second time; an action is consumed once.
LaunchInv ==
    /\ \A c \in Calls : approval[c] # NoAction => level[c] = "confirmation"
    /\ \A c \in Calls : Admitted(c) => \/ level[c] = "safe"
                                       \/ level[c] = "confirmation" /\ approval[c] # NoAction
    /\ \A c, d \in Calls :
          Admitted(c) /\ Admitted(d) /\ approval[c] = approval[d] /\ approval[c] # NoAction
             => c = d
    /\ \A c \in Calls : Admitted(c) /\ approval[c] # NoAction => runs[approval[c]] = 1
    /\ \A a \in Actions : runs[a] = 0 \/ (runs[a] = 1 /\ status[a] \in Spent)

\* Nothing waits in the queue of a pool that was shut down.
ClosedInv == open \/ lane = <<>>

\* The two halves of TypeOK: the pool, and everything else.
PoolOK ==
    /\ task \in [Calls -> TaskSteps]
    /\ lane \in Seq(Calls)
    /\ \A c \in Calls : task[c] = "queued" <=> \E i \in DOMAIN lane : lane[i] = c
    /\ Cardinality(Busy) <= PoolSize

DataOK ==
    /\ status \in [Actions -> Statuses]
    /\ runs \in [Actions -> Nat]
    /\ expected \in [Actions -> Windows \cup {NoWindow}]
    /\ call \in [Calls -> CallSteps]
    /\ level \in [Calls -> {"safe", "confirmation", "restricted"}]
    /\ approval \in [Calls -> Actions \cup {NoAction}]
    /\ open \in BOOLEAN
    /\ slot \in Actions \cup {NoAction}
    /\ seen \in [Calls -> Actions \cup {NoAction}]
    /\ cancel \in BOOLEAN
    /\ window \in Windows
    /\ typed \subseteq [action : Actions \cup {NoAction}, window : Windows]

ExecutorInv == TypeOK /\ LaneInv /\ SlotInv /\ LaunchInv /\ ClosedInv

------------------------------------------------------------------------------
USE ExecutorAssumption

\* TypeOK is its two halves.
LEMMA Halves == TypeOK <=> DataOK /\ PoolOK
  BY Zenon DEF TypeOK, DataOK, PoolOK

\* What the contract lets happen to the approval table keeps its types.
LEMMA ContractTypes ==
  ASSUME DataOK, NEW a \in Actions,
         \/ Approvals!Execute(a) \/ Approvals!Refuse(a) \/ Approvals!Request(a)
         \/ Approvals!Decide(a) \/ Approvals!Expire({a})
  PROVE  status' \in [Actions -> Statuses] /\ runs' \in [Actions -> Nat]
<1> USE DEF DataOK, Statuses, Approvals!Move
<1>1. CASE Approvals!Execute(a)
  BY <1>1 DEF Approvals!Execute
<1>2. CASE Approvals!Refuse(a) \/ Approvals!Request(a)
  BY <1>2 DEF Approvals!Refuse, Approvals!Request
<1>3. CASE Approvals!Decide(a)
  BY <1>3 DEF Approvals!Decide
<1>4. CASE Approvals!Expire({a})
  BY <1>4 DEF Approvals!Expire
<1> QED
  BY <1>1, <1>2, <1>3, <1>4

\* Every step keeps the types of everything but the pool.
LEMMA DataStep == ASSUME DataOK, [Next]_vars PROVE DataOK'
<1> USE DEF Goto, table, pool, tool, CallSteps
<1>1. ASSUME NEW c \in Calls, NEW l \in {"safe", "confirmation", "restricted"},
             NEW a \in Actions \cup {NoAction}, Begin(c, l, a)
      PROVE  DataOK'
  BY <1>1 DEF Begin, DataOK
<1>2. ASSUME NEW c \in Calls, ReturnCancelled(c) \/ Refuse(c) \/ Admit(c) PROVE DataOK'
  BY <1>2 DEF ReturnCancelled, Refuse, Admit, DataOK
<1>3. ASSUME NEW c \in Calls, Authorize(c) PROVE DataOK'
  <2>1. approval[c] \in Actions
    BY <1>3 DEF Authorize, DataOK
  <2>2. status' \in [Actions -> Statuses] /\ runs' \in [Actions -> Nat]
    BY <1>3, <2>1, ContractTypes DEF Authorize, DataOK
  <2>3. call' \in [Calls -> CallSteps]
    BY <1>3 DEF Authorize, DataOK
  <2>4. UNCHANGED <<expected, level, approval, open, slot, seen, cancel, window, typed>>
    BY <1>3 DEF Authorize
  <2> QED
    BY <2>2, <2>3, <2>4 DEF DataOK
<1>4. ASSUME NEW c \in Calls, NEW a \in Actions, Suspend(c, a) PROVE DataOK'
  <2>1. status' \in [Actions -> Statuses] /\ runs' \in [Actions -> Nat]
    BY <1>4, ContractTypes DEF Suspend
  <2>2. expected' \in [Actions -> Windows \cup {NoWindow}] /\ call' \in [Calls -> CallSteps]
    BY <1>4 DEF Suspend, DataOK
  <2>3. UNCHANGED <<level, approval, open, slot, seen, cancel, window, typed>>
    BY <1>4 DEF Suspend
  <2> QED
    BY <2>1, <2>2, <2>3 DEF DataOK
<1>5. ASSUME NEW c \in Calls, Launch(c) PROVE DataOK'
  BY <1>5 DEF Launch, DataOK
<1>6. ASSUME NEW c \in Calls, Submit(c) PROVE DataOK'
  BY <1>6 DEF Submit, Cleared, DataOK
<1>7. ASSUME NEW c \in Calls, Collect(c) \/ Timeout(c) PROVE DataOK'
  BY <1>7 DEF Collect, Timeout, Cleared, DataOK
<1>8. CASE Start \/ RequestCancel \/ Shutdown
  BY <1>8 DEF Start, RequestCancel, Shutdown, DataOK
<1>9. ASSUME NEW c \in Calls, ReadSlot(c) \/ Act(c) \/ Raise(c) PROVE DataOK'
  BY <1>9 DEF ReadSlot, Act, Raise, DataOK
<1>10. CASE Decision
  <2>1. status' \in [Actions -> Statuses] /\ runs' \in [Actions -> Nat]
    BY <1>10, ContractTypes DEF Decision
  <2> QED
    BY <1>10, <2>1 DEF Decision, DataOK
<1>11. ASSUME NEW w \in Windows, Switch(w) PROVE DataOK'
  BY <1>11 DEF Switch, DataOK
<1>12. CASE UNCHANGED vars
  BY <1>12 DEF vars, DataOK
<1> QED
  BY <1>1, <1>2, <1>3, <1>4, <1>5, <1>6, <1>7, <1>8, <1>9, <1>10, <1>11, <1>12
     DEF Next, Continue

------------------------------------------------------------------------------
\* The tasks on the pool's workers are finitely many.
LEMMA BusyFinite == IsFiniteSet(Busy) /\ IsFiniteSet(Busy')
<1>1. Busy \in SUBSET Calls /\ Busy' \in SUBSET Calls
  BY DEF Busy
<1> QED
  BY <1>1, FS_Subset

\* A step that starts no task leaves the pool's workers within their number.
LEMMA NoNewWork ==
  ASSUME PoolOK, Busy' \subseteq Busy
  PROVE  Cardinality(Busy') <= PoolSize
<1>1. Cardinality(Busy') <= Cardinality(Busy)
  BY BusyFinite, FS_Subset
<1> QED
  BY <1>1, BusyFinite, FS_CardinalityType DEF PoolOK

\* Starting the task at the head of the queue takes one free worker.
LEMMA OneMoreWork == ASSUME PoolOK, Start PROVE Cardinality(Busy') <= PoolSize
<1>1. lane # <<>> /\ Head(lane) \in Calls /\ task[Head(lane)] = "queued"
  BY DEF Start, PoolOK
<1>2. Busy' = Busy \cup {Head(lane)} /\ Head(lane) \notin Busy
  BY <1>1 DEF Start, Busy, PoolOK
<1>3. Cardinality(Busy') = Cardinality(Busy) + 1
  BY <1>2, BusyFinite, FS_AddElement
<1> QED
  BY <1>3, BusyFinite, FS_CardinalityType DEF Start

\* Every step keeps the types of the pool, and its size.
LEMMA PoolStep == ASSUME PoolOK, LaneInv, [Next]_vars PROVE PoolOK'
<1> USE DEF Goto, table, pool, tool
<1>1. ASSUME NEW c \in Calls, open, Submit(c) PROVE PoolOK'
  <2>1. lane' = Append(lane, c) /\ task' = [task EXCEPT ![c] = "queued"]
    BY <1>1 DEF Submit
  <2>2. \A d \in Calls : (\E i \in DOMAIN lane' : lane'[i] = d)
                            <=> d = c \/ \E i \in DOMAIN lane : lane[i] = d
    BY <2>1 DEF PoolOK
  <2>3. \A d \in Calls : task'[d] = "queued" <=> d = c \/ task[d] = "queued"
    BY <2>1 DEF PoolOK
  <2>4. Busy' \subseteq Busy
    BY <2>1 DEF Busy, PoolOK
  <2>5. Cardinality(Busy') <= PoolSize
    BY <2>4, NoNewWork
  <2> QED
    BY <2>1, <2>2, <2>3, <2>5 DEF PoolOK, TaskSteps
<1>2. CASE Start
  <2> DEFINE h == Head(lane)
  <2>1. lane \in Seq(Calls) /\ lane # <<>> /\ h \in Calls /\ h = lane[1]
    BY <1>2 DEF Start, PoolOK
  <2>2. \A d \in Calls : (\E i \in DOMAIN lane : lane[i] = d)
                            <=> d = h \/ \E i \in DOMAIN Tail(lane) : Tail(lane)[i] = d
    <3>1. \A i \in DOMAIN Tail(lane) : i + 1 \in DOMAIN lane /\ Tail(lane)[i] = lane[i + 1]
      BY <2>1
    <3>2. \A i \in DOMAIN lane :
             i = 1 \/ (i - 1 \in DOMAIN Tail(lane) /\ Tail(lane)[i - 1] = lane[i])
      <4>1. \A i \in DOMAIN lane : i \in 1 .. Len(lane)
        BY <2>1
      <4>2. /\ DOMAIN Tail(lane) = 1 .. Len(lane) - 1
            /\ \A i \in 1 .. Len(lane) - 1 : Tail(lane)[i] = lane[i + 1]
        BY <2>1
      <4>3. Len(lane) \in Nat
        BY <2>1
      <4> QED
        BY <4>1, <4>2, <4>3
    <3>3. ASSUME NEW d \in Calls, NEW i \in DOMAIN lane, lane[i] = d
          PROVE  d = h \/ \E j \in DOMAIN Tail(lane) : Tail(lane)[j] = d
      BY <2>1, <3>2, <3>3
    <3>4. ASSUME NEW d \in Calls, d = h \/ \E i \in DOMAIN Tail(lane) : Tail(lane)[i] = d
          PROVE  \E i \in DOMAIN lane : lane[i] = d
      <4>1. 1 \in DOMAIN lane
        BY <2>1
      <4> QED
        BY <2>1, <3>1, <3>4, <4>1
    <3> HIDE DEF h
    <3> QED
      BY <3>3, <3>4
  <2>3. ~ \E i \in DOMAIN Tail(lane) : Tail(lane)[i] = h
    BY <2>1 DEF LaneInv
  <2>4. lane' = Tail(lane) /\ task' = [task EXCEPT ![h] = "running"]
    BY <1>2 DEF Start
  <2>5. \A d \in Calls : task'[d] = "queued" <=> d # h /\ task[d] = "queued"
    BY <2>1, <2>4 DEF PoolOK
  <2>6. \A d \in Calls : task'[d] = "queued" <=> \E i \in DOMAIN lane' : lane'[i] = d
    BY <2>2, <2>3, <2>4, <2>5 DEF PoolOK
  <2>7. Cardinality(Busy') <= PoolSize
    BY <1>2, OneMoreWork
  <2> QED
    BY <2>1, <2>4, <2>6, <2>7 DEF PoolOK, TaskSteps
<1>3. CASE Shutdown
  <2>1. Busy' \subseteq Busy
    BY <1>3 DEF Shutdown, Busy, PoolOK
  <2>2. Cardinality(Busy') <= PoolSize
    BY <2>1, NoNewWork
  <2> QED
    BY <1>3, <2>2 DEF Shutdown, PoolOK, TaskSteps
<1>4. ASSUME NEW c \in Calls, ReadSlot(c) \/ Act(c) \/ Raise(c) PROVE PoolOK'
  <2>1. Busy' \subseteq Busy
    BY <1>4 DEF ReadSlot, Act, Raise, Busy, PoolOK
  <2>2. Cardinality(Busy') <= PoolSize
    BY <2>1, NoNewWork
  <2>3. /\ task' \in [Calls -> TaskSteps] /\ lane' = lane
        /\ \A d \in Calls : task'[d] = "queued" <=> task[d] = "queued"
    BY <1>4 DEF ReadSlot, Act, Raise, PoolOK, TaskSteps
  <2> QED
    BY <2>2, <2>3 DEF PoolOK
<1>5. CASE UNCHANGED <<task, lane>>
  <2>1. Busy' \subseteq Busy
    BY <1>5 DEF Busy
  <2>2. Cardinality(Busy') <= PoolSize
    BY <2>1, NoNewWork
  <2> QED
    BY <1>5, <2>2 DEF PoolOK
<1>6. \A c \in Calls : ~open /\ Submit(c) => UNCHANGED <<task, lane>>
  BY DEF Submit
<1>7. \A c \in Calls :
         ReturnCancelled(c) \/ Authorize(c) \/ Refuse(c) \/ Admit(c) \/ Launch(c)
            \/ Collect(c) \/ Timeout(c) => UNCHANGED <<task, lane>>
  BY DEF ReturnCancelled, Authorize, Refuse, Admit, Launch, Collect, Timeout
<1>8. /\ \A c \in Calls, a \in Actions : Suspend(c, a) => UNCHANGED <<task, lane>>
      /\ \A c \in Calls, l \in {"safe", "confirmation", "restricted"},
            a \in Actions \cup {NoAction} : Begin(c, l, a) => UNCHANGED <<task, lane>>
      /\ \A w \in Windows : Switch(w) => UNCHANGED <<task, lane>>
  BY DEF Suspend, Begin, Switch
<1>9. Decision \/ RequestCancel \/ UNCHANGED vars => UNCHANGED <<task, lane>>
  BY DEF Decision, RequestCancel, vars
<1> QED
  BY <1>1, <1>2, <1>3, <1>4, <1>5, <1>6, <1>7, <1>8, <1>9 DEF Next, Continue

\* Every step keeps the types.
LEMMA TypeStep == ASSUME TypeOK, LaneInv, [Next]_vars PROVE TypeOK'
<1>1. DataOK' /\ PoolOK'
  BY Halves, DataStep, PoolStep
<1> QED
  BY <1>1 DEF TypeOK, DataOK, PoolOK

------------------------------------------------------------------------------
\* Every step keeps each task queued at most once.
LEMMA LaneStep == ASSUME TypeOK, LaneInv, [Next]_vars PROVE LaneInv'
<1> USE DEF Goto, table, pool, tool
<1>1. ASSUME NEW c \in Calls, open, Submit(c) PROVE LaneInv'
  <2>1. /\ lane' = Append(lane, c) /\ call' = [call EXCEPT ![c] = "wait"]
        /\ task' = [task EXCEPT ![c] = "queued"] /\ call[c] = "submit"
    BY <1>1 DEF Submit
  <2>2. \A i \in DOMAIN lane : lane[i] # c
    BY <2>1 DEF LaneInv, TypeOK
  <2>3. /\ DOMAIN lane' = 1 .. Len(lane) + 1 /\ lane'[Len(lane) + 1] = c
        /\ DOMAIN lane = 1 .. Len(lane) /\ \A i \in DOMAIN lane : lane'[i] = lane[i]
        /\ Len(lane) \in Nat
    BY <2>1 DEF TypeOK
  <2>4. \A i, j \in DOMAIN lane' : lane'[i] = lane'[j] => i = j
    BY <2>2, <2>3 DEF LaneInv
  <2>5. \A d \in Calls : task'[d] # "none" => call'[d] \in {"wait", "returned"}
    BY <2>1 DEF LaneInv, TypeOK
  <2> QED
    BY <2>4, <2>5 DEF LaneInv
<1>2. CASE Start
  <2>1. lane \in Seq(Calls) /\ lane # <<>> /\ lane' = Tail(lane) /\ UNCHANGED call
    BY <1>2 DEF Start, TypeOK
  <2>2. /\ DOMAIN lane' = 1 .. Len(lane) - 1 /\ DOMAIN lane = 1 .. Len(lane)
        /\ \A i \in DOMAIN lane' : lane'[i] = lane[i + 1]
        /\ Len(lane) \in Nat
    BY <2>1
  <2>3. \A i, j \in DOMAIN lane' : lane'[i] = lane'[j] => i = j
    BY <2>2 DEF LaneInv
  <2>4. task[Head(lane)] = "queued" /\ Head(lane) \in Calls
    BY <2>1 DEF TypeOK
  <2>5. \A d \in Calls : task'[d] # "none" => call'[d] \in {"wait", "returned"}
    BY <1>2, <2>1, <2>4 DEF Start, LaneInv, TypeOK
  <2> QED
    BY <2>3, <2>5 DEF LaneInv
<1>3. CASE Shutdown
  BY <1>3 DEF Shutdown, LaneInv, TypeOK
<1>4. ASSUME NEW c \in Calls, ReadSlot(c) \/ Act(c) \/ Raise(c) PROVE LaneInv'
  BY <1>4 DEF ReadSlot, Act, Raise, LaneInv, TypeOK
<1>5. ASSUME NEW c \in Calls, Collect(c) \/ Timeout(c) \/ (~open /\ Submit(c))
      PROVE  LaneInv'
  BY <1>5 DEF Collect, Timeout, Submit, LaneInv, TypeOK
<1>6. ASSUME NEW c \in Calls,
             \/ ReturnCancelled(c) \/ Authorize(c) \/ Refuse(c) \/ Admit(c) \/ Launch(c)
             \/ \E a \in Actions : Suspend(c, a)
             \/ \E l \in {"safe", "confirmation", "restricted"}, a \in Actions \cup {NoAction} :
                   Begin(c, l, a)
      PROVE  LaneInv'
  <2>1. UNCHANGED <<task, lane>> /\ call[c] \notin {"wait", "returned"}
    BY <1>6 DEF ReturnCancelled, Authorize, Refuse, Admit, Launch, Suspend, Begin
  <2>2. \A d \in Calls \ {c} : call'[d] = call[d]
    BY <1>6 DEF ReturnCancelled, Authorize, Refuse, Admit, Launch, Suspend, Begin, TypeOK
  <2> QED
    BY <2>1, <2>2 DEF LaneInv
<1>7. CASE UNCHANGED <<call, task, lane>>
  BY <1>7 DEF LaneInv
<1>8. \A w \in Windows : Switch(w) => UNCHANGED <<call, task, lane>>
  BY DEF Switch
<1>9. Decision \/ RequestCancel \/ UNCHANGED vars => UNCHANGED <<call, task, lane>>
  BY DEF Decision, RequestCancel, vars
<1> QED
  BY <1>1, <1>2, <1>3, <1>4, <1>5, <1>6, <1>7, <1>8, <1>9 DEF Next, Continue

\* Every step leaves the slot to a call that will clear it.
LEMMA SlotStep == ASSUME TypeOK, SlotInv, [Next]_vars PROVE SlotInv'
<1> USE DEF Goto, table, pool, tool
<1>1. ASSUME NEW c \in Calls, Launch(c) PROVE SlotInv'
  BY <1>1 DEF Launch, SlotInv, TypeOK
<1>2. ASSUME NEW c \in Calls, Submit(c) PROVE SlotInv'
  BY <1>2 DEF Submit, Cleared, SlotInv, TypeOK
<1>3. ASSUME NEW c \in Calls, Collect(c) \/ Timeout(c) PROVE SlotInv'
  BY <1>3 DEF Collect, Timeout, Cleared, SlotInv, TypeOK
<1>4. ASSUME NEW c \in Calls,
             \/ ReturnCancelled(c) \/ Authorize(c) \/ Refuse(c) \/ Admit(c)
             \/ \E a \in Actions : Suspend(c, a)
             \/ \E l \in {"safe", "confirmation", "restricted"}, a \in Actions \cup {NoAction} :
                   Begin(c, l, a)
      PROVE  SlotInv'
  <2>1. slot' = slot /\ call[c] \notin {"submit", "wait"}
    BY <1>4 DEF ReturnCancelled, Authorize, Refuse, Admit, Suspend, Begin
  <2>2. \A d \in Calls \ {c} : call'[d] = call[d] /\ level'[d] = level[d]
    <3>1. \A d \in Calls \ {c} : call'[d] = call[d]
      BY <1>4 DEF ReturnCancelled, Authorize, Refuse, Admit, Suspend, Begin, TypeOK
    <3>2. \A d \in Calls \ {c} : level'[d] = level[d]
      BY <1>4 DEF ReturnCancelled, Authorize, Refuse, Admit, Suspend, Begin, TypeOK
    <3> QED
      BY <3>1, <3>2
  <2>3. ASSUME slot # NoAction
        PROVE  \E d \in Calls : call'[d] \in {"submit", "wait"} /\ level'[d] = "confirmation"
    <3>1. PICK d \in Calls : call[d] \in {"submit", "wait"} /\ level[d] = "confirmation"
      BY <2>3 DEF SlotInv
    <3>2. d # c
      BY <2>1, <3>1
    <3> QED
      BY <2>2, <3>1, <3>2
  <2> QED
    BY <2>1, <2>3 DEF SlotInv
<1>5. CASE UNCHANGED <<call, level, slot>>
  BY <1>5 DEF SlotInv
<1>6. /\ \A c \in Calls : ReadSlot(c) \/ Act(c) \/ Raise(c) => UNCHANGED <<call, level, slot>>
      /\ \A w \in Windows : Switch(w) => UNCHANGED <<call, level, slot>>
  BY DEF ReadSlot, Act, Raise, Switch
<1>7. Start \/ Decision \/ RequestCancel \/ Shutdown \/ UNCHANGED vars
         => UNCHANGED <<call, level, slot>>
  BY DEF Start, Decision, RequestCancel, Shutdown, vars
<1> QED
  BY <1>1, <1>2, <1>3, <1>4, <1>5, <1>6, <1>7 DEF Next, Continue

------------------------------------------------------------------------------
\* A step that admits nobody, executes nothing and moves no executed row keeps
\* LaunchInv.
LEMMA NobodyAdmitted ==
  ASSUME LaunchInv, UNCHANGED <<level, approval, runs>>,
         \A c \in Calls : Admitted(c)' => Admitted(c),
         \A a \in Actions : status[a] \in Spent => status'[a] \in Spent
  PROVE  LaunchInv'
<1> USE DEF LaunchInv
<1>1. \A c \in Calls : approval'[c] # NoAction => level'[c] = "confirmation"
  OBVIOUS
<1>2. \A c \in Calls : Admitted(c)' =>
         \/ level'[c] = "safe"
         \/ level'[c] = "confirmation" /\ approval'[c] # NoAction
  OBVIOUS
<1>3. \A c, d \in Calls :
         Admitted(c)' /\ Admitted(d)' /\ approval'[c] = approval'[d] /\ approval'[c] # NoAction
            => c = d
  OBVIOUS
<1>4. \A c \in Calls : Admitted(c)' /\ approval'[c] # NoAction => runs'[approval'[c]] = 1
  OBVIOUS
<1>5. \A a \in Actions : runs'[a] = 0 \/ (runs'[a] = 1 /\ status'[a] \in Spent)
  OBVIOUS
<1> QED
  BY <1>1, <1>2, <1>3, <1>4, <1>5

\* The consumption that lets a call through is the first of its action.
LEMMA ConsumeStep ==
  ASSUME TypeOK, LaneInv, LaunchInv, NEW c \in Calls,
         call[c] = "check", approval[c] # NoAction, level[c] = "confirmation",
         Approvals!Execute(approval[c]), Goto(c, "launch"), UNCHANGED <<level, approval, task>>
  PROVE  LaunchInv'
<1> USE DEF Spent
<1> DEFINE a == approval[c]
<1>1. a \in Actions /\ status[a] = "approved" /\ runs[a] = 0
  <2>1. a \in Actions /\ status[a] = "approved"
    BY DEF TypeOK, Approvals!Execute, Approvals!Move
  <2> QED
    BY <2>1 DEF LaunchInv
<1>2. /\ status' = [status EXCEPT ![a] = "executed"] /\ runs' = [runs EXCEPT ![a] = @ + 1]
  BY DEF Approvals!Execute, Approvals!Move
<1>3. \A d \in Calls : Admitted(d) => approval[d] # a
  BY <1>1 DEF LaunchInv
<1>4. \A d \in Calls : Admitted(d)' <=> Admitted(d) \/ d = c
  BY DEF Admitted, Goto, TypeOK
<1>5. /\ runs'[a] = 1 /\ status'[a] \in Spent
      /\ \A b \in Actions \ {a} : runs'[b] = runs[b] /\ status'[b] = status[b]
  BY <1>1, <1>2 DEF TypeOK
<1>6. \A d \in Calls : approval[d] \in Actions \cup {NoAction}
  BY DEF TypeOK
<1> HIDE DEF a
<1>7. \A b \in Actions : runs'[b] = 0 \/ (runs'[b] = 1 /\ status'[b] \in Spent)
  BY <1>5 DEF LaunchInv
<1>8. \A d \in Calls : Admitted(d)' /\ approval'[d] # NoAction => runs'[approval'[d]] = 1
  BY <1>3, <1>4, <1>5, <1>6 DEF LaunchInv, a
<1>9. \A d, e \in Calls :
         Admitted(d)' /\ Admitted(e)' /\ approval'[d] = approval'[e] /\ approval'[d] # NoAction
            => d = e
  BY <1>3, <1>4 DEF LaunchInv, a
<1>10. \A d \in Calls : Admitted(d)' =>
          \/ level'[d] = "safe"
          \/ level'[d] = "confirmation" /\ approval'[d] # NoAction
  BY <1>4 DEF LaunchInv
<1>11. \A d \in Calls : approval'[d] # NoAction => level'[d] = "confirmation"
  BY DEF LaunchInv
<1> QED
  BY <1>7, <1>8, <1>9, <1>10, <1>11 DEF LaunchInv

\* No move of the contract but Execute touches a consumed row, save to
\* mark it failed.
LEMMA SpentStays ==
  ASSUME TypeOK, NEW a \in Actions,
         \/ Approvals!Refuse(a) \/ Approvals!Request(a) \/ Approvals!Decide(a)
         \/ Approvals!Expire({a})
  PROVE  /\ UNCHANGED runs
         /\ \A b \in Actions : status[b] \in Spent => status'[b] \in Spent
<1> USE DEF TypeOK, Spent, Approvals!Move, Approvals!Decidable, Approvals!Refusable
<1>1. CASE Approvals!Refuse(a) \/ Approvals!Request(a)
  BY <1>1 DEF Approvals!Refuse, Approvals!Request
<1>2. CASE Approvals!Decide(a)
  BY <1>2 DEF Approvals!Decide
<1>3. CASE Approvals!Expire({a})
  BY <1>3 DEF Approvals!Expire
<1> QED
  BY <1>1, <1>2, <1>3

\* Every step keeps one launch to a consumed action.
LEMMA LaunchStep == ASSUME TypeOK, LaneInv, LaunchInv, [Next]_vars PROVE LaunchInv'
<1> USE DEF Goto, table, pool, tool
<1>1. ASSUME NEW c \in Calls, NEW l \in {"safe", "confirmation", "restricted"},
             NEW a \in Actions \cup {NoAction}, Begin(c, l, a)
      PROVE  LaunchInv'
  <2>1. ~Admitted(c) /\ ~Admitted(c)'
    BY <1>1 DEF Begin, Admitted, LaneInv, TypeOK
  <2>2. \A d \in Calls \ {c} : /\ Admitted(d)' <=> Admitted(d)
                               /\ level'[d] = level[d] /\ approval'[d] = approval[d]
    BY <1>1 DEF Begin, Admitted, TypeOK
  <2>3. UNCHANGED <<runs, status>> /\ approval'[c] = a /\ level'[c] = l
    BY <1>1 DEF Begin, TypeOK
  <2>4. a # NoAction => l = "confirmation"
    BY <1>1 DEF Begin
  <2> QED
    BY <2>1, <2>2, <2>3, <2>4 DEF LaunchInv
<1>2. ASSUME NEW c \in Calls, ReturnCancelled(c) \/ Refuse(c) PROVE LaunchInv'
  <2>1. \A d \in Calls : Admitted(d)' => Admitted(d)
    BY <1>2 DEF ReturnCancelled, Refuse, Admitted, TypeOK
  <2> QED
    BY <1>2, <2>1, NobodyAdmitted DEF ReturnCancelled, Refuse
<1>3. ASSUME NEW c \in Calls, Authorize(c) PROVE LaunchInv'
  <2>1. CASE Approvals!Execute(approval[c]) /\ Goto(c, "launch")
    BY <1>3, <2>1, ConsumeStep DEF Authorize
  <2>2. CASE Goto(c, "returned") /\ (Approvals!Refuse(approval[c]) \/ UNCHANGED <<status, runs>>)
    <3>1. \A d \in Calls : Admitted(d)' => Admitted(d)
      BY <1>3, <2>2 DEF Authorize, Admitted, TypeOK
    <3>2. approval[c] \in Actions
      BY <1>3 DEF Authorize, TypeOK
    <3>3. /\ UNCHANGED runs
          /\ \A b \in Actions : status[b] \in Spent => status'[b] \in Spent
      BY <2>2, <3>2, SpentStays
    <3> QED
      BY <1>3, <3>1, <3>3, NobodyAdmitted DEF Authorize
  <2> QED
    BY <1>3, <2>1, <2>2 DEF Authorize
<1>4. ASSUME NEW c \in Calls, NEW a \in Actions, Suspend(c, a) PROVE LaunchInv'
  <2>1. \A d \in Calls : Admitted(d)' => Admitted(d)
    BY <1>4 DEF Suspend, Admitted, TypeOK
  <2>2. /\ UNCHANGED runs
        /\ \A b \in Actions : status[b] \in Spent => status'[b] \in Spent
    BY <1>4, SpentStays DEF Suspend
  <2> QED
    BY <1>4, <2>1, <2>2, NobodyAdmitted DEF Suspend
<1>5. ASSUME NEW c \in Calls, Admit(c) PROVE LaunchInv'
  <2>1. \A d \in Calls : Admitted(d)' <=> Admitted(d) \/ d = c
    BY <1>5 DEF Admit, Admitted, TypeOK
  <2>2. level[c] = "safe" /\ approval[c] = NoAction
    BY <1>5 DEF Admit, LaunchInv
  <2>3. UNCHANGED <<level, approval, runs, status>>
    BY <1>5 DEF Admit
  <2> QED
    BY <2>1, <2>2, <2>3 DEF LaunchInv
<1>6. ASSUME NEW c \in Calls, Launch(c) \/ Submit(c) \/ Collect(c) \/ Timeout(c)
      PROVE  LaunchInv'
  <2>1. \A d \in Calls : Admitted(d)' => Admitted(d)
    BY <1>6 DEF Launch, Submit, Collect, Timeout, Admitted, TypeOK
  <2> QED
    BY <1>6, <2>1, NobodyAdmitted DEF Launch, Submit, Collect, Timeout
<1>7. CASE Start
  <2>1. task[Head(lane)] = "queued" /\ Head(lane) \in Calls
    BY <1>7 DEF Start, TypeOK
  <2>2. \A d \in Calls : Admitted(d)' => Admitted(d)
    BY <1>7, <2>1 DEF Start, Admitted, TypeOK
  <2> QED
    BY <1>7, <2>2, NobodyAdmitted DEF Start
<1>8. ASSUME NEW c \in Calls, ReadSlot(c) \/ Act(c) \/ Raise(c) PROVE LaunchInv'
  <2>1. \A d \in Calls : Admitted(d)' => Admitted(d)
    BY <1>8 DEF ReadSlot, Act, Raise, Admitted, TypeOK
  <2> QED
    BY <1>8, <2>1, NobodyAdmitted DEF ReadSlot, Act, Raise
<1>9. CASE Decision
  <2>1. \A d \in Calls : Admitted(d)' => Admitted(d)
    BY <1>9 DEF Decision, Admitted
  <2>2. /\ UNCHANGED runs
        /\ \A b \in Actions : status[b] \in Spent => status'[b] \in Spent
    BY <1>9, SpentStays DEF Decision
  <2> QED
    BY <1>9, <2>1, <2>2, NobodyAdmitted DEF Decision
<1>10. CASE Shutdown
  <2>1. \A d \in Calls : Admitted(d)' => Admitted(d)
    BY <1>10 DEF Shutdown, Admitted, TypeOK
  <2> QED
    BY <1>10, <2>1, NobodyAdmitted DEF Shutdown
<1>11. CASE RequestCancel \/ (\E w \in Windows : Switch(w)) \/ UNCHANGED vars
  <2>1. \A d \in Calls : Admitted(d)' => Admitted(d)
    BY <1>11 DEF RequestCancel, Switch, vars, Admitted
  <2>2. UNCHANGED <<level, approval, runs, status>>
    BY <1>11 DEF RequestCancel, Switch, vars
  <2> QED
    BY <2>1, <2>2, NobodyAdmitted
<1> QED
  BY <1>1, <1>2, <1>3, <1>4, <1>5, <1>6, <1>7, <1>8, <1>9, <1>10, <1>11 DEF Next, Continue

------------------------------------------------------------------------------
\* Every step keeps the queue of a closed pool empty.
LEMMA ClosedStep == ASSUME ClosedInv, [Next]_vars PROVE ClosedInv'
<1> USE DEF table, pool, tool, ClosedInv
<1>1. ASSUME NEW c \in Calls, Submit(c) PROVE ClosedInv'
  BY <1>1 DEF Submit
<1>2. CASE Start \/ Shutdown
  BY <1>2 DEF Start, Shutdown
<1>3. CASE UNCHANGED <<open, lane>>
  BY <1>3
<1>4. \A c \in Calls :
         ReturnCancelled(c) \/ Authorize(c) \/ Refuse(c) \/ Admit(c) \/ Launch(c)
            \/ Collect(c) \/ Timeout(c) \/ ReadSlot(c) \/ Act(c) \/ Raise(c)
            => UNCHANGED <<open, lane>>
  BY DEF ReturnCancelled, Authorize, Refuse, Admit, Launch, Collect, Timeout, ReadSlot, Act, Raise
<1>5. /\ \A c \in Calls, a \in Actions : Suspend(c, a) => UNCHANGED <<open, lane>>
      /\ \A c \in Calls, l \in {"safe", "confirmation", "restricted"},
            a \in Actions \cup {NoAction} : Begin(c, l, a) => UNCHANGED <<open, lane>>
      /\ \A w \in Windows : Switch(w) => UNCHANGED <<open, lane>>
  BY DEF Suspend, Begin, Switch
<1>6. Decision \/ RequestCancel \/ UNCHANGED vars => UNCHANGED <<open, lane>>
  BY DEF Decision, RequestCancel, vars
<1> QED
  BY <1>1, <1>2, <1>3, <1>4, <1>5, <1>6 DEF Next, Continue

\* The invariant holds in every state.
LEMMA ExecutorInvariant == Spec => []ExecutorInv
<1>1. Init => ExecutorInv
  <2> SUFFICES ASSUME Init PROVE ExecutorInv
    OBVIOUS
  <2>1. DataOK
    BY DEF Init, DataOK, Statuses, CallSteps, Approvals!Init
  <2>2. Busy = {}
    BY DEF Init, Busy
  <2>3. PoolOK
    BY <2>2, FS_EmptySet DEF Init, PoolOK, TaskSteps
  <2>4. LaneInv /\ SlotInv /\ LaunchInv /\ ClosedInv
    BY DEF Init, LaneInv, SlotInv, LaunchInv, ClosedInv, Admitted, Approvals!Init
  <2> QED
    BY <2>1, <2>3, <2>4, Halves DEF ExecutorInv
<1>2. ExecutorInv /\ [Next]_vars => ExecutorInv'
  BY TypeStep, LaneStep, SlotStep, LaunchStep, ClosedStep DEF ExecutorInv
<1> QED
  BY <1>1, <1>2, PTL DEF Spec

\* Every variable keeps its type, the queue holds exactly the queued tasks, and
\* no more tasks run than the pool has workers.
THEOREM TypeCorrect == Spec => []TypeOK
<1>1. ExecutorInv => TypeOK
  BY DEF ExecutorInv
<1> QED
  BY <1>1, ExecutorInvariant, PTL

\* However many calls, timeouts, cancellations and replays there are, execute()
\* launches a confirmation tool once per consumed action and a restricted tool
\* never.
THEOREM LaunchesApproved == Spec => []LaunchedUnderApproval
<1>1. ASSUME ExecutorInv PROVE LaunchedUnderApproval
  <2>1. ASSUME NEW a \in Actions
        PROVE  Cardinality({c \in Calls : Admitted(c) /\ approval[c] = a}) <= runs[a]
    <3> DEFINE S == {c \in Calls : Admitted(c) /\ approval[c] = a}
    <3>1. CASE S = {}
      <4>1. Cardinality(S) = 0
        BY <3>1, FS_EmptySet
      <4>2. runs[a] \in Nat
        BY <1>1 DEF ExecutorInv, TypeOK
      <4> QED
        BY <4>1, <4>2
    <3>2. CASE S # {}
      <4>1. PICK c \in Calls : Admitted(c) /\ approval[c] = a
        BY <3>2
      <4>2. S = {c} /\ runs[a] = 1
        BY <1>1, <4>1 DEF ExecutorInv, LaunchInv
      <4>3. Cardinality(S) = 1
        BY <4>2, FS_Singleton
      <4> QED
        BY <4>2, <4>3
    <3> QED
      BY <3>1, <3>2
  <2>2. \A a \in Actions : runs[a] <= 1
    BY <1>1 DEF ExecutorInv, LaunchInv
  <2> QED
    BY <1>1, <2>1, <2>2 DEF ExecutorInv, LaunchInv, LaunchedUnderApproval
<1> QED
  BY <1>1, ExecutorInvariant, PTL

\* Between calls the tool holds no approval id.
THEOREM SlotCleaned == Spec => []SlotIsClean
<1>1. ExecutorInv => SlotIsClean
  BY DEF ExecutorInv, SlotInv, SlotIsClean, Inside
<1> QED
  BY <1>1, ExecutorInvariant, PTL

\* A shutdown drops what is queued and admits nothing new, so no task starts
\* after it, however submissions and the shutdown interleave.
THEOREM NoLateStart == Spec => NothingStartsAfterShutdown
<1>1. ASSUME ExecutorInv
      PROVE  \A c \in Calls : ~open /\ task[c] = "queued" => task'[c] # "running"
  <2>1. ASSUME NEW c \in Calls, ~open PROVE task[c] # "queued"
    <3>1. DOMAIN lane = {}
      BY <1>1, <2>1 DEF ExecutorInv, ClosedInv
    <3> QED
      BY <1>1, <3>1 DEF ExecutorInv, TypeOK
  <2> QED
    BY <2>1
<1> QED
  BY <1>1, ExecutorInvariant, PTL DEF NothingStartsAfterShutdown

------------------------------------------------------------------------------
(***************************************************************************)
(* FileTools: what the file operations do to any tree, of any depth, with  *)
(* any names and contents, and whatever tree their checks had earlier.        *)
(***************************************************************************)
\* A tree over the names N.
Tree(t, N) ==
    /\ DOMAIN t \subseteq Seq(N) /\ t = [q \in DOMAIN t |-> t[q]]
    /\ WellFormed(t)

\* A shorter part of a path is a path, with the entries of the longer one.
LEMMA PrefixOf ==
    ASSUME NEW N, NEW q \in Seq(N), NEW n \in 0 .. Len(q)
    PROVE  /\ SubSeq(q, 1, n) \in Seq(N) /\ Len(SubSeq(q, 1, n)) = n
           /\ \A i \in 1 .. n : SubSeq(q, 1, n)[i] = q[i]
<1>1. Len(q) \in Nat /\ 1 \in Int /\ n \in Int /\ \A i \in 1 .. n : q[i] \in N
  BY LenProperties
<1> DEFINE s == SubSeq(q, 1, n)
<1>2. /\ s \in Seq(N)
      /\ Len(s) = IF 1 <= n THEN n - 1 + 1 ELSE 0
      /\ \A i \in 1 .. n - 1 + 1 : s[i] = q[1 + i - 1]
  BY <1>1, SubSeqProperties
<1> HIDE DEF s
<1>3. Len(s) = n
  BY <1>1, <1>2
<1>4. ASSUME NEW i \in 1 .. n PROVE s[i] = q[i]
  <2>1. i \in 1 .. n - 1 + 1 /\ 1 + i - 1 = i
    BY <1>1
  <2> QED
    BY <1>2, <2>1
<1> QED
  BY <1>2, <1>3, <1>4 DEF s

\* The directory of an entry is one entry shorter, and a part of it.
LEMMA ParentOf ==
    ASSUME NEW N, NEW q \in Seq(N), q # << >>
    PROVE  /\ Parent(q) \in Seq(N) /\ Len(Parent(q)) = Len(q) - 1
           /\ Len(q) \in Nat \ {0}
           /\ \A i \in 1 .. Len(q) - 1 : Parent(q)[i] = q[i]
<1>1. Len(q) \in Nat \ {0} /\ Len(q) - 1 \in 0 .. Len(q)
  BY EmptySeq, LenProperties
<1> QED
  BY <1>1, PrefixOf DEF Parent

\* What contains the directory of an entry contains the entry.
LEMMA WithinParent ==
    ASSUME NEW N, NEW p \in Seq(N), NEW q \in Seq(N), q # << >>, Within(p, Parent(q))
    PROVE  Within(p, q)
<1>1. Len(p) \in Nat /\ Len(q) \in Nat
  BY LenProperties
<1> QED
  BY <1>1, ParentOf DEF Within

\* A path is within itself.
LEMMA WithinItself ==
    ASSUME NEW N, NEW p \in Seq(N)
    PROVE  Within(p, p)
BY LenProperties DEF Within

\* Two paths of one length, one within the other, are the same.
LEMMA WithinSame ==
    ASSUME NEW N, NEW p \in Seq(N), NEW q \in Seq(N), Within(p, q), Len(p) = Len(q)
    PROVE  p = q
<1>1. Len(p) \in Nat /\ \A i \in 1 .. Len(p) : p[i] = q[i]
  BY LenProperties DEF Within
<1> QED
  BY <1>1, SeqEqual

\* A set of numbers that is not empty has a least one: < is well-founded.
LEMMA LeastNat ==
    ASSUME NEW S, S \subseteq Nat, S # {}
    PROVE  \E x \in S : \A y \in S : x <= y
<1>1. PICK x \in S : \A y \in S : ~ (<<y, x>> \in OpToRel(<, Nat))
  BY NatLessThanWellFounded, WFMin
<1>2. \A y \in S : ~ (y < x)
  BY <1>1 DEF OpToRel
<1> QED
  BY <1>2

\* In a tree, only directories contain other entries: the shortest one in something
\* else would be in a directory that is shorter still.
LEMMA NothingBelow ==
    ASSUME NEW N, NEW t, Tree(t, N), NEW p \in Seq(N), ~ IsDir(t, p),
           NEW q \in DOMAIN t, Within(p, q)
    PROVE  q = p
<1> DEFINE B == {r \in DOMAIN t : Within(p, r) /\ r # p}
<1> SUFFICES ASSUME B # {} PROVE FALSE
  OBVIOUS
<1>1. DOMAIN t \subseteq Seq(N) /\ ~ (p \in DOMAIN t /\ t[p] = Dir)
  BY DEF Tree, IsDir, Exists
<1> DEFINE L == {Len(r) : r \in B}
<1>2. L \subseteq Nat /\ L # {}
  <2>1. \A r \in B : Len(r) \in Nat
    BY <1>1, LenProperties
  <2> QED
    BY <2>1
<1>a. \E x \in L : \A y \in L : x <= y
  <2> HIDE DEF L
  <2> QED
    BY <1>2, LeastNat
<1>3. PICK r \in B : \A s \in B : Len(r) <= Len(s)
  BY <1>a
<1>4. r \in Seq(N) /\ Len(r) \in Nat /\ Len(p) \in Nat /\ Len(p) <= Len(r) /\ Len(p) # Len(r)
  BY <1>1, LenProperties, WithinSame DEF Within
<1>5. r # << >>
  BY <1>4, EmptySeq
<1>6. /\ Parent(r) \in Seq(N) /\ Len(Parent(r)) = Len(r) - 1
      /\ \A i \in 1 .. Len(r) - 1 : Parent(r)[i] = r[i]
  BY <1>4, <1>5, ParentOf
<1>7. Within(p, Parent(r))
  BY <1>4, <1>6 DEF Within
<1>8. Parent(r) \in DOMAIN t /\ t[Parent(r)] = Dir
  BY <1>5 DEF Tree, WellFormed, IsDir, Exists
<1>9. Parent(r) \in B
  BY <1>1, <1>7, <1>8
<1> QED
  BY <1>3, <1>4, <1>6, <1>9

------------------------------------------------------------------------------
\* Deletion: what is not below the target stays, without recursive at most the
\* target goes, and the tree is a tree.
THEOREM DeleteIsExact ==
    ASSUME NEW N, NEW earlier, NEW now, Tree(now, N), NEW p \in Seq(N), p # << >>,
           NEW recursive \in BOOLEAN
    PROVE  LET t == DeletePath(earlier, now, p, recursive) IN
           /\ Tree(t, N)
           /\ DOMAIN t \subseteq DOMAIN now
           /\ \A q \in DOMAIN now : ~ Within(p, q) => q \in DOMAIN t /\ t[q] = now[q]
           /\ ~ recursive => DOMAIN now \ DOMAIN t \subseteq {p}
<1> DEFINE t == DeletePath(earlier, now, p, recursive)
<1>1. CASE t = now
  BY <1>1
<1>2. CASE t # now
  <2>1. /\ t = [q \in DOMAIN now \ Below(now, p) |-> now[q]]
        /\ Exists(now, p)
        /\ IsFile(now, p) \/ recursive \/ Below(now, p) = {p}
    BY <1>2 DEF DeletePath, Keep, IsDir, IsFile
  <2> HIDE DEF t
  <2>2. DOMAIN t = DOMAIN now \ Below(now, p) /\ \A q \in DOMAIN t : t[q] = now[q]
    BY <2>1
  <2>3. \A q \in DOMAIN now : q \in DOMAIN t <=> ~ Within(p, q)
    BY <2>2 DEF Below
  <2>4. << >> \in DOMAIN t /\ t[<< >>] = Dir
    <3>1. << >> \in DOMAIN now /\ now[<< >>] = Dir
      BY DEF Tree, WellFormed, IsDir, Exists
    <3>2. ~ Within(p, << >>)
      <4>1. Len(p) \in Nat \ {0} /\ Len(<< >>) = 0
        BY EmptySeq, LenProperties
      <4> QED
        BY <4>1 DEF Within
    <3> QED
      BY <2>2, <2>3, <3>1, <3>2
  <2>5. ASSUME NEW q \in DOMAIN t, q # << >> PROVE Parent(q) \in DOMAIN t /\ t[Parent(q)] = Dir
    <3>1. q \in DOMAIN now /\ q \in Seq(N) /\ Parent(q) \in DOMAIN now /\ now[Parent(q)] = Dir
      BY <2>2, <2>5 DEF Tree, WellFormed, IsDir, Exists
    <3>2. ~ Within(p, Parent(q))
      BY <2>3, <2>5, <3>1, WithinParent
    <3> QED
      BY <2>2, <2>3, <3>1, <3>2
  <2>6. Tree(t, N)
    BY <2>1, <2>2, <2>4, <2>5 DEF Tree, WellFormed, IsDir, Exists
  <2>7. ASSUME ~ recursive, NEW q \in DOMAIN now \ DOMAIN t PROVE q = p
    <3>1. Within(p, q) /\ q \in DOMAIN now
      BY <2>3, <2>7
    <3>2. CASE Below(now, p) = {p}
      BY <3>1, <3>2 DEF Below
    <3>3. CASE IsFile(now, p)
      BY <3>1, <3>3, NothingBelow DEF IsFile, IsDir
    <3> QED
      BY <2>1, <2>7, <3>2, <3>3
  <2> QED
    BY <2>2, <2>3, <2>6, <2>7 DEF t
<1> QED
  BY <1>1, <1>2

------------------------------------------------------------------------------
\* The prefixes of a path.
LEMMA AncestorsOf ==
    ASSUME NEW N, NEW p \in Seq(N)
    PROVE  /\ Ancestors(p) \subseteq Seq(N)
           /\ \A q \in Ancestors(p) : q # << >> => Parent(q) \in Ancestors(p)
           /\ \A q \in Ancestors(p) : Within(q, p)
           /\ p \in Ancestors(p)
<1>1. Len(p) \in Nat
  BY LenProperties
<1>2. ASSUME NEW k \in 0 .. Len(p)
      PROVE  /\ SubSeq(p, 1, k) \in Seq(N) /\ Within(SubSeq(p, 1, k), p)
             /\ SubSeq(p, 1, k) # << >> => Parent(SubSeq(p, 1, k)) \in Ancestors(p)
  <2> DEFINE q == SubSeq(p, 1, k)
  <2>1. q \in Seq(N) /\ Len(q) = k /\ \A i \in 1 .. k : q[i] = p[i]
    BY PrefixOf
  <2> HIDE DEF q
  <2>2. Within(q, p)
    BY <1>1, <2>1 DEF Within
  <2>3. ASSUME q # << >> PROVE Parent(q) \in Ancestors(p)
    <3>1. /\ Parent(q) \in Seq(N) /\ Len(Parent(q)) = k - 1 /\ k \in Nat \ {0}
          /\ \A i \in 1 .. k - 1 : Parent(q)[i] = q[i]
      BY <2>1, <2>3, ParentOf
    <3>2. k - 1 \in 0 .. Len(p)
      BY <1>1, <3>1
    <3>3. /\ SubSeq(p, 1, k - 1) \in Seq(N) /\ Len(SubSeq(p, 1, k - 1)) = k - 1
          /\ \A i \in 1 .. k - 1 : SubSeq(p, 1, k - 1)[i] = p[i]
      BY <3>2, PrefixOf
    <3>4. \A i \in 1 .. k - 1 : Parent(q)[i] = p[i]
      BY <1>1, <2>1, <3>1
    <3>5. Parent(q) = SubSeq(p, 1, k - 1)
      BY <3>1, <3>3, <3>4, SeqEqual
    <3> QED
      BY <3>2, <3>5 DEF Ancestors
  <2> QED
    BY <2>1, <2>2, <2>3 DEF q
<1>3. p \in Ancestors(p)
  <2>1. Len(p) \in 0 .. Len(p)
    BY <1>1
  <2>2. /\ SubSeq(p, 1, Len(p)) \in Seq(N) /\ Len(SubSeq(p, 1, Len(p))) = Len(p)
        /\ \A i \in 1 .. Len(p) : SubSeq(p, 1, Len(p))[i] = p[i]
    BY <2>1, PrefixOf
  <2>3. SubSeq(p, 1, Len(p)) = p
    BY <2>2, SeqEqual
  <2> QED
    BY <2>1, <2>3 DEF Ancestors
<1> QED
  BY <1>2, <1>3 DEF Ancestors

\* The prefixes of the directory of an entry are prefixes of the entry, but not the entry.
LEMMA AncestorsOfParent ==
    ASSUME NEW N, NEW p \in Seq(N), p # << >>
    PROVE  Ancestors(Parent(p)) \subseteq Ancestors(p) /\ p \notin Ancestors(Parent(p))
<1> DEFINE d == Parent(p)
<1>1. /\ d \in Seq(N) /\ Len(d) = Len(p) - 1 /\ Len(p) \in Nat \ {0}
      /\ \A i \in 1 .. Len(p) - 1 : d[i] = p[i]
  BY ParentOf
<1> HIDE DEF d
<1>2. ASSUME NEW k \in 0 .. Len(d) PROVE SubSeq(d, 1, k) \in Ancestors(p) /\ SubSeq(d, 1, k) # p
  <2>1. k \in 0 .. Len(p) /\ k \in Nat /\ k <= Len(p) - 1
    BY <1>1
  <2>2. /\ SubSeq(d, 1, k) \in Seq(N) /\ Len(SubSeq(d, 1, k)) = k
        /\ \A i \in 1 .. k : SubSeq(d, 1, k)[i] = d[i]
    BY <1>1, PrefixOf
  <2>3. /\ SubSeq(p, 1, k) \in Seq(N) /\ Len(SubSeq(p, 1, k)) = k
        /\ \A i \in 1 .. k : SubSeq(p, 1, k)[i] = p[i]
    BY <2>1, PrefixOf
  <2>4. ASSUME NEW i \in 1 .. k PROVE SubSeq(d, 1, k)[i] = p[i]
    <3>1. i \in 1 .. Len(p) - 1
      BY <1>1, <2>1
    <3> QED
      BY <1>1, <2>2, <3>1
  <2>5. SubSeq(d, 1, k) = SubSeq(p, 1, k)
    BY <2>2, <2>3, <2>4, SeqEqual
  <2>6. k # Len(p)
    BY <1>1, <2>1
  <2> QED
    BY <2>1, <2>2, <2>5, <2>6 DEF Ancestors
<1> QED
  BY <1>2 DEF Ancestors, d

\* mkdir leaves what there is, and unless a file is in its way there is a
\* directory in the end.
LEMMA MkDirKeepsAll ==
    ASSUME NEW N, NEW now, Tree(now, N), NEW p \in Seq(N)
    PROVE  LET t == MkDir(now, p) IN
           /\ Tree(t, N)
           /\ \A q \in DOMAIN now : q \in DOMAIN t /\ t[q] = now[q]
           /\ \A q \in DOMAIN t \ DOMAIN now : q \in Ancestors(p) /\ t[q] = Dir
           /\ (\A q \in Ancestors(p) : ~ IsFile(now, q)) => IsDir(t, p)
<1> DEFINE t == MkDir(now, p)
<1>3. (\A q \in Ancestors(p) : ~ IsFile(now, q)) => IsDir(t, p)
  BY AncestorsOf DEF MkDir, IsFile, IsDir, Exists
<1>1. CASE t = now
  BY <1>1, <1>3
<1>2. CASE t # now
  <2>1. /\ t = [q \in DOMAIN now \union Ancestors(p) |->
                    IF q \in DOMAIN now THEN now[q] ELSE Dir]
        /\ \A q \in Ancestors(p) : ~ IsFile(now, q)
    BY <1>2 DEF MkDir
  <2> HIDE DEF t
  <2>2. /\ DOMAIN t = DOMAIN now \union Ancestors(p)
        /\ \A q \in DOMAIN now : t[q] = now[q]
        /\ \A q \in DOMAIN t \ DOMAIN now : q \in Ancestors(p) /\ t[q] = Dir
    BY <2>1
  <2>3. \A q \in Ancestors(p) : t[q] = Dir
    BY <2>1, <2>2 DEF IsFile, Exists
  <2>4. Tree(t, N)
    <3>1. DOMAIN t \subseteq Seq(N)
      BY <2>2, AncestorsOf DEF Tree
    <3>2. ASSUME NEW q \in DOMAIN t, q # << >> PROVE Parent(q) \in DOMAIN t /\ t[Parent(q)] = Dir
      <4>1. CASE q \in DOMAIN now
        <5>1. Parent(q) \in DOMAIN now /\ now[Parent(q)] = Dir
          BY <3>2, <4>1 DEF Tree, WellFormed, IsDir, Exists
        <5> QED
          BY <2>2, <5>1
      <4>2. CASE q \in Ancestors(p)
        BY <2>2, <2>3, <3>2, <4>2, AncestorsOf
      <4> QED
        BY <2>2, <4>1, <4>2
    <3>3. << >> \in DOMAIN t /\ t[<< >>] = Dir
      BY <2>2 DEF Tree, WellFormed, IsDir, Exists
    <3> QED
      BY <2>1, <3>1, <3>2, <3>3 DEF Tree, WellFormed, IsDir, Exists
  <2> QED
    BY <1>3, <2>2, <2>4 DEF t
<1> QED
  BY <1>1, <1>2, <1>3

\* create_directory: everything there was is there as it was, and what is new are
\* directories on the way to the target.
THEOREM CreateKeepsAll ==
    ASSUME NEW N, NEW earlier, NEW now, Tree(now, N), NEW p \in Seq(N)
    PROVE  LET t == CreateDirectory(earlier, now, p) IN
           /\ Tree(t, N)
           /\ \A q \in DOMAIN now : q \in DOMAIN t /\ t[q] = now[q]
           /\ \A q \in DOMAIN t \ DOMAIN now : q \in Ancestors(p) /\ t[q] = Dir
BY MkDirKeepsAll DEF CreateDirectory

\* write_text_file: nothing but the target changes, and that is or becomes a file.
THEOREM WriteIsExact ==
    ASSUME NEW N, NEW earlier, NEW now, Tree(now, N), NEW p \in Seq(N), p # << >>,
           NEW content, content # Dir
    PROVE  LET t == WriteText(earlier, now, p, content) IN
           /\ Tree(t, N)
           /\ DOMAIN now \subseteq DOMAIN t /\ DOMAIN t \subseteq DOMAIN now \union {p}
           /\ \A q \in DOMAIN now : q = p \/ t[q] = now[q]
           /\ t # now => IsFile(t, p) /\ ~ IsDir(now, p)
<1> DEFINE t == WriteText(earlier, now, p, content)
<1>1. CASE t = now
  BY <1>1
<1>2. CASE t # now
  <2>1. /\ t = [q \in DOMAIN now \union {p} |-> IF q = p THEN content ELSE now[q]]
        /\ ~ IsDir(now, p) /\ IsDir(now, Parent(p))
    BY <1>2 DEF WriteText
  <2> HIDE DEF t
  <2>2. /\ DOMAIN t = DOMAIN now \union {p} /\ t[p] = content
        /\ \A q \in DOMAIN now : q = p \/ t[q] = now[q]
    BY <2>1
  <2>3. Tree(t, N)
    <3>1. \A q \in DOMAIN now : now[q] = Dir => q # p
      BY <2>1 DEF IsDir, Exists
    <3>2. \A q \in DOMAIN t : q # << >> => Parent(q) \in DOMAIN now /\ now[Parent(q)] = Dir
      BY <2>1, <2>2 DEF Tree, WellFormed, IsDir, Exists
    <3>3. << >> \in DOMAIN now /\ now[<< >>] = Dir /\ DOMAIN now \subseteq Seq(N)
      BY DEF Tree, WellFormed, IsDir, Exists
    <3> QED
      BY <2>1, <2>2, <3>1, <3>2, <3>3 DEF Tree, WellFormed, IsDir, Exists
  <2> QED
    BY <2>1, <2>2, <2>3 DEF t, IsFile, Exists
<1> QED
  BY <1>1, <1>2

------------------------------------------------------------------------------
\* From position m on, x is what y is from n on.
SameTail(x, m, y, n) == \A i \in 1 .. Len(y) - n : x[m + i] = y[n + i]

\* Where an entry of the source comes to lie.
LEMMA RebasedOf ==
    ASSUME NEW N, NEW a \in Seq(N), NEW b \in Seq(N), NEW q \in Seq(N), Within(a, q)
    PROVE  /\ Rebased(q, a, b) \in Seq(N)
           /\ Len(Rebased(q, a, b)) = Len(b) + (Len(q) - Len(a))
           /\ \A i \in 1 .. Len(b) : Rebased(q, a, b)[i] = b[i]
           /\ SameTail(Rebased(q, a, b), Len(b), q, Len(a))
           /\ Within(b, Rebased(q, a, b))
<1>1. Len(a) \in Nat /\ Len(b) \in Nat /\ Len(q) \in Nat /\ Len(a) <= Len(q)
  BY LenProperties DEF Within
<1> DEFINE m == Len(a) + 1
           n == Len(q)
           s == SubSeq(q, m, n)
<1>2. m \in Int /\ n \in Int /\ \A i \in m .. n : q[i] \in N
  BY <1>1, LenProperties
<1>3. /\ s \in Seq(N) /\ Len(s) = IF m <= n THEN n - m + 1 ELSE 0
      /\ \A i \in 1 .. n - m + 1 : s[i] = q[m + i - 1]
  <2> HIDE DEF m, n
  <2> QED
    BY <1>2, SubSeqProperties
<1> HIDE DEF s
<1>4. Len(s) = Len(q) - Len(a)
  BY <1>1, <1>3
<1>5. ASSUME NEW i \in 1 .. Len(q) - Len(a) PROVE s[i] = q[Len(a) + i]
  <2>1. i \in 1 .. n - m + 1 /\ m + i - 1 = Len(a) + i
    BY <1>1
  <2> QED
    BY <1>3, <2>1
<1> DEFINE r == b \o s
<1>6. /\ r \in Seq(N) /\ Len(r) = Len(b) + Len(s)
      /\ \A i \in 1 .. Len(b) + Len(s) : r[i] = IF i <= Len(b) THEN b[i] ELSE s[i - Len(b)]
  BY <1>3, ConcatProperties
<1>7. r = Rebased(q, a, b)
  BY DEF Rebased, s
<1> HIDE DEF r
<1>8. ASSUME NEW i \in 1 .. Len(b) PROVE r[i] = b[i]
  BY <1>1, <1>4, <1>6
<1>9. ASSUME NEW i \in 1 .. Len(q) - Len(a) PROVE r[Len(b) + i] = q[Len(a) + i]
  <2>1. /\ Len(b) + i \in 1 .. Len(b) + Len(s) /\ ~ (Len(b) + i <= Len(b))
        /\ (Len(b) + i) - Len(b) = i
    BY <1>1, <1>4
  <2> QED
    BY <1>5, <1>6, <2>1
<1>10. Within(b, r)
  BY <1>1, <1>4, <1>6, <1>8 DEF Within
<1> QED
  BY <1>4, <1>6, <1>7, <1>8, <1>9, <1>10 DEF SameTail

\* There and back again.
LEMMA RebasedBack ==
    ASSUME NEW N, NEW a \in Seq(N), NEW b \in Seq(N), NEW q \in Seq(N), Within(a, q)
    PROVE  Rebased(Rebased(q, a, b), b, a) = q
<1>1. Len(a) \in Nat /\ Len(b) \in Nat /\ Len(q) \in Nat /\ Len(a) <= Len(q)
      /\ \A i \in 1 .. Len(a) : q[i] = a[i]
  BY LenProperties DEF Within
<1> DEFINE r == Rebased(q, a, b)
           z == Rebased(r, b, a)
<1>2. r \in Seq(N) /\ Len(r) = Len(b) + (Len(q) - Len(a)) /\ Within(b, r)
  BY RebasedOf
<1>a. SameTail(r, Len(b), q, Len(a))
  BY RebasedOf
<1> HIDE DEF r
<1>c. r \in Seq(N) /\ Within(b, r)
  BY <1>2
<1>d. \A i \in 1 .. Len(a) : z[i] = a[i]
  BY <1>c, RebasedOf
<1>3. z \in Seq(N) /\ Len(z) = Len(a) + (Len(r) - Len(b))
  BY <1>c, RebasedOf
<1>b. SameTail(z, Len(a), r, Len(b))
  BY <1>2, RebasedOf
<1> HIDE DEF z
<1>4. Len(z) = Len(q)
  BY <1>1, <1>2, <1>3
<1>5. ASSUME NEW i \in 1 .. Len(z) PROVE z[i] = q[i]
  <2>1. CASE i <= Len(a)
    BY <1>1, <1>d, <2>1
  <2>2. CASE ~ (i <= Len(a))
    <3> DEFINE j == i - Len(a)
    <3>1. j \in 1 .. Len(q) - Len(a) /\ j \in 1 .. Len(r) - Len(b) /\ Len(a) + j = i
      BY <1>1, <1>2, <1>4, <2>2
    <3> HIDE DEF j
    <3> QED
      BY <1>a, <1>b, <3>1 DEF SameTail
  <2> QED
    BY <2>1, <2>2
<1>6. z = q
  BY <1>2, <1>3, <1>4, <1>5, SeqEqual
<1> QED
  BY <1>6 DEF z, r

\* The directory of an entry moves with it.
LEMMA RebasedParent ==
    ASSUME NEW N, NEW a \in Seq(N), NEW b \in Seq(N), NEW q \in Seq(N), Within(a, q), q # a
    PROVE  /\ q # << >> /\ Within(a, Parent(q)) /\ Rebased(q, a, b) # << >>
           /\ Parent(Rebased(q, a, b)) = Rebased(Parent(q), a, b)
<1>1. /\ Len(a) \in Nat /\ Len(b) \in Nat /\ Len(q) \in Nat /\ Len(a) < Len(q)
      /\ \A i \in 1 .. Len(a) : q[i] = a[i]
  <2>1. Len(a) # Len(q)
    BY WithinSame
  <2> QED
    BY <2>1, LenProperties DEF Within
<1>2. q # << >>
  BY <1>1, EmptySeq
<1>3. /\ Parent(q) \in Seq(N) /\ Len(Parent(q)) = Len(q) - 1
      /\ \A i \in 1 .. Len(q) - 1 : Parent(q)[i] = q[i]
  BY <1>2, ParentOf
<1>4. Within(a, Parent(q))
  BY <1>1, <1>3 DEF Within
<1> DEFINE r == Rebased(q, a, b)
           z == Rebased(Parent(q), a, b)
<1>5. /\ r \in Seq(N) /\ Len(r) = Len(b) + (Len(q) - Len(a))
      /\ \A i \in 1 .. Len(b) : r[i] = b[i]
  BY RebasedOf
<1>a. SameTail(r, Len(b), q, Len(a))
  BY RebasedOf
<1>c. \A i \in 1 .. Len(b) : z[i] = b[i]
  BY <1>3, <1>4, RebasedOf
<1>6. z \in Seq(N) /\ Len(z) = Len(b) + (Len(Parent(q)) - Len(a))
  <2>1. Parent(q) \in Seq(N) /\ Within(a, Parent(q))
    BY <1>3, <1>4
  <2> QED
    BY <2>1, RebasedOf
<1>b. SameTail(z, Len(b), Parent(q), Len(a))
  BY <1>3, <1>4, RebasedOf
<1> HIDE DEF r, z
<1>7. r # << >>
  BY <1>1, <1>5, EmptySeq
<1>8. /\ Parent(r) \in Seq(N) /\ Len(Parent(r)) = Len(r) - 1
      /\ \A i \in 1 .. Len(r) - 1 : Parent(r)[i] = r[i]
  BY <1>5, <1>7, ParentOf
<1>9. Len(Parent(r)) = Len(z)
  BY <1>1, <1>3, <1>5, <1>6, <1>8
<1>10. ASSUME NEW i \in 1 .. Len(z) PROVE Parent(r)[i] = z[i]
  <2>1. Parent(r)[i] = r[i]
    BY <1>1, <1>3, <1>5, <1>6, <1>8
  <2>2. CASE i <= Len(b)
    BY <1>1, <1>5, <1>c, <2>1, <2>2
  <2>3. CASE ~ (i <= Len(b))
    <3> DEFINE j == i - Len(b)
    <3>1. /\ j \in 1 .. Len(q) - Len(a) /\ j \in 1 .. Len(Parent(q)) - Len(a)
          /\ Len(b) + j = i /\ Len(a) + j \in 1 .. Len(q) - 1
      BY <1>1, <1>3, <1>6, <2>3
    <3> HIDE DEF j
    <3> QED
      BY <1>3, <1>a, <1>b, <2>1, <3>1 DEF SameTail
  <2> QED
    BY <2>2, <2>3
<1>11. Parent(r) = z
  BY <1>6, <1>8, <1>9, <1>10, SeqEqual
<1> QED
  BY <1>2, <1>4, <1>7, <1>11 DEF r, z

\* Moving a tree below src to a place that is not in it and is no directory.
LEMMA RelocateKeeps ==
    ASSUME NEW N, NEW t, Tree(t, N), NEW src \in Seq(N), NEW dest \in Seq(N),
           Exists(t, src), ~ Within(src, dest), ~ IsDir(t, dest), dest # << >>,
           IsDir(t, Parent(dest))
    PROVE  LET z == Relocate(t, src, dest) IN
           /\ Tree(z, N)
           /\ \A q \in Below(t, src) :
                Rebased(q, src, dest) \in DOMAIN z /\ z[Rebased(q, src, dest)] = t[q]
           /\ \A q \in DOMAIN t : ~ Within(src, q) /\ q # dest => q \in DOMAIN z /\ z[q] = t[q]
<1> DEFINE z == Relocate(t, src, dest)
           Moved == {Rebased(s, src, dest) : s \in Below(t, src)}
<1>1. /\ z = [q \in DOMAIN z |-> z[q]]
      /\ DOMAIN z = (DOMAIN t \ Below(t, src)) \union Moved
      /\ \A q \in DOMAIN z : z[q] = IF Within(dest, q) THEN t[Rebased(q, dest, src)] ELSE t[q]
  BY DEF Relocate
<1> HIDE DEF z
<1>2. DOMAIN t \subseteq Seq(N) /\ \A q \in DOMAIN t : q \in Below(t, src) <=> Within(src, q)
  BY DEF Tree, Below
<1>3. ASSUME NEW s \in Below(t, src)
      PROVE  /\ Rebased(s, src, dest) \in DOMAIN z /\ z[Rebased(s, src, dest)] = t[s]
             /\ Rebased(s, src, dest) \in Seq(N) /\ Within(dest, Rebased(s, src, dest))
  <2>1. s \in Seq(N) /\ Within(src, s)
    BY <1>2 DEF Below
  <2>2. Rebased(s, src, dest) \in Seq(N) /\ Within(dest, Rebased(s, src, dest))
    BY <2>1, RebasedOf
  <2>3. Rebased(Rebased(s, src, dest), dest, src) = s
    BY <2>1, RebasedBack
  <2> QED
    BY <1>1, <2>2, <2>3
<1>4. \A q \in DOMAIN t : Within(dest, q) => q = dest
  BY NothingBelow
<1>5. \A q \in DOMAIN t : ~ Within(src, q) /\ q # dest => q \in DOMAIN z /\ z[q] = t[q]
  BY <1>1, <1>2, <1>4
<1>6. \A q \in DOMAIN t : t[q] = Dir => q # dest
  BY DEF IsDir, Exists
<1>7. ASSUME NEW q \in DOMAIN z, q # << >> PROVE Parent(q) \in DOMAIN z /\ z[Parent(q)] = Dir
  <2>1. ASSUME NEW s \in Below(t, src), q = Rebased(s, src, dest)
        PROVE  Parent(q) \in DOMAIN z /\ z[Parent(q)] = Dir
    <3>1. s \in DOMAIN t /\ s \in Seq(N) /\ Within(src, s)
      BY <1>2 DEF Below
    <3>2. CASE s = src
      <4>1. Rebased(src, src, dest) = dest
        <5>1. Len(Rebased(src, src, dest)) = Len(dest) + (Len(src) - Len(src))
          BY WithinItself, RebasedOf
        <5>2. Rebased(src, src, dest) \in Seq(N) /\ Within(dest, Rebased(src, src, dest))
          BY WithinItself, RebasedOf
        <5>3. Len(Rebased(src, src, dest)) = Len(dest)
          BY <5>1, LenProperties
        <5> QED
          BY <5>2, <5>3, WithinSame
      <4>2. Parent(dest) \in DOMAIN t /\ t[Parent(dest)] = Dir
        BY DEF IsDir, Exists
      <4>3. ~ Within(src, Parent(dest))
        BY WithinParent
      <4> QED
        BY <1>5, <1>6, <2>1, <3>2, <4>1, <4>2, <4>3
    <3>3. CASE s # src
      <4>1. /\ s # << >> /\ Within(src, Parent(s))
            /\ Parent(q) = Rebased(Parent(s), src, dest)
        BY <2>1, <3>1, <3>3, RebasedParent
      <4>2. Parent(s) \in Below(t, src) /\ t[Parent(s)] = Dir
        BY <3>1, <4>1 DEF Tree, WellFormed, IsDir, Exists, Below
      <4> QED
        BY <1>3, <4>1, <4>2
    <3> QED
      BY <3>2, <3>3
  <2>2. ASSUME q \in DOMAIN t \ Below(t, src)
        PROVE  Parent(q) \in DOMAIN z /\ z[Parent(q)] = Dir
    <3>1. q \in Seq(N) /\ ~ Within(src, q) /\ Parent(q) \in DOMAIN t /\ t[Parent(q)] = Dir
      BY <1>2, <1>7, <2>2 DEF Tree, WellFormed, IsDir, Exists
    <3>2. ~ Within(src, Parent(q))
      BY <1>7, <3>1, WithinParent
    <3> QED
      BY <1>5, <1>6, <3>1, <3>2
  <2> QED
    BY <1>1, <2>1, <2>2
<1>8. << >> \in DOMAIN z /\ z[<< >>] = Dir
  <2>1. << >> \in DOMAIN t /\ t[<< >>] = Dir
    BY DEF Tree, WellFormed, IsDir, Exists
  <2>2. Len(src) \in Nat /\ Len(src) # 0 /\ Len(<< >>) = 0
    <3>1. Len(src) \in Nat /\ Len(dest) \in Nat
      BY LenProperties
    <3> QED
      BY <3>1, EmptySeq DEF Within
  <2>3. ~ Within(src, << >>)
    BY <2>2 DEF Within
  <2> QED
    BY <1>5, <1>6, <2>1, <2>3
<1>9. DOMAIN z \subseteq Seq(N)
  BY <1>1, <1>2, <1>3
<1>10. Tree(z, N)
  BY <1>1, <1>7, <1>8, <1>9 DEF Tree, WellFormed, IsDir, Exists
<1> QED
  BY <1>3, <1>5, <1>10 DEF z

\* move_path: the tree stays a tree, what is below the source comes to the
\* destination, or into it when it has become a directory, and of all other
\* entries only a file in that place is lost.
THEOREM MoveKeepsAll ==
    ASSUME NEW N, NEW earlier, NEW now, Tree(now, N),
           NEW src \in Seq(N), src # << >>, NEW dst \in Seq(N), dst # << >>
    PROVE  LET t == MovePath(earlier, now, src, dst) IN
           /\ Tree(t, N)
           /\ \/ t = now
              \/ \E dest \in {dst, Append(dst, src[Len(src)])} :
                  /\ ~ IsDir(now, dest)
                  /\ \A q \in Below(now, src) :
                       Rebased(q, src, dest) \in DOMAIN t /\ t[Rebased(q, src, dest)] = now[q]
                  /\ \A q \in DOMAIN now :
                       ~ Within(src, q) /\ q # dest => q \in DOMAIN t /\ t[q] = now[q]
<1> DEFINE t == MovePath(earlier, now, src, dst)
           dest == IF IsDir(now, dst) THEN Append(dst, src[Len(src)]) ELSE dst
<1>1. CASE t = now
  BY <1>1
<1>2. CASE t # now
  <2>1. src[Len(src)] \in N
    BY EmptySeq, LenProperties
  <2>2. /\ Append(dst, src[Len(src)]) \in Seq(N) /\ Append(dst, src[Len(src)]) # << >>
    BY <2>1, AppendProperties
  <2>3. /\ Exists(now, src) /\ ~ Within(src, dest) /\ ~ IsDir(now, dest)
        /\ dest \in Seq(N) /\ dest # << >> /\ dest \in {dst, Append(dst, src[Len(src)])}
    <3>1. Exists(now, src) /\ ~ Within(src, dest) /\ ~ (IsDir(now, dst) /\ Exists(now, dest))
      BY <1>2 DEF MovePath, Rename
    <3> QED
      BY <2>2, <3>1 DEF IsDir
  <2>4. \/ IsDir(now, Parent(dest)) /\ t = Relocate(now, src, dest)
        \/ /\ ~ Exists(now, dest) /\ \A q \in Ancestors(dest) : ~ IsFile(now, q)
           /\ t = Relocate(MkDir(now, Parent(dest)), src, dest)
    BY <1>2 DEF MovePath, Rename
  <2> HIDE DEF t, dest
  <2>5. ASSUME IsDir(now, Parent(dest)), t = Relocate(now, src, dest)
        PROVE  /\ Tree(t, N)
               /\ \A q \in Below(now, src) :
                    Rebased(q, src, dest) \in DOMAIN t /\ t[Rebased(q, src, dest)] = now[q]
               /\ \A q \in DOMAIN now :
                    ~ Within(src, q) /\ q # dest => q \in DOMAIN t /\ t[q] = now[q]
    <3>1. /\ Tree(Relocate(now, src, dest), N)
          /\ \A q \in Below(now, src) :
               /\ Rebased(q, src, dest) \in DOMAIN Relocate(now, src, dest)
               /\ Relocate(now, src, dest)[Rebased(q, src, dest)] = now[q]
          /\ \A q \in DOMAIN now : ~ Within(src, q) /\ q # dest =>
               q \in DOMAIN Relocate(now, src, dest) /\ Relocate(now, src, dest)[q] = now[q]
      BY <2>3, <2>5, RelocateKeeps
    <3> QED
      BY <2>3, <2>5, <3>1
  <2>6. ASSUME ~ Exists(now, dest), \A q \in Ancestors(dest) : ~ IsFile(now, q),
               t = Relocate(MkDir(now, Parent(dest)), src, dest)
        PROVE  /\ Tree(t, N)
               /\ \A q \in Below(now, src) :
                    Rebased(q, src, dest) \in DOMAIN t /\ t[Rebased(q, src, dest)] = now[q]
               /\ \A q \in DOMAIN now :
                    ~ Within(src, q) /\ q # dest => q \in DOMAIN t /\ t[q] = now[q]
    <3> DEFINE made == MkDir(now, Parent(dest))
    <3>1. Parent(dest) \in Seq(N)
      BY <2>3, ParentOf
    <3>2. Ancestors(Parent(dest)) \subseteq Ancestors(dest) /\ dest \notin Ancestors(Parent(dest))
      BY <2>3, AncestorsOfParent
    <3>3. /\ Tree(made, N)
          /\ \A q \in DOMAIN now : q \in DOMAIN made /\ made[q] = now[q]
          /\ \A q \in DOMAIN made \ DOMAIN now : q \in Ancestors(Parent(dest))
          /\ IsDir(made, Parent(dest))
      BY <2>6, <3>1, <3>2, MkDirKeepsAll
    <3>4. t = Relocate(made, src, dest)
      BY <2>6
    <3> HIDE DEF made
    <3>5. Exists(made, src) /\ ~ IsDir(made, dest)
      BY <2>3, <2>6, <3>2, <3>3 DEF Exists, IsDir
    <3>6. /\ Tree(t, N)
          /\ \A q \in Below(made, src) :
               Rebased(q, src, dest) \in DOMAIN t /\ t[Rebased(q, src, dest)] = made[q]
          /\ \A q \in DOMAIN made : ~ Within(src, q) /\ q # dest => q \in DOMAIN t /\ t[q] = made[q]
      BY <2>3, <3>3, <3>4, <3>5, RelocateKeeps
    <3>7. \A q \in Below(now, src) : q \in Below(made, src) /\ made[q] = now[q]
      BY <3>3 DEF Below
    <3> QED
      BY <2>3, <3>3, <3>6, <3>7
  <2> QED
    BY <2>3, <2>4, <2>5, <2>6 DEF t
<1> QED
  BY <1>1, <1>2
==============================================================================
