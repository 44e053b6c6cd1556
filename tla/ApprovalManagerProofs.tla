----------------------- MODULE ApprovalManagerProofs -----------------------
(***************************************************************************)
(* Theorems about ApprovalManager, for every set of actions and threads.   *)
(* TypeOK and EveryRunApproved hold of every deployment.  The others need  *)
(* what the terminal and the Qt main thread provide: decisions and the     *)
(* shutdown sequence share one thread (OneDecider).                        *)
(***************************************************************************)
EXTENDS ApprovalManager, TLAPS

OneDecider == \A d, e \in DecisionThreads \cup ShutdownThreads : d = e

\* What only the one decider can end: a row nobody has decided on yet.
Undecided(a) == status[a] \in {"pending", "expired"}

\* A decision the decider has committed itself to is about an undecided row.
DecisionsFresh ==
    /\ \A t \in Threads : step[t] \in {"approve", "reject"} => Undecided(target[t])
    /\ \A t \in Threads : \A a \in listed[t] :
          step[t] = "cancel" /\ t \in ShutdownThreads /\ Undecided(a)

\* A consumer past its check holds a row that was approved.
ConsumersApproved ==
    \A t \in Threads : step[t] \in {"take", "fail"} =>
        status[target[t]] \in {"approved", "executed", "failed"}

\* What was refused stays rejected, and what was consumed stays consumed.
OutcomesFinal ==
    /\ \A a \in refused : status[a] = "rejected"
    /\ \A a \in Actions : runs[a] = 0 \/ (runs[a] = 1 /\ status[a] \in {"executed", "failed"})

DeciderInv == DecisionsFresh /\ ConsumersApproved /\ OutcomesFinal

------------------------------------------------------------------------------
USE ApprovalAssumption DEF Threads

\* The initial state and every step keep the variables' types: a thread is in
\* a call that its role may make, on an action that exists.
THEOREM TypeCorrect == Spec => []TypeOK
<1>1. Init => TypeOK
  BY DEF Init, TypeOK, Statuses, Steps
<1>2. TypeOK /\ [Next]_vars => TypeOK'
  <2> SUFFICES ASSUME TypeOK, [Next]_vars PROVE TypeOK'
    OBVIOUS
  <2> USE DEF TypeOK, Statuses, Steps, store, calls, past, Goto, Leave, UpdateStatus
  <2>1. ASSUME NEW t \in Threads, Get(t) PROVE TypeOK'
    BY <2>1 DEF Get, AfterExpiry
  <2>2. ASSUME NEW t \in Threads, BeginCancelAll(t) PROVE TypeOK'
    BY <2>2 DEF BeginCancelAll, Pending
  <2>3. ASSUME NEW t \in Threads, Continue(t) PROVE TypeOK'
    <3>1. CASE ReadForDecision(t)
      BY <3>1 DEF ReadForDecision
    <3>2. CASE WriteApproved(t)
      BY <3>2 DEF WriteApproved
    <3>3. CASE WriteRejected(t)
      BY <3>3 DEF WriteRejected
    <3>4. CASE ReadForConsume(t)
      BY <3>4 DEF ReadForConsume
    <3>5. CASE WriteFailed(t)
      BY <3>5 DEF WriteFailed
    <3>6. CASE Consume(t)
      BY <3>6 DEF Consume
    <3>7. ASSUME NEW a \in Actions, CancelOne(t, a) PROVE TypeOK'
      BY <3>7 DEF CancelOne, Advance
    <3> QED
      BY <2>3, <3>1, <3>2, <3>3, <3>4, <3>5, <3>6, <3>7 DEF Continue
  <2>4. ASSUME NEW t \in Threads, DatabaseError(t) PROVE TypeOK'
    BY <2>4 DEF DatabaseError, Advance
  <2>5. ASSUME NEW t \in Threads, NEW a \in Actions, Create(t, a) PROVE TypeOK'
    BY <2>5 DEF Create, Insert
  <2>6. ASSUME NEW t \in Threads, NEW a \in Actions, BeginConsume(t, a) PROVE TypeOK'
    BY <2>6 DEF BeginConsume, AfterExpiry
  <2>7. ASSUME NEW t \in Threads, NEW a \in Actions, NEW w \in {"approve", "reject"},
               BeginDecision(t, a, w)
        PROVE  TypeOK'
    BY <2>7 DEF BeginDecision, AfterExpiry
  <2>8. ASSUME NEW a \in Actions, Lapse(a) PROVE TypeOK'
    BY <2>8 DEF Lapse
  <2>9. CASE Restart
    BY <2>9 DEF Restart
  <2>10. CASE UNCHANGED vars
    BY <2>10 DEF vars
  <2> QED
    BY <2>1, <2>2, <2>3, <2>4, <2>5, <2>6, <2>7, <2>8, <2>9, <2>10 DEF Next
<1> QED
  BY <1>1, <1>2, PTL DEF Spec

------------------------------------------------------------------------------
\* Whatever the interleaving of consumers and deciders, the executions of an
\* action, and an approval of it still unspent, never outnumber the times it
\* was approved.  EveryRunApproved is inductive relative to the types.
THEOREM RunsApproved == Spec => []EveryRunApproved
<1>1. Init => EveryRunApproved
  <2> SUFFICES ASSUME Init, NEW a \in Actions
               PROVE  runs[a] + (IF status[a] = "approved" THEN 1 ELSE 0) <= approvals[a]
    BY DEF EveryRunApproved
  <2>1. runs[a] = 0 /\ approvals[a] = 0 /\ status[a] # "approved"
    BY DEF Init
  <2> QED
    BY <2>1
<1>2. TypeOK /\ EveryRunApproved /\ [Next]_vars => EveryRunApproved'
  <2> SUFFICES ASSUME TypeOK, EveryRunApproved, [Next]_vars, NEW a \in Actions
               PROVE  (runs[a] + (IF status[a] = "approved" THEN 1 ELSE 0) <= approvals[a])'
    BY DEF EveryRunApproved
  <2> DEFINE Bound == runs[a] + (IF status[a] = "approved" THEN 1 ELSE 0) <= approvals[a]
  <2>0. /\ runs[a] \in Nat /\ approvals[a] \in Nat
        /\ Bound
    BY DEF TypeOK, EveryRunApproved
  \* The steps that write no history and approve nothing.
  <2>1. ASSUME runs' = runs, approvals' = approvals,
               status'[a] = "approved" => status[a] = "approved"
        PROVE  Bound'
    BY <2>0, <2>1
  <2> USE DEF store, calls, past, UpdateStatus
  <2>2. ASSUME NEW t \in Threads, Get(t) \/ BeginCancelAll(t) \/ DatabaseError(t)
        PROVE  Bound'
    BY <2>1, <2>2 DEF Get, BeginCancelAll, DatabaseError, AfterExpiry
  <2>3. ASSUME NEW t \in Threads, NEW b \in Actions, NEW w \in {"approve", "reject"},
               Create(t, b) \/ BeginConsume(t, b) \/ BeginDecision(t, b, w)
        PROVE  Bound'
    BY <2>1, <2>3 DEF Create, Insert, BeginConsume, BeginDecision, AfterExpiry, TypeOK
  <2>4. ASSUME NEW t \in Threads,
               ReadForDecision(t) \/ WriteRejected(t) \/ ReadForConsume(t)
               \/ WriteFailed(t) \/ \E b \in Actions : CancelOne(t, b)
        PROVE  Bound'
    BY <2>1, <2>4
       DEF ReadForDecision, WriteRejected, ReadForConsume, WriteFailed, CancelOne, TypeOK
  <2>5. ASSUME NEW t \in Threads, WriteApproved(t)
        PROVE  Bound'
    BY <2>0, <2>5 DEF WriteApproved, TypeOK
  <2>6. ASSUME NEW t \in Threads, Consume(t)
        PROVE  Bound'
    BY <2>0, <2>6 DEF Consume, Consumable, TypeOK
  <2>7. ASSUME (\E b \in Actions : Lapse(b)) \/ Restart \/ UNCHANGED vars
        PROVE  Bound'
    BY <2>1, <2>7 DEF Lapse, Restart, vars
  <2> QED
    BY <2>2, <2>3, <2>4, <2>5, <2>6, <2>7 DEF Next, Continue
<1> QED
  BY <1>1, <1>2, TypeCorrect, PTL DEF Spec

------------------------------------------------------------------------------
\* Before any call nothing was decided.
LEMMA DeciderInvInit == Init => DeciderInv
  BY DEF Init, DeciderInv, DecisionsFresh, ConsumersApproved, OutcomesFinal

\* A step that starts no decision, and moves rows only the way expire_actions
\* does, keeps the invariant.
LEMMA DeciderInvStep ==
  ASSUME TypeOK, OneDecider, DeciderInv, [Next]_vars
  PROVE  DeciderInv'
<1> USE DEF TypeOK, DeciderInv, DecisionsFresh, ConsumersApproved, OutcomesFinal,
            Undecided, OneDecider, store, calls, past, Goto, Leave, UpdateStatus
<1>1. ASSUME NEW t \in Threads, Get(t) PROVE DeciderInv'
  BY <1>1 DEF Get, AfterExpiry
<1>2. ASSUME NEW t \in Threads, BeginCancelAll(t) PROVE DeciderInv'
  BY <1>2 DEF BeginCancelAll, Pending
<1>3. ASSUME NEW t \in Threads, DatabaseError(t) PROVE DeciderInv'
  BY <1>3 DEF DatabaseError, Advance
<1>4. ASSUME NEW t \in Threads, NEW a \in Actions, Create(t, a) PROVE DeciderInv'
  BY <1>4 DEF Create, Insert
<1>5. ASSUME NEW t \in Threads, NEW a \in Actions, BeginConsume(t, a) PROVE DeciderInv'
  BY <1>5 DEF BeginConsume, AfterExpiry
<1>6. ASSUME NEW t \in Threads, NEW a \in Actions, NEW w \in {"approve", "reject"},
             BeginDecision(t, a, w)
      PROVE  DeciderInv'
  BY <1>6 DEF BeginDecision, AfterExpiry
<1>7. ASSUME NEW t \in Threads, ReadForDecision(t) PROVE DeciderInv'
  BY <1>7 DEF ReadForDecision
<1>8. ASSUME NEW t \in Threads, WriteApproved(t) PROVE DeciderInv'
  BY <1>8 DEF WriteApproved
<1>9. ASSUME NEW t \in Threads, WriteRejected(t) PROVE DeciderInv'
  BY <1>9 DEF WriteRejected
<1>10. ASSUME NEW t \in Threads, ReadForConsume(t) PROVE DeciderInv'
  BY <1>10 DEF ReadForConsume
<1>11. ASSUME NEW t \in Threads, WriteFailed(t) PROVE DeciderInv'
  BY <1>11 DEF WriteFailed
<1>12. ASSUME NEW t \in Threads, Consume(t) PROVE DeciderInv'
  BY <1>12 DEF Consume, Consumable
<1>13. ASSUME NEW t \in Threads, NEW a \in Actions, CancelOne(t, a) PROVE DeciderInv'
  BY <1>13 DEF CancelOne, Advance
<1>14. ASSUME NEW a \in Actions, Lapse(a) PROVE DeciderInv'
  BY <1>14 DEF Lapse
<1>15. CASE Restart
  BY <1>15 DEF Restart
<1>16. CASE UNCHANGED vars
  BY <1>16 DEF vars
<1> QED
  BY <1>1, <1>2, <1>3, <1>4, <1>5, <1>6, <1>7, <1>8, <1>9, <1>10, <1>11, <1>12,
     <1>13, <1>14, <1>15, <1>16 DEF Next, Continue

\* With one decider its invariant holds in every state.
LEMMA DeciderInvariant == ASSUME OneDecider PROVE Spec => []DeciderInv
<1>1. TypeOK /\ DeciderInv /\ [Next]_vars => DeciderInv'
  BY DeciderInvStep
<1> QED
  BY <1>1, DeciderInvInit, TypeCorrect, PTL DEF Spec

\* With one deciding thread an action is consumed at most once, however many
\* agent threads present it, whatever expires, fails or restarts.
THEOREM Once == ASSUME OneDecider PROVE Spec => []ConsumedOnce
<1>1. DeciderInv => ConsumedOnce
  <2> SUFFICES ASSUME DeciderInv, NEW a \in Actions PROVE runs[a] <= 1
    BY DEF ConsumedOnce
  <2>1. runs[a] = 0 \/ runs[a] = 1
    BY DEF DeciderInv, OutcomesFinal
  <2> QED
    BY <2>1
<1> QED
  BY <1>1, DeciderInvariant, PTL

\* With one deciding thread nothing consumes an action after it was refused.
THEOREM RefusedNeverRuns == ASSUME OneDecider PROVE Spec => RejectionIsFinal
<1>1. TypeOK /\ DeciderInv /\ [Next]_vars => [\A a \in refused : runs'[a] = runs[a]]_vars
  <2> SUFFICES ASSUME TypeOK, DeciderInv, Next, NEW a \in refused PROVE runs'[a] = runs[a]
    OBVIOUS
  <2>1. status[a] = "rejected"
    BY DEF DeciderInv, OutcomesFinal
  <2>2. ASSUME NEW t \in Threads, Consume(t) PROVE runs'[a] = runs[a]
    BY <2>1, <2>2 DEF Consume, Consumable, TypeOK
  <2>3. ASSUME NEW t \in Threads,
               \/ Get(t) \/ BeginCancelAll(t) \/ DatabaseError(t)
               \/ \E b \in Actions : Create(t, b) \/ BeginConsume(t, b)
               \/ \E b \in Actions : \E w \in {"approve", "reject"} : BeginDecision(t, b, w)
        PROVE  runs'[a] = runs[a]
    BY <2>3 DEF Get, BeginCancelAll, DatabaseError, Create, BeginConsume, BeginDecision, past
  <2>4. ASSUME NEW t \in Threads,
               \/ ReadForDecision(t) \/ WriteApproved(t) \/ WriteRejected(t)
               \/ ReadForConsume(t) \/ WriteFailed(t) \/ \E b \in Actions : CancelOne(t, b)
        PROVE  runs'[a] = runs[a]
    BY <2>4 DEF ReadForDecision, WriteApproved, WriteRejected, ReadForConsume, WriteFailed,
                CancelOne, past
  <2>5. ASSUME (\E b \in Actions : Lapse(b)) \/ Restart PROVE runs'[a] = runs[a]
    BY <2>5 DEF Lapse, Restart, past
  <2> QED
    BY <2>2, <2>3, <2>4, <2>5 DEF Next, Continue
<1> QED
  BY <1>1, TypeCorrect, DeciderInvariant, PTL DEF Spec, RejectionIsFinal

------------------------------------------------------------------------------
\* Where no call can overtake another, nothing comes between a call's look at a
\* row and its write to it.
CallsUndisturbed ==
    /\ \A t \in Threads :
          /\ step[t] \in {"approve", "reject"} => status[target[t]] = "pending"
          /\ step[t] \in {"take", "fail"} => status[target[t]] = "approved"
    /\ \A t \in Threads : \A a \in listed[t] : step[t] = "cancel" /\ status[a] = "pending"

\* expire_actions is the contract's Expire, or no step when nothing is due.
LEMMA ExpiryAllowed ==
  ASSUME TypeOK, status' = AfterExpiry, runs' = runs
  PROVE  [Contract!Next]_<<status, runs>>
<1> DEFINE due == {a \in Actions : status[a] = "pending" /\ a \in lapsed}
<1>1. status' = [a \in Actions |-> IF a \in due THEN "expired" ELSE status[a]]
  BY DEF AfterExpiry
<1>2. CASE due = {}
  BY <1>1, <1>2 DEF TypeOK
<1>3. CASE due # {}
  <2>1. due \in SUBSET Actions /\ \A a \in due : status[a] = "pending"
    OBVIOUS
  <2>2. Contract!Expire(due)
    BY <1>1, <1>3, <2>1 DEF Contract!Expire
  <2> QED
    BY <2>1, <2>2 DEF Contract!Next
<1> QED
  BY <1>2, <1>3

\* One thread's calls stay undisturbed: while it is inside one, only it writes.
LEMMA UndisturbedStep ==
  ASSUME TypeOK, ~Overtaking, CallsUndisturbed, [Next]_vars
  PROVE  CallsUndisturbed'
<1> USE DEF TypeOK, CallsUndisturbed, Overtaking, store, calls, past, Goto, Leave, UpdateStatus
<1>1. ASSUME NEW t \in Threads, Get(t) PROVE CallsUndisturbed'
  BY <1>1 DEF Get, AfterExpiry
<1>2. ASSUME NEW t \in Threads, BeginCancelAll(t) PROVE CallsUndisturbed'
  BY <1>2 DEF BeginCancelAll, Pending
<1>3. ASSUME NEW t \in Threads, DatabaseError(t) PROVE CallsUndisturbed'
  BY <1>3 DEF DatabaseError, Advance
<1>4. ASSUME NEW t \in Threads, NEW a \in Actions, Create(t, a) PROVE CallsUndisturbed'
  BY <1>4 DEF Create, Insert
<1>5. ASSUME NEW t \in Threads, NEW a \in Actions, BeginConsume(t, a)
      PROVE  CallsUndisturbed'
  BY <1>5 DEF BeginConsume, AfterExpiry
<1>6. ASSUME NEW t \in Threads, NEW a \in Actions, NEW w \in {"approve", "reject"},
             BeginDecision(t, a, w)
      PROVE  CallsUndisturbed'
  BY <1>6 DEF BeginDecision, AfterExpiry
<1>7. ASSUME NEW t \in Threads,
             ReadForDecision(t) \/ WriteApproved(t) \/ WriteRejected(t)
      PROVE  CallsUndisturbed'
  BY <1>7 DEF ReadForDecision, WriteApproved, WriteRejected
<1>8. ASSUME NEW t \in Threads, ReadForConsume(t) \/ WriteFailed(t) \/ Consume(t)
      PROVE  CallsUndisturbed'
  BY <1>8 DEF ReadForConsume, WriteFailed, Consume
<1>9. ASSUME NEW t \in Threads, NEW a \in Actions, CancelOne(t, a) PROVE CallsUndisturbed'
  <2>1. status' = [status EXCEPT ![a] = "rejected"]
    BY <1>9 DEF CancelOne
  <2> QED
    BY <1>9, <2>1 DEF CancelOne, Advance
<1>10. CASE (\E a \in Actions : Lapse(a)) \/ Restart \/ UNCHANGED vars
  BY <1>10 DEF Lapse, Restart, vars
<1> QED
  BY <1>1, <1>2, <1>3, <1>4, <1>5, <1>6, <1>7, <1>8, <1>9, <1>10 DEF Next, Continue

\* With one deciding thread each step of the runtime is one the contract allows,
\* or leaves the rows alone.  What a step writes is decided by an earlier read:
\* DeciderInv says how far the row may have moved since, CallsUndisturbed that
\* it has not where nothing overtakes.
LEMMA ContractStep ==
  ASSUME TypeOK, DeciderInv, ~Overtaking => CallsUndisturbed, [Next]_vars
  PROVE  [Contract!Next]_<<status, runs>>
<1> USE DEF TypeOK, store, calls, past
<1>1. ASSUME NEW a \in Actions, NEW s \in {"approved", "rejected"},
             status[a] \in Contract!Decidable, UpdateStatus(a, s), runs' = runs
      PROVE  [Contract!Next]_<<status, runs>>
  <2>1. Contract!Decide(a)
    BY <1>1 DEF Contract!Decide, Contract!Move, UpdateStatus
  <2> QED
    BY <2>1 DEF Contract!Next
<1>2. ASSUME NEW t \in Threads, Get(t) PROVE [Contract!Next]_<<status, runs>>
  BY <1>2, ExpiryAllowed DEF Get
<1>3. ASSUME NEW t \in Threads, NEW a \in Actions, Create(t, a)
      PROVE  [Contract!Next]_<<status, runs>>
  <2>1. Contract!Request(a)
    BY <1>3 DEF Create, Insert, UpdateStatus, Contract!Request, Contract!Move
  <2> QED
    BY <2>1 DEF Contract!Next
<1>4. ASSUME NEW t \in Threads, NEW a \in Actions,
             \/ BeginConsume(t, a)
             \/ \E w \in {"approve", "reject"} : BeginDecision(t, a, w)
      PROVE  [Contract!Next]_<<status, runs>>
  BY <1>4, ExpiryAllowed DEF BeginConsume, BeginDecision
<1>5. ASSUME NEW t \in Threads, WriteApproved(t) \/ WriteRejected(t)
      PROVE  [Contract!Next]_<<status, runs>>
  <2>1. step[t] \in {"approve", "reject"} /\ target[t] \in Actions
    BY <1>5 DEF WriteApproved, WriteRejected
  <2>2. status[target[t]] \in Contract!Decidable
    BY <2>1 DEF DeciderInv, DecisionsFresh, Undecided, CallsUndisturbed, Contract!Decidable
  <2> QED
    BY <1>1, <1>5, <2>1, <2>2 DEF WriteApproved, WriteRejected
<1>6. ASSUME NEW t \in Threads, NEW a \in Actions, CancelOne(t, a)
      PROVE  [Contract!Next]_<<status, runs>>
  <2>1. a \in listed[t]
    BY <1>6 DEF CancelOne
  <2>2. status[a] \in Contract!Decidable
    BY <2>1 DEF DeciderInv, DecisionsFresh, Undecided, CallsUndisturbed, Contract!Decidable
  <2> QED
    BY <1>1, <1>6, <2>2 DEF CancelOne
<1>7. ASSUME NEW t \in Threads, WriteFailed(t) PROVE [Contract!Next]_<<status, runs>>
  <2>1. step[t] = "fail" /\ target[t] \in Actions
    BY <1>7 DEF WriteFailed
  <2>2. CASE status[target[t]] = "failed"
    BY <1>7, <2>1, <2>2 DEF WriteFailed, UpdateStatus
  <2>3. CASE status[target[t]] # "failed"
    <3>1. status[target[t]] \in Contract!Refusable
      BY <2>1, <2>3 DEF DeciderInv, ConsumersApproved, CallsUndisturbed, Contract!Refusable
    <3>2. Contract!Refuse(target[t])
      BY <1>7, <3>1 DEF WriteFailed, UpdateStatus, Contract!Refuse, Contract!Move
    <3> QED
      BY <2>1, <3>2 DEF Contract!Next
  <2> QED
    BY <2>2, <2>3
<1>8. ASSUME NEW t \in Threads, Consume(t) PROVE [Contract!Next]_<<status, runs>>
  <2>1. target[t] \in Actions
    BY <1>8 DEF Consume
  <2>2. CASE Consumable(target[t])
    <3>1. Contract!Execute(target[t])
      BY <1>8, <2>2 DEF Consume, Consumable, UpdateStatus, Contract!Execute, Contract!Move
    <3> QED
      BY <2>1, <3>1 DEF Contract!Next
  <2>3. CASE ~Consumable(target[t])
    BY <1>8, <2>3 DEF Consume
  <2> QED
    BY <2>2, <2>3
<1>9. ASSUME NEW t \in Threads,
             BeginCancelAll(t) \/ ReadForDecision(t) \/ ReadForConsume(t) \/ DatabaseError(t)
      PROVE  [Contract!Next]_<<status, runs>>
  BY <1>9 DEF BeginCancelAll, ReadForDecision, ReadForConsume, DatabaseError
<1>10. CASE (\E a \in Actions : Lapse(a)) \/ Restart \/ UNCHANGED vars
  BY <1>10 DEF Lapse, Restart, vars
<1> QED
  BY <1>2, <1>3, <1>4, <1>5, <1>6, <1>7, <1>8, <1>9, <1>10 DEF Next, Continue

\* With one deciding thread the runtime implements the contract: each of its
\* steps is one the contract allows on the same rows, or leaves them alone.  In
\* terminal mode, with one thread in all, it is the contract without the two
\* exceptions for calls that overtake one another.
THEOREM ManagerKeepsContract == ASSUME OneDecider PROVE Spec => KeepsContract
<1> DEFINE Undisturbed == ~Overtaking => CallsUndisturbed
<1>1. Init => Contract!Init /\ Undisturbed
  BY DEF Init, Contract!Init, CallsUndisturbed
<1>2. TypeOK /\ Undisturbed /\ [Next]_vars => Undisturbed'
  <2>1. CASE Overtaking
    BY <2>1 DEF Overtaking
  <2>2. CASE ~Overtaking
    BY <2>2, UndisturbedStep
  <2> QED
    BY <2>1, <2>2
<1>3. TypeOK /\ DeciderInv /\ Undisturbed /\ [Next]_vars => [Contract!Next]_<<status, runs>>
  BY ContractStep
<1>4. Contract!vars = <<status, runs>>
  BY DEF Contract!vars
<1> HIDE DEF Undisturbed
<1> QED
  BY <1>1, <1>2, <1>3, TypeCorrect, DeciderInvariant, PTL
  DEF Spec, KeepsContract, Contract!Spec, Contract!vars
==============================================================================
