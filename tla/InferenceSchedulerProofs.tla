---------------------- MODULE InferenceSchedulerProofs ----------------------
(***************************************************************************)
(* Theorems about InferenceScheduler, for every number of clients,         *)
(* stoppers, priorities and submissions.                                   *)
(***************************************************************************)
EXTENDS InferenceScheduler, FiniteSetTheorems, SequenceTheorems, TLAPS

\* The lifecycle state and the worker agree, and the poison pill is queued
\* only once nothing is accepted any more.
LifecycleInv ==
    /\ state = "CREATED" => worker = "unstarted"
    /\ worker = "exited" => state \in {"STOPPING", "STOPPED"} /\ queue = {}
    /\ state = "STOPPED" => worker = "exited"
    /\ \A j \in queue : j.priority = POISON_PILL => state = "STOPPING"

\* No two jobs have the same owner, so each pending future has one job.
OwnersInv ==
    /\ \A j, k \in queue : j.owner = k.owner => j = k
    /\ worker = "run" => ~Queued(current.owner)
    /\ \A c \in Clients : future[c] = "pending" <=> Queued(c) \/ Running(c)

\* Sequence numbers in the queue are all spent, so a new job is a new element.
CountInv ==
    /\ IsFiniteSet(queue)
    /\ \A j \in queue : j.seq < nextSeq

USE SchedulerAssumption DEF POISON_PILL

------------------------------------------------------------------------------
\* Pills and jobs differ in their priority, and the pill has no client.
LEMMA JobsAndPills ==
  /\ \A j \in Job : /\ j.priority \in Nat /\ j.priority < POISON_PILL
                    /\ j.owner \in Clients /\ j.owner # NoClient /\ j.seq \in Nat
  /\ \A j \in Pill : /\ j.priority = POISON_PILL /\ j.owner = NoClient /\ j.seq \in Nat
  /\ NoJob \notin Job
<1>1. \A p \in Priorities : p \in Nat /\ p < 999
  OBVIOUS
<1>2. ASSUME NEW j \in Job
      PROVE  /\ j.priority \in Nat /\ j.priority < 999
             /\ j.owner \in Clients /\ j.seq \in Nat
             /\ j = [priority |-> j.priority, seq |-> j.seq, owner |-> j.owner]
  <2>1. j.priority \in Priorities /\ j.owner \in Clients /\ j.seq \in Nat
    BY DEF Job
  <2>2. j = [priority |-> j.priority, seq |-> j.seq, owner |-> j.owner]
    BY DEF Job
  <2> QED
    BY <1>1, <2>1, <2>2
<1>3. NoJob \notin Job
  BY <1>2
<1>4. NoClient \notin Clients
  OBVIOUS
<1>5. \A j \in Pill : /\ j.priority = POISON_PILL /\ j.owner = NoClient /\ j.seq \in Nat
  BY DEF Pill
<1> QED
  BY <1>2, <1>3, <1>4, <1>5

\* A submission adds one new element to a finite queue, and the depth it reads
\* is a natural number no larger than the queue.
LEMMA SubmitQueue ==
  ASSUME TypeOK, CountInv, NEW c \in Clients, NEW p \in Priorities, Submit(c, p)
  PROVE  /\ IsFiniteSet(queue') /\ Cardinality(queue') = Cardinality(queue) + 1
         /\ Cardinality(queue) \in Nat
         /\ depth' \in Nat
         /\ depth' <= depth \/ depth' <= Cardinality(queue')
<1> DEFINE new == [priority |-> p, seq |-> nextSeq, owner |-> c]
<1>1. queue' = queue \cup {new} /\ new \notin queue
  BY DEF Submit, CountInv, TypeOK
<1>2. /\ IsFiniteSet(queue') /\ Cardinality(queue') = Cardinality(queue) + 1
      /\ Cardinality(queue) \in Nat
  BY <1>1, FS_AddElement, FS_CardinalityType DEF CountInv
<1>3. PICK taken \in {0, 1} : depth' = IF Cardinality(queue') - taken > depth
                                      THEN Cardinality(queue') - taken ELSE depth
  BY DEF Submit
<1>4. Cardinality(queue') - taken \in Nat /\ Cardinality(queue') - taken <= Cardinality(queue')
  BY <1>2
<1> QED
  BY <1>2, <1>3, <1>4 DEF TypeOK

\* The initial state has its types.
LEMMA TypeInit == Init => TypeOK
  BY DEF Init, TypeOK, WorkerSteps

\* Every step keeps the types.
LEMMA TypeStep == ASSUME TypeOK, LifecycleInv, CountInv, [Next]_vars PROVE TypeOK'
<1> USE JobsAndPills DEF TypeOK, WorkerSteps, lifecycle, metrics, Resolve
<1>1. CASE Start
  BY <1>1 DEF Start, LifecycleInv
<1>2. CASE Take
  <2> PICK j \in queue : /\ queue' = queue \ {j}
                         /\ IF j.priority = POISON_PILL
                            THEN worker' = "exited" /\ UNCHANGED current
                            ELSE worker' = "run" /\ current' = j
    BY <1>2 DEF Take
  <2>1. CASE j.priority = POISON_PILL
    BY <1>2, <2>1 DEF Take
  <2>2. CASE j.priority # POISON_PILL
    BY <1>2, <2>2 DEF Take
  <2> QED
    BY <2>1, <2>2
<1>3. CASE Succeed
  BY <1>3 DEF Succeed
<1>4. CASE Fail
  BY <1>4 DEF Fail
<1>5. CASE Count
  BY <1>5 DEF Count
<1>6. ASSUME NEW c \in Clients, Return(c) PROVE TypeOK'
  BY <1>6 DEF Return
<1>8. ASSUME NEW t \in Stoppers, Shutdown(t) PROVE TypeOK'
  BY <1>8 DEF Shutdown, Pill
<1>9. ASSUME NEW t \in Stoppers, Joined(t) \/ JoinRaises(t) PROVE TypeOK'
  BY <1>9 DEF Joined, JoinRaises
<1>10. CASE UNCHANGED vars
  BY <1>10 DEF vars
<1>7. ASSUME NEW c \in Clients, NEW p \in Priorities, Submit(c, p) PROVE TypeOK'
  BY <1>7, SubmitQueue DEF Submit, Job
<1> QED
  BY <1>1, <1>2, <1>3, <1>4, <1>5, <1>6, <1>7, <1>8, <1>9, <1>10 DEF Next, Work

------------------------------------------------------------------------------
\* Every step keeps the queue finite and its sequence numbers spent.
LEMMA CountStep == ASSUME TypeOK, CountInv, [Next]_vars PROVE CountInv'
<1> USE DEF CountInv
<1>1. ASSUME NEW c \in Clients, NEW p \in Priorities, Submit(c, p) PROVE CountInv'
  <2>1. IsFiniteSet(queue')
    BY <1>1, SubmitQueue
  <2>2. nextSeq \in Nat /\ nextSeq' = nextSeq + 1 /\ \A j \in queue : j.seq \in Nat
    BY <1>1, JobsAndPills DEF Submit, TypeOK
  <2>3. \A j \in queue' : j \in queue \/ j.seq = nextSeq
    BY <1>1 DEF Submit
  <2> QED
    BY <2>1, <2>2, <2>3
<1>2. ASSUME NEW t \in Stoppers, Shutdown(t) PROVE CountInv'
  <2> DEFINE pill == [priority |-> POISON_PILL, seq |-> nextSeq, owner |-> NoClient]
  <2>1. queue' = queue \cup {pill} /\ nextSeq' = nextSeq + 1 /\ nextSeq \in Nat
    BY <1>2 DEF Shutdown, TypeOK
  <2> HIDE DEF pill
  <2>2. IsFiniteSet(queue')
    BY <2>1, FS_AddElement
  <2> USE DEF pill
  <2>3. \A j \in queue : j.seq \in Nat
    BY JobsAndPills DEF TypeOK
  <2> QED
    BY <2>1, <2>2, <2>3
<1>3. CASE Take
  BY <1>3, FS_RemoveElement DEF Take
<1>4. CASE Start \/ Succeed \/ Fail \/ Count \/ UNCHANGED vars
  BY <1>4 DEF Start, Succeed, Fail, Count, vars
<1>5. ASSUME NEW c \in Clients, Return(c) PROVE CountInv'
  BY <1>5 DEF Return
<1>6. ASSUME NEW t \in Stoppers, Joined(t) \/ JoinRaises(t) PROVE CountInv'
  BY <1>6 DEF Joined, JoinRaises
<1> QED
  BY <1>1, <1>2, <1>3, <1>4, <1>5, <1>6 DEF Next, Work

\* Taking the poison pill empties the queue: everything else comes before it,
\* and there is only one.
LEMMA PillIsLast ==
  ASSUME TypeOK, OwnersInv, NEW j \in queue, Least(j), j.priority = POISON_PILL
  PROVE  queue \ {j} = {}
<1> SUFFICES ASSUME NEW k \in queue PROVE k = j
  OBVIOUS
<1>1. ~(k.priority < POISON_PILL)
  BY DEF Least, Before
<1>2. k \in Pill /\ j \in Pill
  BY <1>1, JobsAndPills DEF TypeOK
<1> QED
  BY <1>2, JobsAndPills DEF OwnersInv

\* Every step keeps the state and the worker in agreement.
LEMMA LifecycleStep ==
  ASSUME TypeOK, LifecycleInv, OwnersInv, [Next]_vars
  PROVE  LifecycleInv'
<1> USE DEF LifecycleInv, lifecycle
<1>1. CASE Take
  <2> PICK j \in queue : /\ Least(j) /\ queue' = queue \ {j}
                         /\ IF j.priority = POISON_PILL
                            THEN worker' = "exited" /\ UNCHANGED current
                            ELSE worker' = "run" /\ current' = j
    BY <1>1 DEF Take
  <2>1. CASE j.priority = POISON_PILL
    BY <1>1, <2>1, PillIsLast DEF Take
  <2>2. CASE j.priority # POISON_PILL
    BY <1>1, <2>2 DEF Take
  <2> QED
    BY <2>1, <2>2
<1>2. CASE Start
  BY <1>2 DEF Start
<1>3. CASE Succeed \/ Fail \/ Count
  BY <1>3 DEF Succeed, Fail, Count
<1>4. ASSUME NEW c \in Clients, Return(c) PROVE LifecycleInv'
  BY <1>4 DEF Return
<1>5. ASSUME NEW c \in Clients, NEW p \in Priorities, Submit(c, p) PROVE LifecycleInv'
  BY <1>5 DEF Submit
<1>6. ASSUME NEW t \in Stoppers, Shutdown(t) PROVE LifecycleInv'
  BY <1>6 DEF Shutdown
<1>7. ASSUME NEW t \in Stoppers, Joined(t) PROVE LifecycleInv'
  BY <1>7 DEF Joined
<1>8. ASSUME NEW t \in Stoppers, JoinRaises(t) PROVE LifecycleInv'
  BY <1>8 DEF JoinRaises
<1>9. CASE UNCHANGED vars
  BY <1>9 DEF vars
<1> QED
  BY <1>1, <1>2, <1>3, <1>4, <1>5, <1>6, <1>7, <1>8, <1>9 DEF Next, Work

\* Every step keeps one job for each pending future.
LEMMA OwnersStep ==
  ASSUME TypeOK, LifecycleInv, OwnersInv, [Next]_vars
  PROVE  OwnersInv'
<1> USE JobsAndPills DEF OwnersInv, Queued, Running, TypeOK, lifecycle, Resolve
<1>1. CASE Take
  <2> PICK j \in queue : /\ Least(j) /\ queue' = queue \ {j}
                         /\ IF j.priority = POISON_PILL
                            THEN worker' = "exited" /\ UNCHANGED current
                            ELSE worker' = "run" /\ current' = j
    BY <1>1 DEF Take
  <2>0. worker = "get" /\ future' = future
    BY <1>1 DEF Take
  <2>1. CASE j.priority = POISON_PILL
    <3>1. j.owner = NoClient
      BY <2>1
    <3> QED
      BY <2>0, <2>1, <3>1
  <2>2. CASE j.priority # POISON_PILL
    BY <2>0, <2>2
  <2> QED
    BY <2>1, <2>2
<1>2. CASE Start
  BY <1>2 DEF Start, LifecycleInv
<1>3. CASE Succeed
  <2>1. current.owner \in Clients /\ worker = "run" /\ worker' = "succeeded"
    BY <1>3 DEF Succeed
  <2>2. future' = [future EXCEPT ![current.owner] = "result"] /\ UNCHANGED <<queue, current>>
    BY <1>3 DEF Succeed
  <2> QED
    BY <2>1, <2>2
<1>4. CASE Fail
  <2>1. current.owner \in Clients /\ worker = "run"
    BY <1>4 DEF Fail
  <2> QED
    BY <1>4, <2>1 DEF Fail
<1>5. CASE Count
  BY <1>5 DEF Count
<1>6. ASSUME NEW c \in Clients, Return(c) PROVE OwnersInv'
  BY <1>6 DEF Return
<1>7. ASSUME NEW c \in Clients, NEW p \in Priorities, Submit(c, p) PROVE OwnersInv'
  <2> DEFINE new == [priority |-> p, seq |-> nextSeq, owner |-> c]
  <2>1. queue' = queue \cup {new} /\ new.owner = c
    BY <1>7 DEF Submit
  <2> HIDE DEF new
  <2>2. ~Queued(c) /\ ~Running(c) /\ worker' = worker /\ current' = current
    BY <1>7 DEF Submit
  <2>3. \A d \in Clients : Queued(d)' <=> Queued(d) \/ d = c
    BY <2>1
  <2>4. future' = [future EXCEPT ![c] = "pending"]
    BY <1>7 DEF Submit
  <2>5. \A d \in Clients : future'[d] = "pending" <=> (Queued(d) \/ Running(d))'
    BY <2>2, <2>3, <2>4
  <2>6. \A j, k \in queue' : j.owner = k.owner => j = k
    BY <2>1, <2>2
  <2>7. worker' = "run" => ~Queued(current.owner)'
    BY <2>1, <2>2
  <2> QED
    BY <2>5, <2>6, <2>7
<1>8. ASSUME NEW t \in Stoppers, Shutdown(t) PROVE OwnersInv'
  BY <1>8 DEF Shutdown, LifecycleInv
<1>9. ASSUME NEW t \in Stoppers, Joined(t) \/ JoinRaises(t) PROVE OwnersInv'
  BY <1>9 DEF Joined, JoinRaises
<1>10. CASE UNCHANGED vars
  BY <1>10 DEF vars
<1> QED
  BY <1>1, <1>2, <1>3, <1>4, <1>5, <1>6, <1>7, <1>8, <1>9, <1>10 DEF Next, Work

------------------------------------------------------------------------------
SchedulerInv == TypeOK /\ LifecycleInv /\ OwnersInv /\ CountInv

\* The invariant holds in every state.
LEMMA SchedulerInvariant == Spec => []SchedulerInv
<1>1. Init => SchedulerInv
  <2>1. Init => LifecycleInv /\ CountInv
    BY FS_EmptySet DEF Init, LifecycleInv, CountInv
  <2>2. Init => OwnersInv
    BY DEF Init, OwnersInv, Queued, Running
  <2> QED
    BY <2>1, <2>2, TypeInit DEF SchedulerInv
<1>2. SchedulerInv /\ [Next]_vars => SchedulerInv'
  BY TypeStep, CountStep, LifecycleStep, OwnersStep DEF SchedulerInv
<1> QED
  BY <1>1, <1>2, PTL DEF Spec

\* Every variable keeps its type.
THEOREM TypeCorrect == Spec => []TypeOK
<1>1. SchedulerInv => TypeOK
  BY DEF SchedulerInv
<1> QED
  BY <1>1, SchedulerInvariant, PTL

\* A request is pending exactly while its job is queued or running, and when
\* the worker has exited, or shutdown() has returned from its join, nothing is
\* left: no accepted request is dropped, however shutdown, failing operations
\* and submissions interleave.
THEOREM NothingLost == Spec => []NoJobLost
<1>1. SchedulerInv => NoJobLost
  BY DEF SchedulerInv, LifecycleInv, OwnersInv, NoJobLost
<1> QED
  BY <1>1, SchedulerInvariant, PTL

------------------------------------------------------------------------------
InHand == IF current = NoJob THEN 0 ELSE 1
Waiting == Cardinality(queue \cap Job)

\* The jobs that wait can be counted.
LEMMA WaitingNat == SchedulerInv => IsFiniteSet(queue \cap Job) /\ Waiting \in Nat
  BY FS_Subset, FS_CardinalityType DEF SchedulerInv, CountInv, Waiting

\* Every step keeps the counters exact.
LEMMA MetricsStep ==
  ASSUME SchedulerInv, MetricsAddUp, [Next]_vars
  PROVE  MetricsAddUp'
<1> DEFINE Sum == submitted = completed + Waiting + InHand
           Bounds == failed <= completed /\ depth <= submitted
<1>0. /\ Sum /\ Bounds /\ Waiting \in Nat /\ IsFiniteSet(queue \cap Job) /\ InHand \in {0, 1}
      /\ submitted \in Nat /\ completed \in Nat /\ failed \in Nat /\ depth \in Nat
  BY WaitingNat DEF MetricsAddUp, Waiting, InHand, SchedulerInv, TypeOK
<1> SUFFICES Sum' /\ Bounds'
  BY DEF MetricsAddUp, Waiting, InHand
\* The steps that leave counters and jobs alone.
<1>1. ASSUME UNCHANGED metrics, InHand' = InHand, queue' \cap Job = queue \cap Job
      PROVE  Sum' /\ Bounds'
  BY <1>0, <1>1 DEF metrics, Waiting
<1>2. CASE Take
  <2> PICK j \in queue : /\ queue' = queue \ {j} /\ UNCHANGED metrics /\ worker = "get"
                         /\ IF j.priority = POISON_PILL
                            THEN worker' = "exited" /\ UNCHANGED current
                            ELSE worker' = "run" /\ current' = j
    BY <1>2 DEF Take
  <2>1. CASE j.priority = POISON_PILL
    <3>1. queue' \cap Job = queue \cap Job
      BY <2>1, JobsAndPills
    <3> QED
      BY <1>1, <2>1, <3>1 DEF InHand
  <2>2. CASE j.priority # POISON_PILL
    <3>1. j \in Job /\ j # NoJob /\ current = NoJob
      BY <2>2, JobsAndPills DEF SchedulerInv, TypeOK
    <3>2. queue' \cap Job = (queue \cap Job) \ {j}
      OBVIOUS
    <3>a. j \in queue \cap Job
      BY <3>1
    <3>3. Waiting' = Waiting - 1
      BY ONLY <1>0, <3>a, <3>2, FS_RemoveElement DEF Waiting
    <3>4. InHand = 0 /\ InHand' = 1
      BY <2>2, <3>1 DEF InHand
    <3> QED
      BY <1>0, <3>3, <3>4 DEF metrics
  <2> QED
    BY <2>1, <2>2
<1>3. ASSUME NEW c \in Clients, NEW p \in Priorities, Submit(c, p) PROVE Sum' /\ Bounds'
  <2> DEFINE new == [priority |-> p, seq |-> nextSeq, owner |-> c]
  <2>1. new \in Job /\ new \notin queue /\ queue' = queue \cup {new}
    BY <1>3 DEF Submit, Job, SchedulerInv, TypeOK, CountInv
  <2> HIDE DEF new
  <2>2. queue' \cap Job = (queue \cap Job) \cup {new} /\ new \notin queue \cap Job
    BY <2>1
  <2>3. Waiting' = Waiting + 1
    BY <1>0, <2>2, FS_AddElement DEF Waiting
  <2>4. queue \cap Job = queue
    BY <1>3, JobsAndPills DEF Submit, SchedulerInv, TypeOK, LifecycleInv
  <2>5. Cardinality(queue') = Waiting + 1 /\ (depth' <= depth \/ depth' <= Waiting + 1)
        /\ depth' \in Nat
    BY <1>3, <2>4, SubmitQueue DEF SchedulerInv, Waiting
  <2>6. /\ submitted' = submitted + 1 /\ completed' = completed /\ failed' = failed
        /\ InHand' = InHand
    BY <1>3 DEF Submit, InHand
  <2> QED
    BY <1>0, <2>3, <2>5, <2>6
<1>4. CASE Count
  <2>1. current # NoJob /\ current' = NoJob /\ Waiting' = Waiting
    BY <1>4 DEF Count, Waiting, SchedulerInv, TypeOK
  <2>2. InHand = 1 /\ InHand' = 0
    BY <2>1 DEF InHand
  <2>3. /\ completed' = completed + 1 /\ failed' \in {failed, failed + 1}
        /\ submitted' = submitted /\ depth' = depth
    BY <1>4 DEF Count
  <2> QED
    BY <1>0, <2>1, <2>2, <2>3
<1>5. ASSUME NEW t \in Stoppers, Shutdown(t) PROVE Sum' /\ Bounds'
  <2>1. queue' \cap Job = queue \cap Job
    BY <1>5, JobsAndPills DEF Shutdown
  <2> QED
    BY <1>1, <1>5, <2>1 DEF Shutdown, InHand
<1>6. CASE Start \/ Succeed \/ Fail \/ UNCHANGED vars
  BY <1>1, <1>6 DEF Start, Succeed, Fail, vars, InHand
<1>7. ASSUME NEW c \in Clients, Return(c) PROVE Sum' /\ Bounds'
  BY <1>1, <1>7 DEF Return, InHand
<1>8. ASSUME NEW t \in Stoppers, Joined(t) \/ JoinRaises(t) PROVE Sum' /\ Bounds'
  BY <1>1, <1>8 DEF Joined, JoinRaises, InHand
<1> QED
  BY <1>2, <1>3, <1>4, <1>5, <1>6, <1>7, <1>8 DEF Next, Work

\* The metrics account for every submission at every moment, for any number of
\* clients: nothing is counted twice or forgotten, also when operations fail.
THEOREM MetricsExact == Spec => []MetricsAddUp
<1>1. Init => MetricsAddUp
  <2>1. Init => queue \cap Job = {} /\ current = NoJob
    BY DEF Init
  <2> QED
    BY <2>1, FS_EmptySet DEF Init, MetricsAddUp
<1>2. SchedulerInv /\ MetricsAddUp /\ [Next]_vars => MetricsAddUp'
  BY MetricsStep
<1> QED
  BY <1>1, <1>2, SchedulerInvariant, PTL DEF Spec
------------------------------------------------------------------------------
(***************************************************************************)
(* The refinement of PriorityService.                                      *)
(***************************************************************************)
\* Finitely many jobs of which no two have the same sequence number.
Numbered(jobs) ==
    /\ IsFiniteSet(jobs)
    /\ \A j \in jobs : j.seq \in Nat /\ j.owner \in Clients
    /\ \A j, k \in jobs : j.seq = k.seq => j = k

\* Each job has a place of its own in the line, and each place a job.
LEMMA Places ==
    ASSUME NEW jobs, Numbered(jobs)
    PROVE  /\ Cardinality(jobs) \in Nat
           /\ \A j \in jobs : Place(jobs, j) \in 1 .. Cardinality(jobs)
           /\ \A j, k \in jobs : Place(jobs, j) = Place(jobs, k) => j = k
           /\ \A i \in 1 .. Cardinality(jobs) : \E j \in jobs : Place(jobs, j) = i
<1> DEFINE n == Cardinality(jobs)
           UpTo(j) == {k \in jobs : k.seq <= j.seq}
<1>1. n \in Nat
  BY FS_CardinalityType DEF Numbered
<1>2. ASSUME NEW j \in jobs
      PROVE  IsFiniteSet(UpTo(j)) /\ Place(jobs, j) = Cardinality(UpTo(j)) /\ Place(jobs, j) \in 1 .. n
  <2>1. /\ IsFiniteSet(UpTo(j)) /\ Cardinality(UpTo(j)) <= n /\ Cardinality(UpTo(j)) \in Nat
    BY FS_Subset, FS_CardinalityType DEF Numbered
  <2>2. j \in UpTo(j)
    BY DEF Numbered
  <2>3. Cardinality(UpTo(j)) # 0
    BY <2>1, <2>2, FS_EmptySet
  <2> QED
    BY <1>1, <2>1, <2>3 DEF Place
<1>3. ASSUME NEW j \in jobs, NEW k \in jobs, j.seq < k.seq
      PROVE  Place(jobs, j) # Place(jobs, k)
  <2>1. UpTo(j) \in SUBSET UpTo(k) /\ k \in UpTo(k) /\ k \notin UpTo(j)
    BY <1>3 DEF Numbered
  <2>2. UpTo(j) # UpTo(k)
    BY <2>1
  <2> QED
    BY <1>2, <2>1, <2>2, FS_Subset
<1>4. ASSUME NEW j \in jobs, NEW k \in jobs, Place(jobs, j) = Place(jobs, k)
      PROVE  j = k
  <2>1. j.seq \in Nat /\ k.seq \in Nat
    BY DEF Numbered
  <2>2. ~ (j.seq < k.seq) /\ ~ (k.seq < j.seq)
    BY <1>3, <1>4
  <2> QED
    BY <2>1, <2>2 DEF Numbered
<1>5. ASSUME NEW i \in 1 .. n
      PROVE  \E j \in jobs : Place(jobs, j) = i
  <2> DEFINE place == [j \in jobs |-> Place(jobs, j)]
  <2>1. place \in [jobs -> 1 .. n] /\ \A j, k \in jobs : place[j] = place[k] => j = k
    BY <1>2, <1>4
  <2>2. place \in Injection(jobs, 1 .. n)
    BY <2>1 DEF Injection, IsInjective
  <2>3. IsFiniteSet(1 .. n) /\ Cardinality(1 .. n) = n
    <3>1. 1 \in Int /\ n \in Int
      BY <1>1
    <3>2. IsFiniteSet(1 .. n) /\ Cardinality(1 .. n) = IF 1 > n THEN 0 ELSE n - 1 + 1
      BY <3>1, FS_Interval
    <3> QED
      BY <1>1, <3>2
  <2>4. place \in Surjection(jobs, 1 .. n)
    BY <2>2, <2>3, FS_Injection
  <2>5. \E j \in jobs : place[j] = i
    BY <2>4 DEF Surjection
  <2> QED
    BY <2>5
<1> QED
  BY <1>1, <1>2, <1>4, <1>5

\* The line is a sequence of clients; the client of a job is at its place.
LEMMA InLine ==
    ASSUME NEW jobs, Numbered(jobs)
    PROVE  /\ Line(jobs) \in Seq(Clients) /\ Len(Line(jobs)) = Cardinality(jobs)
           /\ \A j \in jobs : Line(jobs)[Place(jobs, j)] = j.owner
<1> DEFINE n == Cardinality(jobs)
           At(i) == CHOOSE j \in jobs : Place(jobs, j) = i
<1>1. n \in Nat /\ \A i \in 1 .. n : At(i) \in jobs
  BY Places
<1>2. Line(jobs) = [i \in 1 .. n |-> At(i).owner]
  BY DEF Line
<1>3. Line(jobs) \in [1 .. n -> Clients]
  BY <1>1, <1>2 DEF Numbered
<1>4. ASSUME NEW j \in jobs
      PROVE  Line(jobs)[Place(jobs, j)] = j.owner
  <2>1. Place(jobs, j) \in 1 .. n /\ At(Place(jobs, j)) = j
    BY Places
  <2> QED
    BY <1>2, <2>1
<1> QED
  BY <1>1, <1>3, <1>4

\* A job with a higher number than all others comes last.
LEMMA LineGrows ==
    ASSUME NEW jobs, Numbered(jobs), NEW new, new.seq \in Nat, new.owner \in Clients,
           \A j \in jobs : j.seq < new.seq
    PROVE  Line(jobs \cup {new}) = Append(Line(jobs), new.owner)
<1> DEFINE more == jobs \cup {new}
           n == Cardinality(jobs)
<1>1. new \notin jobs /\ n \in Nat /\ IsFiniteSet(jobs)
  BY Places DEF Numbered
<1>2. Numbered(more) /\ Cardinality(more) = n + 1
  <2>1. IsFiniteSet(more) /\ Cardinality(more) = n + 1
    BY <1>1, FS_AddElement
  <2>2. \A j, k \in more : j.seq = k.seq => j = k
    BY DEF Numbered
  <2> QED
    BY <2>1, <2>2 DEF Numbered
<1>3. ASSUME NEW j \in jobs
      PROVE  Place(more, j) = Place(jobs, j)
  <2>1. {k \in more : k.seq <= j.seq} = {k \in jobs : k.seq <= j.seq}
    BY DEF Numbered
  <2> QED
    BY <2>1 DEF Place
<1>4. Place(more, new) = n + 1
  <2>1. {k \in more : k.seq <= new.seq} = more
    BY DEF Numbered
  <2> QED
    BY <2>1, <1>2 DEF Place
<1>5. /\ Line(more) \in Seq(Clients) /\ Len(Line(more)) = n + 1 /\ Line(more)[n + 1] = new.owner
      /\ Line(jobs) \in Seq(Clients) /\ Len(Line(jobs)) = n
  BY <1>2, <1>4, InLine
<1>6. ASSUME NEW i \in 1 .. n
      PROVE  Line(more)[i] = Line(jobs)[i]
  <2>1. PICK j \in jobs : Place(jobs, j) = i
    BY Places
  <2>2. Line(more)[Place(more, j)] = j.owner /\ Line(jobs)[Place(jobs, j)] = j.owner
    BY <1>2, InLine
  <2> QED
    BY <2>1, <2>2, <1>3
<1>7. /\ Append(Line(jobs), new.owner) \in Seq(Clients)
      /\ Len(Append(Line(jobs), new.owner)) = n + 1
      /\ \A i \in 1 .. n : Append(Line(jobs), new.owner)[i] = Line(jobs)[i]
      /\ Append(Line(jobs), new.owner)[n + 1] = new.owner
  BY <1>5, AppendProperties
<1>8. \A i \in 1 .. n + 1 : Line(more)[i] = Append(Line(jobs), new.owner)[i]
  <2>1. \A i \in 1 .. n + 1 : i \in 1 .. n \/ i = n + 1
    BY <1>1
  <2> QED
    BY <2>1, <1>5, <1>6, <1>7
<1> DEFINE s == Line(more)
           t == Append(Line(jobs), new.owner)
<1>9. s \in Seq(Clients) /\ t \in Seq(Clients) /\ Len(s) = Len(t) /\ \A i \in 1 .. Len(s) : s[i] = t[i]
  BY <1>5, <1>7, <1>8
<1> HIDE DEF s, t
<1>10. s = t
  BY <1>9, SeqEqual
<1> QED
  BY <1>10 DEF s, t

\* The job with the lowest number comes first, and the line moves up when it is served.
LEMMA LineMoves ==
    ASSUME NEW jobs, Numbered(jobs), NEW first \in jobs, \A j \in jobs : first.seq <= j.seq
    PROVE  /\ Line(jobs) # <<>> /\ Head(Line(jobs)) = first.owner
           /\ Line(jobs \ {first}) = Tail(Line(jobs))
<1> DEFINE rest == jobs \ {first}
           n == Cardinality(jobs)
<1>1. n \in Nat /\ IsFiniteSet(jobs)
  BY Places DEF Numbered
<1>2. Numbered(rest) /\ Cardinality(rest) = n - 1
  <2>1. IsFiniteSet(rest) /\ Cardinality(rest) = n - 1
    BY <1>1, FS_RemoveElement
  <2> QED
    BY <2>1 DEF Numbered
<1>3. Place(jobs, first) = 1
  <2>1. {k \in jobs : k.seq <= first.seq} = {first}
    <3>1. \A k \in jobs : k.seq <= first.seq => k = first
      BY DEF Numbered
    <3> QED
      BY <3>1 DEF Numbered
  <2> QED
    BY <2>1, FS_Singleton DEF Place
<1>4. ASSUME NEW j \in rest
      PROVE  Place(rest, j) \in Int /\ Place(jobs, j) = Place(rest, j) + 1
  <2> DEFINE U == {k \in jobs : k.seq <= j.seq}
  <2>1. IsFiniteSet(U) /\ first \in U /\ {k \in rest : k.seq <= j.seq} = U \ {first}
    BY <1>1, FS_Subset
  <2>2. Cardinality(U) \in Nat /\ Cardinality(U \ {first}) = Cardinality(U) - 1
    BY <2>1, FS_RemoveElement, FS_CardinalityType
  <2>3. Place(jobs, j) = Cardinality(U)
    BY DEF Place
  <2>4. Place(rest, j) = Cardinality(U \ {first})
    BY <2>1 DEF Place
  <2> HIDE DEF U
  <2> QED
    BY <2>2, <2>3, <2>4
<1>5. /\ Line(jobs) \in Seq(Clients) /\ Len(Line(jobs)) = n /\ Line(jobs)[1] = first.owner
      /\ Line(rest) \in Seq(Clients) /\ Len(Line(rest)) = n - 1
  BY <1>2, <1>3, InLine
<1>6. n # 0 /\ Line(jobs) # <<>>
  BY <1>1, <1>5, FS_EmptySet
<1>7. /\ Tail(Line(jobs)) \in Seq(Clients) /\ Len(Tail(Line(jobs))) = n - 1
      /\ \A i \in 1 .. n - 1 : Tail(Line(jobs))[i] = Line(jobs)[i + 1]
      /\ Head(Line(jobs)) = Line(jobs)[1]
  BY <1>5, <1>6, HeadTailProperties
<1>8. ASSUME NEW i \in 1 .. n - 1
      PROVE  Line(rest)[i] = Tail(Line(jobs))[i]
  <2>1. PICK j \in rest : Place(rest, j) = i
    BY <1>2, Places
  <2>2. Line(rest)[Place(rest, j)] = j.owner /\ Line(jobs)[Place(jobs, j)] = j.owner
    BY <1>2, InLine
  <2>3. Place(jobs, j) = i + 1
    BY <2>1, <1>4
  <2>4. Tail(Line(jobs))[i] = Line(jobs)[i + 1]
    BY <1>7
  <2>5. Line(rest)[i] = j.owner
    BY <2>1, <2>2
  <2>6. Line(jobs)[i + 1] = j.owner
    BY <2>2, <2>3
  <2> QED
    BY <2>4, <2>5, <2>6
<1> DEFINE s == Line(rest)
           t == Tail(Line(jobs))
<1>9. s \in Seq(Clients) /\ t \in Seq(Clients) /\ Len(s) = Len(t) /\ \A i \in 1 .. Len(s) : s[i] = t[i]
  BY <1>5, <1>7, <1>8
<1> HIDE DEF s, t
<1>10. s = t
  BY <1>9, SeqEqual
<1> QED
  BY <1>5, <1>6, <1>7, <1>10 DEF s, t

\* No sequence number is given twice.
SeqInv == \A j, k \in queue : j.seq = k.seq => j = k

\* Every step keeps the sequence numbers distinct.
LEMMA SeqStep ==
    ASSUME TypeOK, CountInv, SeqInv, [Next]_vars
    PROVE  SeqInv'
<1> USE DEF SeqInv, CountInv, lifecycle, metrics
<1>1. CASE Take
  BY <1>1 DEF Take
<1>2. ASSUME NEW j, j.seq = nextSeq, queue' = queue \cup {j} PROVE SeqInv'
  <2>1. \A k \in queue : k.seq \in Nat /\ k.seq # j.seq
    BY <1>2, JobsAndPills DEF TypeOK
  <2> QED
    BY <1>2, <2>1
<1>3. ASSUME NEW c \in Clients, NEW p \in Priorities, Submit(c, p) PROVE SeqInv'
  BY <1>2, <1>3 DEF Submit
<1>4. ASSUME NEW t \in Stoppers, Shutdown(t) PROVE SeqInv'
  BY <1>2, <1>4 DEF Shutdown
<1>5. CASE queue' = queue
  BY <1>5
<1> QED
  BY <1>1, <1>3, <1>4, <1>5 DEF Next, Work, Start, Succeed, Fail, Count, Return, Joined, JoinRaises, vars

\* The jobs of one class, the lines of all, and whom the worker serves.
Class(p) == {j \in queue : j.priority = p}
Lines    == [p \in Priorities |-> Line(Class(p))]
Serving  == IF worker = "run" THEN current.owner ELSE NoClient

\* The jobs of a class can be lined up by their numbers.
LEMMA ClassNumbered ==
    ASSUME TypeOK, CountInv, SeqInv, NEW p \in Priorities
    PROVE  Numbered(Class(p))
<1>1. IsFiniteSet(Class(p))
  BY FS_Subset DEF Class, CountInv
<1>2. \A j \in Class(p) : j \in Job
  BY JobsAndPills DEF Class, TypeOK
<1> QED
  BY <1>1, <1>2, JobsAndPills DEF Numbered, SeqInv, Class

\* A submission is a request: the client joins the end of its class's line.
LEMMA SubmitRequests ==
    ASSUME TypeOK, CountInv, SeqInv, NEW c \in Clients, NEW p \in Priorities, Submit(c, p)
    PROVE  Service!Request(c, p)
<1> DEFINE new == [priority |-> p, seq |-> nextSeq, owner |-> c]
<1>1. /\ queue' = queue \cup {new} /\ new.priority = p /\ new.seq = nextSeq /\ new.owner = c
      /\ nextSeq \in Nat /\ \A j \in queue : j.seq < nextSeq
  BY DEF Submit, TypeOK, CountInv
<1> HIDE DEF new
<1>2. Class(p)' = Class(p) \cup {new} /\ \A q \in Priorities \ {p} : Class(q)' = Class(q)
  BY <1>1 DEF Class
<1>3. Line(Class(p) \cup {new}) = Append(Line(Class(p)), c)
  <2>1. Numbered(Class(p)) /\ \A j \in Class(p) : j.seq < new.seq
    BY <1>1, ClassNumbered DEF Class
  <2> QED
    BY <1>1, <2>1, LineGrows
<1>4. Lines' = [Lines EXCEPT ![p] = Append(@, c)]
  <2>1. Lines' = [q \in Priorities |-> Line(Class(q)')]
    BY DEF Lines
  <2> QED
    BY <1>2, <1>3, <2>1 DEF Lines
<1>5. /\ state = "RUNNING" /\ state' = state /\ Serving' = Serving
      /\ future[c] = "none" /\ future' = [future EXCEPT ![c] = "pending"]
  BY DEF Submit, lifecycle, Serving
<1> QED
  BY <1>4, <1>5 DEF Service!Request, Lines, Class, Serving

\* The worker takes the client that is first in the most urgent class, or the pill.
LEMMA TakeServes ==
    ASSUME TypeOK, CountInv, SeqInv, Take
    PROVE  \/ \E p \in Priorities : Service!Serve(p)
           \/ UNCHANGED <<state, Lines, Serving, future>>
<1>1. PICK first \in queue : /\ Least(first) /\ queue' = queue \ {first}
                             /\ IF first.priority = POISON_PILL
                                THEN worker' = "exited" /\ UNCHANGED current
                                ELSE worker' = "run" /\ current' = first
  BY DEF Take
<1>2. worker = "get" /\ state' = state /\ future' = future
  BY DEF Take, lifecycle
<1>3. CASE first.priority = POISON_PILL
  <2>1. \A p \in Priorities : Class(p)' = Class(p)
    BY <1>1, <1>3 DEF Class
  <2>2. Lines' = Lines
    <3>1. Lines' = [q \in Priorities |-> Line(Class(q)')]
      BY DEF Lines
    <3> QED
      BY <2>1, <3>1 DEF Lines
  <2>3. Serving' = Serving
    BY <1>1, <1>2, <1>3 DEF Serving
  <2> QED
    BY <1>2, <2>2, <2>3
<1>4. CASE first.priority # POISON_PILL
  <2> DEFINE p == first.priority
  <2>1. p \in Priorities /\ first \in Job /\ first.owner # NoClient /\ first \in Class(p)
    <3>1. first \in Job
      BY <1>4, JobsAndPills DEF TypeOK
    <3> QED
      BY <3>1, JobsAndPills DEF Job, Class
  <2>2. \A j \in queue : /\ j.priority \in Nat /\ j.seq \in Nat
                         /\ ~ (j.priority < p) /\ (j.priority = p => ~ (j.seq < first.seq))
    BY <1>1, JobsAndPills DEF Least, Before, TypeOK
  <2> HIDE DEF p
  <2>3. \A j \in Class(p) : first.seq <= j.seq
    BY <2>1, <2>2 DEF Class
  <2>4. /\ Line(Class(p)) # <<>> /\ Head(Line(Class(p))) = first.owner
        /\ Line(Class(p) \ {first}) = Tail(Line(Class(p)))
    BY <2>1, <2>3, ClassNumbered, LineMoves
  <2>5. ASSUME NEW q \in Priorities, q < p
        PROVE  Line(Class(q)) = <<>>
    <3>1. Class(q) = {}
      BY <2>2, <2>5 DEF Class
    <3>2. Line({}) \in Seq(Clients) /\ Len(Line({})) = 0
      <4>1. Numbered({})
        BY FS_EmptySet DEF Numbered
      <4> QED
        BY <4>1, InLine, FS_EmptySet
    <3> QED
      BY <3>1, <3>2, EmptySeq
  <2>6. Class(p)' = Class(p) \ {first} /\ \A q \in Priorities \ {p} : Class(q)' = Class(q)
    BY <1>1, <2>1 DEF Class, p
  <2>7. Lines' = [Lines EXCEPT ![p] = Tail(@)]
    <3>1. Lines' = [q \in Priorities |-> Line(Class(q)')]
      BY DEF Lines
    <3> QED
      BY <2>1, <2>4, <2>6, <3>1 DEF Lines
  <2>8. Serving = NoClient /\ Serving' = first.owner
    BY <1>1, <1>2, <1>4 DEF Serving
  <2>9. /\ Lines[p] # <<>> /\ Head(Lines[p]) = first.owner
        /\ \A q \in Priorities : q < p => Lines[q] = <<>>
    BY <2>1, <2>4, <2>5 DEF Lines
  <2>10. Service!Serve(p)
    BY <1>2, <2>7, <2>8, <2>9 DEF Service!Serve, Lines, Class, Serving
  <2> QED
    BY <2>1, <2>10
<1> QED
  BY <1>3, <1>4

\* A resolved future is the service's answer.
LEMMA ResolveAnswers ==
    ASSUME TypeOK, Succeed \/ Fail
    PROVE  Service!Answer
<1>1. worker = "run" /\ current.owner \in Clients /\ current.owner # NoClient
  BY JobsAndPills DEF Succeed, Fail, TypeOK
<1>2. /\ \E r \in {"result", "error"} : future' = [future EXCEPT ![current.owner] = r]
      /\ state' = state /\ queue' = queue /\ worker' \in {"succeeded", "failed"}
  BY DEF Succeed, Fail, Resolve, lifecycle
<1>3. Serving = current.owner /\ Serving' = NoClient /\ Lines' = Lines
  BY <1>1, <1>2 DEF Serving, Lines, Class
<1> QED
  BY <1>1, <1>2, <1>3 DEF Service!Answer, Serving, Lines, Class

\* Every step is one of the service's, or leaves what it promises alone.
LEMMA ServiceStep ==
    ASSUME TypeOK, LifecycleInv, CountInv, SeqInv, [Next]_vars
    PROVE  [Service!Next]_<<state = "RUNNING", Lines, Serving, future>>
<1> DEFINE Good == [Service!Next]_<<state = "RUNNING", Lines, Serving, future>>
<1>1. CASE Take
  BY <1>1, TakeServes DEF Service!Next
<1>2. CASE Succeed \/ Fail
  BY <1>2, ResolveAnswers DEF Service!Next
<1>3. ASSUME NEW c \in Clients, NEW p \in Priorities, Submit(c, p) PROVE Good
  BY <1>3, SubmitRequests DEF Service!Next
<1>4. ASSUME NEW c \in Clients, Return(c) PROVE Good
  <2>1. Service!Collect(c)
    BY <1>4 DEF Return, lifecycle, Service!Collect
  <2> QED
    BY <2>1 DEF Service!Next
<1>5. CASE Start
  <2>1. Serving' = Serving /\ Lines' = Lines
    BY <1>5 DEF Start, LifecycleInv, Serving, Lines, Class
  <2>2. Service!Open
    BY <1>5, <2>1 DEF Start, Service!Open, Serving, Lines, Class
  <2> QED
    BY <2>2 DEF Service!Next
<1>6. CASE Count
  BY <1>6 DEF Count, lifecycle, Serving, Lines, Class
<1>7. ASSUME NEW t \in Stoppers, Shutdown(t) PROVE Good
  <2>1. \A p \in Priorities : Class(p)' = Class(p)
    BY <1>7 DEF Shutdown, Class
  <2>2. Lines' = Lines
    <3>1. Lines' = [q \in Priorities |-> Line(Class(q)')]
      BY DEF Lines
    <3> QED
      BY <2>1, <3>1 DEF Lines
  <2>3. Serving' = Serving /\ future' = future /\ state' = "STOPPING"
    BY <1>7 DEF Shutdown, Serving
  <2>4. CASE state = "RUNNING"
    <3>1. Service!Close
      BY <2>2, <2>3, <2>4 DEF Service!Close, Serving, Lines, Class
    <3> QED
      BY <3>1 DEF Service!Next
  <2>5. CASE state # "RUNNING"
    BY <2>2, <2>3, <2>5
  <2> QED
    BY <2>4, <2>5
<1>8. ASSUME NEW t \in Stoppers, Joined(t) \/ JoinRaises(t) PROVE Good
  <2>1. UNCHANGED <<queue, worker, current, future>>
    BY <1>8 DEF Joined, JoinRaises
  <2>2. Lines' = Lines /\ Serving' = Serving
    BY <2>1 DEF Lines, Class, Serving
  <2>3. (state = "RUNNING") = (state' = "RUNNING")
    BY <1>8 DEF Joined, JoinRaises, LifecycleInv
  <2> QED
    BY <2>1, <2>2, <2>3
<1>9. CASE UNCHANGED vars
  BY <1>9 DEF vars, lifecycle, Serving, Lines, Class
<1> QED
  BY <1>1, <1>2, <1>3, <1>4, <1>5, <1>6, <1>7, <1>8, <1>9 DEF Next, Work

\* The scheduler implements PriorityService: one request is served at a time, the most urgent
\* class first and each class in order of arrival, whatever is submitted, fails or shuts down.
THEOREM SchedulerServesByPriority == Spec => ServesByPriority
<1>1. Init => Service!Init /\ SeqInv
  <2>1. ASSUME Init PROVE Lines = [p \in Priorities |-> <<>>]
    <3>1. ASSUME NEW p \in Priorities PROVE Line(Class(p)) = <<>>
      <4>1. Class(p) = {}
        BY <2>1 DEF Init, Class
      <4>2. Numbered({})
        BY FS_EmptySet DEF Numbered
      <4>3. Line({}) \in Seq(Clients) /\ Len(Line({})) = 0
        BY <4>2, InLine, FS_EmptySet
      <4> QED
        BY <4>1, <4>3, EmptySeq
    <3> QED
      BY <3>1 DEF Lines
  <2> QED
    BY <2>1 DEF Init, Service!Init, SeqInv, Lines, Class
<1>2. SchedulerInv /\ SeqInv /\ [Next]_vars
         => SeqInv' /\ [Service!Next]_<<state = "RUNNING", Lines, Serving, future>>
  BY SeqStep, ServiceStep DEF SchedulerInv
<1>3. Service!vars = <<state = "RUNNING", Lines, Serving, future>>
  BY DEF Service!vars, Lines, Class, Serving
<1> QED
  BY <1>1, <1>2, <1>3, SchedulerInvariant, PTL DEF Spec, ServesByPriority, Service!Spec, Service!vars, Lines, Class, Serving
==============================================================================
