-------------------------- MODULE InferenceScheduler --------------------------
(***************************************************************************)
(* The priority inference scheduler: app/ai/scheduler.py.                  *)
(*                                                                         *)
(* Clients submit operations under a lock, which also guards the lifecycle *)
(* state and the metrics; one worker thread takes the first job of a heap, *)
(* runs it, resolves its future and only then counts it.  shutdown() queues*)
(* a poison pill behind everything and joins the worker.                   *)
(*                                                                         *)
(* A job is its priority, its sequence number and the client whose future  *)
(* it resolves; a client has one request outstanding, as execute() blocks  *)
(* until the future is resolved.  What an operation computes is abstracted *)
(* to whether it returns or raises.                                        *)
(***************************************************************************)
EXTENDS Integers, FiniteSets

CONSTANTS
    Clients,     \* the threads that request inference
    Stoppers,    \* the threads that call shutdown()
    Priorities,  \* the members of InferencePriority that clients use
    MaxSeq,      \* bound: the highest sequence number a submission may take
    NoClient,    \* the owner of the poison pill
    NoJob        \* what the worker holds between two jobs

POISON_PILL == 999

ASSUME SchedulerAssumption ==
    /\ Priorities \subseteq 0 .. 998
    /\ MaxSeq \in Nat
    /\ NoClient \notin Clients
    /\ NoJob \notin [priority : Nat, seq : Nat, owner : Clients \cup {NoClient}]

VARIABLES
    state,    \* SchedulerState
    queue,    \* the jobs in the PriorityQueue
    nextSeq,  \* the next value of _seq_counter
    worker,   \* where the worker thread is
    current,  \* the job the worker has taken
    future,   \* each client's future: none, pending, or how it was resolved
    stopper,  \* where each thread is in shutdown()
    submitted, completed, failed, depth
              \* SchedulerMetrics; depth is max_observed_queue_depth

lifecycle == <<state, stopper>>
metrics == <<submitted, completed, failed, depth>>
vars == <<lifecycle, queue, nextSeq, worker, current, future, metrics>>

Job == [priority : Priorities, seq : Nat, owner : Clients]
Pill == [priority : {POISON_PILL}, seq : Nat, owner : {NoClient}]

\* The worker is not started, waits in queue.get(), runs an operation, has
\* resolved a future and not yet counted it, or has left its loop.
WorkerSteps == {"unstarted", "get", "run", "succeeded", "failed", "exited"}

------------------------------------------------------------------------------
\* Mutant: the comparison forgets the sequence number.
ByPriorityOnly(j, k) == j.priority < k.priority

\* InferenceJob.__lt__
Before(j, k) ==
    \/ j.priority < k.priority
    \/ j.priority = k.priority /\ j.seq < k.seq

\* What PriorityQueue.get may return: a least element.
Least(j) == j \in queue /\ \A k \in queue : ~Before(k, j)

Init ==
    /\ state   = "CREATED"
    /\ queue   = {}
    /\ nextSeq = 1
    /\ worker  = "unstarted"
    /\ current = NoJob
    /\ future  = [c \in Clients |-> "none"]
    /\ stopper = [t \in Stoppers |-> "out"]
    /\ submitted = 0 /\ completed = 0 /\ failed = 0 /\ depth = 0

\* start(): idempotent while RUNNING, an error afterwards.
Start ==
    /\ state = "CREATED"
    /\ state'  = "RUNNING"
    /\ worker' = "get"
    /\ UNCHANGED <<stopper, queue, nextSeq, current, future, metrics>>

\* Mutant: only a STOPPED scheduler refuses.
SubmitUntilStopped(c, p) ==
    /\ state \in {"RUNNING", "STOPPING"}
    /\ future[c] = "none"
    /\ nextSeq <= MaxSeq
    /\ queue'   = queue \cup {[priority |-> p, seq |-> nextSeq, owner |-> c]}
    /\ nextSeq' = nextSeq + 1
    /\ future'  = [future EXCEPT ![c] = "pending"]
    /\ depth'   = IF Cardinality(queue') > depth THEN Cardinality(queue') ELSE depth
    /\ submitted' = submitted + 1
    /\ UNCHANGED <<lifecycle, worker, current, completed, failed>>

\* submit(): refused unless RUNNING; the number, the enqueuing and the metrics
\* are one step under the lock.  Only queue.get() needs no lock: a waiting worker
\* may have taken a job before qsize() is read.
Submit(c, p) ==
    /\ state = "RUNNING"
    /\ future[c] = "none"
    /\ nextSeq <= MaxSeq
    /\ queue'   = queue \cup {[priority |-> p, seq |-> nextSeq, owner |-> c]}
    /\ nextSeq' = nextSeq + 1
    /\ future'  = [future EXCEPT ![c] = "pending"]
    /\ \E taken \in IF worker = "get" THEN {0, 1} ELSE {0} :
          LET size == Cardinality(queue') - taken
          IN  depth' = IF size > depth THEN size ELSE depth
    /\ submitted' = submitted + 1
    /\ UNCHANGED <<lifecycle, worker, current, completed, failed>>

\* The worker takes the first job; the poison pill ends its loop.
Take ==
    /\ worker = "get"
    /\ \E j \in queue :
          /\ Least(j)
          /\ queue' = queue \ {j}
          /\ IF j.priority = POISON_PILL
             THEN worker' = "exited" /\ UNCHANGED current
             ELSE worker' = "run" /\ current' = j
    /\ UNCHANGED <<lifecycle, nextSeq, future, metrics>>

Resolve(outcome) == future' = [future EXCEPT ![current.owner] = outcome]

\* The operation returns, and its result is handed to the client ...
Succeed ==
    /\ worker = "run"
    /\ Resolve("result")
    /\ worker' = "succeeded"
    /\ UNCHANGED <<lifecycle, queue, nextSeq, current, metrics>>

\* Mutant: an exception of the operation ends the worker's loop.
FailAndExit ==
    /\ worker = "run"
    /\ Resolve("error")
    /\ worker'  = "exited"
    /\ current' = NoJob
    /\ UNCHANGED <<lifecycle, queue, nextSeq, metrics>>

\* ... or it raises, and its exception is.
Fail ==
    /\ worker = "run"
    /\ Resolve("error")
    /\ worker' = "failed"
    /\ UNCHANGED <<lifecycle, queue, nextSeq, current, metrics>>

\* Mutant: a failed job is counted as failed but not as completed.
CountEither ==
    /\ worker \in {"succeeded", "failed"}
    /\ IF worker = "failed"
       THEN failed' = failed + 1 /\ UNCHANGED completed
       ELSE completed' = completed + 1 /\ UNCHANGED failed
    /\ worker'  = "get"
    /\ current' = NoJob
    /\ UNCHANGED <<lifecycle, queue, nextSeq, future, submitted, depth>>

\* Mutant: the worker goes on to wait with the counted job still in hand.
CountHoldingJob ==
    /\ worker \in {"succeeded", "failed"}
    /\ completed' = completed + 1
    /\ failed' = IF worker = "failed" THEN failed + 1 ELSE failed
    /\ worker' = "get"
    /\ UNCHANGED <<lifecycle, queue, nextSeq, current, future, submitted, depth>>

\* The finally block counts the job under the lock, after the client may
\* already have gone on; then the worker waits for the next.
Count ==
    /\ worker \in {"succeeded", "failed"}
    /\ completed' = completed + 1
    /\ failed' = IF worker = "failed" THEN failed + 1 ELSE failed
    /\ worker'  = "get"
    /\ current' = NoJob
    /\ UNCHANGED <<lifecycle, queue, nextSeq, future, submitted, depth>>

\* execute(): future.result() returns or raises in the client.
Return(c) ==
    /\ future[c] \in {"result", "error"}
    /\ future' = [future EXCEPT ![c] = "none"]
    /\ UNCHANGED <<lifecycle, queue, nextSeq, worker, current, metrics>>

\* Mutant: the worker is asked to stop by the state alone.
ShutdownWithoutPill(t) ==
    /\ stopper[t] = "out"
    /\ state \in {"CREATED", "RUNNING"}
    /\ state'   = "STOPPING"
    /\ stopper' = [stopper EXCEPT ![t] = "joining"]
    /\ UNCHANGED <<queue, nextSeq, worker, current, future, metrics>>

\* shutdown(): the first caller queues the pill and joins the worker; a later
\* one returns at once.
Shutdown(t) ==
    /\ stopper[t] = "out"
    /\ state \in {"CREATED", "RUNNING"}
    /\ state'   = "STOPPING"
    /\ queue'   = queue \cup {[priority |-> POISON_PILL, seq |-> nextSeq, owner |-> NoClient]}
    /\ nextSeq' = nextSeq + 1
    /\ stopper' = [stopper EXCEPT ![t] = "joining"]
    /\ UNCHANGED <<worker, current, future, metrics>>

\* join() returns once the worker has exited ...
Joined(t) ==
    /\ stopper[t] = "joining"
    /\ worker = "exited"
    /\ state'   = "STOPPED"
    /\ stopper' = [stopper EXCEPT ![t] = "out"]
    /\ UNCHANGED <<queue, nextSeq, worker, current, future, metrics>>

\* ... and raises on a thread that was never started: the state stays STOPPING.
JoinRaises(t) ==
    /\ stopper[t] = "joining"
    /\ worker = "unstarted"
    /\ stopper' = [stopper EXCEPT ![t] = "out"]
    /\ UNCHANGED <<state, queue, nextSeq, worker, current, future, metrics>>

Work == Take \/ Succeed \/ Fail \/ Count

Next ==
    \/ Start
    \/ Work
    \/ \E c \in Clients : Return(c) \/ \E p \in Priorities : Submit(c, p)
    \/ \E t \in Stoppers : Shutdown(t) \/ Joined(t) \/ JoinRaises(t)

\* The worker thread runs on, every operation ends (the provider's client has
\* a timeout), and a thread in join() is woken.
Fairness ==
    /\ WF_vars(Work)
    /\ \A t \in Stoppers : WF_vars(Joined(t))

Spec == Init /\ [][Next]_vars /\ Fairness

------------------------------------------------------------------------------
\* Every variable has its type, and the worker holds a job exactly while it
\* runs or counts it.
TypeOK ==
    /\ state \in {"CREATED", "RUNNING", "STOPPING", "STOPPED"}
    /\ queue \subseteq Job \cup Pill
    /\ nextSeq \in Nat
    /\ worker \in WorkerSteps
    /\ current \in Job \cup {NoJob}
    /\ future \in [Clients -> {"none", "pending", "result", "error"}]
    /\ stopper \in [Stoppers -> {"out", "joining"}]
    /\ submitted \in Nat /\ completed \in Nat /\ failed \in Nat /\ depth \in Nat
    /\ current = NoJob <=> worker \in {"unstarted", "get", "exited"}

Queued(c) == \E j \in queue : j.owner = c
Running(c) == worker = "run" /\ current.owner = c

\* A request is pending exactly while its job is queued or running: no
\* shutdown, failure or submission loses a job or answers one twice, and a
\* submission cannot slip in behind the poison pill
\* ("Gracefully shuts down the scheduler, completing all queued jobs").
NoJobLost ==
    /\ \A c \in Clients : future[c] = "pending" <=> Queued(c) \/ Running(c)
    /\ worker = "exited" => queue = {}
    /\ state = "STOPPED" => worker = "exited"

\* get_metrics() adds up at every moment: what was submitted is completed,
\* queued, or in the worker's hands.
MetricsAddUp ==
    /\ submitted = completed + Cardinality(queue \cap Job)
                             + (IF current = NoJob THEN 0 ELSE 1)
    /\ failed <= completed
    /\ depth <= submitted

\* The clients of a set of jobs, by sequence number.
Place(jobs, j) == Cardinality({k \in jobs : k.seq <= j.seq})
Line(jobs) ==
    [i \in 1 .. Cardinality(jobs) |-> (CHOOSE j \in jobs : Place(jobs, j) = i).owner]

Service == INSTANCE PriorityService WITH
    Nobody  <- NoClient,
    open    <- state = "RUNNING",
    lane    <- [p \in Priorities |-> Line({j \in queue : j.priority = p})],
    serving <- IF worker = "run" THEN current.owner ELSE NoClient,
    answer  <- future

\* The heap, its comparison and the worker serve requests as PriorityService
\* does: most urgent class first, in order of arrival within a class (the
\* docstring "Serializes inference operations ..., ordering them by priority").
ServesByPriority == Service!Spec

\* shutdown() of a started scheduler completes: the queue drains and the state
\* becomes STOPPED.
ShutdownCompletes == state = "STOPPING" /\ worker # "unstarted" ~> state = "STOPPED"

\* Whoever waits in execute() is answered, whatever the operations before it
\* did.  (Sequence numbers are bounded, so this says nothing about starvation
\* of the lower classes.)
EveryCallAnswered ==
    \A c \in Clients : future[c] = "pending" ~> future[c] # "pending"
==============================================================================
