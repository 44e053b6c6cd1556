------------------------ MODULE MemoryCoordinatorProofs ------------------------
(***************************************************************************)
(* Theorems about MemoryCoordinator and the ModelAccess it extends, for    *)
(* any claims, any limit of pending jobs, and any number of requests,      *)
(* candidates and attempts; and about MemoryJudgement, for any table.      *)
(***************************************************************************)
EXTENDS MemoryCoordinator, MemoryJudgement, SequenceTheorems, FiniteSetTheorems, TLAPS

USE CallersAssumption, AttemptsAssumption, ClaimsAssumption, LimitsAssumption

\* Where a request is until it is submitted, and where a job waits for the model.
Asking   == {"call", "wait", "failed", "reopen", "stream", "lock", "chat", "chunks",
             "returned", "raised"}
Calling  == {"call", "wait", "failed", "reopen", "returned", "raised"}
DeskAt   == Asking \cup {"submit", "hook", "idle", "dead"}
WriterAt == Calling \cup {"next", "store", "idle"}
Results  == {"none", "completed", "failed"}

Metrics  == [submitted : Nat, completed : Nat, failed : Nat, skipped : Nat]

\* Types of the model's side; a reload is not the last attempt's, and whoever streams has
\* the lock.
ModelTypes ==
    /\ TypeOK
    /\ pc \in [Callers -> DeskAt \cup WriterAt] /\ pc[Desk] \in DeskAt /\ pc[Writer] \in WriterAt
    /\ \A c \in Callers : pc[c] = "reopen" => attempt[c] < MaxAttempts
    /\ pc[Desk] \in {"chat", "chunks"} => holder = Desk

\* Types of the coordinator's side; a job runs while the writer is busy, and there is a
\* candidate while it decides about one.
JobTypes ==
    /\ asked \in 0 .. MaxRequests
    /\ pc[Desk] \in {"idle", "dead"} \/ asked \in Jobs
    /\ fifo \in Seq(Jobs) /\ running \in Jobs \cup {NoJob}
    /\ (pc[Writer] = "idle") = (running = NoJob)
    /\ active \subseteq Jobs /\ hooked \subseteq Jobs
    /\ result \in [Jobs -> Results]
    /\ metrics \in Metrics
    /\ phase \in {"extract", "resolve"}
    /\ drafts \in Seq(Claims) /\ Len(drafts) <= MaxDrafts
    /\ target \in Claims \cup {NoClaim}
    /\ pc[Writer] = "store" \/ (phase = "resolve" /\ pc[Writer] \in Calling) => drafts # <<>>
    /\ main \in {"up", "coordinator", "joining", "scheduler", "draining", "stopped"}

TypeInv == ModelTypes /\ JobTypes

\* The requests that have been through submit.
Past == {j \in Jobs : j < asked \/ (j = asked /\ pc[Desk] \in {"hook", "idle", "dead"})}

\* The pool and the coordinator agree on which jobs are not done; a job is in the pool
\* once, and nothing is known of a request that was not submitted.
PoolInv ==
    /\ \A i, k \in DOMAIN fifo : fifo[i] = fifo[k] => i = k
    /\ \A i \in DOMAIN fifo : fifo[i] # running
    /\ Unfinished = {j \in active : result[j] = "none"}
    /\ active \subseteq Past /\ hooked \subseteq Past
    /\ \A j \in Jobs \ Past : result[j] = "none"
    /\ Cardinality(Unfinished) <= MaxPending

\* A job that ended before Desk registered its callback.
Uncounted == IF pc[Desk] = "hook" /\ result[asked] # "none" THEN 1 ELSE 0

\* Every submitted job is counted, is not done, or is Desk's to count.
CountInv ==
    /\ \A j \in Unfinished : j \in hooked \/ (pc[Desk] = "hook" /\ j = asked)
    /\ pc[Desk] = "hook" => asked \notin hooked
    /\ metrics.submitted =
          metrics.completed + metrics.failed + Cardinality(Unfinished) + Uncounted

\* How far the shutdown is, and who has stopped by then.
OrderInv ==
    /\ main # "up" => pc[Desk] \in {"idle", "dead"}
    /\ main \in {"scheduler", "draining", "stopped"} => fifo = <<>> /\ running = NoJob
    /\ main \in {"up", "coordinator", "joining", "scheduler"} => sched = "running"
    /\ sched = "stopped" => queue = {} /\ serving = Nobody
    /\ main = "stopped" => sched = "stopped"
    /\ ProviderInPlace

\* The job's own list is the table whenever it decides by it, and the candidate it
\* decides about is not in it.
ClaimInv ==
    /\ table \in [Claims -> {0, 1}] /\ cache \in [Claims -> {0, 1}]
    /\ phase = "resolve" \/ pc[Writer] \in {"next", "store"} => cache = table
    /\ pc[Writer] = "store" \/ (phase = "resolve" /\ pc[Writer] \in Calling) =>
          Head(drafts) \notin Known
    /\ pc[Writer] = "store" => target \in Known \cup {NoClaim}

MemoryInv == TypeInv /\ PoolInv /\ CountInv /\ OrderInv /\ ClaimInv
------------------------------------------------------------------------------
\* An extraction's candidates are a sequence of claims.
LEMMA DraftsOf ==
    ASSUME NEW s \in BoundedSeq(Claims, MaxDrafts)
    PROVE  s \in Seq(Claims) /\ Len(s) <= MaxDrafts
<1>1. PICK m \in 0 .. MaxDrafts : s \in [1 .. m -> Claims]
  BY DEF BoundedSeq, SeqOf
<1> QED
  BY <1>1

\* What a queue gives and what it keeps.
LEMMA TakeFirst ==
    ASSUME NEW S, NEW s \in Seq(S), s # <<>>
    PROVE  /\ Head(s) \in S /\ Tail(s) \in Seq(S) /\ Len(Tail(s)) = Len(s) - 1
           /\ Len(s) \in Nat \ {0} /\ Head(s) = s[1]
           /\ \A i \in 1 .. Len(s) - 1 : Tail(s)[i] = s[i + 1]
BY HeadTailProperties, LenProperties, EmptySeq

\* Counters stay counters.
LEMMA Counted ==
    ASSUME NEW m \in Metrics
    PROVE  /\ [m EXCEPT !.submitted = @ + 1] \in Metrics /\ [m EXCEPT !.completed = @ + 1] \in Metrics
           /\ [m EXCEPT !.failed = @ + 1] \in Metrics /\ [m EXCEPT !.skipped = @ + 1] \in Metrics
BY DEF Metrics

\* A caller of the model is anywhere in its call, or back from it; the writer does not
\* stream.  Nothing of the coordinator moves, and the scheduler only stops when drained.
LEMMA AccessStays ==
    ASSUME TypeInv, Access
    PROVE  /\ UNCHANGED <<pool, body, asked, front, main>>
           /\ pc'[Desk] = pc[Desk] \/ (pc[Desk] \in Asking /\ pc'[Desk] \in Asking)
           /\ pc'[Writer] = pc[Writer] \/ (pc[Writer] \in Calling /\ pc'[Writer] \in Calling)
<1> USE DEF Goto, Asking, Calling, DeskAt, WriterAt, Callers
<1>0. pc \in [Callers -> DeskAt \cup WriterAt]
  BY DEF TypeInv, ModelTypes
<1>1. CASE Serve
  BY <1>1 DEF Serve, Take, Enter, Chat, Exit, Access
<1>2. CASE Stream(Desk)
  BY <1>2, <1>0 DEF Stream, OpenStream, Acquire, StartStream, EndStream, Access
<1>3. ASSUME NEW c \in Callers, Generate(c)
      PROVE  /\ pc'[Desk] = pc[Desk] \/ (pc[Desk] \in Asking /\ pc'[Desk] \in Asking)
             /\ pc'[Writer] = pc[Writer] \/ (pc[Writer] \in Calling /\ pc'[Writer] \in Calling)
  BY <1>3, <1>0 DEF Generate, Submit, Receive, CloseClient, OpenClient, GiveUp
<1> QED
  BY <1>1, <1>2, <1>3 DEF Access

\* A job ends in the state the next one starts from.
LEMMA EndTypes ==
    ASSUME TypeInv, NEW r \in {"completed", "failed"}, running # NoJob, EndJob(r)
    PROVE  /\ result' \in [Jobs -> Results] /\ running' = NoJob /\ fifo' = fifo /\ hooked' = hooked
           /\ active' \subseteq Jobs
           /\ metrics' \in Metrics
           /\ pc' = [pc EXCEPT ![Writer] = "idle"] /\ pc'[Writer] = "idle" /\ pc'[Desk] = pc[Desk]
           /\ phase' = "extract" /\ drafts' = <<>> /\ target' = NoClaim
           /\ drafts' \in Seq(Claims) /\ Len(drafts') <= MaxDrafts
<1>1. drafts' \in Seq(Claims) /\ Len(drafts') <= MaxDrafts
  BY DEF EndJob
<1>2. active' \subseteq Jobs
  BY DEF EndJob, Callback, TypeInv, JobTypes
<1>3. metrics' \in Metrics
  BY Counted DEF EndJob, Callback, TypeInv, JobTypes
<1>4. result' \in [Jobs -> Results]
  BY DEF EndJob, TypeInv, JobTypes, Results
<1>5. pc \in [Callers -> DeskAt \cup WriterAt] /\ Desk \in Callers /\ Writer \in Callers
  BY DEF TypeInv, ModelTypes, Callers
<1> QED
  BY <1>1, <1>2, <1>3, <1>4, <1>5 DEF EndJob, Goto

------------------------------------------------------------------------------
\* Every operation of the coordinator keeps the types of the model's side.
LEMMA ModelTypesKept ==
    ASSUME TypeInv, Desktop \/ Job \/ Close \/ Shutdown
    PROVE  ModelTypes'
<1> USE DEF Goto, Callers, TypeOK, ModelTypes, DeskAt, WriterAt, Asking, Calling, model
<1>0. ModelTypes /\ MaxAttempts \in Nat \ {0} /\ 1 \in 1 .. MaxAttempts
  BY DEF TypeInv
<1>1. CASE Desktop
  BY <1>1, <1>0 DEF Desktop, Ask, Answered, SubmitJob, Hook
<1>2. CASE StartJob
  BY <1>2, <1>0 DEF StartJob
<1>3. CASE Extract
  BY <1>3, <1>0 DEF Extract, EndJob
<1>4. CASE NextCandidate
  BY <1>4, <1>0 DEF NextCandidate, EndJob
<1>5. CASE Resolve
  BY <1>5, <1>0 DEF Resolve
<1>6. CASE Store
  BY <1>6, <1>0 DEF Store, EndJob
<1>7. CASE Close
  BY <1>7, <1>0 DEF Close
<1>8. CASE Shutdown
  <2>1. CASE StopCoordinator \/ Joined
    BY <2>1, <1>0 DEF StopCoordinator, Joined, vars
  <2>2. CASE StopScheduler
    BY <2>2, <1>0 DEF StopScheduler
  <2>3. CASE StopProvider
    <3>1. TypeOK'
      BY <2>3, <1>0 DEF StopProvider
    <3> QED
      BY <2>3, <1>0, <3>1 DEF StopProvider
  <2> QED
    BY <1>8, <2>1, <2>2, <2>3 DEF Shutdown
<1> QED
  BY <1>1, <1>2, <1>3, <1>4, <1>5, <1>6, <1>7, <1>8 DEF Job

\* Every step towards the model keeps the types of the model's side.
LEMMA AccessTypesKept ==
    ASSUME TypeInv, Access
    PROVE  ModelTypes'
<1> USE DEF Goto, Callers, TypeOK, ModelTypes, DeskAt, WriterAt, Asking, Calling, inner
<1>0. ModelTypes
  BY DEF TypeInv
<1>1. CASE Take
  BY <1>1, <1>0 DEF Take, Finish
<1>2. CASE Enter
  BY <1>2, <1>0 DEF Enter, Finish
<1>3. CASE Chat
  BY <1>3, <1>0 DEF Chat, Finish
<1>4. CASE Exit
  BY <1>4, <1>0 DEF Exit
<1>5. CASE OpenStream(Desk)
  BY <1>5, <1>0 DEF OpenStream
<1>6. CASE Acquire(Desk)
  BY <1>6, <1>0 DEF Acquire
<1>7. CASE StartStream(Desk)
  BY <1>7, <1>0 DEF StartStream
<1>8. CASE EndStream(Desk)
  BY <1>8, <1>0 DEF EndStream
<1>9. ASSUME NEW c \in Callers, Generate(c)
      PROVE  ModelTypes'
  <2>1. CASE Submit(c)
    BY <2>1, <1>0 DEF Submit
  <2>2. CASE Receive(c)
    BY <2>2, <1>0 DEF Receive
  <2>3. CASE CloseClient(c)
    <3>1. TypeOK'
      BY <2>3, <1>0 DEF CloseClient
    <3>2. /\ pc' \in [Callers -> DeskAt \cup WriterAt] /\ pc'[Desk] \in DeskAt
          /\ pc'[Writer] \in WriterAt /\ pc'[c] = "reopen"
          /\ \A d \in Callers \ {c} : pc'[d] = pc[d]
      BY <2>3, <1>0 DEF CloseClient
    <3> QED
      BY <2>3, <1>0, <3>1, <3>2 DEF CloseClient
  <2>4. CASE OpenClient(c)
    BY <2>4, <1>0 DEF OpenClient
  <2>5. CASE GiveUp(c)
    BY <2>5, <1>0 DEF GiveUp
  <2> QED
    BY <1>9, <2>1, <2>2, <2>3, <2>4, <2>5 DEF Generate
<1> QED
  BY <1>1, <1>2, <1>3, <1>4, <1>5, <1>6, <1>7, <1>8, <1>9 DEF Access, Serve, Stream

\* Every operation of the coordinator keeps the types of its side.
LEMMA JobTypesKept ==
    ASSUME TypeInv, Desktop \/ Job \/ Close \/ Shutdown
    PROVE  JobTypes'
<1> USE DEF Goto, Callers, JobTypes, Calling
<1>0. /\ JobTypes /\ pc \in [Callers -> DeskAt \cup WriterAt] /\ Desk \in Callers /\ Writer \in Callers
      /\ Desk # Writer
  BY DEF TypeInv, ModelTypes
<1>1. CASE Ask
  BY <1>1, <1>0 DEF Ask, pool, body, Jobs
<1>2. CASE Answered
  BY <1>2, <1>0 DEF Answered, pool, body
<1>3. CASE SubmitJob
  <2>1. asked \in Jobs
    BY <1>3, <1>0 DEF SubmitJob
  <2>2. Append(fifo, asked) \in Seq(Jobs)
    BY <2>1, <1>0, AppendProperties
  <2>3. fifo' \in Seq(Jobs) /\ active' \subseteq Jobs
    <3>1. fifo' = fifo \/ fifo' = Append(fifo, asked)
      BY <1>3 DEF SubmitJob
    <3>2. active' \subseteq active \cup {asked}
      BY <1>3 DEF SubmitJob
    <3> QED
      BY <1>0, <2>1, <2>2, <3>1, <3>2
  <2>4. metrics' \in Metrics
    BY <1>3, <1>0, Counted DEF SubmitJob
  <2>5. pc'[Writer] = pc[Writer]
    BY <1>3, <1>0 DEF SubmitJob
  <2> QED
    BY <1>3, <1>0, <2>1, <2>3, <2>4, <2>5 DEF SubmitJob, body
<1>4. CASE Hook
  <2>1. asked \in Jobs
    BY <1>4, <1>0 DEF Hook
  <2>2. hooked' \subseteq Jobs /\ active' \subseteq Jobs
    BY <1>4, <1>0, <2>1 DEF Hook, Callback
  <2>3. metrics' \in Metrics
    BY <1>4, <1>0, Counted DEF Hook, Callback
  <2>4. pc'[Writer] = pc[Writer]
    BY <1>4, <1>0 DEF Hook
  <2> QED
    BY <1>4, <1>0, <2>1, <2>2, <2>3, <2>4 DEF Hook, body
<1>5. CASE StartJob
  <2>1. Head(fifo) \in Jobs /\ Tail(fifo) \in Seq(Jobs)
    BY <1>5, <1>0, TakeFirst DEF StartJob
  <2>2. pc'[Writer] = "call" /\ pc'[Desk] = pc[Desk]
    BY <1>5, <1>0 DEF StartJob
  <2> QED
    BY <1>5, <1>0, <2>1, <2>2 DEF StartJob, NoJob, Jobs
<1>6. ASSUME NEW r \in {"completed", "failed"}, EndJob(r), running # NoJob, asked' = asked, main' = main
      PROVE  JobTypes'
  BY <1>6, <1>0, EndTypes
<1>7. CASE Extract
  <2>1. running # NoJob
    BY <1>7, <1>0 DEF Extract
  <2>2. CASE EndJob("failed")
    BY <1>7, <1>6, <2>1, <2>2 DEF Extract
  <2>3. CASE ~ EndJob("failed")
    <3>1. drafts' \in Seq(Claims) /\ Len(drafts') <= MaxDrafts
      BY <1>7, <2>3, DraftsOf DEF Extract
    <3>2. pc'[Writer] = "next" /\ pc'[Desk] = pc[Desk]
      BY <1>7, <1>0, <2>3 DEF Extract
    <3> QED
      BY <1>7, <1>0, <2>1, <2>3, <3>1, <3>2 DEF Extract, pool
  <2> QED
    BY <2>2, <2>3
<1>8. CASE NextCandidate
  <2>1. running # NoJob
    BY <1>8, <1>0 DEF NextCandidate
  <2>2. CASE drafts = <<>>
    BY <1>8, <1>6, <2>1, <2>2 DEF NextCandidate
  <2>3. CASE drafts # <<>>
    <3>1. Tail(drafts) \in Seq(Claims) /\ Len(Tail(drafts)) <= MaxDrafts
      BY <1>0, <2>3, TakeFirst
    <3>2. drafts' \in {drafts, Tail(drafts)} /\ phase' \in {phase, "resolve"}
      BY <1>8, <2>3 DEF NextCandidate
    <3>3. /\ pc'[Writer] \in {"next", "store", "call"} /\ pc'[Desk] = pc[Desk]
          /\ pc'[Writer] # "next" => drafts' # <<>>
      BY <1>8, <1>0, <2>3 DEF NextCandidate
    <3> QED
      BY <1>8, <1>0, <2>1, <2>3, <3>1, <3>2, <3>3 DEF NextCandidate, pool
  <2> QED
    BY <2>2, <2>3
<1>9. CASE Resolve
  <2>1. running # NoJob
    BY <1>9, <1>0 DEF Resolve
  <2>2. drafts' \in Seq(Claims) /\ Len(drafts') <= MaxDrafts
    <3>1. drafts # <<>>
      BY <1>9, <1>0 DEF Resolve, Calling
    <3>2. Tail(drafts) \in Seq(Claims) /\ Len(Tail(drafts)) <= MaxDrafts
      BY <1>0, <3>1, TakeFirst
    <3> QED
      BY <3>2, <1>9, <1>0 DEF Resolve
  <2>3. /\ pc'[Writer] \in {"next", "store"} /\ pc'[Desk] = pc[Desk]
        /\ pc'[Writer] = "store" => drafts' # <<>>
    BY <1>9, <1>0 DEF Resolve, Calling
  <2>4. target' \in Claims \cup {NoClaim}
    BY <1>9, <1>0 DEF Resolve, Known
  <2> QED
    BY <1>9, <1>0, <2>1, <2>2, <2>3, <2>4 DEF Resolve, pool
<1>10. CASE Store
  <2>1. running # NoJob
    BY <1>10, <1>0 DEF Store
  <2>2. CASE EndJob("failed")
    BY <1>10, <1>6, <2>1, <2>2 DEF Store
  <2>3. CASE ~ EndJob("failed")
    <3>1. drafts' \in Seq(Claims) /\ Len(drafts') <= MaxDrafts
      <4>1. drafts # <<>> /\ drafts' = Tail(drafts)
        BY <1>10, <1>0, <2>3 DEF Store
      <4> QED
        BY <4>1, <1>0, TakeFirst
    <3>2. pc'[Writer] = "next" /\ pc'[Desk] = pc[Desk]
      BY <1>10, <1>0, <2>3 DEF Store
    <3> QED
      BY <1>10, <1>0, <2>1, <2>3, <3>1, <3>2 DEF Store, pool
  <2> QED
    BY <2>2, <2>3
<1>11. CASE Close
  <2>1. pc'[Writer] = pc[Writer] /\ pc'[Desk] \in {"idle", "dead"}
    BY <1>11, <1>0 DEF Close
  <2> QED
    BY <1>11, <1>0, <2>1 DEF Close, pool, body
<1>12. CASE Shutdown
  BY <1>12, <1>0 DEF Shutdown, StopCoordinator, Joined, StopScheduler, StopProvider, pool, body, vars
<1> QED
  BY <1>1, <1>2, <1>3, <1>4, <1>5, <1>7, <1>8, <1>9, <1>10, <1>11, <1>12 DEF Desktop, Job

\* Every step keeps the types.
LEMMA TypesKept ==
    ASSUME TypeInv, Next
    PROVE  TypeInv'
<1>1. CASE Desktop \/ Job \/ Close \/ Shutdown
  BY <1>1, ModelTypesKept, JobTypesKept DEF TypeInv
<1>2. CASE Access
  BY <1>2, AccessTypesKept, AccessStays DEF TypeInv, JobTypes, pool, body, Asking, Calling, DeskAt, WriterAt
<1> QED
  BY <1>1, <1>2 DEF Next

------------------------------------------------------------------------------
\* What a step may do to the coordinator's pool.
LEMMA PoolSteps ==
    ASSUME TypeInv, Next
    PROVE  \/ Ask \/ Answered \/ SubmitJob \/ Hook \/ StartJob
           \/ /\ \E r \in {"completed", "failed"} : EndJob(r)
              /\ running # NoJob /\ asked' = asked /\ pc'[Desk] = pc[Desk]
           \/ /\ UNCHANGED <<fifo, running, active, hooked, result, metrics, asked>>
              /\ \/ pc'[Desk] = pc[Desk]
                 \/ pc[Desk] \in Asking /\ pc'[Desk] \in Asking \cup {"dead"}
<1>0. /\ pc \in [Callers -> DeskAt \cup WriterAt] /\ Desk \in Callers /\ Writer \in Callers
      /\ pc[Writer] # "idle" => running # NoJob
  BY DEF TypeInv, ModelTypes, JobTypes, Callers
<1>1. ASSUME NEW r \in {"completed", "failed"}, EndJob(r)
      PROVE  pc'[Desk] = pc[Desk]
  BY <1>0, <1>1 DEF EndJob, Goto
<1>2. CASE Extract
  BY <1>2, <1>1, <1>0 DEF Extract, pool, Goto
<1>3. CASE NextCandidate
  BY <1>3, <1>1, <1>0 DEF NextCandidate, pool, Goto
<1>4. CASE Resolve
  BY <1>4, <1>0 DEF Resolve, pool, Goto
<1>5. CASE Store
  BY <1>5, <1>1, <1>0 DEF Store, pool, Goto
<1>6. CASE Close
  BY <1>6, <1>0 DEF Close, pool, Goto, Asking
<1>7. CASE Shutdown
  BY <1>7 DEF Shutdown, StopCoordinator, Joined, StopScheduler, StopProvider, pool, vars
<1>8. CASE Access
  BY <1>8, AccessStays DEF pool
<1> QED
  BY <1>2, <1>3, <1>4, <1>5, <1>6, <1>7, <1>8 DEF Next, Desktop, Job

\* Jobs are finitely many.
LEMMA JobsFinite ==
    ASSUME NEW S, S \subseteq Jobs
    PROVE  IsFiniteSet(S) /\ Cardinality(S) \in Nat
<1>1. IsFiniteSet(Jobs)
  BY FS_Interval, 1 \in Int, MaxRequests \in Int DEF Jobs
<1>2. IsFiniteSet(S)
  BY <1>1, FS_Subset
<1> QED
  BY <1>2, FS_CardinalityType

\* The request being submitted is new to the coordinator.
LEMMA SubmitsNew ==
    ASSUME TypeInv, PoolInv, pc[Desk] = "submit"
    PROVE  /\ asked \in Jobs /\ asked \notin Past /\ asked \notin active /\ asked \notin hooked
           /\ result[asked] = "none" /\ asked \notin Unfinished
BY DEF TypeInv, JobTypes, PoolInv, Past

\* A submitted job waits in the pool.
LEMMA SubmitAdds ==
    ASSUME TypeInv, PoolInv, SubmitJob, fifo' # fifo
    PROVE  /\ fifo' = Append(fifo, asked) /\ Unfinished' = Unfinished \cup {asked}
           /\ pc'[Desk] = "hook" /\ active' = Unfinished \cup {asked}
           /\ metrics' = [metrics EXCEPT !.submitted = @ + 1]
           /\ Cardinality(Unfinished) < MaxPending
<1>1. /\ asked \in Jobs /\ fifo \in Seq(Jobs)
      /\ pc \in [Callers -> DeskAt \cup WriterAt] /\ Desk \in Callers
  BY SubmitsNew DEF SubmitJob, TypeInv, JobTypes, ModelTypes, Callers
<1>2. Unfinished = {j \in active : result[j] = "none"}
  BY DEF PoolInv
<1>3. /\ fifo' = Append(fifo, asked) /\ pc'[Desk] = "hook" /\ active' = Unfinished \cup {asked}
      /\ metrics' = [metrics EXCEPT !.submitted = @ + 1] /\ running' = running
      /\ ~ (Cardinality(Unfinished) >= MaxPending)
  BY <1>1, <1>2 DEF SubmitJob, Goto
<1>4. /\ Len(fifo) \in Nat /\ DOMAIN fifo = 1 .. Len(fifo) /\ DOMAIN fifo' = 1 .. Len(fifo) + 1
      /\ fifo'[Len(fifo) + 1] = asked /\ \A i \in 1 .. Len(fifo) : fifo'[i] = fifo[i]
  BY <1>1, <1>3, AppendProperties, LenProperties
<1>5. Unfinished' = Unfinished \cup {asked}
  <2>1. ASSUME NEW j \in Jobs
        PROVE  (\E i \in DOMAIN fifo' : fifo'[i] = j) <=> (\E i \in DOMAIN fifo : fifo[i] = j) \/ j = asked
    <3>1. Len(fifo) + 1 \in DOMAIN fifo'
      BY <1>4
    <3>2. \A i \in DOMAIN fifo' : i \in DOMAIN fifo \/ i = Len(fifo) + 1
      BY <1>4
    <3>3. \A i \in DOMAIN fifo : i \in DOMAIN fifo' /\ fifo'[i] = fifo[i]
      BY <1>4
    <3> QED
      BY <3>1, <3>2, <3>3, <1>4
  <2> QED
    BY <2>1, <1>1, <1>3 DEF Unfinished
<1>6. Cardinality(Unfinished) \in Nat
  BY JobsFinite DEF Unfinished
<1> QED
  BY <1>3, <1>5, <1>6

\* The first job of the queue is the one that runs; none is lost.
LEMMA StartMoves ==
    ASSUME TypeInv, PoolInv, StartJob
    PROVE  /\ Unfinished' = Unfinished /\ pc'[Desk] = pc[Desk]
           /\ \A i, k \in DOMAIN fifo' : fifo'[i] = fifo'[k] => i = k
           /\ \A i \in DOMAIN fifo' : fifo'[i] # running'
<1>1. /\ fifo \in Seq(Jobs) /\ fifo # <<>> /\ running = NoJob
      /\ fifo' = Tail(fifo) /\ running' = Head(fifo)
      /\ pc \in [Callers -> DeskAt \cup WriterAt] /\ Desk \in Callers
      /\ \A i, k \in DOMAIN fifo : fifo[i] = fifo[k] => i = k
  BY DEF StartJob, TypeInv, JobTypes, ModelTypes, Callers, PoolInv
<1>2. /\ Len(fifo) \in Nat \ {0} /\ DOMAIN fifo = 1 .. Len(fifo)
      /\ fifo' \in Seq(Jobs) /\ Len(fifo') = Len(fifo) - 1 /\ running' = fifo[1]
      /\ \A i \in 1 .. Len(fifo) - 1 : fifo'[i] = fifo[i + 1]
  BY <1>1, TakeFirst, LenProperties
<1>3. DOMAIN fifo' = 1 .. Len(fifo) - 1
  BY <1>2, LenProperties
<1>4. ASSUME NEW j \in Jobs
      PROVE  (j = running' \/ \E i \in DOMAIN fifo' : fifo'[i] = j) <=>
             (j = running \/ \E i \in DOMAIN fifo : fifo[i] = j)
  <2>1. ASSUME NEW i \in DOMAIN fifo, fifo[i] = j
        PROVE  j = running' \/ \E k \in DOMAIN fifo' : fifo'[k] = j
    <3>1. CASE i = 1
      BY <3>1, <2>1, <1>2
    <3>2. CASE i # 1
      <4>1. i - 1 \in DOMAIN fifo' /\ (i - 1) + 1 = i
        BY <3>2, <1>2, <1>3
      <4> QED
        BY <4>1, <2>1, <1>2, <1>3
    <3> QED
      BY <3>1, <3>2
  <2>2. ASSUME NEW k \in DOMAIN fifo', fifo'[k] = j
        PROVE  \E i \in DOMAIN fifo : fifo[i] = j
    <3>1. k + 1 \in DOMAIN fifo /\ fifo[k + 1] = j
      BY <2>2, <1>2, <1>3
    <3> QED
      BY <3>1
  <2>3. j # running
    BY <1>1 DEF NoJob, Jobs
  <2>4. 1 \in DOMAIN fifo
    BY <1>2
  <2> QED
    BY <2>1, <2>2, <2>3, <2>4, <1>2
<1>5. Unfinished' = Unfinished
  BY <1>4 DEF Unfinished
<1>6. ASSUME NEW i \in DOMAIN fifo'
      PROVE  fifo'[i] = fifo[i + 1] /\ i + 1 \in DOMAIN fifo /\ i + 1 # 1 /\ i \in Int
  BY <1>2, <1>3
<1>7. pc'[Desk] = pc[Desk]
  BY <1>1 DEF StartJob, Goto
<1>8. \A i \in DOMAIN fifo' : fifo'[i] # running'
  BY <1>6, <1>1, <1>2
<1>9. ASSUME NEW i \in DOMAIN fifo', NEW k \in DOMAIN fifo', fifo'[i] = fifo'[k]
      PROVE  i = k
  <2>1. i + 1 = k + 1
    BY <1>9, <1>6, <1>1
  <2> QED
    BY <2>1, <1>6
<1> QED
  BY <1>5, <1>7, <1>8, <1>9

\* A job that ends is done, and no other.
LEMMA EndRemoves ==
    ASSUME TypeInv, PoolInv, NEW r \in {"completed", "failed"}, EndJob(r), running # NoJob
    PROVE  running \in Unfinished /\ Unfinished' = Unfinished \ {running} /\ fifo' = fifo
<1>1. fifo' = fifo /\ running' = NoJob /\ running \in Jobs
  BY DEF EndJob, TypeInv, JobTypes
<1>2. \A i \in DOMAIN fifo : fifo[i] # running
  BY DEF PoolInv
<1>3. \A j \in Jobs : j # NoJob
  BY DEF Jobs, NoJob
<1> QED
  BY <1>1, <1>2, <1>3 DEF Unfinished

\* Every step keeps the agreement of the pool and the coordinator.
LEMMA PoolKept ==
    ASSUME TypeInv, PoolInv, Next
    PROVE  PoolInv'
<1>0. /\ pc \in [Callers -> DeskAt \cup WriterAt] /\ Desk \in Callers /\ Writer \in Callers
      /\ Desk # Writer /\ asked \in 0 .. MaxRequests
      /\ result \in [Jobs -> Results] /\ active \subseteq Jobs /\ hooked \subseteq Jobs
  BY DEF TypeInv, ModelTypes, JobTypes, Callers
<1>1. ASSUME UNCHANGED <<fifo, running, active, hooked, result>>, Past \subseteq Past'
      PROVE  PoolInv'
  BY <1>1 DEF PoolInv, Unfinished
<1>2. CASE Ask
  <2>1. asked' = asked + 1 /\ pc[Desk] = "idle" /\ pc'[Desk] \in {"call", "stream"}
    BY <1>2, <1>0 DEF Ask, Goto
  <2>2. Past' = Past
    BY <2>1, <1>0 DEF Past, Jobs
  <2> QED
    BY <1>1, <1>2, <2>2 DEF Ask, pool
<1>3. CASE Answered
  <2>1. asked' = asked /\ pc[Desk] \in {"returned", "raised"}
    BY <1>3 DEF Answered
  <2>2. Past \subseteq Past'
    BY <2>1 DEF Past
  <2> QED
    BY <1>1, <1>3, <2>2 DEF Answered, pool
<1>4. CASE SubmitJob
  <2>1. /\ asked \in Jobs /\ asked \notin Past /\ asked \notin active /\ asked \notin hooked
        /\ result[asked] = "none" /\ asked \notin Unfinished
    BY <1>4, SubmitsNew DEF SubmitJob
  <2>2. /\ asked' = asked /\ result' = result /\ hooked' = hooked /\ running' = running
        /\ pc[Desk] = "submit" /\ pc'[Desk] \in {"idle", "hook"}
    BY <1>4, <1>0 DEF SubmitJob, Goto
  <2>3. Past' = Past \cup {asked}
    BY <2>1, <2>2, <1>0 DEF Past, Jobs
  <2>4. CASE fifo' = fifo
    <3>1. Unfinished' = Unfinished
      BY <2>2, <2>4 DEF Unfinished
    <3>2. active' = active \/ active' = {j \in active : result[j] = "none"}
      <4>1. Append(fifo, asked) # fifo
        <5>1. fifo \in Seq(Jobs)
          BY DEF TypeInv, JobTypes
        <5> QED
          BY <5>1, <2>1, AppendProperties, LenProperties
      <4> QED
        BY <1>4, <2>4, <4>1 DEF SubmitJob
    <3> QED
      BY <2>2, <2>3, <2>4, <3>1, <3>2 DEF PoolInv
  <2>5. CASE fifo' # fifo
    <3>1. /\ fifo' = Append(fifo, asked) /\ Unfinished' = Unfinished \cup {asked}
          /\ active' = Unfinished \cup {asked} /\ Cardinality(Unfinished) < MaxPending
      BY <1>4, <2>5, SubmitAdds
    <3>2. \A j \in Unfinished : result[j] = "none" /\ j \in Past /\ j \in Jobs
      BY DEF PoolInv, Past
    <3>3. Cardinality(Unfinished') <= MaxPending
      <4>1. IsFiniteSet(Unfinished) /\ Cardinality(Unfinished) \in Nat
        BY JobsFinite DEF Unfinished
      <4>2. Cardinality(Unfinished \cup {asked}) = Cardinality(Unfinished) + 1
        BY <4>1, <2>1, FS_AddElement
      <4> QED
        BY <4>1, <4>2, <3>1
    <3>4. fifo \in Seq(Jobs)
      BY DEF TypeInv, JobTypes
    <3>5. /\ Len(fifo) \in Nat /\ DOMAIN fifo = 1 .. Len(fifo) /\ DOMAIN fifo' = 1 .. Len(fifo) + 1
          /\ fifo'[Len(fifo) + 1] = asked /\ \A i \in 1 .. Len(fifo) : fifo'[i] = fifo[i]
      BY <3>1, <3>4, <2>1, AppendProperties, LenProperties
    <3>6. \A i \in DOMAIN fifo : fifo[i] # asked /\ fifo[i] # running
      BY <2>1 DEF PoolInv, Unfinished
    <3>7. running # asked
      BY <2>1 DEF Unfinished
    <3>8. \A i \in DOMAIN fifo' : i \in DOMAIN fifo \/ i = Len(fifo) + 1
      BY <3>5
    <3>9. \A i, k \in DOMAIN fifo' : fifo'[i] = fifo'[k] => i = k
      <4>1. \A i, k \in DOMAIN fifo : fifo[i] = fifo[k] => i = k
        BY DEF PoolInv
      <4> QED
        BY <4>1, <3>5, <3>6, <3>8
    <3>10. \A i \in DOMAIN fifo' : fifo'[i] # running'
      BY <3>5, <3>6, <3>7, <3>8, <2>2
    <3>11. Unfinished' = {j \in active' : result'[j] = "none"}
      BY <3>1, <3>2, <2>1, <2>2
    <3>12. /\ active' \subseteq Past' /\ hooked' \subseteq Past'
           /\ \A j \in Jobs \ Past' : result'[j] = "none"
      BY <3>1, <3>2, <2>2, <2>3 DEF PoolInv
    <3> QED
      BY <3>3, <3>9, <3>10, <3>11, <3>12 DEF PoolInv
  <2> QED
    BY <2>4, <2>5
<1>5. CASE Hook
  <2>1. /\ pc[Desk] = "hook" /\ pc'[Desk] = "idle" /\ asked' = asked
        /\ UNCHANGED <<fifo, running, result>>
    BY <1>5, <1>0 DEF Hook, Goto
  <2>2. Past' = Past /\ Unfinished' = Unfinished
    BY <2>1 DEF Past, Unfinished
  <2>3. asked \in Jobs /\ asked \in Past
    BY <2>1 DEF TypeInv, JobTypes, Past
  <2>4. hooked' \subseteq hooked \cup {asked}
    BY <1>5 DEF Hook
  <2>5. active' = active \/ (active' = active \ {asked} /\ result[asked] # "none")
    BY <1>5 DEF Hook, Callback
  <2> QED
    BY <2>1, <2>2, <2>3, <2>4, <2>5 DEF PoolInv
<1>6. CASE StartJob
  <2>1. UNCHANGED <<active, hooked, result, asked>>
    BY <1>6 DEF StartJob
  <2>2. Past' = Past
    BY <2>1, <1>6, StartMoves DEF Past
  <2> QED
    BY <2>1, <2>2, <1>6, StartMoves DEF PoolInv
<1>7. ASSUME NEW r \in {"completed", "failed"}, EndJob(r), running # NoJob, asked' = asked,
             pc'[Desk] = pc[Desk]
      PROVE  PoolInv'
  <2>1. running \in Unfinished /\ Unfinished' = Unfinished \ {running} /\ fifo' = fifo
    BY <1>7, EndRemoves
  <2>2. /\ result' = [result EXCEPT ![running] = r] /\ hooked' = hooked /\ running' = NoJob
        /\ active' \in {active, active \ {running}}
    BY <1>7 DEF EndJob, Callback
  <2>3. Past' = Past
    BY <1>7 DEF Past
  <2>4. running \in active /\ running \in Jobs /\ running \in Past
    BY <2>1 DEF PoolInv, Unfinished
  <2>5. result'[running] # "none" /\ \A j \in Jobs \ {running} : result'[j] = result[j]
    BY <2>2, <2>4, <1>0
  <2>6. Unfinished' = {j \in active' : result'[j] = "none"}
    BY <2>1, <2>2, <2>4, <2>5, <1>0 DEF PoolInv
  <2>7. Cardinality(Unfinished') <= MaxPending
    <3>1. IsFiniteSet(Unfinished) /\ Cardinality(Unfinished) \in Nat
      BY JobsFinite DEF Unfinished
    <3>2. Cardinality(Unfinished \ {running}) <= Cardinality(Unfinished)
      BY <3>1, FS_Subset
    <3>3. Cardinality(Unfinished \ {running}) \in Nat
      BY JobsFinite DEF Unfinished
    <3> QED
      BY <3>1, <3>2, <3>3, <2>1 DEF PoolInv
  <2>8. \A i \in DOMAIN fifo' : fifo'[i] # running'
    <3>1. \A i \in DOMAIN fifo : fifo[i] \in Jobs
      BY LenProperties DEF TypeInv, JobTypes
    <3> QED
      BY <3>1, <2>1, <2>2 DEF Jobs, NoJob
  <2> QED
    BY <2>1, <2>2, <2>3, <2>4, <2>5, <2>6, <2>7, <2>8 DEF PoolInv
<1>8. ASSUME UNCHANGED <<fifo, running, active, hooked, result, asked>>,
             pc'[Desk] = pc[Desk] \/ (pc[Desk] \in Asking /\ pc'[Desk] \in Asking \cup {"dead"})
      PROVE  PoolInv'
  <2>1. Past \subseteq Past'
    BY <1>8 DEF Past, Asking
  <2> QED
    BY <1>1, <1>8, <2>1
<1> QED
  BY <1>2, <1>3, <1>4, <1>5, <1>6, <1>7, <1>8, PoolSteps

------------------------------------------------------------------------------
\* A callback counts one job.
LEMMA CallbackCounts ==
    ASSUME NEW m \in Metrics
    PROVE  /\ LET n == [m EXCEPT !.completed = @ + 1]
              IN  n.submitted = m.submitted /\ n.completed + n.failed = m.completed + m.failed + 1
           /\ LET n == [m EXCEPT !.failed = @ + 1]
              IN  n.submitted = m.submitted /\ n.completed + n.failed = m.completed + m.failed + 1
           /\ LET n == [m EXCEPT !.submitted = @ + 1]
              IN  n.submitted = m.submitted + 1 /\ n.completed = m.completed /\ n.failed = m.failed
           /\ LET n == [m EXCEPT !.skipped = @ + 1]
              IN  n.submitted = m.submitted /\ n.completed = m.completed /\ n.failed = m.failed
           /\ m.submitted \in Nat /\ m.completed \in Nat /\ m.failed \in Nat
BY DEF Metrics

\* Every step keeps the count of the jobs.
LEMMA CountKept ==
    ASSUME TypeInv, TypeInv', PoolInv, CountInv, Next
    PROVE  CountInv'
<1>0. /\ pc \in [Callers -> DeskAt \cup WriterAt] /\ Desk \in Callers /\ Writer \in Callers
      /\ Desk # Writer /\ asked \in 0 .. MaxRequests /\ metrics \in Metrics
      /\ result \in [Jobs -> Results]
  BY DEF TypeInv, ModelTypes, JobTypes, Callers
<1>1. /\ metrics.submitted \in Nat /\ metrics.completed \in Nat /\ metrics.failed \in Nat
      /\ Cardinality(Unfinished) \in Nat /\ IsFiniteSet(Unfinished)
  BY <1>0, CallbackCounts, JobsFinite DEF Unfinished
<1>2. ASSUME UNCHANGED <<fifo, running, hooked, metrics>>, pc[Desk] # "hook", pc'[Desk] # "hook"
      PROVE  CountInv'
  <2>1. Unfinished' = Unfinished /\ Uncounted' = 0 /\ Uncounted = 0
    BY <1>2 DEF Unfinished, Uncounted
  <2> QED
    BY <2>1, <1>2 DEF CountInv
<1>3. CASE Ask
  BY <1>2, <1>3, <1>0 DEF Ask, Goto, pool
<1>4. CASE Answered
  BY <1>2, <1>4, <1>0 DEF Answered, Goto, pool
<1>5. CASE SubmitJob
  <2>1. /\ asked' = asked /\ hooked' = hooked /\ running' = running /\ result' = result
        /\ pc[Desk] = "submit" /\ pc'[Desk] \in {"idle", "hook"}
        /\ asked \notin hooked /\ asked \notin Unfinished /\ result[asked] = "none"
    BY <1>5, <1>0, SubmitsNew DEF SubmitJob, Goto
  <2>2. Uncounted = 0 /\ Uncounted' = 0
    BY <2>1 DEF Uncounted
  <2>3. CASE fifo' = fifo
    <3>1. Unfinished' = Unfinished
      BY <2>1, <2>3 DEF Unfinished
    <3>2. Append(fifo, asked) # fifo
      <4>1. fifo \in Seq(Jobs) /\ asked \in Jobs
        BY <2>1, SubmitsNew DEF TypeInv, JobTypes
      <4> QED
        BY <4>1, AppendProperties, LenProperties
    <3>3. pc'[Desk] = "idle" /\ metrics' \in {metrics, [metrics EXCEPT !.skipped = @ + 1]}
      BY <1>5, <1>0, <2>3, <3>2 DEF SubmitJob, Goto
    <3>4. /\ metrics'.submitted = metrics.submitted
          /\ metrics'.completed = metrics.completed /\ metrics'.failed = metrics.failed
      BY <3>3, <1>0, CallbackCounts
    <3> QED
      BY <2>1, <2>2, <3>1, <3>3, <3>4 DEF CountInv
  <2>4. CASE fifo' # fifo
    <3>1. /\ Unfinished' = Unfinished \cup {asked} /\ pc'[Desk] = "hook"
          /\ metrics' = [metrics EXCEPT !.submitted = @ + 1]
      BY <1>5, <2>4, SubmitAdds
    <3>2. Cardinality(Unfinished \cup {asked}) = Cardinality(Unfinished) + 1
      BY <1>1, <2>1, FS_AddElement
    <3>3. /\ metrics'.submitted = metrics.submitted + 1
          /\ metrics'.completed = metrics.completed /\ metrics'.failed = metrics.failed
      BY <3>1, <1>0, CallbackCounts
    <3>4. metrics'.submitted =
              metrics'.completed + metrics'.failed + Cardinality(Unfinished') + Uncounted'
      BY <1>1, <2>2, <3>1, <3>2, <3>3 DEF CountInv
    <3>5. \A j \in Unfinished : j \in hooked
      BY <2>1 DEF CountInv
    <3> QED
      BY <2>1, <3>1, <3>4, <3>5 DEF CountInv
  <2> QED
    BY <2>3, <2>4
<1>6. CASE Hook
  <2>1. /\ pc[Desk] = "hook" /\ pc'[Desk] = "idle" /\ asked' = asked
        /\ UNCHANGED <<fifo, running, result>>
    BY <1>6, <1>0 DEF Hook, Goto
  <2>2. Unfinished' = Unfinished /\ Uncounted' = 0
    BY <2>1 DEF Unfinished, Uncounted
  <2>3. asked \in Unfinished => result[asked] = "none"
    BY DEF PoolInv
  <2>4. CASE result[asked] = "none"
    <3>1. hooked' = hooked \cup {asked} /\ metrics' = metrics /\ Uncounted = 0
      BY <1>6, <2>4 DEF Hook, Uncounted
    <3> QED
      BY <2>1, <2>2, <3>1 DEF CountInv
  <2>5. CASE result[asked] # "none"
    <3>1. hooked' = hooked /\ Uncounted = 1
      BY <1>6, <2>1, <2>5 DEF Hook, Uncounted
    <3>2. metrics' \in {[metrics EXCEPT !.completed = @ + 1], [metrics EXCEPT !.failed = @ + 1]}
      BY <1>6, <2>5 DEF Hook, Callback
    <3>3. /\ metrics'.submitted = metrics.submitted
          /\ metrics'.completed + metrics'.failed = metrics.completed + metrics.failed + 1
      BY <3>2, <1>0, CallbackCounts
    <3>4. metrics'.submitted =
              metrics'.completed + metrics'.failed + Cardinality(Unfinished') + Uncounted'
      BY <1>1, <2>2, <3>1, <3>3 DEF CountInv
    <3>5. \A j \in Unfinished : j \in hooked
      BY <2>3, <2>5 DEF CountInv
    <3> QED
      BY <2>1, <2>2, <3>1, <3>4, <3>5 DEF CountInv
  <2> QED
    BY <2>4, <2>5
<1>7. CASE StartJob
  <2>1. UNCHANGED <<hooked, metrics, result, asked>>
    BY <1>7 DEF StartJob
  <2>2. Unfinished' = Unfinished /\ pc'[Desk] = pc[Desk]
    BY <1>7, StartMoves
  <2>3. Uncounted' = Uncounted
    BY <2>1, <2>2 DEF Uncounted
  <2> QED
    BY <2>1, <2>2, <2>3 DEF CountInv
<1>8. ASSUME NEW r \in {"completed", "failed"}, EndJob(r), running # NoJob, asked' = asked,
             pc'[Desk] = pc[Desk]
      PROVE  CountInv'
  <2>1. running \in Unfinished /\ Unfinished' = Unfinished \ {running}
    BY <1>8, EndRemoves
  <2>2. result' = [result EXCEPT ![running] = r] /\ hooked' = hooked
    BY <1>8 DEF EndJob
  <2>3. running \in Jobs /\ result[running] = "none"
    BY <2>1 DEF PoolInv, Unfinished
  <2>4. result'[running] # "none" /\ \A j \in Jobs \ {running} : result'[j] = result[j]
    BY <2>2, <2>3, <1>0
  <2>5. Cardinality(Unfinished') = Cardinality(Unfinished) - 1
    BY <2>1, <1>1, FS_RemoveElement
  <2>6. pc[Desk] = "hook" => asked \in Jobs
    BY DEF TypeInv, JobTypes
  <2>7. CASE running \in hooked
    <3>1. metrics' \in {[metrics EXCEPT !.completed = @ + 1], [metrics EXCEPT !.failed = @ + 1]}
      BY <1>8, <2>7 DEF EndJob, Callback
    <3>2. /\ metrics'.submitted = metrics.submitted
          /\ metrics'.completed + metrics'.failed = metrics.completed + metrics.failed + 1
      BY <3>1, <1>0, CallbackCounts
    <3>3. pc[Desk] = "hook" => asked # running
      BY <2>7 DEF CountInv
    <3>4. Uncounted' = Uncounted /\ Uncounted \in Nat
      BY <3>3, <2>4, <2>6, <1>8 DEF Uncounted
    <3>5. metrics'.submitted =
              metrics'.completed + metrics'.failed + Cardinality(Unfinished') + Uncounted'
      BY <1>1, <2>5, <3>2, <3>4 DEF CountInv
    <3> QED
      BY <1>8, <2>1, <2>2, <3>5 DEF CountInv
  <2>8. CASE running \notin hooked
    <3>1. metrics' = metrics
      BY <1>8, <2>8 DEF EndJob
    <3>2. pc[Desk] = "hook" /\ asked = running
      BY <2>1, <2>8 DEF CountInv
    <3>3. Uncounted = 0 /\ Uncounted' = 1
      BY <3>2, <2>3, <2>4, <1>8 DEF Uncounted
    <3>4. metrics'.submitted =
              metrics'.completed + metrics'.failed + Cardinality(Unfinished') + Uncounted'
      BY <1>1, <2>5, <3>1, <3>3 DEF CountInv
    <3> QED
      BY <1>8, <2>1, <2>2, <3>4 DEF CountInv
  <2> QED
    BY <2>7, <2>8
<1>9. ASSUME UNCHANGED <<fifo, running, active, hooked, result, metrics, asked>>,
             pc'[Desk] = pc[Desk] \/ (pc[Desk] \in Asking /\ pc'[Desk] \in Asking \cup {"dead"})
      PROVE  CountInv'
  <2>1. Unfinished' = Unfinished
    BY <1>9 DEF Unfinished
  <2>2. pc[Desk] = "hook" <=> pc'[Desk] = "hook"
    BY <1>9 DEF Asking
  <2>3. Uncounted' = Uncounted
    BY <1>9, <2>2 DEF Uncounted
  <2> QED
    BY <1>9, <2>1, <2>2, <2>3 DEF CountInv
<1> QED
  BY <1>3, <1>4, <1>5, <1>6, <1>7, <1>8, <1>9, PoolSteps

------------------------------------------------------------------------------
\* Every step keeps the order of the shutdown, and a client where one is needed.
LEMMA OrderKept ==
    ASSUME TypeInv, OrderInv, Next
    PROVE  OrderInv'
<1> USE DEF Goto, Callers, ProviderInPlace, Reopened
<1>0. /\ pc \in [Callers -> DeskAt \cup WriterAt] /\ Desk # Writer
      /\ (pc[Writer] = "idle") = (running = NoJob)
      /\ (at = "get") = (serving = Nobody)
      /\ main \in {"up", "coordinator", "joining", "scheduler", "draining", "stopped"}
      /\ sched \in {"running", "stopping", "stopped"}
  BY DEF TypeInv, ModelTypes, JobTypes, TypeOK
<1>1. CASE Desktop
  BY <1>1, <1>0 DEF OrderInv, Desktop, Ask, Answered, SubmitJob, Hook, model, pool
<1>2. CASE Job
  <2>1. main \notin {"scheduler", "draining", "stopped"}
    BY <1>2, <1>0 DEF OrderInv, Job, StartJob, Extract, NextCandidate, Resolve, Store
  <2>2. UNCHANGED <<model, main>>
    BY <1>2 DEF Job, StartJob, Extract, NextCandidate, Resolve, Store
  <2>3. pc'[Desk] = pc[Desk] /\ pc[Writer] # "reopen"
    BY <1>2, <1>0 DEF Job, StartJob, Extract, NextCandidate, Resolve, Store, EndJob
  <2> QED
    BY <2>1, <2>2, <2>3 DEF OrderInv, model
<1>3. CASE Close
  BY <1>3, <1>0 DEF OrderInv, Close, model, pool
<1>4. CASE StopCoordinator
  BY <1>4, <1>0 DEF OrderInv, StopCoordinator, vars
<1>5. CASE Joined
  BY <1>5, <1>0 DEF OrderInv, Joined, vars, pool
<1>6. CASE StopScheduler
  BY <1>6, <1>0 DEF OrderInv, StopScheduler, pool
<1>7. CASE StopProvider
  BY <1>7, <1>0 DEF OrderInv, StopProvider, pool
<1>8. CASE Access
  <2>1. UNCHANGED <<fifo, running, main>>
    BY <1>8, AccessStays DEF pool
  <2>2. CASE Serve
    BY <2>1, <2>2, <1>0 DEF OrderInv, Serve, Take, Enter, Chat, Exit, Finish
  <2>3. CASE Stream(Desk)
    BY <2>1, <2>3, <1>0 DEF OrderInv, Stream, OpenStream, Acquire, StartStream, EndStream, inner
  <2>4. ASSUME NEW c \in Callers, Generate(c)
        PROVE  OrderInv'
    BY <2>1, <2>4, <1>0 DEF OrderInv, Generate, Submit, Receive, CloseClient, OpenClient, GiveUp, inner
  <2> QED
    BY <1>8, <2>2, <2>3, <2>4 DEF Access
<1> QED
  BY <1>1, <1>2, <1>3, <1>4, <1>5, <1>6, <1>7, <1>8 DEF Next, Shutdown

------------------------------------------------------------------------------
\* Storing a claim that is not there, in the place of one that is, keeps each at most once.
LEMMA AppliedKeeps ==
    ASSUME NEW bag \in [Claims -> {0, 1}], Head(drafts) \in Claims, bag[Head(drafts)] = 0,
           target \in {c \in Claims : bag[c] > 0} \cup {NoClaim}
    PROVE  Applied(bag) \in [Claims -> {0, 1}]
<1>1. ASSUME NEW c \in Claims
      PROVE  bag[c] + (IF c = Head(drafts) THEN 1 ELSE 0) - (IF c = target THEN 1 ELSE 0) \in {0, 1}
  <2>1. bag[c] \in {0, 1} /\ (c = target => bag[c] = 1)
    OBVIOUS
  <2> QED
    BY <2>1
<1> QED
  BY <1>1 DEF Applied

\* Every step keeps each memory stored at most once.
LEMMA ClaimKept ==
    ASSUME TypeInv, ClaimInv, Next
    PROVE  ClaimInv'
<1> USE DEF Goto
<1>0. /\ pc \in [Callers -> DeskAt \cup WriterAt] /\ Desk # Writer /\ Desk \in Callers /\ Writer \in Callers
      /\ pc[Writer] \in WriterAt /\ drafts \in Seq(Claims) /\ phase \in {"extract", "resolve"}
      /\ pc[Writer] = "store" \/ (phase = "resolve" /\ pc[Writer] \in Calling) => drafts # <<>>
      /\ pc[Writer] = "idle" <=> running = NoJob
      /\ table \in [Claims -> {0, 1}] /\ cache \in [Claims -> {0, 1}]
  BY DEF TypeInv, ModelTypes, JobTypes, Callers, ClaimInv
<1>1. ASSUME UNCHANGED <<phase, table, cache, drafts, target>>,
             pc'[Writer] = pc[Writer] \/ (pc[Writer] \in Calling /\ pc'[Writer] \in Calling)
      PROVE  ClaimInv'
  BY <1>1 DEF ClaimInv, Known, Calling
<1>2. CASE Desktop
  <2>1. pc'[Writer] = pc[Writer]
    BY <1>2, <1>0 DEF Desktop, Ask, Answered, SubmitJob, Hook
  <2> QED
    BY <1>1, <1>2, <2>1 DEF Desktop, Ask, Answered, SubmitJob, Hook, body
<1>3. CASE Close
  <2>1. pc'[Writer] = pc[Writer]
    BY <1>3, <1>0 DEF Close
  <2> QED
    BY <1>1, <1>3, <2>1 DEF Close, body
<1>4. CASE Shutdown
  BY <1>1, <1>4 DEF Shutdown, StopCoordinator, Joined, StopScheduler, StopProvider, body, vars
<1>5. CASE Access
  BY <1>1, <1>5, AccessStays DEF body
<1>6. CASE StartJob
  <2>1. pc'[Writer] = "call" /\ phase' = "extract" /\ UNCHANGED <<table, cache, drafts, target>>
    BY <1>6, <1>0 DEF StartJob
  <2> QED
    BY <2>1, <1>0 DEF ClaimInv
<1>7. ASSUME NEW r \in {"completed", "failed"}, EndJob(r), table' \in [Claims -> {0, 1}]
      PROVE  ClaimInv'
  <2>1. pc'[Writer] = "idle" /\ phase' = "extract" /\ cache' = [c \in Claims |-> 0]
    BY <1>7, <1>0 DEF EndJob
  <2>2. cache' \in [Claims -> {0, 1}]
    BY <2>1
  <2> QED
    BY <1>7, <2>1, <2>2 DEF ClaimInv
<1>8. CASE Extract
  <2>1. CASE EndJob("failed")
    BY <1>7, <1>8, <2>1, <1>0 DEF Extract
  <2>2. CASE ~ EndJob("failed")
    <3>1. pc'[Writer] = "next" /\ cache' = table /\ table' = table /\ phase' = phase
      BY <1>8, <2>2, <1>0 DEF Extract
    <3> QED
      BY <3>1, <1>0 DEF ClaimInv, Calling
  <2> QED
    BY <2>1, <2>2
<1>9. CASE NextCandidate
  <2>1. CASE drafts = <<>>
    BY <1>7, <1>9, <2>1, <1>0 DEF NextCandidate
  <2>2. CASE drafts # <<>>
    <3>1. UNCHANGED <<table, cache>> /\ cache = table
      BY <1>9, <2>2 DEF NextCandidate, ClaimInv
    <3>2. \/ pc'[Writer] = "next"
          \/ pc'[Writer] \in {"store", "call"} /\ drafts' = drafts /\ Head(drafts) \notin Known
      BY <1>9, <2>2, <1>0 DEF NextCandidate
    <3>3. target' = NoClaim
      BY <1>9, <2>2 DEF NextCandidate
    <3> QED
      BY <3>1, <3>2, <3>3, <1>0 DEF ClaimInv, Known, Calling
  <2> QED
    BY <2>1, <2>2
<1>10. CASE Resolve
  <2>1. UNCHANGED <<table, cache, phase>> /\ cache = table /\ Head(drafts) \notin Known
    BY <1>10 DEF Resolve, ClaimInv, Calling
  <2>2. \/ pc'[Writer] = "next"
        \/ pc'[Writer] = "store" /\ drafts' = drafts /\ target' \in Known \cup {NoClaim}
    BY <1>10, <1>0 DEF Resolve
  <2> QED
    BY <2>1, <2>2, <1>0 DEF ClaimInv, Known, Calling
<1>11. CASE Store
  <2>1. /\ cache = table /\ drafts # <<>> /\ Head(drafts) \notin Known
        /\ target \in Known \cup {NoClaim}
    BY <1>11, <1>0 DEF Store, ClaimInv
  <2>2. Head(drafts) \in Claims
    BY <2>1, <1>0, TakeFirst
  <2>3. table[Head(drafts)] = 0 /\ target \in {c \in Claims : table[c] > 0} \cup {NoClaim}
    BY <2>1, <2>2, <1>0 DEF Known
  <2>4. Applied(table) \in [Claims -> {0, 1}]
    BY <2>2, <2>3, <1>0, AppliedKeeps
  <2>5. CASE EndJob("failed")
    <3>1. table' \in {table, Applied(table)}
      BY <1>11 DEF Store
    <3> QED
      BY <1>7, <2>5, <3>1, <2>4, <1>0
  <2>6. CASE ~ EndJob("failed")
    <3>1. pc'[Writer] = "next" /\ table' = Applied(table) /\ cache' = table' /\ phase' = phase
      BY <1>11, <2>1, <2>6, <1>0 DEF Store
    <3> QED
      BY <3>1, <2>4 DEF ClaimInv, Calling
  <2> QED
    BY <2>5, <2>6
<1> QED
  BY <1>2, <1>3, <1>4, <1>5, <1>6, <1>8, <1>9, <1>10, <1>11 DEF Next, Job

------------------------------------------------------------------------------
\* The start satisfies the invariant.
LEMMA StartHolds ==
    ASSUME Start
    PROVE  MemoryInv
<1> USE DEF Start, Init
<1>1. ModelTypes
  BY DEF ModelTypes, TypeOK, Callers, DeskAt, WriterAt
<1>2. JobTypes
  <2>1. <<>> \in Seq(Jobs) /\ <<>> \in Seq(Claims) /\ Len(<<>>) <= MaxDrafts
    OBVIOUS
  <2>2. result \in [Jobs -> Results] /\ metrics \in Metrics
    BY DEF Results, Metrics
  <2> QED
    BY <2>1, <2>2 DEF JobTypes, Callers, Calling
<1>3. Unfinished = {}
  BY DEF Unfinished, Jobs, NoJob
<1>4. Cardinality(Unfinished) = 0
  BY <1>3, FS_EmptySet
<1>5. PoolInv
  BY <1>3, <1>4 DEF PoolInv
<1>6. CountInv
  BY <1>3, <1>4 DEF CountInv, Uncounted, Callers
<1>7. OrderInv
  BY DEF OrderInv, ProviderInPlace, Reopened
<1>8. ClaimInv
  BY DEF ClaimInv, Callers, Calling
<1> QED
  BY <1>1, <1>2, <1>5, <1>6, <1>7, <1>8 DEF MemoryInv, TypeInv

\* A step that changes nothing keeps the invariant.
LEMMA StutterKeeps ==
    ASSUME MemoryInv, UNCHANGED all
    PROVE  MemoryInv'
<1> USE DEF all, vars, pool, body
<1>1. TypeInv'
  BY DEF MemoryInv, TypeInv, ModelTypes, JobTypes, TypeOK
<1>2. PoolInv'
  BY DEF MemoryInv, PoolInv, Unfinished, Past
<1>3. CountInv'
  BY DEF MemoryInv, CountInv, Unfinished, Uncounted
<1>4. OrderInv'
  BY DEF MemoryInv, OrderInv, ProviderInPlace, Reopened
<1>5. ClaimInv'
  BY DEF MemoryInv, ClaimInv, Known
<1> QED
  BY <1>1, <1>2, <1>3, <1>4, <1>5 DEF MemoryInv

\* Whatever the user, the model, the worker and the main thread do, the pool and the
\* coordinator agree, the jobs are counted, the shutdown keeps its order, and the job's own
\* list of memories is the table.
THEOREM MemoryAlways == Spec => []MemoryInv
<1>1. Start => MemoryInv
  BY StartHolds
<1>2. MemoryInv /\ [Next]_all => MemoryInv'
  <2>1. ASSUME MemoryInv, Next
        PROVE  MemoryInv'
    <3>1. TypeInv'
      BY <2>1, TypesKept DEF MemoryInv
    <3> QED
      BY <2>1, <3>1, PoolKept, CountKept, OrderKept, ClaimKept DEF MemoryInv
  <2> QED
    BY <2>1, StutterKeeps
<1> QED
  BY <1>1, <1>2, PTL DEF Spec

\* MemoryWriteCoordinator, LLMManager and OllamaProvider: the state always has its type, and
\* the jobs waiting or running are futures the coordinator still holds.
THEOREM TypeCorrect == Spec => []MemoryTypeOK
<1>1. MemoryInv => MemoryTypeOK
  <2>1. ASSUME MemoryInv PROVE MemoryTypeOK
    <3>1. TypeOK /\ pc[Desk] \in DeskAt /\ pc[Writer] \in WriterAt
      BY <2>1 DEF MemoryInv, TypeInv, ModelTypes
    <3>2. Unfinished \subseteq active /\ \A j \in Unfinished : result[j] = "none"
      BY <2>1 DEF MemoryInv, PoolInv
    <3>3. \A c \in Claims : table[c] \in Nat /\ cache[c] \in Nat
      BY <2>1 DEF MemoryInv, ClaimInv
    <3>4. /\ (pc[Writer] = "idle") = (running = NoJob)
          /\ hooked \subseteq Jobs /\ Len(drafts) <= MaxDrafts
      BY <2>1 DEF MemoryInv, TypeInv, JobTypes
    <3> QED
      BY <3>1, <3>2, <3>3, <3>4 DEF MemoryTypeOK, DeskAt, WriterAt, Asking, Calling
  <2> QED
    BY <2>1
<1> QED
  BY <1>1, MemoryAlways, PTL

\* Application._shutdown_services: the coordinator is drained before the scheduler is stopped,
\* and the scheduler before the provider goes.
THEOREM ShutdownInOrder == Spec => []JobsOutliveNothing
<1>1. MemoryInv => JobsOutliveNothing
  <2>1. ASSUME MemoryInv PROVE JobsOutliveNothing
    <3>1. main \in {"scheduler", "draining", "stopped"} => Unfinished = {}
      BY <2>1 DEF MemoryInv, OrderInv, Unfinished, Jobs, NoJob
    <3> QED
      BY <2>1, <3>1 DEF MemoryInv, OrderInv, TypeInv, JobTypes, JobsOutliveNothing
  <2> QED
    BY <2>1
<1> QED
  BY <1>1, MemoryAlways, PTL

\* LLMManager.reload: however the reloads of two threads interleave, the client is missing only
\* between the two halves of one, and after the end.
THEOREM ReloadsLeaveAClient == Spec => []ProviderInPlace
<1>1. MemoryInv => ProviderInPlace
  BY DEF MemoryInv, OrderInv
<1> QED
  BY <1>1, MemoryAlways, PTL

\* MemoryWriteCoordinator.submit: never more than max_pending jobs wait and run.
THEOREM PendingIsBounded == Spec => []PendingBounded
<1>1. MemoryInv => PendingBounded
  BY DEF MemoryInv, PoolInv, PendingBounded
<1> QED
  BY <1>1, MemoryAlways, PTL

\* _on_job_complete: after the shutdown every job that was accepted is counted once, whether the
\* worker or the caller of submit ran its callback.
THEOREM EveryJobCounted == Spec => []JobsAddUp
<1>1. MemoryInv => JobsAddUp
  <2>1. ASSUME MemoryInv, main \in {"scheduler", "draining", "stopped"}
        PROVE  metrics.completed + metrics.failed = metrics.submitted
    <3>1. Unfinished = {} /\ Uncounted = 0
      BY <2>1 DEF MemoryInv, OrderInv, Unfinished, Uncounted, Jobs, NoJob
    <3>2. Cardinality(Unfinished) = 0
      BY <3>1, FS_EmptySet
    <3>3. metrics \in Metrics
      BY <2>1 DEF MemoryInv, TypeInv, JobTypes
    <3>4. metrics.submitted = metrics.completed + metrics.failed + 0 + 0
      BY <2>1, <3>1, <3>2 DEF MemoryInv, CountInv
    <3> QED
      BY <3>3, <3>4, CallbackCounts
  <2> QED
    BY <2>1 DEF JobsAddUp
<1> QED
  BY <1>1, MemoryAlways, PTL

\* MemoryWriteService.write_memories: no claim is stored twice, whatever the extractions repeat
\* and the decisions replace.
THEOREM NoMemoryTwice == Spec => []ClaimsUnique
<1>1. MemoryInv => ClaimsUnique
  BY DEF MemoryInv, ClaimInv, ClaimsUnique
<1> QED
  BY <1>1, MemoryAlways, PTL

------------------------------------------------------------------------------
(* What a judgement destroys, for every table and every reply.            *)

\* What the model answers about a candidate, readable or not.
Answer == [readable : BOOLEAN, action : STRING, target : STRING, confidence : Int]

\* LLMMemoryResolver and MemoryResolutionValidator: a decision that destroys is the model's own,
\* about a memory it was shown, with a confidence that is not too low.
LEMMA DestroysOnPurpose ==
    ASSUME NEW related, NEW fails \in BOOLEAN, NEW reply \in Answer, NEW threshold \in Int
    PROVE  LET d == Validated(Resolved(related, fails, reply), related, threshold)
           IN  /\ d.action \in Actions
               /\ d.action \in Destructive =>
                    /\ d.target = reply.target /\ d.target \in related
                    /\ reply.readable /\ reply.action \in Destructive /\ ~ fails
                    /\ ~ Below(reply.confidence, threshold)
<1> DEFINE r == Resolved(related, fails, reply)
           d == Validated(r, related, threshold)
           OnPurpose == /\ d.action \in Actions
                        /\ d.action \in Destructive =>
                             /\ d.target = reply.target /\ d.target \in related
                             /\ reply.readable /\ reply.action \in Destructive /\ ~ fails
                             /\ ~ Below(reply.confidence, threshold)
<1>1. \/ r.action \notin Destructive
      \/ /\ r.target = reply.target /\ r.confidence = reply.confidence
         /\ reply.readable /\ reply.action \in Destructive /\ ~ fails
  BY DEF Answer, Resolved, Parsed, Ignored, Destructive,
         Actions
<1>2. /\ r.action \in Actions
      /\ r = [action |-> r.action, target |-> r.target, confidence |-> r.confidence]
  BY DEF Answer, Resolved, Parsed, Ignored, Destructive,
         Actions
<1> HIDE DEF r
<1>3. ASSUME r.action \notin Destructive PROVE OnPurpose
  BY <1>2, <1>3 DEF Validated
<1>4. ASSUME r.action \in Destructive PROVE OnPurpose
  <2>1. CASE r.target \notin related
    BY <1>4, <2>1 DEF Validated, Ignored, Destructive, Actions
  <2>2. CASE r.target \in related /\ Below(r.confidence, threshold)
    <3>1. d = [r EXCEPT !.action = "KEEP_BOTH"]
      BY <1>4, <2>2 DEF Validated
    <3>2. d.action = "KEEP_BOTH"
      BY <1>2, <3>1
    <3> QED
      BY <3>2 DEF Destructive, Actions
  <2>3. CASE r.target \in related /\ ~ Below(r.confidence, threshold)
    <3>1. d = r
      BY <1>4, <2>3 DEF Validated
    <3> QED
      BY <1>1, <1>2, <1>4, <2>3, <3>1
  <2> QED
    BY <2>1, <2>2, <2>3
<1>5. OnPurpose
  BY <1>3, <1>4
<1> QED
  BY <1>5 DEF r

\* SQLiteMemoryRepository.add, through MemoryManager: a new row, or none.
LEMMA CreatedAdds ==
    ASSUME NEW rows, IsFiniteSet(DOMAIN rows), NEW fresh, NEW content, NEW now
    PROVE  LET after == Created(rows, fresh, content, now)
           IN  /\ Cardinality(DOMAIN after) >= Cardinality(DOMAIN rows)
               /\ \A m \in DOMAIN rows : m \in DOMAIN after /\ after[m] = rows[m]
               /\ \A m \in DOMAIN after \ DOMAIN rows : m = fresh /\ after[m].content = content
<1> DEFINE row == [content |-> content, born |-> now]
           after == Created(rows, fresh, content, now)
           Adds == /\ Cardinality(DOMAIN after) >= Cardinality(DOMAIN rows)
                   /\ \A m \in DOMAIN rows : m \in DOMAIN after /\ after[m] = rows[m]
                   /\ \A m \in DOMAIN after \ DOMAIN rows : m = fresh /\ after[m].content = content
<1>1. Cardinality(DOMAIN rows) \in Nat
  BY FS_CardinalityType
<1>2. ASSUME fresh \in DOMAIN rows PROVE Adds
  BY <1>1, <1>2 DEF Created, Add
<1>3. ASSUME fresh \notin DOMAIN rows PROVE Adds
  <2>1. after = [m \in DOMAIN rows \union {fresh} |-> IF m = fresh THEN row ELSE rows[m]]
    BY <1>3 DEF Created, Add, With
  <2>2. Cardinality(DOMAIN rows \union {fresh}) = Cardinality(DOMAIN rows) + 1
    BY <1>3, FS_AddElement
  <2> HIDE DEF after
  <2> QED
    BY <1>1, <1>3, <2>1, <2>2
<1> QED
  BY <1>2, <1>3

\* MemoryManager.update_memory: the row it names gets another content.
LEMMA ChangedKeeps ==
    ASSUME NEW rows, NEW D, rows = [m \in D |-> rows[m]], NEW id, NEW content
    PROVE  LET after == Changed(rows, id, content)
           IN  /\ DOMAIN after = DOMAIN rows
               /\ \A m \in DOMAIN rows \ {id} : after[m] = rows[m]
BY DEF Changed, Update

\* SQLiteMemoryRepository.replace: one row goes and one comes, or nothing happens.
LEMMA ReplacedExchanges ==
    ASSUME NEW rows, IsFiniteSet(DOMAIN rows), NEW old, NEW fresh, NEW content, NEW now
    PROVE  LET after == Replaced(rows, old, fresh, content, now)
           IN  /\ Cardinality(DOMAIN after) = Cardinality(DOMAIN rows)
               /\ \A m \in DOMAIN rows \ {old} : m \in DOMAIN after /\ after[m] = rows[m]
               /\ \A m \in DOMAIN after \ DOMAIN rows : m = fresh /\ after[m].content = content
<1> DEFINE row == [content |-> content, born |-> now]
           rest == Without(rows, old)
           after == Replaced(rows, old, fresh, content, now)
           Exchanges == /\ Cardinality(DOMAIN after) = Cardinality(DOMAIN rows)
                        /\ \A m \in DOMAIN rows \ {old} : m \in DOMAIN after /\ after[m] = rows[m]
                        /\ \A m \in DOMAIN after \ DOMAIN rows : m = fresh /\ after[m].content = content
<1>1. /\ DOMAIN rest = DOMAIN rows \ {old}
      /\ \A m \in DOMAIN rest : rest[m] = rows[m]
  BY DEF Without
<1> HIDE DEF rest
<1>2. ASSUME old \in DOMAIN rows, fresh \notin DOMAIN rest PROVE Exchanges
  <2>1. after = With(rest, fresh, row)
    BY <1>2 DEF Replaced, Replace, Add, Delete, rest
  <2>2. after = [m \in DOMAIN rest \union {fresh} |-> IF m = fresh THEN row ELSE rest[m]]
    BY <2>1 DEF With
  <2> HIDE DEF after
  <2>3. /\ IsFiniteSet(DOMAIN rest)
        /\ Cardinality(DOMAIN rest) = Cardinality(DOMAIN rows) - 1
        /\ Cardinality(DOMAIN rows) \in Nat
    BY <1>1, <1>2, FS_RemoveElement, FS_CardinalityType
  <2>4. Cardinality(DOMAIN rest \union {fresh}) = Cardinality(DOMAIN rest) + 1
    BY <1>2, <2>3, FS_AddElement
  <2> QED
    BY <1>1, <1>2, <2>2, <2>3, <2>4
<1>3. ASSUME ~ (old \in DOMAIN rows /\ fresh \notin DOMAIN rest) PROVE Exchanges
  <2>1. after = rows
    BY <1>3 DEF Replaced, Replace, Delete, rest
  <2> HIDE DEF after
  <2> QED
    BY <2>1
<1> QED
  BY <1>2, <1>3

\* MemoryResolutionExecutor on what the validator let through: for every table, every answer
\* and every identifier of the new memory, a candidate costs at most the one memory the answer
\* names, which the model was shown, and no memory is lost without one in its place.
THEOREM JudgementSparesOthers ==
    ASSUME NEW rows, IsFiniteSet(DOMAIN rows), rows = [m \in DOMAIN rows |-> rows[m]],
           NEW related, NEW fails \in BOOLEAN, NEW reply \in Answer, NEW threshold \in Int, NEW fresh
    PROVE  DestroysOnlyNamed(rows, related, fails, reply, threshold, fresh)
<1> DEFINE d == Validated(Resolved(related, fails, reply), related, threshold)
           after == Executed(rows, d, "candidate", fresh, 1)
           spoilt == {m \in DOMAIN rows : m \notin DOMAIN after \/ after[m] # rows[m]}
           Promise == /\ Cardinality(DOMAIN after) >= Cardinality(DOMAIN rows)
                      /\ \A m \in DOMAIN after \ DOMAIN rows : m = fresh /\ after[m].content = "candidate"
           Spared == \A m \in DOMAIN rows : m \in DOMAIN after /\ after[m] = rows[m]
           Named == /\ d.action \in Destructive
                    /\ \A m \in DOMAIN rows \ {d.target} : m \in DOMAIN after /\ after[m] = rows[m]
                    /\ Cardinality(DOMAIN after) = Cardinality(DOMAIN rows)
<1>1. /\ d.action \in Actions
      /\ d.action \in Destructive =>
           /\ d.target = reply.target /\ d.target \in related
           /\ reply.readable /\ reply.action \in Destructive /\ ~ fails
           /\ ~ Below(reply.confidence, threshold)
  BY DestroysOnPurpose
<1>2. Cardinality(DOMAIN rows) \in Nat
  BY FS_CardinalityType
<1> HIDE DEF d
<1>3. Promise /\ (Spared \/ Named)
  <2>1. CASE d.action = "IGNORE"
    <3>1. after = rows
      BY <2>1 DEF Executed
    <3> HIDE DEF after
    <3> QED
      BY <1>2, <3>1
  <2>2. CASE d.action \in {"CREATE", "KEEP_BOTH"}
    <3>1. after = Created(rows, fresh, "candidate", 1)
      BY <2>2 DEF Executed
    <3> HIDE DEF after
    <3> QED
      BY <3>1, CreatedAdds
  <2>3. CASE d.action = "UPDATE"
    <3>1. after = Changed(rows, d.target, "candidate")
      BY <2>3 DEF Executed
    <3>2. d.action \in Destructive
      BY <2>3 DEF Destructive
    <3> HIDE DEF after
    <3>3. /\ DOMAIN after = DOMAIN rows
          /\ \A m \in DOMAIN rows \ {d.target} : after[m] = rows[m]
      BY <3>1, ChangedKeeps
    <3> QED
      BY <1>2, <3>2, <3>3
  <2>4. CASE d.action = "REPLACE"
    <3>1. after = Replaced(rows, d.target, fresh, "candidate", 1)
      BY <2>4 DEF Executed
    <3>2. d.action \in Destructive
      BY <2>4 DEF Destructive
    <3> HIDE DEF after
    <3>3. /\ Cardinality(DOMAIN after) = Cardinality(DOMAIN rows)
          /\ \A m \in DOMAIN rows \ {d.target} : m \in DOMAIN after /\ after[m] = rows[m]
          /\ \A m \in DOMAIN after \ DOMAIN rows : m = fresh /\ after[m].content = "candidate"
      BY <3>1, ReplacedExchanges
    <3> QED
      BY <1>2, <3>2, <3>3
  <2> QED
    BY <1>1, <2>1, <2>2, <2>3, <2>4 DEF Actions, Destructive
<1> HIDE DEF after
<1>4. spoilt \subseteq {reply.target} \intersect related
  BY <1>1, <1>3
<1>5. spoilt # {} => /\ reply.readable /\ reply.action \in Destructive /\ ~ fails
                     /\ ~ Below(reply.confidence, threshold)
                     /\ Cardinality(DOMAIN after) = Cardinality(DOMAIN rows)
  BY <1>1, <1>3
<1> QED
  <2>1. DestroysOnlyNamed(rows, related, fails, reply, threshold, fresh) <=>
          /\ Cardinality(DOMAIN after) >= Cardinality(DOMAIN rows)
          /\ spoilt \subseteq {reply.target} \intersect related
          /\ spoilt # {} => /\ reply.readable /\ reply.action \in Destructive /\ ~ fails
                            /\ ~ Below(reply.confidence, threshold)
                            /\ Cardinality(DOMAIN after) = Cardinality(DOMAIN rows)
          /\ \A m \in DOMAIN after \ DOMAIN rows : m = fresh /\ after[m].content = "candidate"
    BY SMTT(30) DEF DestroysOnlyNamed, d, after
  <2> HIDE DEF spoilt
  <2> QED
    BY <1>3, <1>4, <1>5, <2>1
==============================================================================
