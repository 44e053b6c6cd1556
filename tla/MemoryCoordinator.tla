--------------------------- MODULE MemoryCoordinator ---------------------------
(***************************************************************************)
(* What the application learns about its user, in the background, and how  *)
(* it stops: MemoryWriteCoordinator with its one worker thread, the job    *)
(* MemoryWriteService.write_memories, and Application._shutdown_services.  *)
(*                                                                         *)
(* Desk answers the user's requests through the model and submits each     *)
(* answered one; Writer runs the jobs, which use the model too.  A memory  *)
(* is what the duplicate check tells apart, its type and its normalised    *)
(* words: a claim.  The table of memories is kept as a bag of claims, so   *)
(* an update and a replacement of a memory are the same step.              *)
(***************************************************************************)
EXTENDS ModelAccess, Sequences, FiniteSets, SequencesExt

CONSTANTS
    Claims, NoClaim,
    MaxPending,               \* max_pending of the coordinator
    MaxRequests, MaxDrafts    \* bounds: requests, candidates of an extraction

ASSUME ClaimsAssumption == NoClaim \notin Claims
ASSUME LimitsAssumption == MaxPending \in Nat /\ MaxRequests \in Nat /\ MaxDrafts \in Nat

VARIABLES
    asked,           \* requests so far
    fifo, running,   \* the pool's queue of jobs, the job its thread runs
    active, hooked,  \* _active_futures; jobs whose callback is registered
    result,          \* per job: what its future holds
    metrics,         \* the coordinator's counters
    down,            \* _is_shutdown
    phase,           \* what the job asks the model for
    table, cache,    \* memories in the database; existing_memories
    drafts, target,  \* candidates left; the memory the next one supersedes
    front, main      \* which front end runs; the main thread

pool == <<fifo, running, active, hooked, result, metrics, down>>
body == <<phase, table, cache, drafts, target>>
model == <<sched, queue, serving, at, answer, client, holder>>
all  == <<vars, pool, body, asked, front, main>>

Jobs  == 1 .. MaxRequests
NoJob == 0
Unfinished == {j \in Jobs : j = running \/ \E i \in DOMAIN fifo : fifo[i] = j}

Start ==
    /\ Init
    /\ asked = 0 /\ fifo = <<>> /\ running = NoJob
    /\ active = {} /\ hooked = {}
    /\ result  = [j \in Jobs |-> "none"]
    /\ metrics = [submitted |-> 0, completed |-> 0, failed |-> 0, skipped |-> 0]
    /\ down    = FALSE
    /\ phase   = "extract"
    /\ table   = [c \in Claims |-> 0]
    /\ cache   = [c \in Claims |-> 0]
    /\ drafts  = <<>> /\ target = NoClaim
    /\ front \in {"terminal", "desktop"} /\ main = "up"

------------------------------------------------------------------------------
(* Desk.                                                                   *)

Ask ==
    /\ pc[Desk] = "idle" /\ main = "up" /\ asked < MaxRequests
    /\ asked' = asked + 1
    /\ Goto(Desk, "call") \/ Goto(Desk, "stream")
    /\ attempt' = [attempt EXCEPT ![Desk] = 1]
    /\ UNCHANGED <<model, pool, body, front, main>>

\* The request is answered, or has failed and is not submitted.
Answered ==
    /\ pc[Desk] \in {"returned", "raised"}
    /\ Goto(Desk, IF pc[Desk] = "returned" THEN "submit" ELSE "idle")
    /\ UNCHANGED <<model, attempt, pool, body, asked, front, main>>

\* Mutant: the futures are cleared, not only those that are done.
SubmitForgetting ==
    /\ pc[Desk] = "submit"
    /\ active'  = {asked}
    /\ metrics' = [metrics EXCEPT !.submitted = @ + 1]
    /\ fifo'    = Append(fifo, asked)
    /\ Goto(Desk, "hook")
    /\ UNCHANGED <<model, attempt, running, hooked, result, down, body, asked, front, main>>

\* Mutant: the limit is compared with > .
SubmitOneMore ==
    /\ pc[Desk] = "submit"
    /\ LET pending == {j \in active : result[j] = "none"} IN
        IF Cardinality(pending) > MaxPending
        THEN /\ active'  = pending
             /\ metrics' = [metrics EXCEPT !.skipped = @ + 1]
             /\ Goto(Desk, "idle") /\ UNCHANGED fifo
        ELSE /\ active'  = pending \cup {asked}
             /\ metrics' = [metrics EXCEPT !.submitted = @ + 1]
             /\ fifo'    = Append(fifo, asked)
             /\ Goto(Desk, "hook")
    /\ UNCHANGED <<model, attempt, running, hooked, result, down, body, asked, front, main>>

\* Futures that are done no longer count; at the limit the text is dropped.
SubmitJob ==
    /\ pc[Desk] = "submit"
    /\ LET pending == {j \in active : result[j] = "none"} IN
        IF down THEN Goto(Desk, "idle") /\ UNCHANGED <<fifo, active, metrics>>
        ELSE IF Cardinality(pending) >= MaxPending
        THEN /\ active'  = pending
             /\ metrics' = [metrics EXCEPT !.skipped = @ + 1]
             /\ Goto(Desk, "idle") /\ UNCHANGED fifo
        ELSE /\ active'  = pending \cup {asked}
             /\ metrics' = [metrics EXCEPT !.submitted = @ + 1]
             /\ fifo'    = Append(fifo, asked)
             /\ Goto(Desk, "hook")
    /\ UNCHANGED <<model, attempt, running, hooked, result, down, body, asked, front, main>>

\* _on_job_complete.
Callback(j, r) ==
    /\ active'  = active \ {j}
    /\ metrics' = IF r = "completed" THEN [metrics EXCEPT !.completed = @ + 1]
                                     ELSE [metrics EXCEPT !.failed = @ + 1]

\* Mutant: a job that is done by now is passed over.
HookOnly ==
    /\ pc[Desk] = "hook"
    /\ Goto(Desk, "idle")
    /\ hooked' = hooked \cup {asked}
    /\ UNCHANGED <<model, attempt, fifo, running, active, metrics, result, down, body, asked, front, main>>

\* add_done_callback, after the coordinator's lock is released: a job that is
\* done by now is counted here, by Desk.
Hook ==
    /\ pc[Desk] = "hook"
    /\ Goto(Desk, "idle")
    /\ IF result[asked] = "none"
       THEN hooked' = hooked \cup {asked} /\ UNCHANGED <<active, metrics>>
       ELSE Callback(asked, result[asked]) /\ UNCHANGED hooked
    /\ UNCHANGED <<model, attempt, fifo, running, result, down, body, asked, front, main>>

------------------------------------------------------------------------------
(* Writer: the job.                                                        *)

StartJob ==
    /\ running = NoJob /\ fifo # <<>>
    /\ running' = Head(fifo)
    /\ fifo'    = Tail(fifo)
    /\ phase'   = "extract"
    /\ attempt' = [attempt EXCEPT ![Writer] = 1]
    /\ Goto(Writer, "call")
    /\ UNCHANGED <<model, active, hooked, result, metrics, down, table, cache, drafts, target, asked, front, main>>

\* The future is resolved, and the callback runs in this thread if it is there.
EndJob(r) ==
    /\ result'  = [result EXCEPT ![running] = r]
    /\ running' = NoJob
    /\ IF running \in hooked THEN Callback(running, r) ELSE UNCHANGED <<active, metrics>>
    /\ Goto(Writer, "idle")
    /\ phase'  = "extract"
    /\ cache'  = [c \in Claims |-> 0]
    /\ drafts' = <<>>
    /\ target' = NoClaim
    /\ UNCHANGED <<fifo, hooked, down>>

\* The candidates that pass the checks of evidence, confidence and secrets, and
\* the memories as they are now; or the model or the database failed.
Extract ==
    /\ phase = "extract" /\ pc[Writer] \in {"returned", "raised"}
    /\ \/ EndJob("failed") /\ UNCHANGED table
       \/ /\ pc[Writer] = "returned"
          /\ drafts' \in BoundedSeq(Claims, MaxDrafts)
          /\ cache' = table
          /\ Goto(Writer, "next")
          /\ UNCHANGED <<pool, phase, table, target>>
    /\ UNCHANGED <<model, attempt, asked, front, main>>

Known == {c \in Claims : cache[c] > 0}

\* A candidate that is known is dropped, one without related memories stored;
\* the model decides about any other.
NextCandidate ==
    /\ pc[Writer] = "next"
    /\ IF drafts = <<>> THEN EndJob("completed") /\ UNCHANGED <<table, attempt>>
       ELSE /\ IF Head(drafts) \in Known
               THEN drafts' = Tail(drafts) /\ UNCHANGED <<pc, phase, attempt>>
               ELSE \/ Goto(Writer, "store") /\ UNCHANGED <<drafts, phase, attempt>>
                    \/ /\ Known # {} /\ Goto(Writer, "call")
                       /\ phase'   = "resolve"
                       /\ attempt' = [attempt EXCEPT ![Writer] = 1]
                       /\ UNCHANGED drafts
            /\ target' = NoClaim
            /\ UNCHANGED <<pool, table, cache>>
    /\ UNCHANGED <<model, asked, front, main>>

\* The validated decision: to ignore the candidate, which a failed call amounts
\* to, to add it, or to let it take the place of a memory related to it.
Resolve ==
    /\ phase = "resolve" /\ pc[Writer] \in {"returned", "raised"}
    /\ \/ drafts' = Tail(drafts) /\ Goto(Writer, "next") /\ UNCHANGED target
       \/ /\ pc[Writer] = "returned"
          /\ target' \in Known \cup {NoClaim}
          /\ Goto(Writer, "store") /\ UNCHANGED drafts
    /\ UNCHANGED <<model, attempt, pool, phase, table, cache, asked, front, main>>

\* A bag of memories after the decision.
Applied(bag) ==
    [c \in Claims |-> bag[c] + (IF c = Head(drafts) THEN 1 ELSE 0)
                             - (IF c = target THEN 1 ELSE 0)]

\* Mutant: the job's own list is not brought up to date.
StoreUnseen ==
    /\ pc[Writer] = "store"
    /\ table'  = Applied(table)
    /\ drafts' = Tail(drafts)
    /\ Goto(Writer, "next")
    /\ UNCHANGED <<model, pool, phase, cache, target, attempt, asked, front, main>>

\* MemoryResolutionExecutor in one transaction, and the job's own list brought
\* up to date; an error of the database, before or after, ends the job.
Store ==
    /\ pc[Writer] = "store"
    /\ \/ /\ target # NoClaim => table[target] > 0
          /\ table'  = Applied(table)
          /\ cache'  = Applied(cache)
          /\ drafts' = Tail(drafts)
          /\ Goto(Writer, "next")
          /\ UNCHANGED <<pool, phase, target>>
       \/ table' \in {table, Applied(table)} /\ EndJob("failed")
    /\ UNCHANGED <<model, attempt, asked, front, main>>

------------------------------------------------------------------------------
(* The main thread.                                                        *)

\* The terminal leaves its loop between two requests.  The desktop's window
\* terminates the thread of a request that waits for the model or its lock.
Close ==
    /\ main = "up" /\ main' = "coordinator"
    /\ \/ pc[Desk] = "idle" /\ UNCHANGED pc
       \/ /\ front = "desktop" /\ pc[Desk] \in {"wait", "lock", "chat", "chunks"}
          /\ Goto(Desk, "dead")
    /\ UNCHANGED <<model, attempt, pool, body, asked, front>>

\* MemoryWriteCoordinator.shutdown accepts no job from here on ...
StopCoordinator ==
    /\ main = "coordinator" /\ main' = "joining"
    /\ down' = TRUE
    /\ UNCHANGED <<vars, fifo, running, active, hooked, result, metrics, body, asked, front>>

\* Mutant: it does not wait.
JoinedAtOnce ==
    /\ main = "joining" /\ main' = "scheduler"
    /\ UNCHANGED <<vars, pool, body, asked, front>>

\* ... and waits for those it has.
Joined ==
    /\ main = "joining" /\ main' = "scheduler"
    /\ fifo = <<>> /\ running = NoJob
    /\ UNCHANGED <<vars, pool, body, asked, front>>

StopScheduler ==
    /\ main = "scheduler" /\ main' = "draining"
    /\ sched' = "stopping"
    /\ UNCHANGED <<queue, serving, at, answer, client, holder, pc, attempt, pool, body, asked, front>>

\* The scheduler's thread has ended; the tools and approvals that come next do
\* not touch the model.  Last, the provider.
StopProvider ==
    /\ main = "draining" /\ main' = "stopped"
    /\ sched = "stopped"
    /\ client' = FALSE
    /\ UNCHANGED <<sched, queue, serving, at, answer, holder, pc, attempt, pool, body, asked, front>>

Desktop  == Ask \/ Answered \/ SubmitJob \/ Hook
Job      == StartJob \/ Extract \/ NextCandidate \/ Resolve \/ Store
Shutdown == StopCoordinator \/ Joined \/ StopScheduler \/ StopProvider
Access   == UNCHANGED <<pool, body, asked, front, main>> /\ (Serve \/ Stream(Desk) \/ \E c \in Callers : Generate(c))
Next == Desktop \/ Job \/ Close \/ Shutdown \/ Access

\* Every thread runs on, and calls of the model end (llm_timeout); the user
\* need neither ask nor close.
Spec ==
    /\ Start /\ [][Next]_all
    /\ WF_all(Answered \/ SubmitJob \/ Hook) /\ WF_all(Job) /\ WF_all(Shutdown)
    /\ WF_all(Access /\ Serve) /\ WF_all(Access /\ Stream(Desk))
    /\ \A c \in Callers : WF_all(Access /\ Generate(c))
------------------------------------------------------------------------------
(* Properties.                                                             *)

\* Types; who is in the pool and which jobs have a future outstanding.
MemoryTypeOK ==
    /\ TypeOK
    /\ pc[Desk] \in {"idle", "call", "wait", "failed", "reopen", "stream", "lock", "chat",
                      "chunks", "returned", "raised", "submit", "hook", "dead"}
    /\ pc[Writer] \in {"idle", "call", "wait", "failed", "reopen", "returned", "raised",
                        "next", "store"}
    /\ (pc[Writer] = "idle") = (running = NoJob)
    /\ Unfinished \subseteq active /\ \A j \in Unfinished : result[j] = "none"
    /\ hooked \subseteq Jobs
    /\ Len(drafts) <= MaxDrafts
    /\ \A c \in Claims : table[c] \in Nat /\ cache[c] \in Nat

\* The order of the shutdown: as long as a job waits or runs, the scheduler
\* accepts its calls, and when the provider goes nobody is left who calls it.
JobsOutliveNothing ==
    /\ Unfinished # {} => sched = "running"
    /\ main = "stopped" => pc[Desk] \in {"idle", "dead"} /\ serving = Nobody

\* Reloads by two threads interleave; still the provider's client is missing
\* only between the two halves of one, and after the end.
ProviderInPlace ==
    IF main = "stopped" THEN ~client ELSE Reopened

\* The coordinator never has more than max_pending jobs waiting and running.
PendingBounded == Cardinality(Unfinished) <= MaxPending

\* Once the coordinator is shut down every job it accepted is counted, once, as
\* completed or failed, whichever thread ran its callback.
JobsAddUp ==
    main \in {"scheduler", "draining", "stopped"} =>
        metrics.completed + metrics.failed = metrics.submitted

\* No memory is stored twice: not by one extraction that repeats itself, not by
\* two requests that say the same, not by an update that turns one memory into
\* another that exists.
ClaimsUnique == \A c \in Claims : table[c] <= 1

\* A shutdown ends, however busy the model is; except when the window's close
\* has killed the request's thread in the middle of a stream, which leaves the
\* provider's lock taken for ever.
ShutdownEnds ==
    main = "coordinator" ~> (main = "stopped" \/ (holder = Desk /\ pc[Desk] = "dead"))
==============================================================================
