------------------------------ MODULE ModelAccess ------------------------------
(***************************************************************************)
(* The way to the language model: LLMManager with its retries and reloads, *)
(* the inference scheduler as its callers see it, and OllamaProvider with  *)
(* its client and its lock.                                                *)
(*                                                                         *)
(* Desk is the thread that serves the user: it plans with generate and     *)
(* answers with generate_stream, which goes past the scheduler.  Writer is *)
(* the memory worker, which only calls generate.  Each caller has at most  *)
(* one operation in the scheduler; InferenceScheduler models the queue     *)
(* itself.  A module that extends this one says what the callers do with   *)
(* an answer.                                                              *)
(***************************************************************************)
EXTENDS Naturals

CONSTANTS
    Desk, Writer,  \* the calling threads, in the order of their priority
    Worker,        \* the scheduler's thread
    Nobody,
    MaxAttempts    \* settings.llm_max_retries

ASSUME CallersAssumption == Desk # Writer /\ Worker \notin {Desk, Writer} /\ Nobody \notin {Desk, Writer, Worker}
ASSUME AttemptsAssumption == MaxAttempts \in Nat \ {0}  \* max(1, ...)

VARIABLES
    sched,         \* the scheduler's state
    queue,         \* callers whose operation waits in the scheduler
    serving, at,   \* whose operation the worker runs, and where it is in it
    answer,        \* per caller: what its future holds
    client,        \* is the provider's client there
    holder,        \* who holds the provider's lock
    pc, attempt    \* per caller: where it is, and the attempt it is making

Callers == {Desk, Writer}
vars == <<sched, queue, serving, at, answer, client, holder, pc, attempt>>
inner == <<sched, queue, serving, at, answer>>

TypeOK ==
    /\ sched \in {"running", "stopping", "stopped"}
    /\ queue \subseteq Callers
    /\ serving \in Callers \cup {Nobody}
    /\ at \in {"get", "lock", "chat"}
    /\ (at = "get") = (serving = Nobody)
    /\ answer \in [Callers -> {"none", "ok", "error"}]
    /\ client \in BOOLEAN
    /\ holder \in Callers \cup {Worker, Nobody}
    /\ (holder = Worker) = (at = "chat")
    /\ attempt \in [Callers -> 1 .. MaxAttempts]

Init ==
    /\ sched   = "running"
    /\ queue   = {}
    /\ serving = Nobody
    /\ at      = "get"
    /\ answer  = [c \in Callers |-> "none"]
    /\ client  = TRUE
    /\ holder  = Nobody
    /\ pc      = [c \in Callers |-> "idle"]
    /\ attempt = [c \in Callers |-> 1]

Goto(c, s) == pc' = [pc EXCEPT ![c] = s]

------------------------------------------------------------------------------
(* LLMManager.generate, in the calling thread.                             *)

\* The operation is handed to the scheduler; one that is not running refuses,
\* which is an error like any other.
Submit(c) ==
    /\ pc[c] = "call"
    /\ IF sched = "running"
       THEN Goto(c, "wait") /\ queue' = queue \cup {c}
       ELSE Goto(c, "failed") /\ UNCHANGED queue
    /\ answer' = [answer EXCEPT ![c] = "none"]
    /\ UNCHANGED <<sched, serving, at, client, holder, attempt>>

Receive(c) ==
    /\ pc[c] = "wait" /\ answer[c] # "none"
    /\ Goto(c, IF answer[c] = "ok" THEN "returned" ELSE "failed")
    /\ UNCHANGED <<inner, client, holder, attempt>>

\* An error before the last attempt reloads the provider: it is shut down ...
CloseClient(c) ==
    /\ pc[c] = "failed" /\ attempt[c] < MaxAttempts
    /\ client' = FALSE
    /\ Goto(c, "reopen")
    /\ UNCHANGED <<inner, holder, attempt>>

\* Mutant: the new client is kept only if the server answers.
OpenCheckedClient(c) ==
    /\ pc[c] = "reopen"
    /\ client' \in BOOLEAN
    /\ attempt' = [attempt EXCEPT ![c] = @ + 1]
    /\ Goto(c, "call")
    /\ UNCHANGED <<inner, holder>>

\* ... and initialised: the client is there whether or not the server answers.
OpenClient(c) ==
    /\ pc[c] = "reopen"
    /\ client' = TRUE
    /\ attempt' = [attempt EXCEPT ![c] = @ + 1]
    /\ Goto(c, "call")
    /\ UNCHANGED <<inner, holder>>

GiveUp(c) ==
    /\ pc[c] = "failed" /\ attempt[c] = MaxAttempts
    /\ Goto(c, "raised")
    /\ UNCHANGED <<inner, client, holder, attempt>>

------------------------------------------------------------------------------
(* The scheduler's worker, inside OllamaProvider.generate.                 *)

\* The worker is done with an operation, whether or not its caller lives.
Finish(c, result) ==
    /\ answer'  = [answer EXCEPT ![c] = result]
    /\ serving' = Nobody
    /\ at'      = "get"

\* The first in the queue; without a client the operation fails at once.
Take ==
    /\ at = "get" /\ queue # {}
    /\ LET c == IF Desk \in queue THEN Desk ELSE Writer IN
        /\ queue' = queue \ {c}
        /\ IF client
           THEN serving' = c /\ at' = "lock" /\ UNCHANGED answer
           ELSE Finish(c, "error")
    /\ UNCHANGED <<sched, client, holder, pc, attempt>>

\* With the lock the client is read again: a reload by another thread may have
\* taken it away since Take, and the operation fails.
Enter ==
    /\ at = "lock" /\ holder = Nobody
    /\ IF client
       THEN holder' = Worker /\ at' = "chat" /\ UNCHANGED <<serving, answer>>
       ELSE Finish(serving, "error") /\ UNCHANGED holder
    /\ UNCHANGED <<sched, queue, client, pc, attempt>>

\* The model answers, or the call fails or times out.
Chat ==
    /\ at = "chat"
    /\ Finish(serving, "ok") \/ Finish(serving, "error")
    /\ holder' = Nobody
    /\ UNCHANGED <<sched, queue, client, pc, attempt>>

\* The poison pill, behind every operation.
Exit ==
    /\ sched = "stopping" /\ at = "get" /\ queue = {}
    /\ sched' = "stopped"
    /\ UNCHANGED <<queue, serving, at, answer, client, holder, pc, attempt>>

------------------------------------------------------------------------------
(* LLMManager.generate_stream, in the calling thread: no queue, no retry.  *)

OpenStream(c) ==
    /\ pc[c] = "stream"
    /\ Goto(c, IF client THEN "lock" ELSE "raised")
    /\ UNCHANGED <<inner, client, holder, attempt>>

Acquire(c) ==
    /\ pc[c] = "lock" /\ holder = Nobody
    /\ IF client
       THEN holder' = c /\ Goto(c, "chat")
       ELSE Goto(c, "raised") /\ UNCHANGED holder
    /\ UNCHANGED <<inner, client, attempt>>

\* Mutant: a request that fails leaves the lock taken.
StartStreamKeeping(c) ==
    /\ pc[c] = "chat"
    /\ Goto(c, "chunks") \/ Goto(c, "raised")
    /\ UNCHANGED <<inner, client, holder, attempt>>

\* The stream starts and keeps the lock, or the request fails and frees it.
StartStream(c) ==
    /\ pc[c] = "chat"
    /\ \/ Goto(c, "chunks") /\ UNCHANGED holder
       \/ Goto(c, "raised") /\ holder' = Nobody
    /\ UNCHANGED <<inner, client, attempt>>

\* The last chunk, or an error among the chunks: the generator's finally.
EndStream(c) ==
    /\ pc[c] = "chunks"
    /\ holder' = Nobody
    /\ Goto(c, "returned") \/ Goto(c, "raised")
    /\ UNCHANGED <<inner, client, attempt>>

Generate(c) == Submit(c) \/ Receive(c) \/ CloseClient(c) \/ OpenClient(c) \/ GiveUp(c)
Stream(c)   == OpenStream(c) \/ Acquire(c) \/ StartStream(c) \/ EndStream(c)
Serve       == Take \/ Enter \/ Chat \/ Exit

\* A reload always leaves a client behind: however the reloads of two threads
\* interleave, the client is missing only while one of them is between its two
\* halves (and after shutdown, see MemoryCoordinator).
Reopened == (\A c \in Callers : pc[c] # "reopen") => client
==============================================================================
