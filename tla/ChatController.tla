---------------------------- MODULE ChatController ----------------------------
(***************************************************************************)
(* The native GUI's chat: ChatController and the ChatWorkers it starts.    *)
(*                                                                         *)
(* Its handlers run one at a time on the thread of the windows.  A prompt  *)
(* starts a worker and leaves the button enabled, so several may run; each *)
(* ends with one queued signal, handled whenever the event loop comes to   *)
(* it, in the session that is active then.  Every handler writes all       *)
(* sessions to one file, opened for writing first and filled afterwards;   *)
(* an error is only logged.                                                *)
(***************************************************************************)
EXTENDS Naturals, Sequences, FiniteSets, FiniteSetsExt

CONSTANTS MaxPrompts, MaxSessions, MaxFaults   \* bounds of the model

ASSUME BoundsAssumption ==
    MaxPrompts \in Nat /\ MaxSessions \in Nat \ {0} /\ MaxFaults \in Nat

VARIABLES
    sessions, active,  \* session ids, larger ones first in the list
    messages,          \* session |-> its messages
    file,              \* data/chat_history.json
    worker,            \* prompt |-> where its worker is
    queue,             \* prompts whose workers have signalled, oldest first
    made,              \* sessions made so far
    stale,             \* the last write failed, or there was nothing to read
    moved, cleared,    \* prompts the user has left, or whose session was emptied
    faults             \* failed writes and crashes so far

chat    == <<sessions, active, messages>>
disk    == <<file, stale>>
history == <<moved, cleared>>
vars    == <<chat, disk, worker, queue, made, history, faults>>

Prompts    == 1 .. MaxPrompts
Sessions   == 1 .. MaxSessions
Unreadable == [sessions |-> {}, active |-> 0, messages |-> <<>>]   \* missing or cut off
Image(S, a, m) == [sessions |-> S, active |-> a, messages |-> [s \in S |-> m[s]]]
Nothing == [s \in Sessions |-> {}]
Waiting == {p \in Prompts : worker[p] \in {"running", "replied", "failed"}}

\* save_sessions of what the handler leaves: the file is complete, or as it
\* was, or cut off.
Save(S, a, m) ==
    \/ file' = Image(S, a, m) /\ stale' = FALSE /\ UNCHANGED faults
    \/ /\ faults < MaxFaults /\ faults' = faults + 1
       /\ file' \in {file, Unreadable} /\ stale' = TRUE

Init ==
    /\ sessions = {1} /\ active = 1 /\ messages = Nothing /\ made = 1
    /\ file = Unreadable /\ stale = TRUE
    /\ worker = [p \in Prompts |-> "none"] /\ queue = <<>>
    /\ moved = {} /\ cleared = {} /\ faults = 0

------------------------------------------------------------------------------
\* send_user_message.
Send(p) ==
    /\ worker[p] = "none" /\ \A q \in 1 .. p - 1 : worker[q] # "none"
    /\ messages' = [messages EXCEPT ![active] = @ \union {<<"prompt", p>>}]
    /\ Save(sessions, active, messages')
    /\ worker' = [worker EXCEPT ![p] = "running"]
    /\ UNCHANGED <<sessions, active, queue, made, history>>

\* Mutant: an empty reply of the backend ends the run without a signal.
FinishSilently(p) ==
    /\ worker[p] = "running"
    /\ \/ worker' = [worker EXCEPT ![p] = "replied"] /\ queue' = Append(queue, p)
       \/ worker' = [worker EXCEPT ![p] = "failed"] /\ UNCHANGED queue
    /\ UNCHANGED <<chat, disk, made, history, faults>>

\* ChatWorker.run: tokens, then generation_completed or generation_failed.
Finish(p) ==
    /\ worker[p] = "running"
    /\ \E end \in {"replied", "failed"} : worker' = [worker EXCEPT ![p] = end]
    /\ queue' = Append(queue, p)
    /\ UNCHANGED <<chat, disk, made, history, faults>>

\* _on_worker_completed and _on_worker_failed.
Deliver ==
    /\ queue # <<>> /\ queue' = Tail(queue)
    /\ LET p == Head(queue) IN
        /\ messages' = [messages EXCEPT ![active] = @ \union {<<worker[p], p>>}]
        /\ worker' = [worker EXCEPT ![p] = "done"]
    /\ Save(sessions, active, messages')
    /\ UNCHANGED <<sessions, active, made, history>>

\* _on_approval_action_resolved of the main window: an action was decided, for whichever
\* prompt, and a note of it in the active session is saved.  The note is neither a prompt nor
\* an answer: "messages" does not hold it.
NoteDecision ==
    /\ Save(sessions, active, messages)
    /\ UNCHANGED <<chat, worker, queue, made, history>>

\* The user goes to another session: a prompt still running is left behind.
GoTo(s) == active' = s /\ moved' = IF s = active THEN moved ELSE moved \union Waiting

\* Mutant: a new session is kept for the first message to save.
NewUnsaved ==
    /\ made < MaxSessions /\ made' = made + 1
    /\ sessions' = sessions \union {made + 1}
    /\ GoTo(made + 1)
    /\ UNCHANGED <<messages, disk, worker, queue, cleared, faults>>

New ==
    /\ made < MaxSessions /\ made' = made + 1
    /\ sessions' = sessions \union {made + 1}
    /\ GoTo(made + 1)
    /\ Save(sessions', made + 1, messages)
    /\ UNCHANGED <<messages, worker, queue, cleared>>

Switch(s) ==
    /\ s \in sessions
    /\ GoTo(s)
    /\ Save(sessions, s, messages)
    /\ UNCHANGED <<sessions, messages, worker, queue, made, cleared>>

\* Mutant: any deletion activates the first session that remains.
DeleteAndReset(s) ==
    /\ s \in sessions /\ sessions # {s}
    /\ sessions' = sessions \ {s}
    /\ messages' = [messages EXCEPT ![s] = {}]
    /\ active' = Max(sessions \ {s})
    /\ moved' = IF s = active THEN moved \union Waiting ELSE moved
    /\ Save(sessions', active', messages')
    /\ UNCHANGED <<worker, queue, made, cleared>>

\* Mutant: the last session is not replaced.
DeleteLast(s) ==
    /\ s \in sessions
    /\ sessions' = sessions \ {s}
    /\ messages' = [messages EXCEPT ![s] = {}]
    /\ IF s = active /\ sessions' # {} THEN GoTo(Max(sessions')) ELSE UNCHANGED <<active, moved>>
    /\ Save(sessions', active', messages')
    /\ UNCHANGED <<worker, queue, made, cleared>>

\* delete_session: the first of the others becomes active, or a new one.
Delete(s) ==
    /\ s \in sessions /\ (sessions = {s} => made < MaxSessions)
    /\ messages' = [messages EXCEPT ![s] = {}]
    /\ IF sessions = {s}
       THEN sessions' = {made + 1} /\ made' = made + 1
       ELSE sessions' = sessions \ {s} /\ UNCHANGED made
    /\ IF s = active THEN GoTo(Max(sessions')) ELSE UNCHANGED <<active, moved>>
    /\ Save(sessions', active', messages')
    /\ UNCHANGED <<worker, queue, cleared>>

\* clear_session.
Clear ==
    /\ messages' = [messages EXCEPT ![active] = {}]
    /\ cleared' = cleared \union {p \in Prompts : <<"prompt", p>> \in messages[active]}
    /\ Save(sessions, active, messages')
    /\ UNCHANGED <<sessions, active, worker, queue, made, moved>>

\* The process ends, perhaps between opening and filling the file, and starts
\* again: load_sessions.  The threads and their signals are gone.
Restart ==
    /\ faults < MaxFaults /\ faults' = faults + 1
    /\ \E f \in {file, Unreadable} :
        /\ file' = f
        /\ IF f = Unreadable
           THEN /\ made < MaxSessions /\ made' = made + 1
                /\ sessions' = {made + 1} /\ active' = made + 1 /\ messages' = Nothing
                /\ stale' = TRUE
           ELSE /\ sessions' = f.sessions /\ active' = f.active
                /\ messages' = [s \in Sessions |->
                    IF s \in f.sessions THEN f.messages[s] ELSE {}]
                /\ stale' = FALSE /\ UNCHANGED made
    /\ worker' = [p \in Prompts |-> IF p \in Waiting THEN "lost" ELSE worker[p]]
    /\ queue' = <<>>
    /\ UNCHANGED history

Next ==
    \/ \E p \in Prompts : Send(p) \/ Finish(p)
    \/ Deliver \/ NoteDecision
    \/ New \/ Clear \/ \E s \in Sessions : Switch(s) \/ Delete(s)
    \/ Restart

\* The backend answers or raises (its own timeouts), and the event loop runs.
Fairness == WF_vars(Deliver) /\ \A p \in Prompts : WF_vars(Finish(p))

Spec == Init /\ [][Next]_vars /\ Fairness

------------------------------------------------------------------------------
\* The active session is one of the list, in memory and in the file: what is
\* appended to it is saved with the list.
TypeOK ==
    /\ made \in Sessions /\ sessions \subseteq 1 .. made /\ active \in sessions
    /\ messages \in [Sessions -> SUBSET ({"prompt", "replied", "failed"} \X Prompts)]
    /\ file # Unreadable => file.active \in file.sessions
    /\ worker \in [Prompts -> {"none", "running", "replied", "failed", "done", "lost"}]
    /\ queue \in Seq(Prompts)

\* Whatever the order of handlers and signals, a restart now would show what is
\* on the screen, unless the last write failed.
HistorySaved == ~stale => file = Image(sessions, active, messages)

\* The answer to a prompt stands in the prompt's session, if the user has not
\* left that session while waiting and has not emptied it.
AnswerBesidePrompt ==
    \A s \in sessions, p \in Prompts \ (moved \union cleared) :
        {<<"replied", p>>, <<"failed", p>>} \cap messages[s] # {} =>
            <<"prompt", p>> \in messages[s]

\* Every prompt is answered, with a reply or an error, if the program lives on.
EveryPromptAnswered ==
    \A p \in Prompts : worker[p] = "running" ~> worker[p] \in {"done", "lost"}
==============================================================================
