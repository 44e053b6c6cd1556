------------------------- MODULE ChatControllerProofs -------------------------
(***************************************************************************)
(* Theorems about ChatController, for any number of prompts, sessions and  *)
(* faults.                                                                 *)
(***************************************************************************)
EXTENDS ChatController, SequenceTheorems, WellFoundedInduction, TLAPS

USE BoundsAssumption

Kinds     == {"prompt", "replied", "failed"}
Shown     == SUBSET (Kinds \X Prompts)
Signalled == {p \in Prompts : worker[p] \in {"replied", "failed"}}

Left      == moved \union cleared

\* The answers in some sessions stand beside their prompts: AnswerBesidePrompt, of the
\* sessions on the screen or in the file.
Beside(S, m, left) ==
    \A s \in S, p \in Prompts \ left :
        {<<"replied", p>>, <<"failed", p>>} \cap m[s] # {} => <<"prompt", p>> \in m[s]

\* Types; the file holds sessions and messages as the screen once showed them.
TypeInv ==
    /\ made \in Sessions /\ sessions \subseteq 1 .. made /\ active \in sessions
    /\ messages \in [Sessions -> Shown]
    /\ worker \in [Prompts -> {"none", "running", "replied", "failed", "done", "lost"}]
    /\ queue \in Seq(Prompts)
    /\ stale \in BOOLEAN

FileInv ==
    file # Unreadable =>
        /\ file = Image(file.sessions, file.active, file.messages)
        /\ file.sessions \subseteq 1 .. made /\ file.active \in file.sessions
        /\ \A s \in file.sessions : file.messages[s] \in Shown
        /\ Beside(file.sessions, file.messages, Left)

\* A signal in the queue is a worker's only one.
QueueInv ==
    /\ \A i \in 1 .. Len(queue) : queue[i] \in Signalled
    /\ \A i, j \in 1 .. Len(queue) : queue[i] = queue[j] => i = j

\* A prompt that waits for its answer, and was not left behind, is in the active session.
WaitingHere ==
    \A p \in Waiting \ Left : <<"prompt", p>> \in messages[active]

ChatInv ==
    /\ TypeInv /\ FileInv /\ QueueInv /\ WaitingHere
    /\ Beside(Sessions, messages, Left)
    /\ HistorySaved

------------------------------------------------------------------------------
(* Sessions and the file.                                                  *)

\* The session that follows a deleted one is among those that remain.
LEMMA MaxRemains ==
  ASSUME NEW n \in Nat, NEW S, S \subseteq 1 .. n, S # {}
  PROVE  Max(S) \in S
<1> DEFINE T == {t \in Nat : \E x \in S : t = n - x}
<1>1. T \subseteq Nat /\ T # {}
  <2>1. PICK x \in S : TRUE
    OBVIOUS
  <2>2. n - x \in T
    OBVIOUS
  <2> QED
    BY <2>2
<1>2. \E t \in T : \A u \in T : ~ (<<u, t>> \in OpToRel(<, Nat))
  BY <1>1, NatLessThanWellFounded, WFMin
<1>3. PICK t \in T : \A u \in T : ~ (u < t)
  BY <1>1, <1>2 DEF OpToRel
<1>4. PICK x \in S : t = n - x
  OBVIOUS
<1>5. \A y \in S : x >= y
  <2> TAKE y \in S
  <2>1. y \in 1 .. n /\ x \in 1 .. n /\ n - y \in T
    OBVIOUS
  <2>2. ~ (n - y < n - x)
    BY <1>3, <1>4, <2>1
  <2> QED
    BY <2>1, <2>2
<1> QED
  BY <1>5 DEF Max

\* A handler's save completes the file, or leaves it as it was or cut off, and notes which.
LEMMA Saved ==
  ASSUME NEW S, NEW a, NEW m, Save(S, a, m)
  PROVE  /\ \/ file' = Image(S, a, m) /\ stale' = FALSE
            \/ file' \in {file, Unreadable} /\ stale' = TRUE
         /\ faults' \in {faults, faults + 1}
BY DEF Save

\* What is read back from a complete file is what was written.
LEMMA ImageFields ==
  ASSUME NEW S, NEW a \in S, NEW m
  PROVE  /\ Image(S, a, m) # Unreadable
         /\ Image(S, a, m).sessions = S /\ Image(S, a, m).active = a
         /\ \A s \in S : Image(S, a, m).messages[s] = m[s]
         /\ Image(S, a, m) = Image(S, a, Image(S, a, m).messages)
BY DEF Image, Unreadable

\* After a save the file is in order, if what was saved is.
LEMMA SavedInOrder ==
  ASSUME FileInv, NEW S, NEW a \in S, NEW m \in [Sessions -> Shown], Save(S, a, m),
         S \subseteq 1 .. made', made \in Nat, made' \in Sessions, made <= made',
         Left \subseteq Left',
         Beside(Sessions, m, Left')
  PROVE  FileInv' /\ (~ stale' => file' = Image(S, a, m)) /\ stale' \in BOOLEAN
<1>1. CASE file' = Image(S, a, m) /\ stale' = FALSE
  <2>1. /\ file'.sessions = S /\ file'.active = a
        /\ \A s \in S : file'.messages[s] = m[s]
        /\ file' = Image(S, a, file'.messages)
    BY <1>1, ImageFields
  <2>2. Beside(file'.sessions, file'.messages, Left')
    BY <2>1 DEF Beside, Sessions
  <2>3. \A s \in S : m[s] \in Shown
    BY DEF Sessions
  <2> QED
    BY <1>1, <2>1, <2>2, <2>3 DEF FileInv
<1>2. CASE file' \in {file, Unreadable} /\ stale' = TRUE
  <2>1. CASE file' = Unreadable
    BY <1>2, <2>1 DEF FileInv
  <2>2. CASE file' = file /\ file # Unreadable
    <3>1. Beside(file'.sessions, file'.messages, Left')
      BY <2>2 DEF FileInv, Beside, Left
    <3>2. 1 .. made \subseteq 1 .. made'
      BY DEF Sessions
    <3> QED
      BY <1>2, <2>2, <3>1, <3>2 DEF FileInv
  <2> QED
    BY <1>2, <2>1, <2>2
<1> QED
  BY <1>1, <1>2, Saved

------------------------------------------------------------------------------
(* The handlers.                                                           *)

\* A prompt is sent: it waits in the session it is shown in.
LEMMA SendStep ==
  ASSUME ChatInv, NEW p \in Prompts, Send(p)
  PROVE  ChatInv'
<1> USE DEF ChatInv, TypeInv
<1>1. /\ messages' = [messages EXCEPT ![active] = @ \union {<<"prompt", p>>}]
      /\ worker' = [worker EXCEPT ![p] = "running"] /\ worker[p] = "none"
      /\ UNCHANGED <<sessions, active, queue, made, moved, cleared>>
  BY DEF Send, history
<1>2. active \in Sessions /\ messages[active] \in Shown
  BY DEF Sessions
<1>3. /\ messages' \in [Sessions -> Shown]
      /\ messages'[active] = messages[active] \union {<<"prompt", p>>}
      /\ \A s \in Sessions \ {active} : messages'[s] = messages[s]
  BY <1>1, <1>2 DEF Shown, Kinds
<1>4. TypeInv' /\ made \in Nat
  <2>1. stale' \in BOOLEAN
    BY Saved DEF Send
  <2> QED
    BY <1>1, <1>3, <2>1 DEF Sessions
<1>5. Beside(Sessions, messages', Left')
  BY <1>1, <1>3 DEF Beside, Sessions, Left
<1>6. QueueInv'
  BY <1>1 DEF QueueInv, Signalled
<1>7. WaitingHere'
  BY <1>1, <1>3 DEF WaitingHere, Waiting, Left
<1>9. FileInv' /\ HistorySaved'
  <2>1. Save(sessions, active, messages')
    BY DEF Send
  <2>2. Left' = Left /\ made' = made /\ made <= made' /\ sessions' = sessions /\ active' = active
    BY <1>1, <1>4 DEF Left
  <2>3. FileInv' /\ (~ stale' => file' = Image(sessions, active, messages'))
    BY <1>1, <1>3, <1>4, <1>5, <2>1, <2>2, SavedInOrder
  <2> QED
    BY <2>2, <2>3 DEF HistorySaved
<1> QED
  BY <1>4, <1>5, <1>6, <1>7, <1>9

\* A worker ends: its one signal is queued.
LEMMA FinishStep ==
  ASSUME ChatInv, NEW p \in Prompts, Finish(p)
  PROVE  ChatInv'
<1> USE DEF ChatInv
<1>1. /\ worker[p] = "running" /\ worker' \in [Prompts -> {"none", "running", "replied", "failed", "done", "lost"}]
      /\ worker'[p] \in {"replied", "failed"} /\ \A q \in Prompts \ {p} : worker'[q] = worker[q]
      /\ queue' = Append(queue, p) /\ queue \in Seq(Prompts)
      /\ UNCHANGED <<sessions, active, messages, file, stale, made, moved, cleared, faults>>
  BY DEF Finish, TypeInv, chat, disk, history
<1>2. /\ queue' \in Seq(Prompts) /\ Len(queue') = Len(queue) + 1 /\ Len(queue) \in Nat
      /\ queue'[Len(queue')] = p /\ \A i \in 1 .. Len(queue) : queue'[i] = queue[i]
  BY <1>1, AppendProperties
<1>3. \A i \in 1 .. Len(queue) : queue[i] # p /\ queue[i] \in Signalled'
  BY <1>1 DEF QueueInv, Signalled
<1>4. QueueInv'
  BY <1>1, <1>2, <1>3 DEF QueueInv, Signalled
<1>5. TypeInv' /\ FileInv' /\ Beside(Sessions, messages', Left') /\ HistorySaved'
  BY <1>1, <1>2 DEF TypeInv, FileInv, Left, Beside, HistorySaved
<1>6. WaitingHere'
  BY <1>1 DEF WaitingHere, Waiting, Left
<1> QED
  BY <1>4, <1>5, <1>6

\* The signal is handled: the answer stands in the session that is active now.
LEMMA DeliverStep ==
  ASSUME ChatInv, Deliver
  PROVE  ChatInv'
<1> DEFINE p == Head(queue)
<1>0. TypeInv /\ made \in Nat
  BY DEF ChatInv, TypeInv, Sessions
<1>1. /\ queue \in Seq(Prompts) /\ queue # << >> /\ queue' = Tail(queue)
      /\ messages' = [messages EXCEPT ![active] = @ \union {<<worker[p], p>>}]
      /\ worker' = [worker EXCEPT ![p] = "done"]
      /\ Save(sessions, active, messages')
      /\ UNCHANGED <<sessions, active, made, moved, cleared>>
  BY <1>0 DEF Deliver, history, TypeInv
<1>2. /\ queue' \in Seq(Prompts) /\ Len(queue) \in Nat /\ Len(queue') = Len(queue) - 1
      /\ p = queue[1] /\ \A i \in 1 .. Len(queue') : queue'[i] = queue[i + 1]
      /\ 1 \in 1 .. Len(queue) /\ p \in Prompts
  BY <1>1, HeadTailProperties
<1>3. worker[p] \in {"replied", "failed"} /\ QueueInv
  BY <1>2 DEF ChatInv, QueueInv, Signalled
<1> HIDE DEF p
<1>4. active \in Sessions /\ messages[active] \in Shown /\ messages \in [Sessions -> Shown]
  BY <1>0 DEF TypeInv, Sessions
<1>5. /\ messages' \in [Sessions -> Shown]
      /\ messages'[active] = messages[active] \union {<<worker[p], p>>}
      /\ \A s \in Sessions \ {active} : messages'[s] = messages[s]
  BY <1>1, <1>2, <1>3, <1>4 DEF Shown, Kinds
<1>6. TypeInv'
  <2>1. stale' \in BOOLEAN
    BY <1>1, Saved
  <2> QED
    BY <1>0, <1>1, <1>2, <1>5, <2>1 DEF TypeInv
<1>7. QueueInv'
  <2>1. \A i \in 1 .. Len(queue') : i + 1 \in 1 .. Len(queue) /\ i + 1 # 1
    BY <1>2
  <2>2. \A i \in 1 .. Len(queue') : queue'[i] # p /\ queue'[i] \in Signalled
    BY <1>2, <1>3, <2>1 DEF QueueInv
  <2>3. \A i \in 1 .. Len(queue') : queue'[i] \in Signalled'
    BY <1>1, <2>2 DEF Signalled
  <2>4. \A i, j \in 1 .. Len(queue') : queue'[i] = queue'[j] => i = j
    BY <1>2, <1>3, <2>1 DEF QueueInv
  <2> QED
    BY <2>3, <2>4 DEF QueueInv
<1>8. p \notin Left => <<"prompt", p>> \in messages[active]
  BY <1>2, <1>3 DEF ChatInv, WaitingHere, Waiting
<1>9. Beside(Sessions, messages', Left')
  <2> SUFFICES ASSUME NEW s \in Sessions, NEW q \in Prompts \ Left,
                      {<<"replied", q>>, <<"failed", q>>} \cap messages'[s] # {}
               PROVE  <<"prompt", q>> \in messages'[s]
    BY <1>1 DEF Beside, Left
  <2>2. {<<"replied", q>>, <<"failed", q>>} \cap messages[s] # {} => <<"prompt", q>> \in messages[s]
    BY DEF ChatInv, Beside
  <2> QED
    BY <1>5, <1>8, <2>2
<1>10. WaitingHere'
  BY <1>0, <1>1, <1>2, <1>5 DEF ChatInv, TypeInv, WaitingHere, Waiting, Left
<1>11. FileInv' /\ HistorySaved'
  <2>1. Left' = Left /\ made' = made /\ made <= made' /\ sessions' = sessions /\ active' = active
    BY <1>0, <1>1 DEF Left
  <2>2. /\ FileInv /\ made' \in Sessions /\ sessions \subseteq 1 .. made' /\ active \in sessions
        /\ Beside(Sessions, messages', Left')
    BY <1>0, <1>9, <2>1 DEF ChatInv, TypeInv
  <2>3. FileInv' /\ (~ stale' => file' = Image(sessions, active, messages'))
    BY <1>0, <1>1, <1>5, <2>1, <2>2, SavedInOrder
  <2> QED
    BY <2>1, <2>3 DEF HistorySaved
<1> QED
  BY <1>6, <1>7, <1>9, <1>10, <1>11 DEF ChatInv

\* What a handler needs to leave in order when the user goes elsewhere.
LEMMA GoneTo ==
  ASSUME ChatInv, NEW m \in [Sessions -> Shown],
         sessions' \subseteq 1 .. made', active' \in sessions', made' \in Sessions, made <= made',
         messages' = m, UNCHANGED <<worker, queue>>,
         Save(sessions', active', messages'),
         Left \subseteq Left',
         active' # active => Waiting \subseteq Left',
         active' = active => \A p \in Waiting \ Left' : <<"prompt", p>> \in m[active],
         \A s \in Sessions : m[s] = {} \/ m[s] = messages[s]
  PROVE  ChatInv'
<1>1. TypeInv /\ made \in Nat
  BY DEF ChatInv, TypeInv, Sessions
<1>2. TypeInv'
  BY <1>1, Saved DEF TypeInv
<1>3. QueueInv' /\ WaitingHere'
  BY DEF ChatInv, QueueInv, Signalled, WaitingHere, Waiting
<1>4. Beside(Sessions, messages', Left')
  BY DEF ChatInv, Beside
<1>5. FileInv' /\ HistorySaved'
  BY <1>1, <1>2, <1>4, SavedInOrder DEF ChatInv, HistorySaved
<1> QED
  BY <1>2, <1>3, <1>4, <1>5 DEF ChatInv

\* A decision noted; a new session, another one, one less, one emptied.
LEMMA SessionStep ==
  ASSUME ChatInv, NoteDecision \/ New \/ Clear \/ \E s \in Sessions : Switch(s) \/ Delete(s)
  PROVE  ChatInv'
<1>0. /\ TypeInv /\ made \in Nat /\ WaitingHere /\ messages \in [Sessions -> Shown]
      /\ active \in Sessions /\ sessions \subseteq 1 .. made
  BY DEF ChatInv, TypeInv, Sessions
<1>1. CASE New
  <2>1. /\ made < MaxSessions /\ made' = made + 1 /\ sessions' = sessions \union {made + 1}
        /\ active' = made + 1 /\ messages' = messages
        /\ moved' = (IF made + 1 = active THEN moved ELSE moved \union Waiting)
        /\ UNCHANGED <<cleared, worker, queue>>
        /\ Save(sessions', active', messages')
    BY <1>1 DEF New, GoTo
  <2>2. active # made + 1
    BY <1>0 DEF TypeInv
  <2>3. sessions' \subseteq 1 .. made' /\ active' \in sessions' /\ made' \in Sessions /\ made <= made'
    BY <1>0, <2>1 DEF Sessions
  <2>4. Left \subseteq Left' /\ Waiting \subseteq Left'
    BY <2>1, <2>2 DEF Left
  <2> QED
    BY <1>0, <2>1, <2>2, <2>3, <2>4, GoneTo
<1>2. CASE Clear
  <2>1. /\ messages' = [messages EXCEPT ![active] = {}]
        /\ cleared' = cleared \union {p \in Prompts : <<"prompt", p>> \in messages[active]}
        /\ UNCHANGED <<sessions, active, worker, queue, made, moved>>
        /\ Save(sessions', active', messages')
    BY <1>2 DEF Clear
  <2>2. /\ messages' \in [Sessions -> Shown]
        /\ \A s \in Sessions : messages'[s] = {} \/ messages'[s] = messages[s]
    BY <1>0, <2>1 DEF Shown
  <2>3. Left \subseteq Left'
    BY <2>1 DEF Left
  <2>4. \A p \in Waiting : p \in Left'
    BY <1>0, <2>1 DEF WaitingHere, Left, Waiting
  <2>5. sessions' \subseteq 1 .. made' /\ active' \in sessions' /\ made' \in Sessions /\ made <= made'
    BY <1>0, <2>1 DEF TypeInv
  <2> QED
    BY <1>0, <2>1, <2>2, <2>3, <2>4, <2>5, GoneTo
<1>3. ASSUME NEW s \in Sessions, Switch(s)
      PROVE  ChatInv'
  <2>1. /\ s \in sessions /\ active' = s
        /\ moved' = (IF s = active THEN moved ELSE moved \union Waiting)
        /\ UNCHANGED <<sessions, messages, worker, queue, made, cleared>>
        /\ Save(sessions', active', messages')
    BY <1>3 DEF Switch, GoTo
  <2>2. Left \subseteq Left' /\ (s # active => Waiting \subseteq Left')
    BY <2>1 DEF Left
  <2>3. active' = active => \A p \in Waiting \ Left' : <<"prompt", p>> \in messages[active]
    BY <1>0, <2>2 DEF WaitingHere
  <2>4. sessions' \subseteq 1 .. made' /\ active' \in sessions' /\ made' \in Sessions /\ made <= made'
    BY <1>0, <2>1 DEF TypeInv
  <2> QED
    BY <1>0, <2>1, <2>2, <2>3, <2>4, GoneTo
<1>4. ASSUME NEW s \in Sessions, Delete(s)
      PROVE  ChatInv'
  <2>1. /\ s \in sessions /\ (sessions = {s} => made < MaxSessions)
        /\ messages' = [messages EXCEPT ![s] = {}]
        /\ IF sessions = {s}
           THEN sessions' = {made + 1} /\ made' = made + 1
           ELSE sessions' = sessions \ {s} /\ made' = made
        /\ IF s = active
           THEN /\ active' = Max(sessions')
                /\ moved' = (IF Max(sessions') = active THEN moved ELSE moved \union Waiting)
           ELSE active' = active /\ moved' = moved
        /\ UNCHANGED <<worker, queue, cleared>>
        /\ Save(sessions', active', messages')
    BY <1>4 DEF Delete, GoTo
  <2>2. /\ messages' \in [Sessions -> Shown]
        /\ \A t \in Sessions : messages'[t] = {} \/ messages'[t] = messages[t]
        /\ s # active => messages'[active] = messages[active]
    BY <1>0, <2>1 DEF Shown
  <2>3. /\ sessions' \subseteq 1 .. made' /\ made' \in Sessions /\ made <= made'
        /\ sessions' # {} /\ s \notin sessions'
        /\ s # active => active \in sessions'
    <3>1. active \in sessions /\ sessions \subseteq 1 .. made /\ made \in 1 .. MaxSessions
      BY <1>0 DEF TypeInv, Sessions
    <3>2. CASE sessions = {s}
      <4>1. made + 1 \in 1 .. MaxSessions /\ s # made + 1
        BY <1>0, <2>1, <3>1, <3>2
      <4>2. sessions' = {made + 1} /\ made' = made + 1
        BY <2>1, <3>2
      <4>3. sessions' \subseteq 1 .. made' /\ made <= made' /\ made' \in Sessions
        BY <1>0, <4>1, <4>2 DEF Sessions
      <4> QED
        BY <3>1, <3>2, <4>1, <4>2, <4>3
    <3>3. CASE sessions # {s}
      <4>1. sessions' = sessions \ {s} /\ made' = made
        BY <2>1, <3>3
      <4>2. sessions' \subseteq 1 .. made' /\ made <= made' /\ made' \in Sessions
        BY <1>0, <3>1, <4>1 DEF Sessions
      <4>3. sessions' # {} /\ s \notin sessions' /\ (s # active => active \in sessions')
        BY <2>1, <3>1, <3>3, <4>1
      <4> QED
        BY <4>2, <4>3
    <3> QED
      BY <3>2, <3>3
  <2>4. Max(sessions') \in sessions'
    <3>1. made' \in Nat
      BY <2>3 DEF Sessions
    <3> QED
      BY <2>3, <3>1, MaxRemains
  <2>5. active' \in sessions' /\ (s = active => active' # active)
    BY <2>1, <2>3, <2>4
  <2>6. Left \subseteq Left' /\ (active' # active => Waiting \subseteq Left')
    BY <2>1, <2>5 DEF Left
  <2>7. active' = active => \A p \in Waiting \ Left' : <<"prompt", p>> \in messages'[active]
    BY <1>0, <2>2, <2>5, <2>6 DEF WaitingHere
  <2> QED
    BY <2>1, <2>2, <2>3, <2>5, <2>6, <2>7, GoneTo
<1>5. CASE NoteDecision
  <2>1. /\ UNCHANGED <<sessions, active, messages, moved, cleared, worker, queue, made>>
        /\ Save(sessions', active', messages')
    BY <1>5 DEF NoteDecision, chat, history
  <2>2. Left' = Left /\ \A p \in Waiting \ Left' : <<"prompt", p>> \in messages[active]
    BY <1>0, <2>1 DEF WaitingHere, Left
  <2>3. sessions' \subseteq 1 .. made' /\ active' \in sessions' /\ made' \in Sessions /\ made <= made'
    BY <1>0, <2>1 DEF TypeInv
  <2> QED
    BY <1>0, <2>1, <2>2, <2>3, GoneTo
<1> QED
  BY <1>1, <1>2, <1>3, <1>4, <1>5

\* The program starts again with what the file holds, or with a session of its own.
LEMMA RestartStep ==
  ASSUME ChatInv, Restart
  PROVE  ChatInv'
<1>0. /\ TypeInv /\ FileInv /\ made \in Nat
  BY DEF ChatInv, TypeInv, Sessions
<1>1. PICK f \in {file, Unreadable} :
        /\ file' = f
        /\ IF f = Unreadable
           THEN /\ made < MaxSessions /\ made' = made + 1
                /\ sessions' = {made + 1} /\ active' = made + 1 /\ messages' = Nothing
                /\ stale' = TRUE
           ELSE /\ sessions' = f.sessions /\ active' = f.active
                /\ messages' = [s \in Sessions |->
                    IF s \in f.sessions THEN f.messages[s] ELSE {}]
                /\ stale' = FALSE /\ made' = made
  BY DEF Restart
<1>2. /\ worker' = [p \in Prompts |-> IF p \in Waiting THEN "lost" ELSE worker[p]]
      /\ queue' = << >> /\ UNCHANGED <<moved, cleared>>
  BY DEF Restart, history
<1>3. Waiting' = {} /\ queue' \in Seq(Prompts) /\ Len(queue') = 0
      /\ worker' \in [Prompts -> {"none", "running", "replied", "failed", "done", "lost"}]
  BY <1>0, <1>2 DEF Waiting, TypeInv
<1>4. WaitingHere' /\ QueueInv'
  BY <1>3 DEF WaitingHere, QueueInv
<1>5. Left' = Left
  BY <1>2 DEF Left
<1>6. CASE f = Unreadable
  <2>1. TypeInv'
    BY <1>0, <1>1, <1>3, <1>6 DEF TypeInv, Sessions, Nothing, Shown
  <2>2. FileInv' /\ HistorySaved'
    BY <1>1, <1>6 DEF FileInv, HistorySaved
  <2>3. Beside(Sessions, messages', Left')
    BY <1>1, <1>6 DEF Beside, Nothing
  <2> QED
    BY <1>4, <2>1, <2>2, <2>3 DEF ChatInv
<1>7. CASE f # Unreadable
  <2>1. /\ f = file /\ file' = file /\ sessions' = file.sessions /\ active' = file.active
        /\ messages' = [s \in Sessions |-> IF s \in file.sessions THEN file.messages[s] ELSE {}]
        /\ stale' = FALSE /\ made' = made /\ file # Unreadable
    BY <1>1, <1>7
  <2>2. /\ file = Image(file.sessions, file.active, file.messages)
        /\ file.sessions \subseteq 1 .. made /\ file.active \in file.sessions
        /\ \A s \in file.sessions : file.messages[s] \in Shown
        /\ Beside(file.sessions, file.messages, Left)
    BY <1>0, <2>1 DEF FileInv
  <2>3. file.sessions \subseteq Sessions
    BY <1>0, <2>2 DEF TypeInv, Sessions
  <2>4. TypeInv'
    <3>1. messages' \in [Sessions -> Shown]
      BY <2>1, <2>2 DEF Shown
    <3> QED
      BY <1>0, <1>3, <2>1, <2>2, <3>1 DEF TypeInv
  <2>5. FileInv'
    BY <1>5, <2>1, <2>2 DEF FileInv
  <2>6. Beside(Sessions, messages', Left')
    BY <1>5, <2>1, <2>2 DEF Beside
  <2>7. HistorySaved'
    <3>1. \A s \in file.sessions : messages'[s] = file.messages[s]
      BY <2>1, <2>3
    <3>2. Image(file.sessions, file.active, messages') = Image(file.sessions, file.active, file.messages)
      BY <3>1 DEF Image
    <3> QED
      BY <2>1, <2>2, <3>2 DEF HistorySaved
  <2> QED
    BY <1>4, <2>4, <2>5, <2>6, <2>7 DEF ChatInv
<1> QED
  BY <1>6, <1>7

------------------------------------------------------------------------------
(* The theorems.                                                           *)

\* The workspace starts in order ...
LEMMA ChatStarts ==
  ASSUME Init
  PROVE  ChatInv
<1>1. TypeInv
  BY DEF Init, TypeInv, Sessions, Nothing, Shown
<1>2. FileInv /\ QueueInv /\ WaitingHere /\ HistorySaved
  BY DEF Init, FileInv, QueueInv, WaitingHere, Waiting, HistorySaved
<1>3. Beside(Sessions, messages, Left)
  BY DEF Init, Beside, Nothing
<1> QED
  BY <1>1, <1>2, <1>3 DEF ChatInv

\* ... and every handler, signal and restart leaves it in order.
LEMMA ChatStep ==
  ASSUME ChatInv, [Next]_vars
  PROVE  ChatInv'
<1>1. CASE UNCHANGED vars
  BY <1>1 DEF vars, chat, disk, history, ChatInv, TypeInv, FileInv, QueueInv, Signalled,
              WaitingHere, Waiting, Left, Beside, HistorySaved
<1> QED
  BY <1>1, SendStep, FinishStep, DeliverStep, SessionStep, RestartStep DEF Next

\* The inductive invariant: it holds in every reachable state.
THEOREM ChatAlways == Spec => []ChatInv
<1>1. ChatInv /\ [Next]_vars => ChatInv'
  BY ChatStep
<1> QED
  BY <1>1, ChatStarts, PTL DEF Spec

\* The active session is one of the list, in memory and in the file, whatever was deleted,
\* lost or read back.
THEOREM TypeCorrect == Spec => []TypeOK
<1>1. ChatInv => TypeOK
  BY DEF ChatInv, TypeInv, FileInv, Shown, Kinds, TypeOK
<1> QED
  BY <1>1, ChatAlways, PTL

\* A restart would show what is on the screen, unless the last write failed.
THEOREM HistoryIsSaved == Spec => []HistorySaved
<1>1. ChatInv => HistorySaved
  BY DEF ChatInv
<1> QED
  BY <1>1, ChatAlways, PTL

\* An answer stands beside its prompt, unless the user left the session or emptied it.
THEOREM AnswersBesidePrompts == Spec => []AnswerBesidePrompt
<1>1. ChatInv => AnswerBesidePrompt
  BY DEF ChatInv, TypeInv, Beside, Left, AnswerBesidePrompt, Sessions
<1> QED
  BY <1>1, ChatAlways, PTL

===============================================================================
