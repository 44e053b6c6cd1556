-------------------------- MODULE ConversationStore --------------------------
(***************************************************************************)
(* SQLiteConversationRepository, with ConversationManager in front of it:  *)
(* sessions and their numbered messages, written by several threads, each  *)
(* on a connection of its own.                                             *)
(*                                                                         *)
(* Python's sqlite3 opens a transaction before the first INSERT or UPDATE, *)
(* so the reads of a method stand outside of it: add_message reads the     *)
(* status, reads the highest number, and then inserts and updates in one   *)
(* transaction, which SQLite makes atomic and the UNIQUE constraints of    *)
(* the tables can refuse.                                                  *)
(*                                                                         *)
(*   db.sessions  session -> [status, updated]                             *)
(*   db.messages  rows [id, session, number]                               *)
(*   db.calls     thread -> the add_message it is in, or Idle              *)
(*   db.added     the messages add_message has returned for, in this order *)
(***************************************************************************)
LOCAL INSTANCE Naturals
LOCAL INSTANCE FiniteSetsExt
LOCAL INSTANCE SequencesExt

Idle == [at |-> "idle"]

EmptyStore(Threads) ==
    [sessions |-> << >>, messages |-> {}, calls |-> [t \in Threads |-> Idle],
     added |-> << >>]

Exists(db, s) == s \in DOMAIN db.sessions
MessagesOf(db, s) == {m \in db.messages : m.session = s}

\* create_session: PRIMARY KEY, a session is created once.
CreateSession(db, s, now) ==
    IF Exists(db, s) THEN db
    ELSE [db EXCEPT !.sessions = [x \in DOMAIN db.sessions \union {s} |->
             IF x = s THEN [status |-> "ACTIVE", updated |-> now] ELSE db.sessions[x]]]

\* close_session reads that the session exists, which it then always does, and updates.
CloseSession(db, s, now) ==
    IF Exists(db, s) THEN [db EXCEPT !.sessions[s] = [status |-> "CLOSED", updated |-> now]] ELSE db

------------------------------------------------------------------------------
\* add_message, one statement after the other; what raises ends the call.
Raised(db, t) == [db EXCEPT !.calls[t] = Idle]

Begin(db, t, s, id, now) ==
    [db EXCEPT !.calls[t] = [at |-> "status", session |-> s, message |-> id, now |-> now]]

ReadStatus(db, t) ==
    LET s == db.calls[t].session IN
    IF Exists(db, s) /\ db.sessions[s].status = "ACTIVE" THEN [db EXCEPT !.calls[t].at = "number"]
    ELSE Raised(db, t)

NextNumber(db, s) == 1 + Max({0} \union {m.number : m \in MessagesOf(db, s)})

ReadNumber(db, t) ==
    LET c == db.calls[t] IN
    [db EXCEPT !.calls[t] = [at |-> "insert", session |-> c.session, message |-> c.message,
                             now |-> c.now, number |-> NextNumber(db, c.session)]]

Violates(db, row) ==
    \/ ~ Exists(db, row.session)
    \/ \E m \in db.messages : m.id = row.id \/ (m.session = row.session /\ m.number = row.number)

InsertAndUpdate(db, t) ==
    LET c == db.calls[t]
        row == [id |-> c.message, session |-> c.session, number |-> c.number]
    IN  IF Violates(db, row) THEN Raised(db, t)
        ELSE [db EXCEPT !.messages = @ \union {row}, !.calls[t] = Idle,
                        !.sessions[c.session].updated = c.now,
                        !.added = Append(@, c.message)]

Advance(db, t) ==
    CASE db.calls[t].at = "status" -> ReadStatus(db, t)
      [] db.calls[t].at = "number" -> ReadNumber(db, t)
      [] db.calls[t].at = "insert" -> InsertAndUpdate(db, t)

\* get_messages, by number.
GetMessages(db, s) == SetToSortSeq(MessagesOf(db, s), LAMBDA a, b : a.number < b.number)

------------------------------------------------------------------------------
\* The states that n steps of the threads can lead to: a thread that is idle adds its own
\* message or that of another thread, and a step may raise for a reason of the database.
Steps(db, Threads, s) ==
    UNION {IF db.calls[t] = Idle THEN {Begin(db, t, s, id, 1) : id \in Threads}
           ELSE {Advance(db, t), Raised(db, t)} : t \in Threads}
    \union {CloseSession(db, s, 1), CreateSession(db, s, 0)}

AfterSteps(Threads, s, n) ==
    FoldLeft(LAMBDA seen, k : seen \union UNION {Steps(db, Threads, s) : db \in seen},
             {EmptyStore(Threads)}, [k \in 1 .. n |-> k])

\* add_message allocates numbers outside of its transaction, yet the messages of a session
\* are numbered from 1 without a gap and in the order in which the calls returned, and a
\* message is there exactly when its call has returned.
NumbersInOrder(Threads, s, n) ==
    \A db \in AfterSteps(Threads, s, n) :
        LET history == GetMessages(db, s) IN
        /\ [i \in DOMAIN history |-> history[i].number] = [i \in DOMAIN history |-> i]
        /\ [i \in DOMAIN history |-> history[i].id] = db.added
        /\ IsInjective(db.added)
==============================================================================
