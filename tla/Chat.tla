-------------------------------- MODULE Chat --------------------------------
(***************************************************************************)
(* The owner's conversation with one agent (hagent/web.py, chat routes, and *)
(* the message_user tool of hagent/engine.py).                              *)
(*                                                                         *)
(* A request stores the message and, unless it saw the thread pending,      *)
(* starts a turn in the background; the turn calls the agent, stores the    *)
(* reply and looks for messages that came in meanwhile.  Requests and turns *)
(* run on threads of their own, each with its own session: what a session   *)
(* has loaded stays as it was, and an attribute that is set to the value    *)
(* that was loaded is not written.                                          *)
(***************************************************************************)
EXTENDS Naturals, Sequences, FiniteSets

CONSTANTS
    Senders,      \* requests that can be in progress at a time
    MaxThreads,   \* bound: rows of chat_threads
    MaxUserMessages,   \* bound: messages of the owner
    MaxNotes,     \* bound: messages of the message_user tool
    MaxFaults     \* bound: failed turns and restarts of the server

ASSUME ChatAssumption ==
    /\ {MaxThreads, MaxUserMessages, MaxNotes, MaxFaults} \subseteq Nat
    /\ IsFiniteSet(Senders)

VARIABLES
    pending,     \* ChatThread.pending
    unread,      \* ChatThread.unread
    log,         \* the roles of a thread's messages, in order
    threads,     \* the number of threads, none of which is ever deleted
    latest,      \* the thread with the latest message, 0 if there is none
    sender,      \* what a request has loaded
    turn,        \* turns, named after the owner's message that started them
    sent,        \* the number of messages of the owner
    notes,       \* the number of messages of the tool
    faults,      \* the number of failed turns and restarts
    answered,    \* history: the messages that a reply covers, <<thread, position>>
    missed,      \* history: messages stored after the last look of the turn their sender saw
    overlapped   \* history: threads that two requests found not pending at the same time

chatVars == <<pending, unread, log, threads, latest, sender, turn, sent, notes, faults,
              answered, missed, overlapped>>

Threads == 1 .. MaxThreads
Turns == 1 .. MaxUserMessages
NoSender == [at |-> "idle", thread |-> 0, saw |-> FALSE, sawUnread |-> FALSE]
NoTurn == [at |-> "none", thread |-> 0, since |-> 0, saw |-> FALSE, covers |-> {}]

ChatTypeOK ==
    /\ pending \in [Threads -> BOOLEAN]
    /\ unread \in [Threads -> BOOLEAN]
    /\ \A t \in Threads : log[t] \in Seq({"user", "agent"})
    /\ threads \in 0 .. MaxThreads /\ latest \in 0 .. threads
    /\ sender \in [Senders -> [at : {"idle", "read"}, thread : Threads \cup {0},
                               saw : BOOLEAN, sawUnread : BOOLEAN]]
    /\ \A k \in Turns :
         /\ turn[k].at \in {"none", "asking", "looking", "clearing", "over"}
         /\ turn[k].at \notin {"none", "over"} =>
              turn[k].thread \in Threads /\ turn[k].since \in 1 .. Len(log[turn[k].thread])
    /\ <<sent, notes, faults>> \in (0 .. MaxUserMessages) \X (0 .. MaxNotes) \X (0 .. MaxFaults)
    /\ overlapped \subseteq Threads

ChatInit ==
    /\ pending = [t \in Threads |-> FALSE]
    /\ unread = [t \in Threads |-> FALSE]
    /\ log = [t \in Threads |-> <<>>]
    /\ threads = 0 /\ latest = 0
    /\ sender = [h \in Senders |-> NoSender]
    /\ turn = [k \in Turns |-> NoTurn]
    /\ sent = 0 /\ notes = 0 /\ faults = 0
    /\ answered = {} /\ missed = {} /\ overlapped = {}

-----------------------------------------------------------------------------
(* The threads of the agent *)

Existing == 1 .. threads
NewThread == threads + 1
InFlight(t) == {k \in Turns : turn[k].thread = t /\ turn[k].at \notin {"none", "over"}}

\* A new message makes its thread the most active one, and is the first one of a new thread.
Post(t, role) ==
    /\ log' = [log EXCEPT ![t] = Append(@, role)]
    /\ latest' = t
    /\ threads' = IF t = NewThread THEN t ELSE threads

-----------------------------------------------------------------------------
(* Requests of the owner *)

\* chat_send_message loads the thread ...
SendRead(h) ==
    /\ sender[h].at = "idle" /\ sent < MaxUserMessages
    /\ LET t == latest
           IsPending == t # 0 /\ pending[t]
       IN  /\ sender' = [sender EXCEPT ![h] = [at |-> "read", thread |-> t, saw |-> IsPending,
                                               sawUnread |-> t # 0 /\ unread[t]]]
           /\ overlapped' = IF \E g \in Senders \ {h} : /\ sender[g].at = "read"
                                                        /\ sender[g].thread = t /\ t # 0
                                                        /\ ~sender[g].saw /\ ~IsPending
                            THEN overlapped \cup {t} ELSE overlapped
    /\ UNCHANGED <<pending, unread, log, threads, latest, turn, sent, notes, faults, answered,
                   missed>>

\* ... and stores the message; a thread that was not pending gets a turn.
SendCommit(h) ==
    /\ sender[h].at = "read" /\ sent < MaxUserMessages
    /\ sender[h].thread = 0 => NewThread \in Threads
    /\ LET t == IF sender[h].thread = 0 THEN NewThread ELSE sender[h].thread
           here == Len(log[t]) + 1
       IN  /\ Post(t, "user")
           /\ pending' = IF sender[h].saw THEN pending ELSE [pending EXCEPT ![t] = TRUE]
           /\ unread' = IF sender[h].sawUnread THEN [unread EXCEPT ![t] = FALSE] ELSE unread
           /\ turn' = IF sender[h].saw THEN turn
                      ELSE [turn EXCEPT ![sent + 1] =
                              [at |-> "asking", thread |-> t, since |-> here, saw |-> FALSE,
                               covers |-> {here}]]
           /\ missed' = IF sender[h].saw /\ \A k \in InFlight(t) : turn[k].at = "clearing"
                        THEN missed \cup {<<t, here>>} ELSE missed
    /\ sent' = sent + 1
    /\ sender' = [sender EXCEPT ![h] = NoSender]
    /\ UNCHANGED <<notes, faults, answered, overlapped>>

\* The owner opens the conversation.
OpenChat ==
    /\ latest # 0 /\ unread[latest]
    /\ unread' = [unread EXCEPT ![latest] = FALSE]
    /\ UNCHANGED <<pending, log, threads, latest, sender, turn, sent, notes, faults, answered,
                   missed, overlapped>>

\* The agent writes on its own account, to whichever of its threads the query yields.
MessageUser(t) ==
    /\ notes < MaxNotes /\ t \in Threads
    /\ t \in Existing \/ (Existing = {} /\ t = NewThread)
    /\ Post(t, "agent")
    /\ unread' = [unread EXCEPT ![t] = TRUE]
    /\ notes' = notes + 1
    /\ UNCHANGED <<pending, sender, turn, sent, faults, answered, missed, overlapped>>

-----------------------------------------------------------------------------
(* A turn *)

\* Fault: only what is stored after the reply counts.
Backlog_AfterReply(t, since) ==
    {i \in since + 1 .. Len(log[t]) :
        /\ log[t][i] = "user"
        /\ \A j \in since + 1 .. Len(log[t]) : log[t][j] = "agent" => j < i}

\* The positions of the owner's messages after a position.
Backlog(t, since) == {i \in since + 1 .. Len(log[t]) : log[t][i] = "user"}

\* The agent has answered, well or with an error, and the reply is stored.
TurnReply(k) ==
    /\ turn[k].at = "asking"
    /\ Post(turn[k].thread, "agent")
    /\ answered' = answered \cup {<<turn[k].thread, i>> : i \in turn[k].covers}
    /\ turn' = [turn EXCEPT ![k].at = "looking", ![k].saw = pending[turn[k].thread]]
    /\ UNCHANGED <<pending, unread, sender, sent, notes, faults, missed, overlapped>>

\* Fault: the thread stops being pending before the turn looks.
TurnLook_ClearsFirst(k) ==
    /\ turn[k].at = "looking"
    /\ pending' = [pending EXCEPT ![turn[k].thread] = FALSE]
    /\ LET waiting == Backlog(turn[k].thread, turn[k].since)
       IN  turn' = IF waiting = {} THEN [turn EXCEPT ![k].at = "over"]
                   ELSE [turn EXCEPT ![k].at = "asking", ![k].covers = waiting,
                           ![k].since = CHOOSE i \in waiting : \A j \in waiting : j <= i]
    /\ UNCHANGED <<unread, log, threads, latest, sender, sent, notes, faults, answered, missed,
                   overlapped>>

\* The turn reads the thread and takes up what has come in, all in one.
TurnLook(k) ==
    /\ turn[k].at = "looking"
    /\ LET waiting == Backlog(turn[k].thread, turn[k].since)
       IN  turn' = IF waiting = {} THEN [turn EXCEPT ![k].at = "clearing"]
                   ELSE [turn EXCEPT ![k].at = "asking", ![k].covers = waiting,
                           ![k].since = CHOOSE i \in waiting : \A j \in waiting : j <= i]
    /\ UNCHANGED <<pending, unread, log, threads, latest, sender, sent, notes, faults, answered,
                   missed, overlapped>>

TurnClear(k) ==
    /\ turn[k].at = "clearing"
    /\ pending' = IF turn[k].saw THEN [pending EXCEPT ![turn[k].thread] = FALSE] ELSE pending
    /\ turn' = [turn EXCEPT ![k] = [NoTurn EXCEPT !.at = "over"]]
    /\ UNCHANGED <<unread, log, threads, latest, sender, sent, notes, faults, answered, missed,
                   overlapped>>

\* A transaction of the turn fails, or an image cannot be read: the task ends.
TurnFails(k) ==
    /\ turn[k].at \notin {"none", "over"} /\ faults < MaxFaults
    /\ turn' = [turn EXCEPT ![k] = [NoTurn EXCEPT !.at = "over"]]
    /\ faults' = faults + 1
    /\ UNCHANGED <<pending, unread, log, threads, latest, sender, sent, notes, answered, missed,
                   overlapped>>

\* The server stops; nothing resets the threads when it starts again (lifespan).
Restart ==
    /\ faults < MaxFaults
    /\ sender' = [h \in Senders |-> NoSender]
    /\ turn' = [k \in Turns |-> IF turn[k].at = "none" THEN NoTurn
                                ELSE [NoTurn EXCEPT !.at = "over"]]
    /\ faults' = faults + 1
    /\ UNCHANGED <<pending, unread, log, threads, latest, sent, notes, answered, missed,
                   overlapped>>

TurnStep(k) == TurnReply(k) \/ TurnLook(k) \/ TurnClear(k)

ChatNext ==
    \/ \E h \in Senders : SendRead(h) \/ SendCommit(h)
    \/ OpenChat
    \/ \E t \in Threads : MessageUser(t)
    \/ \E k \in Turns : TurnStep(k) \/ TurnFails(k)
    \/ Restart

ChatSpec == ChatInit /\ [][ChatNext]_chatVars

\* Runtimes answer or fail, and the background tasks of the server go on.
ChatFairSpec == ChatSpec /\ \A k \in Turns : WF_chatVars(TurnStep(k))

-----------------------------------------------------------------------------

\* The runtime's session is used by one turn at a time, unless two requests read the thread
\* before either had stored its message (the comment in chat_send_message).
OneTurnPerThread ==
    \A t \in Threads \ overlapped : Cardinality(InFlight(t)) <= 1

Unanswered ==
    {m \in Threads \X (1 .. 2 * MaxUserMessages + MaxNotes) :
        /\ m[2] \in DOMAIN log[m[1]] /\ log[m[1]][m[2]] = "user"
        /\ m \notin answered \cup missed}

\* Once the owner stops writing each message is answered, by its own turn or by the one in
\* flight, unless it was stored after that turn's last look or a turn died (the docstring of
\* _complete_chat_turn).
MessagesAnswered == []<>(Unanswered = {} \/ faults > 0)
=============================================================================
