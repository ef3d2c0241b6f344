------------------------------ MODULE Capture -------------------------------
(***************************************************************************)
(* The capture process of one exchange:pair (src/python/obadiah/capture.py *)
(* with the Bitfinex handler of bitfinex.py): one asyncio event loop, one  *)
(* task running capture(), and one process_messages() task per websocket   *)
(* session.                                                                *)
(*                                                                         *)
(* capture() connects, moves messages from the websocket's buffer into the *)
(* session's queue and reconnects when the session is lost.  A handler     *)
(* task takes the only connection of the pool, empties its queue into the  *)
(* database and ends at the None that capture() puts after the session's   *)
(* last message.  So several sessions' handlers may exist at once, and all *)
(* but one wait for the connection.                                        *)
(*                                                                         *)
(* Sessions are numbered in the order they are opened, and the numbers go  *)
(* on over a restart of the process by systemd.  Session 0 is "none".      *)
(*                                                                         *)
(* An action is what a task does between two awaits at which another task  *)
(* may run and see the difference.                                         *)
(***************************************************************************)
EXTENDS BookEpisodes, FiniteSets

CONSTANTS
    MaxSessions,      \* bound: sessions opened, over all restarts
    MaxEvents,        \* bound: book events the exchange sends in a session
    MaxNotices,       \* bound: other messages the exchange sends
    MaxInterrupts,    \* bound: SIGINTs sent to the process
    MaxRefusals,      \* bound: connection attempts that fail
    MaxRestarts,      \* bound: restarts by systemd
    Faults            \* the faults that may happen

Fault == {"error",    \* a message the handler raises on (an "error" event)
          "db",       \* copy_records_to_table raises
          "oserror",  \* connect() raises something else than a handshake error
          "crash"}    \* the process is killed

ASSUME CaptureAssumption ==
    /\ {MaxSessions, MaxEvents, MaxNotices, MaxInterrupts, MaxRefusals, MaxRestarts} \subseteq Nat
    /\ Faults \subseteq Fault

Sessions == 1..MaxSessions
NoSession == 0

VARIABLES
    pc,         \* the await capture() is at
    outcome,    \* how capture() ended, "none" before it did
    first,      \* the number of this process's first session
    session,    \* the session of the variables q, mh and ws of capture()
    isClosing,  \* is_closing
    waitList,   \* the sessions whose tasks are in wait_list
    wsOpen,     \* is the connection of the current session open?
    ws,         \* messages the websocket has received and capture() has not
    queue,      \* per session: q
    task,       \* per session: the state of process_messages()
    book,       \* per session: the book channel's handler
    holder,     \* the session whose task holds the pool's connection
    db,         \* transient_raw_book_events: rows with their session
    delivered,  \* history, per session: book events received by the websocket
    counts      \* how much of each bound is used

loopVars == << outcome, first, session, isClosing >>
wsVars == << wsOpen, ws, delivered >>
taskVars == << task, book, holder, db >>
vars == << pc, loopVars, waitList, wsVars, queue, taskVars, counts >>

Control == [kind : {"none", "restart", "error"}]
None == [kind |-> "none"]
Messages == Events \union Control

\* "connect": websockets.connect; "subscribe": the sends of
\* subscribe_channels; "recv": ws.recv under wait_for; "close": ws.close in
\* one of the two except clauses; "gather": the final gather; "closePool":
\* leaving the pool's context; "exited": the process has ended.
Places == {"connect", "subscribe", "recv", "close", "gather", "closePool", "exited"}
Connected == pc \in {"subscribe", "recv", "close"}

TaskStates == {"none", "acquire", "run", "close", "done", "failed"}
Ended(s) == task[s] \in {"done", "failed"}

Outcomes == {"none", "clean", "cancelled", "error", "killed"}
Counters == {"interrupts", "refusals", "restarts", "notices"}
Uses(c, max) == counts[c] < max /\ counts' = [counts EXCEPT ![c] = @ + 1]

Init ==
    /\ pc = "connect"
    /\ outcome = "none"
    /\ first = 1
    /\ session = NoSession
    /\ isClosing = FALSE
    /\ waitList = {}
    /\ wsOpen = FALSE
    /\ ws = << >>
    /\ queue = [s \in Sessions |-> << >>]
    /\ task = [s \in Sessions |-> "none"]
    /\ book = [s \in Sessions |-> NewHandler]
    /\ holder = NoSession
    /\ db = << >>
    /\ delivered = [s \in Sessions |-> << >>]
    /\ counts = [c \in Counters |-> 0]

-----------------------------------------------------------------------------
(***************************************************************************)
(* capture()                                                               *)
(***************************************************************************)

\* connect() succeeds: a new queue, a new handler and its task.
Connect ==
    /\ pc = "connect" /\ ~isClosing
    /\ session < MaxSessions
    /\ session' = session + 1
    /\ task' = [task EXCEPT ![session + 1] = "acquire"]
    /\ wsOpen' = TRUE
    /\ pc' = "subscribe"
    /\ UNCHANGED << outcome, first, isClosing, waitList, ws, delivered, queue,
                    book, holder, db, counts >>

\* An exception other than those capture() reconnects after leaves the loop;
\* the websocket's context closes the connection on the way.
Leave(why) ==
    /\ pc' = "closePool"
    /\ outcome' = why
    /\ wsOpen' = FALSE
    /\ ws' = << >>

(***************************************************************************)
(* The except clause for a lost session: put the None after the session's  *)
(* last message, remember its task, connect again.                         *)
(***************************************************************************)
LoseSessionForgetsTask ==
    /\ queue' = [queue EXCEPT ![session] = Append(@, None)]
    /\ pc' = "connect"
    /\ UNCHANGED << outcome, waitList, wsOpen, ws >>
LoseSessionForgetsNone ==
    /\ waitList' = waitList \union {session}
    /\ pc' = "connect"
    /\ UNCHANGED << outcome, queue, wsOpen, ws >>

LoseSession ==
    /\ queue' = [queue EXCEPT ![session] = Append(@, None)]
    /\ waitList' = waitList \union {session}
    /\ pc' = "connect"
    /\ UNCHANGED << outcome, wsOpen, ws >>

(***************************************************************************)
(* connect() raises InvalidHandshake: the same clause, with the q and mh   *)
(* of the session before.  In a process that has opened no session they    *)
(* are unbound and the clause itself raises.                               *)
(***************************************************************************)
Refused ==
    /\ pc = "connect" /\ ~isClosing
    /\ Uses("refusals", MaxRefusals)
    /\ IF session >= first
       THEN LoseSession
       ELSE Leave("error") /\ UNCHANGED << queue, waitList >>
    /\ UNCHANGED << first, session, isClosing, delivered, taskVars >>

\* connect() raises anything else: logged and raised again.
ConnectFails ==
    /\ pc = "connect" /\ ~isClosing
    /\ "oserror" \in Faults
    /\ Leave("error")
    /\ UNCHANGED << first, session, isClosing, waitList, delivered, queue, taskVars, counts >>

\* subscribe_channels() sends its requests, or finds the connection closed.
Subscribe ==
    /\ pc = "subscribe"
    /\ IF wsOpen
       THEN pc' = "recv" /\ UNCHANGED << outcome, queue, waitList, wsOpen, ws >>
       ELSE LoseSession
    /\ UNCHANGED << first, session, isClosing, delivered, taskVars, counts >>

(***************************************************************************)
(* recv() returns the next buffered message, also after the connection has *)
(* been closed.  If the handler's task has ended, the message is dropped   *)
(* and the exception the task ended with is raised.                        *)
(***************************************************************************)
Receive ==
    /\ pc = "recv" /\ ws # << >>
    /\ IF Ended(session)
       THEN Leave("error") /\ UNCHANGED queue
       ELSE /\ ws' = Tail(ws)
            /\ queue' = [queue EXCEPT ![session] = Append(@, Head(ws))]
            /\ UNCHANGED << pc, outcome, wsOpen >>
    /\ UNCHANGED << first, session, isClosing, waitList, delivered, taskVars, counts >>

\* recv() raises ConnectionClosed only when nothing is buffered any more.
ReceiveClosedAtOnce ==
    /\ pc = "recv" /\ ~wsOpen
    /\ queue' = [queue EXCEPT ![session] = Append(@, None)]
    /\ waitList' = waitList \union {session}
    /\ pc' = "connect"
    /\ ws' = << >>
    /\ UNCHANGED << loopVars, wsOpen, delivered, taskVars, counts >>

ReceiveClosed ==
    /\ pc = "recv" /\ ws = << >> /\ ~wsOpen
    /\ LoseSession
    /\ UNCHANGED << first, session, isClosing, delivered, taskVars, counts >>

\* wait_for() times out: ws.close() is awaited.
Timeout ==
    /\ pc = "recv" /\ ws = << >> /\ wsOpen
    /\ pc' = "close"
    /\ UNCHANGED << loopVars, waitList, wsVars, queue, taskVars, counts >>

\* ws.close() returns.
Closed ==
    /\ pc = "close"
    /\ wsOpen' = FALSE
    /\ pc' = "recv"
    /\ UNCHANGED << loopVars, waitList, ws, delivered, queue, taskVars, counts >>

\* The loop ends at its next iteration once is_closing is set.
StopConnecting ==
    /\ pc = "connect" /\ isClosing
    /\ pc' = "gather"
    /\ UNCHANGED << loopVars, waitList, wsVars, queue, taskVars, counts >>

\* gather() returns when the tasks are done and raises when one has failed.
GatherWaitsForDone ==
    /\ pc = "gather"
    /\ \A s \in waitList : task[s] = "done"
    /\ outcome' = "clean"
    /\ pc' = "closePool"
    /\ UNCHANGED << first, session, isClosing, waitList, wsVars, queue, taskVars, counts >>

Gather ==
    /\ pc = "gather"
    /\ \/ /\ \A s \in waitList : task[s] = "done"
          /\ outcome' = "clean"
       \/ /\ \E s \in waitList : task[s] = "failed"
          /\ outcome' = "error"
    /\ pc' = "closePool"
    /\ UNCHANGED << first, session, isClosing, waitList, wsVars, queue, taskVars, counts >>

(***************************************************************************)
(* Leaving the pool's context waits until the connection is released; the  *)
(* tasks that still wait for the connection end with the process.          *)
(***************************************************************************)
ClosePool ==
    /\ pc = "closePool" /\ holder = NoSession
    /\ pc' = "exited"
    /\ UNCHANGED << loopVars, waitList, wsVars, queue, taskVars, counts >>

-----------------------------------------------------------------------------
(***************************************************************************)
(* SIGINT cancels capture() at the await it is at.  Only the cancellation  *)
(* of recv() is expected: it closes the websocket and lets the loop go on. *)
(***************************************************************************)
InterruptReceive ==
    /\ pc = "recv"
    /\ Uses("interrupts", MaxInterrupts)
    /\ isClosing' = TRUE
    /\ pc' = "close"
    /\ UNCHANGED << outcome, first, session, waitList, wsVars, queue, taskVars >>

\* Elsewhere the CancelledError leaves the loop.
InterruptElsewhere ==
    /\ pc \in {"connect", "subscribe", "close"}
    /\ Uses("interrupts", MaxInterrupts)
    /\ Leave("cancelled")
    /\ UNCHANGED << first, session, isClosing, waitList, delivered, queue, taskVars >>

(***************************************************************************)
(* Cancelling gather() cancels the tasks it waits for, which release the   *)
(* connection; close() is shielded and may still save its records.         *)
(***************************************************************************)
Tagged(s, rows) == [i \in DOMAIN rows |-> [session |-> s, row |-> rows[i]]]

InterruptGather ==
    /\ pc = "gather"
    /\ Uses("interrupts", MaxInterrupts)
    /\ task' = [s \in Sessions |->
                  IF s \in waitList /\ ~Ended(s) THEN "failed" ELSE task[s]]
    /\ holder' = NoSession
    /\ \/ UNCHANGED db
       \/ /\ holder # NoSession /\ task[holder] = "close"
          /\ db' = db \o Tagged(holder, book[holder].records)
    /\ pc' = "closePool"
    /\ outcome' = "cancelled"
    /\ UNCHANGED << first, session, isClosing, waitList, wsVars, queue, book >>

\* Cancelling the pool's close() terminates its connection.
InterruptClosePool ==
    /\ pc = "closePool"
    /\ Uses("interrupts", MaxInterrupts)
    /\ pc' = "exited"
    /\ outcome' = "cancelled"
    /\ UNCHANGED << first, session, isClosing, waitList, wsVars, queue, taskVars >>

Crash ==
    /\ pc # "exited"
    /\ "crash" \in Faults
    /\ pc' = "exited"
    /\ outcome' = "killed"
    /\ UNCHANGED << first, session, isClosing, waitList, wsVars, queue, taskVars, counts >>

\* systemd restarts the process on failure, unless it has asked it to stop.
Restart ==
    /\ pc = "exited" /\ outcome \in {"error", "killed"}
    /\ counts["interrupts"] = 0
    /\ Uses("restarts", MaxRestarts)
    /\ pc' = "connect"
    /\ outcome' = "none"
    /\ first' = session + 1
    /\ isClosing' = FALSE
    /\ waitList' = {}
    /\ wsOpen' = FALSE
    /\ ws' = << >>
    /\ queue' = [s \in Sessions |-> << >>]
    /\ task' = [s \in Sessions |-> IF s > session \/ task[s] = "done" THEN task[s] ELSE "failed"]
    /\ holder' = NoSession
    /\ UNCHANGED << session, book, db, delivered >>

-----------------------------------------------------------------------------
(***************************************************************************)
(* The exchange.  It answers once it has been asked: the first message of  *)
(* a session is the book's snapshot.  From then on a message can arrive as *)
(* long as the connection is open, also while capture() is closing it.     *)
(***************************************************************************)
Subscribed == pc \in {"recv", "close"} /\ wsOpen

Deliver(m) ==
    /\ ws' = Append(ws, m)
    /\ UNCHANGED << pc, loopVars, waitList, wsOpen, queue, taskVars >>

DeliverEvent(kind) ==
    LET n == Len(delivered[session]) + 1
        e == [n |-> n, kind |-> kind, rts |-> n]
    IN  /\ Subscribed
        /\ n <= MaxEvents
        /\ kind = "snap" <=> n = 1
        /\ Deliver(e)
        /\ delivered' = [delivered EXCEPT ![session] = Append(@, e)]
        /\ UNCHANGED counts

\* Notice 20051 asks the client to reconnect; an "error" event has no handler.
DeliverNotice ==
    /\ Subscribed
    /\ delivered[session] # << >>
    /\ Uses("notices", MaxNotices)
    /\ \/ Deliver([kind |-> "restart"])
       \/ "error" \in Faults /\ Deliver([kind |-> "error"])
    /\ UNCHANGED delivered

ExchangeCloses ==
    /\ Connected /\ wsOpen
    /\ wsOpen' = FALSE
    /\ UNCHANGED << pc, loopVars, waitList, ws, delivered, queue, taskVars, counts >>

-----------------------------------------------------------------------------
(***************************************************************************)
(* process_messages() of session s                                         *)
(***************************************************************************)

\* pool.acquire() serves the tasks in the order they asked for the connection.
AcquireInAnyOrder(s) ==
    /\ task[s] = "acquire" /\ holder = NoSession
    /\ pc \notin {"closePool", "exited"}
    /\ holder' = s
    /\ task' = [task EXCEPT ![s] = "run"]
    /\ UNCHANGED << pc, loopVars, waitList, wsVars, queue, book, db, counts >>

Acquire(s) ==
    /\ task[s] = "acquire" /\ holder = NoSession
    /\ \A r \in Sessions : task[r] = "acquire" => s <= r
    /\ pc \notin {"closePool", "exited"}
    /\ holder' = s
    /\ task' = [task EXCEPT ![s] = "run"]
    /\ UNCHANGED << pc, loopVars, waitList, wsVars, queue, book, db, counts >>

\* The task takes message m from its queue.
Takes(s, m) ==
    /\ pc # "exited"
    /\ task[s] = "run" /\ queue[s] # << >>
    /\ m = Head(queue[s])
    /\ queue' = [queue EXCEPT ![s] = Tail(@)]

\* The task ends in the given way and releases the connection.
Ends(s, how) ==
    /\ task' = [task EXCEPT ![s] = how]
    /\ holder' = NoSession

HandleEvent(s) ==
    LET m == Head(queue[s])
        h == IF m.kind = "snap" THEN OnSnapshot(book[s], << m >>, m.rts)
                                ELSE OnEvent(book[s], m)
    IN  /\ Takes(s, m)
        /\ m.kind \in Kinds
        /\ \/ /\ book' = [book EXCEPT ![s] = Kept(h)]
              /\ db' = db \o Tagged(s, Copied(h))
              /\ UNCHANGED << task, holder >>
           \/ /\ "db" \in Faults /\ Flushes(h)
              /\ Ends(s, "failed")
              /\ UNCHANGED << book, db >>
        /\ UNCHANGED << pc, loopVars, waitList, wsVars, counts >>

\* info(): the handler closes its websocket, which may be closed already.
HandleRestart(s) ==
    /\ Takes(s, [kind |-> "restart"])
    /\ wsOpen' = (wsOpen /\ s # session)
    /\ UNCHANGED << pc, loopVars, waitList, ws, delivered, taskVars, counts >>

HandleError(s) ==
    /\ Takes(s, [kind |-> "error"])
    /\ Ends(s, "failed")
    /\ UNCHANGED << pc, loopVars, waitList, wsVars, book, db, counts >>

HandleNone(s) ==
    /\ Takes(s, None)
    /\ task' = [task EXCEPT ![s] = "close"]
    /\ UNCHANGED << pc, loopVars, waitList, wsVars, book, holder, db, counts >>

\* close() saves the remaining complete episodes.
FinishSavesIncomplete(s) ==
    /\ pc # "exited"
    /\ task[s] = "close"
    /\ Ends(s, "done")
    /\ db' = db \o Tagged(s, book[s].records \o Stamped(book[s].acc, book[s].rts))
    /\ UNCHANGED << pc, loopVars, waitList, wsVars, queue, book, counts >>

Finish(s) ==
    /\ pc # "exited"
    /\ task[s] = "close"
    /\ \/ /\ Ends(s, "done")
          /\ db' = db \o Tagged(s, book[s].records)
       \/ /\ "db" \in Faults /\ book[s].records # << >>
          /\ Ends(s, "failed")
          /\ UNCHANGED db
    /\ UNCHANGED << pc, loopVars, waitList, wsVars, queue, book, counts >>

-----------------------------------------------------------------------------
CaptureStep ==
    \/ Connect \/ Refused \/ ConnectFails \/ Subscribe
    \/ Receive \/ ReceiveClosed \/ Timeout \/ Closed
    \/ StopConnecting \/ Gather \/ ClosePool

HandlerStep(s) ==
    \/ Acquire(s) \/ HandleEvent(s) \/ HandleRestart(s) \/ HandleError(s)
    \/ HandleNone(s) \/ Finish(s)

Environment ==
    \/ InterruptReceive \/ InterruptElsewhere \/ InterruptGather \/ InterruptClosePool
    \/ Crash \/ Restart
    \/ \E kind \in Kinds : DeliverEvent(kind)
    \/ DeliverNotice
    \/ ExchangeCloses

Next == CaptureStep \/ Environment \/ \E s \in Sessions : HandlerStep(s)

(***************************************************************************)
(* The event loop runs every task that can run, wait_for's timer fires and *)
(* ws.close() returns (it has a timeout of its own).  Nothing is assumed   *)
(* of the exchange, of the network or of the signals.                      *)
(***************************************************************************)
Fairness ==
    /\ WF_vars(Subscribe \/ Receive \/ ReceiveClosed \/ Timeout \/ Closed
               \/ StopConnecting \/ Gather \/ ClosePool)
    /\ \A s \in Sessions : WF_vars(HandlerStep(s))

Spec == Init /\ [][Next]_vars
FairSpec == Spec /\ Fairness

-----------------------------------------------------------------------------
(***************************************************************************)
(* Type invariant.                                                         *)
(***************************************************************************)
LoopTypeOK ==
    /\ pc \in Places
    /\ outcome \in Outcomes
    /\ first \in 1..(MaxSessions + 1)
    /\ session \in Sessions \union {NoSession}
    /\ isClosing \in BOOLEAN
    /\ waitList \subseteq Sessions
    /\ counts \in [Counters -> Nat]

MessageTypeOK ==
    /\ wsOpen \in BOOLEAN
    /\ ws \in Seq(Messages)
    /\ queue \in [Sessions -> Seq(Messages)]
    /\ delivered \in [Sessions -> Seq(Events)]

StoredRows == [session : Sessions, row : Rows]
TaskTypeOK ==
    /\ task \in [Sessions -> TaskStates]
    /\ book \in [Sessions -> Handlers]
    /\ holder \in Sessions \union {NoSession}
    /\ db \in Seq(StoredRows)

TypeOK == LoopTypeOK /\ MessageTypeOK /\ TaskTypeOK

(***************************************************************************)
(* Sessions follow one another in the table, whatever the order in which   *)
(* they were lost and their handlers scheduled: a session's rows come      *)
(* after those of every earlier session, also over restarts.  The loading  *)
(* of the table into level3 relies on it.                                  *)
(***************************************************************************)
SessionsInOrder ==
    \A i, j \in DOMAIN db : i <= j => db[i].session <= db[j].session

(***************************************************************************)
(* Whatever fails, is cancelled, killed or restarted, the capture          *)
(* implements a log of complete episodes: rows are never changed, and come *)
(* in whole episodes, in order from the session's snapshot on, stamped as  *)
(* if nothing had happened, one session after another.                     *)
(***************************************************************************)
Saved(s) == Cardinality({i \in DOMAIN db : db[i].session = s})
Log == INSTANCE EpisodeLog WITH
    received <- delivered, saved <- [s \in Sessions |-> Saved(s)], log <- db
ImplementsLog == Log!Spec

(***************************************************************************)
(* From the network to the table: a handler that ended normally has saved  *)
(* every complete episode of what its websocket received before it was     *)
(* lost, closed by a timeout, by the exchange, by the handler or by SIGINT *)
(***************************************************************************)
SavedAll(s) == Saved(s) = CompleteLength(delivered[s])
DoneSavedAll == \A s \in Sessions : task[s] = "done" => SavedAll(s)

(***************************************************************************)
(* A clean end of the process leaves no handler behind: every session this *)
(* process opened has ended normally, none was left out of wait_list.      *)
(***************************************************************************)
CleanExitLeavesNothing ==
    pc = "exited" /\ outcome = "clean" =>
        \A s \in first..session : task[s] = "done"

(***************************************************************************)
(* A session that capture() has given up is eventually flushed: its        *)
(* handler gets the connection and ends, unless the process ends first.    *)
(***************************************************************************)
LostSessionsEnd ==
    \A s \in Sessions : s \in waitList ~> Ended(s) \/ pc = "exited"

(***************************************************************************)
(* A process that has been interrupted at recv() ends by itself, unless it *)
(* is interrupted once more.  An interrupt elsewhere, the second among     *)
(* them, ends it too, but for one case: the current session's handler has  *)
(* the connection, for which the pool's close() waits, and waits itself    *)
(* for a None that capture() has left without putting into its queue.      *)
(* Then only one more interrupt or a kill helps.                           *)
(***************************************************************************)
LeftWaiting ==
    /\ pc = "closePool" /\ outcome = "cancelled"
    /\ session # NoSession /\ holder = session /\ session \notin waitList
    /\ task[session] = "run" /\ queue[session] = << >>

InterruptEnds ==
    /\ isClosing ~> pc = "exited" \/ counts["interrupts"] > 1
    /\ counts["interrupts"] > 0 ~> pc = "exited" \/ LeftWaiting

(***************************************************************************)
(* What the service unit says of SIGINT: the messages in the websocket's   *)
(* buffer are all saved.                                                   *)
(***************************************************************************)
InterruptSavesAll ==
    counts["interrupts"] > 0 ~> \A s \in Sessions : SavedAll(s)
=============================================================================
