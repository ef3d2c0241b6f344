---------------------------- MODULE CaptureProofs ----------------------------
(***************************************************************************)
(* The rows of the table follow the order of the sessions, and a process   *)
(* that ends cleanly leaves no handler behind: for any number of sessions, *)
(* messages, interrupts, refusals, restarts and for all the faults.        *)
(***************************************************************************)
EXTENDS Capture, BookEpisodesProofs, FiniteSetTheorems

(***************************************************************************)
(* The strengthening.  A task's state and the holder of the connection     *)
(* agree; the holder is older than every task that waits for it; no row of *)
(* the table is from a session younger than one that has not ended; and    *)
(* all sessions of this process but the connected one are in wait_list.    *)
(***************************************************************************)
OpenedTasks ==
    \A s \in Sessions : s > session <=> task[s] = "none"

HolderRuns ==
    /\ holder # NoSession => task[holder] \in {"run", "close"}
    /\ \A s \in Sessions : task[s] \in {"run", "close"} => holder = s

OldestFirst ==
    \A s, r \in Sessions : holder = s /\ task[r] = "acquire" => s < r

UnendedAreLast ==
    \A i \in DOMAIN db : \A s \in Sessions : ~Ended(s) => db[i].session <= s

EarlierEnded ==
    \A s \in Sessions : s < first => Ended(s)

TaskInv ==
    /\ TaskTypeOK
    /\ OpenedTasks
    /\ HolderRuns
    /\ OldestFirst
    /\ UnendedAreLast
    /\ EarlierEnded
    /\ SessionsInOrder

WaitedFor ==
    /\ \A s \in waitList : s <= session
    /\ Connected => session >= first /\ first..(session - 1) \subseteq waitList
    /\ pc \in {"connect", "gather"} => first..session \subseteq waitList

CleanlyDone ==
    outcome = "clean" => /\ pc \in {"closePool", "exited"}
                         /\ \A s \in first..session : task[s] = "done"

LoopInv == LoopTypeOK /\ MessageTypeOK /\ WaitedFor /\ CleanlyDone

CaptureInv == TaskInv /\ LoopInv

-----------------------------------------------------------------------------
\* A session's number is a positive natural number.
LEMMA SessionNumbers ==
    /\ MaxSessions \in Nat
    /\ \A s \in Sessions : s \in Nat /\ s > 0 /\ s <= MaxSessions
  BY CaptureAssumption DEF Sessions

\* Tagging rows with a session keeps their number.
LEMMA TaggedRows ==
    ASSUME NEW s \in Sessions, NEW rows \in Seq(Rows)
    PROVE  /\ Tagged(s, rows) \in Seq(StoredRows)
           /\ \A i \in DOMAIN Tagged(s, rows) : Tagged(s, rows)[i].session = s
  <1>1. DOMAIN rows = 1..Len(rows) /\ Len(rows) \in Nat
    OBVIOUS
  <1>2. \A i \in 1..Len(rows) : [session |-> s, row |-> rows[i]] \in StoredRows
    BY DEF StoredRows
  <1>. QED
    BY <1>1, <1>2 DEF Tagged

(***************************************************************************)
(* Rows of the oldest session that has not ended go at the table's end.    *)
(***************************************************************************)
LEMMA AppendKeepsOrder ==
    ASSUME db \in Seq(StoredRows), SessionsInOrder,
           NEW s \in Sessions, NEW rows \in Seq(Rows),
           \A i \in DOMAIN db : db[i].session <= s,
           db' = db \o Tagged(s, rows)
    PROVE  /\ db' \in Seq(StoredRows)
           /\ SessionsInOrder'
           /\ \A i \in DOMAIN db' : db'[i].session <= s
  <1>. DEFINE new == Tagged(s, rows)
  <1>1. new \in Seq(StoredRows) /\ \A i \in DOMAIN new : new[i].session = s
    BY TaggedRows
  <1>. HIDE DEF new
  <1>2. db' = db \o new
    BY DEF new
  <1>3. /\ db' \in Seq(StoredRows)
        /\ DOMAIN db = 1..Len(db) /\ Len(db) \in Nat /\ Len(new) \in Nat
        /\ DOMAIN new = 1..Len(new)
        /\ DOMAIN db' = 1..(Len(db) + Len(new))
        /\ \A i \in 1..(Len(db) + Len(new)) :
              db'[i] = IF i <= Len(db) THEN db[i] ELSE new[i - Len(db)]
    BY <1>1, <1>2, Concat, LenProperties
  <1>4. ASSUME NEW i \in DOMAIN db', i > Len(db)
        PROVE  db'[i].session = s
    <2>1. i - Len(db) \in DOMAIN new
      BY <1>3, <1>4
    <2>. QED
      BY <2>1, <1>1, <1>3, <1>4
  <1>5. ASSUME NEW i \in DOMAIN db', i <= Len(db)
        PROVE  db'[i] = db[i] /\ i \in DOMAIN db
    BY <1>3, <1>5
  <1>6. ASSUME NEW i \in DOMAIN db'
        PROVE  db'[i].session <= s
    <2>1. s \in Nat
      BY SessionNumbers
    <2>2. CASE i <= Len(db)
      BY <2>2, <1>5
    <2>3. CASE i > Len(db)
      BY <2>1, <2>3, <1>4
    <2>. QED
      BY <2>2, <2>3, <1>3
  <1>7. ASSUME NEW i \in DOMAIN db', NEW j \in DOMAIN db', i <= j
        PROVE  db'[i].session <= db'[j].session
    <2>1. CASE j <= Len(db)
      BY <2>1, <1>3, <1>5, <1>7 DEF SessionsInOrder
    <2>2. CASE j > Len(db)
      BY <2>2, <1>4, <1>6
    <2>. QED
      BY <2>1, <2>2, <1>3
  <1>. QED
    BY <1>3, <1>6, <1>7 DEF SessionsInOrder

-----------------------------------------------------------------------------
(***************************************************************************)
(* Steps that leave the tasks alone.                                       *)
(***************************************************************************)
LEMMA TaskFrame ==
    ASSUME TaskInv, UNCHANGED << taskVars, first, session >>
    PROVE  TaskInv'
  BY DEF TaskInv, TaskTypeOK, OpenedTasks, HolderRuns, OldestFirst, UnendedAreLast,
         EarlierEnded, SessionsInOrder, Ended, taskVars

\* None is a message, and so is every event and every notice.
LEMMA MessageTypes ==
    /\ None \in Messages
    /\ [kind |-> "restart"] \in Messages
    /\ [kind |-> "error"] \in Messages
    /\ \A m \in Messages : m.kind \in Kinds => m \in Events
  BY DEF Messages, Control, None, Events, Kinds

LEMMA LoseSessionKeeps ==
    ASSUME CaptureInv, LoseSession, Connected \/ pc = "connect", session >= first,
           UNCHANGED << first, session, isClosing, delivered, taskVars >>,
           counts' \in [Counters -> Nat]
    PROVE  CaptureInv'
  <1>1. session \in Sessions /\ first \in Nat /\ session \in Nat
    BY SessionNumbers, CaptureAssumption DEF CaptureInv, LoopInv, LoopTypeOK, Sessions, NoSession
  <1>2. TaskInv'
    BY TaskFrame DEF CaptureInv
  <1>3. LoopTypeOK'
    BY <1>1 DEF CaptureInv, LoopInv, LoopTypeOK, LoseSession, Places
  <1>4. MessageTypeOK'
    <2>1. Append(queue[session], None) \in Seq(Messages)
      BY <1>1, MessageTypes DEF CaptureInv, LoopInv, MessageTypeOK
    <2>. QED
      BY <2>1 DEF CaptureInv, LoopInv, MessageTypeOK, LoseSession
  <1>5. WaitedFor'
    <2>1. first..(session - 1) \subseteq waitList
      BY <1>1 DEF CaptureInv, LoopInv, WaitedFor
    <2>2. first..session \subseteq waitList'
      BY <1>1, <2>1 DEF LoseSession
    <2>3. \A s \in waitList' : s <= session
      BY <1>1 DEF LoseSession, CaptureInv, LoopInv, WaitedFor
    <2>. QED
      BY <2>2, <2>3 DEF WaitedFor, Connected, LoseSession
  <1>6. CleanlyDone'
    BY DEF CaptureInv, LoopInv, CleanlyDone, LoseSession, Connected
  <1>. QED
    BY <1>2, <1>3, <1>4, <1>5, <1>6 DEF CaptureInv, LoopInv

LEMMA LeaveKeeps ==
    ASSUME CaptureInv, NEW why \in {"error", "cancelled"}, Leave(why),
           UNCHANGED << first, session, isClosing, waitList, delivered, taskVars, queue >>,
           counts' \in [Counters -> Nat]
    PROVE  CaptureInv'
  <1>1. TaskInv'
    BY TaskFrame DEF CaptureInv
  <1>2. LoopTypeOK'
    BY DEF CaptureInv, LoopInv, LoopTypeOK, Leave, Places, Outcomes
  <1>3. MessageTypeOK'
    <2>1. ws' \in Seq(Messages)
      BY DEF Leave
    <2>. QED
      BY <2>1 DEF CaptureInv, LoopInv, MessageTypeOK, Leave
  <1>4. WaitedFor' /\ CleanlyDone'
    BY DEF CaptureInv, LoopInv, WaitedFor, CleanlyDone, Leave, Connected
  <1>. QED
    BY <1>1, <1>2, <1>3, <1>4 DEF CaptureInv, LoopInv

\* Using up a bound keeps the counters' type.
LEMMA UsesType ==
    ASSUME counts \in [Counters -> Nat], NEW c \in Counters, NEW max, Uses(c, max)
    PROVE  counts' \in [Counters -> Nat]
  BY DEF Uses

LEMMA ConnectKeeps ==
    ASSUME CaptureInv, Connect
    PROVE  CaptureInv'
  <1>. DEFINE new == session + 1
  <1>1. /\ new \in Sessions /\ new \in Nat /\ session \in Nat /\ first \in Nat
        /\ MaxSessions \in Nat
        /\ \A s \in Sessions : s \in Nat
    BY SessionNumbers
       DEF CaptureInv, LoopInv, LoopTypeOK, Sessions, NoSession, Connect
  <1>2. /\ task' = [task EXCEPT ![new] = "acquire"] /\ session' = new
        /\ task \in [Sessions -> TaskStates]
        /\ UNCHANGED << book, holder, db, first >>
    BY DEF Connect, CaptureInv, TaskInv, TaskTypeOK
  <1>3. task[new] = "none" /\ holder # new
    BY <1>1 DEF CaptureInv, TaskInv, OpenedTasks, HolderRuns, NoSession
  <1>4. TaskTypeOK'
    BY <1>2 DEF CaptureInv, TaskInv, TaskTypeOK, TaskStates
  <1>5. OpenedTasks'
    BY <1>1, <1>2 DEF CaptureInv, TaskInv, OpenedTasks
  <1>6. HolderRuns'
    BY <1>1, <1>2, <1>3 DEF CaptureInv, TaskInv, TaskTypeOK, HolderRuns
  <1>7. OldestFirst'
    <2>1. \A s \in Sessions : holder = s => s < new
      BY <1>1 DEF CaptureInv, TaskInv, OpenedTasks, HolderRuns, NoSession, Sessions
    <2>. QED
      BY <1>1, <1>2, <2>1 DEF CaptureInv, TaskInv, OldestFirst
  <1>8. UnendedAreLast'
    BY <1>1, <1>2, <1>3 DEF CaptureInv, TaskInv, UnendedAreLast, Ended
  <1>9. EarlierEnded'
    BY <1>1, <1>2, <1>3 DEF CaptureInv, TaskInv, EarlierEnded, Ended
  <1>10. SessionsInOrder'
    BY <1>2 DEF CaptureInv, TaskInv, SessionsInOrder
  <1>11. LoopTypeOK'
    BY <1>1 DEF Connect, CaptureInv, LoopInv, LoopTypeOK, Places, NoSession
  <1>12. MessageTypeOK'
    BY DEF Connect, CaptureInv, LoopInv, MessageTypeOK
  <1>13. WaitedFor'
    <2>1. first <= new
      BY <1>1, <1>3 DEF CaptureInv, TaskInv, EarlierEnded, Ended
    <2>2. \A s \in waitList : s \in Nat
      BY <1>1 DEF CaptureInv, LoopInv, LoopTypeOK
    <2>. QED
      BY <1>1, <2>1, <2>2 DEF Connect, CaptureInv, LoopInv, WaitedFor, Connected
  <1>14. CleanlyDone'
    BY DEF Connect, CaptureInv, LoopInv, CleanlyDone
  <1>. QED
    BY <1>4, <1>5, <1>6, <1>7, <1>8, <1>9, <1>10, <1>11, <1>12, <1>13, <1>14
       DEF CaptureInv, TaskInv, LoopInv

(***************************************************************************)
(* The steps of capture() that only move it from one await to another.     *)
(***************************************************************************)
LEMMA LoopKeeps ==
    ASSUME CaptureInv, CaptureStep
    PROVE  CaptureInv'
  <1>. USE DEF CaptureInv, LoopInv
  <1>1. CASE Connect
    BY <1>1, ConnectKeeps
  <1>2. CASE Refused
    <2>1. counts' \in [Counters -> Nat]
      BY <1>2, UsesType DEF Refused, LoopTypeOK, Counters
    <2>2. CASE session >= first
      BY <1>2, <2>1, <2>2, LoseSessionKeeps DEF Refused
    <2>3. CASE ~(session >= first)
      BY <1>2, <2>1, <2>3, LeaveKeeps DEF Refused
    <2>. QED
      BY <2>2, <2>3
  <1>3. CASE ConnectFails
    BY <1>3, LeaveKeeps DEF ConnectFails, LoopTypeOK
  <1>4. CASE Subscribe
    <2>1. CASE wsOpen
      <3>1. TaskInv'
        BY <1>4, TaskFrame DEF Subscribe
      <3>2. LoopTypeOK' /\ MessageTypeOK' /\ WaitedFor' /\ CleanlyDone'
        BY <1>4, <2>1 DEF Subscribe, LoopTypeOK, MessageTypeOK, WaitedFor, CleanlyDone,
                          Connected, Places
      <3>. QED
        BY <3>1, <3>2
    <2>2. CASE ~wsOpen
      BY <1>4, <2>2, LoseSessionKeeps DEF Subscribe, Connected, WaitedFor, LoopTypeOK
    <2>. QED
      BY <2>1, <2>2
  <1>5. CASE Receive
    <2>1. CASE Ended(session)
      BY <1>5, <2>1, LeaveKeeps DEF Receive, LoopTypeOK
    <2>2. CASE ~Ended(session)
      <3>1. TaskInv'
        BY <1>5, TaskFrame DEF Receive
      <3>2. LoopTypeOK' /\ WaitedFor' /\ CleanlyDone'
        BY <1>5, <2>2 DEF Receive, LoopTypeOK, WaitedFor, CleanlyDone, Connected
      <3>3. MessageTypeOK'
        <4>1. Head(ws) \in Messages /\ Tail(ws) \in Seq(Messages)
          BY <1>5, HeadTailProperties DEF Receive, MessageTypeOK
        <4>2. \A s \in Sessions : Append(queue[s], Head(ws)) \in Seq(Messages)
          BY <4>1 DEF MessageTypeOK
        <4>. QED
          BY <1>5, <2>2, <4>1, <4>2 DEF Receive, MessageTypeOK
      <3>. QED
        BY <3>1, <3>2, <3>3
    <2>. QED
      BY <2>1, <2>2
  <1>6. CASE ReceiveClosed
    BY <1>6, LoseSessionKeeps DEF ReceiveClosed, Connected, WaitedFor, LoopTypeOK
  <1>7. CASE Timeout \/ Closed \/ StopConnecting \/ ClosePool
    <2>1. TaskInv'
      BY <1>7, TaskFrame DEF Timeout, Closed, StopConnecting, ClosePool, loopVars
    <2>2. LoopTypeOK' /\ WaitedFor' /\ CleanlyDone'
      BY <1>7 DEF Timeout, Closed, StopConnecting, ClosePool, loopVars, taskVars,
                  LoopTypeOK, WaitedFor, CleanlyDone, Connected, Places
    <2>3. MessageTypeOK'
      BY <1>7 DEF Timeout, Closed, StopConnecting, ClosePool, wsVars, MessageTypeOK
    <2>. QED
      BY <2>1, <2>2, <2>3
  <1>8. CASE Gather
    <2>1. TaskInv' /\ MessageTypeOK'
      BY <1>8, TaskFrame DEF Gather, wsVars, MessageTypeOK
    <2>2. LoopTypeOK' /\ WaitedFor' /\ CleanlyDone'
      BY <1>8 DEF Gather, taskVars, LoopTypeOK, WaitedFor, CleanlyDone, Connected,
                  Places, Outcomes
    <2>. QED
      BY <2>1, <2>2
  <1>. QED
    BY <1>1, <1>2, <1>3, <1>4, <1>5, <1>6, <1>7, <1>8 DEF CaptureStep

-----------------------------------------------------------------------------
(***************************************************************************)
(* process_messages().                                                     *)
(***************************************************************************)
LEMMA CleanLeavesNone ==
    ASSUME CaptureInv, outcome = "clean", NEW s \in Sessions
    PROVE  task[s] \in {"none", "done", "failed"}
  <1>1. session \in Nat /\ first \in Nat /\ s \in Nat
    BY SessionNumbers DEF CaptureInv, LoopInv, LoopTypeOK, NoSession, Sessions
  <1>2. CASE s < first
    BY <1>2 DEF CaptureInv, TaskInv, EarlierEnded, Ended
  <1>3. CASE s > session
    BY <1>3 DEF CaptureInv, TaskInv, OpenedTasks
  <1>4. CASE s \in first..session
    BY <1>4 DEF CaptureInv, LoopInv, CleanlyDone
  <1>. QED
    BY <1>1, <1>2, <1>3, <1>4

\* What a handler's step leaves of capture()'s state.
LEMMA HandlerLoopKeeps ==
    ASSUME CaptureInv, NEW s \in Sessions, task[s] \in {"acquire", "run", "close"},
           UNCHANGED << pc, loopVars, waitList, counts >>
    PROVE  LoopTypeOK' /\ WaitedFor' /\ CleanlyDone'
  <1>1. outcome # "clean"
    BY CleanLeavesNone
  <1>. QED
    BY <1>1 DEF CaptureInv, LoopInv, LoopTypeOK, WaitedFor, CleanlyDone, Connected, loopVars

(***************************************************************************)
(* The holder of the connection ends, or goes on, having saved some rows.  *)
(***************************************************************************)
LEMMA HolderKeeps ==
    ASSUME CaptureInv, NEW s \in Sessions, task[s] \in {"run", "close"},
           NEW rows \in Seq(Rows),
           db' = db \/ db' = db \o Tagged(s, rows),
           book' \in [Sessions -> Handlers],
           \/ UNCHANGED << task, holder >>
           \/ task' = [task EXCEPT ![s] = "close"] /\ UNCHANGED holder
           \/ Ends(s, "done") \/ Ends(s, "failed"),
           UNCHANGED << first, session >>
    PROVE  TaskInv'
  <1>. USE DEF CaptureInv, TaskInv
  <1>1. /\ holder = s /\ task \in [Sessions -> TaskStates]
        /\ db \in Seq(StoredRows)
        /\ \A r \in Sessions : r \in Nat /\ r # NoSession
    BY SessionNumbers DEF HolderRuns, TaskTypeOK, NoSession
  <1>2. /\ \A r \in Sessions \ {s} : task'[r] = task[r]
        /\ task' \in [Sessions -> TaskStates]
        /\ \/ task'[s] \in {"run", "close"} /\ holder' = s
           \/ task'[s] \in {"done", "failed"} /\ holder' = NoSession
    BY <1>1 DEF Ends, TaskStates
  <1>3. \A r \in Sessions : ~Ended(r) => s <= r
    <2>1. ASSUME NEW r \in Sessions, ~Ended(r)
          PROVE  s <= r
      <3>1. CASE task[r] \in {"run", "close"}
        BY <1>1, <3>1 DEF HolderRuns
      <3>2. CASE task[r] = "acquire"
        BY <1>1, <3>2 DEF OldestFirst
      <3>3. CASE task[r] = "none"
        <4>1. r > session /\ ~(s > session) /\ session \in Nat
          BY <1>1, <3>3, SessionNumbers, CaptureAssumption
             DEF OpenedTasks, LoopInv, LoopTypeOK, NoSession, Sessions
        <4>. QED
          BY <1>1, <4>1
      <3>. QED
        BY <1>1, <2>1, <3>1, <3>2, <3>3 DEF TaskStates, Ended
    <2>. QED
      BY <2>1
  <1>4. /\ db' \in Seq(StoredRows)
        /\ SessionsInOrder'
        /\ \A i \in DOMAIN db' : db'[i].session <= s
    <2>1. \A i \in DOMAIN db : db[i].session <= s
      BY DEF UnendedAreLast, Ended
    <2>2. CASE db' = db
      BY <1>1, <2>1, <2>2 DEF SessionsInOrder
    <2>3. CASE db' = db \o Tagged(s, rows)
      BY <1>1, <2>1, <2>3, AppendKeepsOrder
    <2>. QED
      BY <2>2, <2>3
  <1>5. TaskTypeOK'
    BY <1>1, <1>2, <1>4 DEF TaskTypeOK
  <1>6. OpenedTasks'
    BY <1>1, <1>2 DEF OpenedTasks
  <1>7. HolderRuns'
    BY <1>1, <1>2 DEF HolderRuns
  <1>8. OldestFirst'
    BY <1>1, <1>2 DEF OldestFirst
  <1>9. UnendedAreLast'
    <2>1. \A i \in DOMAIN db' : db'[i].session \in Nat
      <3>1. \A i \in DOMAIN db' : db'[i] \in StoredRows
        BY <1>4
      <3>. QED
        BY <3>1, <1>1 DEF StoredRows
    <2>2. \A r \in Sessions : ~Ended(r)' => ~Ended(r)
      BY <1>1, <1>2 DEF Ended
    <2>. QED
      BY <1>1, <1>3, <1>4, <2>1, <2>2 DEF UnendedAreLast
  <1>10. EarlierEnded'
    BY <1>1, <1>2 DEF EarlierEnded, Ended
  <1>. QED
    BY <1>4, <1>5, <1>6, <1>7, <1>8, <1>9, <1>10

LEMMA AcquireKeeps ==
    ASSUME CaptureInv, NEW s \in Sessions, Acquire(s)
    PROVE  CaptureInv'
  <1>. USE DEF CaptureInv, TaskInv
  <1>1. /\ task[s] = "acquire" /\ holder = NoSession /\ holder' = s
        /\ task' = [task EXCEPT ![s] = "run"]
        /\ task \in [Sessions -> TaskStates]
        /\ \A r \in Sessions : task[r] = "acquire" => s <= r
        /\ UNCHANGED << pc, loopVars, waitList, wsVars, queue, book, db, counts >>
        /\ \A r \in Sessions : r \in Nat /\ r # NoSession
    BY SessionNumbers DEF Acquire, TaskTypeOK, NoSession
  <1>2. /\ task' \in [Sessions -> TaskStates]
        /\ task'[s] = "run"
        /\ \A r \in Sessions \ {s} : task'[r] = task[r]
    BY <1>1 DEF TaskStates
  <1>3. TaskTypeOK'
    BY <1>1, <1>2 DEF TaskTypeOK
  <1>4. OpenedTasks'
    BY <1>1, <1>2 DEF OpenedTasks, loopVars
  <1>5. HolderRuns'
    BY <1>1, <1>2 DEF HolderRuns
  <1>6. OldestFirst'
    BY <1>1, <1>2 DEF OldestFirst
  <1>7. UnendedAreLast' /\ EarlierEnded' /\ SessionsInOrder'
    BY <1>1, <1>2 DEF UnendedAreLast, EarlierEnded, SessionsInOrder, Ended, loopVars
  <1>8. LoopTypeOK' /\ WaitedFor' /\ CleanlyDone'
    BY <1>1, HandlerLoopKeeps
  <1>9. MessageTypeOK'
    BY <1>1 DEF LoopInv, MessageTypeOK, wsVars
  <1>. QED
    BY <1>3, <1>4, <1>5, <1>6, <1>7, <1>8, <1>9 DEF LoopInv

\* A message is taken from the queue.
LEMMA TakesKeeps ==
    ASSUME CaptureInv, NEW s \in Sessions, NEW m, Takes(s, m),
           wsOpen' \in BOOLEAN, UNCHANGED << ws, delivered >>
    PROVE  MessageTypeOK' /\ m \in Messages
  <1>1. queue[s] \in Seq(Messages) /\ queue[s] # << >>
    BY DEF CaptureInv, LoopInv, MessageTypeOK, Takes
  <1>2. m \in Messages /\ Tail(queue[s]) \in Seq(Messages)
    BY <1>1, HeadTailProperties DEF Takes
  <1>. QED
    BY <1>2 DEF CaptureInv, LoopInv, MessageTypeOK, Takes

LEMMA HandleEventKeeps ==
    ASSUME CaptureInv, NEW s \in Sessions, HandleEvent(s)
    PROVE  CaptureInv'
  <1>. DEFINE m == Head(queue[s])
  <1>. DEFINE h == IF m.kind = "snap" THEN OnSnapshot(book[s], << m >>, m.rts)
                                      ELSE OnEvent(book[s], m)
  <1>1. /\ Takes(s, m) /\ m.kind \in Kinds
        /\ UNCHANGED << pc, loopVars, waitList, wsVars, counts >>
        /\ \/ /\ book' = [book EXCEPT ![s] = Kept(h)]
              /\ db' = db \o Tagged(s, Copied(h))
              /\ UNCHANGED << task, holder >>
           \/ Ends(s, "failed") /\ UNCHANGED << book, db >>
    BY Zenon DEF HandleEvent
  <1>2. MessageTypeOK' /\ m \in Messages
    <2>1. Takes(s, m) /\ wsOpen' \in BOOLEAN /\ UNCHANGED << ws, delivered >>
      BY <1>1 DEF wsVars, CaptureInv, LoopInv, MessageTypeOK
    <2>. HIDE DEF m
    <2>. QED
      BY <2>1, TakesKeeps
  <1>3. m \in Events
    BY <1>1, <1>2, MessageTypes
  <1>4. book \in [Sessions -> Handlers] /\ book[s] \in Handlers
    BY DEF CaptureInv, TaskInv, TaskTypeOK
  <1>5. h \in Handlers
    <2>1. << m >> \in Seq(Events) /\ m.rts \in Nat
      BY <1>3 DEF Events
    <2>2. OnSnapshot(book[s], << m >>, m.rts) \in Handlers
      BY <1>4, <2>1, OnSnapshotType
    <2>3. OnEvent(book[s], m) \in Handlers
      BY <1>3, <1>4, OnEventType
    <2>. QED
      BY <2>2, <2>3
  <1>. HIDE DEF m, h
  <1>6. Kept(h) \in Handlers /\ Copied(h) \in Seq(Rows)
    BY <1>5, CopiedAndKept
  <1>7. book' \in [Sessions -> Handlers]
    BY <1>1, <1>4, <1>6
  <1>8. task[s] = "run"
    BY <1>1 DEF Takes
  <1>9. TaskInv'
    BY <1>1, <1>6, <1>7, <1>8, HolderKeeps DEF loopVars
  <1>10. LoopTypeOK' /\ WaitedFor' /\ CleanlyDone'
    BY <1>1, <1>8, HandlerLoopKeeps
  <1>. QED
    BY <1>2, <1>9, <1>10 DEF CaptureInv, LoopInv

LEMMA HandlerKeeps ==
    ASSUME CaptureInv, NEW s \in Sessions, HandlerStep(s)
    PROVE  CaptureInv'
  <1>0. /\ book \in [Sessions -> Handlers] /\ book[s].records \in Seq(Rows)
        /\ wsOpen \in BOOLEAN /\ << >> \in Seq(Rows)
    <2>1. book \in [Sessions -> Handlers] /\ book[s] \in Handlers /\ wsOpen \in BOOLEAN
      BY DEF CaptureInv, TaskInv, TaskTypeOK, LoopInv, MessageTypeOK
    <2>. QED
      BY <2>1, HandlerFields
  <1>1. CASE Acquire(s)
    BY <1>1, AcquireKeeps
  <1>2. CASE HandleEvent(s)
    BY <1>2, HandleEventKeeps
  <1>3. CASE HandleRestart(s)
    <2>1. TaskInv'
      BY <1>3, TaskFrame DEF HandleRestart, CaptureInv, loopVars
    <2>2. MessageTypeOK'
      BY <1>0, <1>3, TakesKeeps DEF HandleRestart
    <2>3. LoopTypeOK' /\ WaitedFor' /\ CleanlyDone'
      BY <1>3, HandlerLoopKeeps DEF HandleRestart, Takes
    <2>. QED
      BY <2>1, <2>2, <2>3 DEF CaptureInv, LoopInv
  <1>4. CASE HandleError(s) \/ HandleNone(s)
    <2>1. TaskInv'
      BY <1>0, <1>4, HolderKeeps DEF HandleError, HandleNone, Takes, loopVars
    <2>2. MessageTypeOK'
      BY <1>0, <1>4, TakesKeeps DEF HandleError, HandleNone, wsVars
    <2>3. LoopTypeOK' /\ WaitedFor' /\ CleanlyDone'
      BY <1>4, HandlerLoopKeeps DEF HandleError, HandleNone, Takes
    <2>. QED
      BY <2>1, <2>2, <2>3 DEF CaptureInv, LoopInv
  <1>5. CASE Finish(s)
    <2>1. TaskInv'
      BY <1>0, <1>5, HolderKeeps DEF Finish, loopVars
    <2>2. MessageTypeOK'
      BY <1>5 DEF Finish, CaptureInv, LoopInv, MessageTypeOK, wsVars
    <2>3. LoopTypeOK' /\ WaitedFor' /\ CleanlyDone'
      BY <1>5, HandlerLoopKeeps DEF Finish
    <2>. QED
      BY <2>1, <2>2, <2>3 DEF CaptureInv, LoopInv
  <1>. QED
    BY <1>1, <1>2, <1>3, <1>4, <1>5 DEF HandlerStep

-----------------------------------------------------------------------------
(***************************************************************************)
(* Signals, crashes, restarts, the exchange.                               *)
(***************************************************************************)
LEMMA InterruptGatherKeeps ==
    ASSUME CaptureInv, InterruptGather
    PROVE  CaptureInv'
  <1>. USE DEF CaptureInv, TaskInv
  <1>1. /\ pc = "gather" /\ pc' = "closePool" /\ outcome' = "cancelled"
        /\ holder' = NoSession
        /\ task' = [s \in Sessions |->
                      IF s \in waitList /\ ~Ended(s) THEN "failed" ELSE task[s]]
        /\ UNCHANGED << first, session, isClosing, waitList, wsVars, queue, book >>
        /\ task \in [Sessions -> TaskStates]
        /\ first \in Nat /\ session \in Nat /\ waitList \subseteq Sessions
        /\ first..session \subseteq waitList
        /\ \A s \in waitList : s <= session
        /\ \A r \in Sessions : r \in Nat /\ r # NoSession
    BY SessionNumbers
       DEF InterruptGather, TaskTypeOK, LoopInv, LoopTypeOK, WaitedFor, NoSession, Sessions
  <1>2. /\ task' \in [Sessions -> TaskStates]
        /\ \A s \in Sessions : s > session => task'[s] = task[s] /\ task[s] = "none"
        /\ \A s \in Sessions : s <= session => task'[s] \in {"done", "failed"}
    BY <1>1 DEF TaskStates, OpenedTasks, EarlierEnded, Ended
  <1>3. /\ db' \in Seq(StoredRows)
        /\ SessionsInOrder'
        /\ \A i \in DOMAIN db' : \A s \in Sessions : s > session => db'[i].session <= s
    <2>1. CASE db' = db
      BY <1>2, <2>1 DEF TaskTypeOK, SessionsInOrder, UnendedAreLast, Ended
    <2>2. CASE /\ holder # NoSession /\ task[holder] = "close"
               /\ db' = db \o Tagged(holder, book[holder].records)
      <3>1. holder \in Sessions /\ holder <= session
        <4>1. holder \in Sessions
          BY <2>2 DEF TaskTypeOK
        <4>2. holder \in Nat /\ task[holder] # "none"
          BY <4>1, <1>1, <2>2
        <4>. QED
          BY <4>1, <4>2, <1>1, <1>2
      <3>2. book[holder].records \in Seq(Rows)
        BY <3>1, HandlerFields DEF TaskTypeOK
      <3>3. \A i \in DOMAIN db : db[i].session <= holder
        BY <2>2, <3>1 DEF UnendedAreLast, Ended
      <3>4. /\ db' \in Seq(StoredRows) /\ SessionsInOrder'
            /\ \A i \in DOMAIN db' : db'[i].session <= holder
        BY <2>2, <3>1, <3>2, <3>3, AppendKeepsOrder DEF TaskTypeOK
      <3>5. \A i \in DOMAIN db' : db'[i].session \in Sessions
        <4>1. \A i \in DOMAIN db' : db'[i] \in StoredRows
          BY <3>4
        <4>. QED
          BY <4>1 DEF StoredRows
      <3>. QED
        BY <1>1, <3>1, <3>4, <3>5
    <2>. QED
      BY <2>1, <2>2 DEF InterruptGather
  <1>4. TaskTypeOK'
    BY <1>1, <1>2, <1>3 DEF TaskTypeOK
  <1>5. OpenedTasks' /\ HolderRuns' /\ OldestFirst' /\ EarlierEnded'
    <2>1. ~(NoSession \in Sessions) /\ \A s \in Sessions : s > session \/ s <= session
      BY <1>1
    <2>. QED
      BY <1>1, <1>2, <2>1 DEF OpenedTasks, HolderRuns, OldestFirst, EarlierEnded, Ended
  <1>6. UnendedAreLast'
    BY <1>1, <1>2, <1>3 DEF UnendedAreLast, Ended
  <1>7. LoopTypeOK'
    BY <1>1, UsesType DEF InterruptGather, LoopInv, LoopTypeOK, Places, Outcomes, Counters
  <1>8. MessageTypeOK'
    BY <1>1 DEF LoopInv, MessageTypeOK, wsVars
  <1>9. WaitedFor' /\ CleanlyDone'
    BY <1>1 DEF WaitedFor, CleanlyDone, Connected
  <1>. QED
    BY <1>3, <1>4, <1>5, <1>6, <1>7, <1>8, <1>9 DEF LoopInv

LEMMA RestartKeeps ==
    ASSUME CaptureInv, Restart
    PROVE  CaptureInv'
  <1>. USE DEF CaptureInv, TaskInv
  <1>1. /\ pc' = "connect" /\ outcome' = "none" /\ first' = session + 1
        /\ isClosing' = FALSE /\ waitList' = {} /\ holder' = NoSession
        /\ wsOpen' = FALSE /\ ws' = << >> /\ queue' = [s \in Sessions |-> << >>]
        /\ task' = [s \in Sessions |->
                      IF s > session \/ task[s] = "done" THEN task[s] ELSE "failed"]
        /\ UNCHANGED << session, book, db, delivered >>
        /\ task \in [Sessions -> TaskStates]
        /\ session \in 0..MaxSessions /\ session \in Nat /\ MaxSessions \in Nat
        /\ \A r \in Sessions : r \in Nat /\ r # NoSession
    BY SessionNumbers
       DEF Restart, TaskTypeOK, LoopInv, LoopTypeOK, NoSession, Sessions
  <1>2. /\ task' \in [Sessions -> TaskStates]
        /\ \A s \in Sessions : s > session => task'[s] = task[s] /\ task[s] = "none"
        /\ \A s \in Sessions : s <= session => task'[s] \in {"done", "failed"}
    BY <1>1 DEF TaskStates, OpenedTasks
  <1>3. TaskTypeOK'
    BY <1>1, <1>2 DEF TaskTypeOK
  <1>4. OpenedTasks' /\ HolderRuns' /\ OldestFirst' /\ EarlierEnded'
    <2>1. ~(NoSession \in Sessions) /\ \A s \in Sessions : s > session \/ s <= session
      BY <1>1
    <2>. QED
      BY <1>1, <1>2, <2>1 DEF OpenedTasks, HolderRuns, OldestFirst, EarlierEnded, Ended
  <1>5. UnendedAreLast' /\ SessionsInOrder'
    BY <1>1, <1>2 DEF UnendedAreLast, SessionsInOrder, Ended
  <1>6. LoopTypeOK'
    <2>1. first' \in 1..(MaxSessions + 1)
      BY <1>1
    <2>2. counts' \in [Counters -> Nat]
      BY UsesType DEF Restart, LoopInv, LoopTypeOK, Counters
    <2>. QED
      BY <1>1, <2>1, <2>2 DEF LoopInv, LoopTypeOK, Places, Outcomes
  <1>7. MessageTypeOK'
    <2>1. << >> \in Seq(Messages)
      OBVIOUS
    <2>. QED
      BY <1>1, <2>1 DEF LoopInv, MessageTypeOK
  <1>8. WaitedFor' /\ CleanlyDone'
    BY <1>1 DEF WaitedFor, CleanlyDone, Connected
  <1>. QED
    BY <1>3, <1>4, <1>5, <1>6, <1>7, <1>8 DEF LoopInv

LEMMA DeliverKeeps ==
    ASSUME CaptureInv, NEW m \in Messages, Deliver(m),
           delivered' \in [Sessions -> Seq(Events)], counts' \in [Counters -> Nat]
    PROVE  CaptureInv'
  <1>1. TaskInv'
    BY TaskFrame DEF CaptureInv, Deliver, loopVars
  <1>2. LoopTypeOK' /\ WaitedFor' /\ CleanlyDone'
    BY DEF CaptureInv, LoopInv, LoopTypeOK, WaitedFor, CleanlyDone, Connected, Deliver,
           loopVars, taskVars
  <1>3. MessageTypeOK'
    <2>1. Append(ws, m) \in Seq(Messages)
      BY DEF CaptureInv, LoopInv, MessageTypeOK
    <2>. QED
      BY <2>1 DEF CaptureInv, LoopInv, MessageTypeOK, Deliver
  <1>. QED
    BY <1>1, <1>2, <1>3 DEF CaptureInv, LoopInv

LEMMA EnvironmentKeeps ==
    ASSUME CaptureInv, Environment
    PROVE  CaptureInv'
  <1>1. CASE InterruptGather
    BY <1>1, InterruptGatherKeeps
  <1>2. CASE Restart
    BY <1>2, RestartKeeps
  <1>3. CASE InterruptElsewhere
    <2>1. counts' \in [Counters -> Nat]
      BY <1>3, UsesType DEF InterruptElsewhere, CaptureInv, LoopInv, LoopTypeOK, Counters
    <2>. QED
      BY <1>3, <2>1, LeaveKeeps DEF InterruptElsewhere
  <1>4. CASE InterruptReceive \/ InterruptClosePool \/ Crash \/ ExchangeCloses
    <2>1. TaskInv'
      BY <1>4, TaskFrame
         DEF InterruptReceive, InterruptClosePool, Crash, ExchangeCloses, CaptureInv, loopVars
    <2>2. LoopTypeOK'
      <3>1. counts' \in [Counters -> Nat]
        BY <1>4, UsesType
           DEF InterruptReceive, InterruptClosePool, Crash, ExchangeCloses,
               CaptureInv, LoopInv, LoopTypeOK, Counters
      <3>. QED
        BY <1>4, <3>1
           DEF InterruptReceive, InterruptClosePool, Crash, ExchangeCloses,
               CaptureInv, LoopInv, LoopTypeOK, Places, Outcomes, loopVars
    <2>3. WaitedFor' /\ CleanlyDone'
      BY <1>4 DEF InterruptReceive, InterruptClosePool, Crash, ExchangeCloses,
                  CaptureInv, LoopInv, WaitedFor, CleanlyDone, Connected, loopVars, taskVars
    <2>4. MessageTypeOK'
      BY <1>4 DEF InterruptReceive, InterruptClosePool, Crash, ExchangeCloses,
                  CaptureInv, LoopInv, MessageTypeOK, wsVars
    <2>. QED
      BY <2>1, <2>2, <2>3, <2>4 DEF CaptureInv, LoopInv
  <1>5. CASE \E kind \in Kinds : DeliverEvent(kind)
    <2>1. PICK kind \in Kinds : DeliverEvent(kind)
      BY <1>5
    <2>. DEFINE n == Len(delivered[session]) + 1
    <2>. DEFINE m == [n |-> n, kind |-> kind, rts |-> n]
    <2>2. session \in Sessions
      BY <2>1, CaptureAssumption, SessionNumbers
         DEF DeliverEvent, Subscribed, CaptureInv, LoopInv, WaitedFor, Connected,
             LoopTypeOK, Sessions, NoSession
    <2>3. n \in Nat /\ delivered \in [Sessions -> Seq(Events)]
      BY <2>2, LenProperties DEF CaptureInv, LoopInv, MessageTypeOK
    <2>4. /\ Deliver(m) /\ UNCHANGED counts
          /\ delivered' = [delivered EXCEPT ![session] = Append(@, m)]
      BY <2>1 DEF DeliverEvent
    <2>. HIDE DEF n
    <2>5. m \in Messages /\ m \in Events
      BY <2>1, <2>3 DEF Messages, Events
    <2>. HIDE DEF m
    <2>6. delivered' \in [Sessions -> Seq(Events)]
      <3>1. Append(delivered[session], m) \in Seq(Events)
        BY <2>2, <2>3, <2>5
      <3>. QED
        BY <2>3, <2>4, <3>1
    <2>7. counts' \in [Counters -> Nat]
      BY <2>4 DEF CaptureInv, LoopInv, LoopTypeOK
    <2>. QED
      BY <2>4, <2>5, <2>6, <2>7, DeliverKeeps
  <1>6. CASE DeliverNotice
    <2>1. delivered' \in [Sessions -> Seq(Events)]
      BY <1>6 DEF DeliverNotice, CaptureInv, LoopInv, MessageTypeOK
    <2>2. counts' \in [Counters -> Nat]
      BY <1>6, UsesType DEF DeliverNotice, CaptureInv, LoopInv, LoopTypeOK, Counters
    <2>. QED
      BY <1>6, <2>1, <2>2, MessageTypes, DeliverKeeps DEF DeliverNotice
  <1>. QED
    BY <1>1, <1>2, <1>3, <1>4, <1>5, <1>6 DEF Environment

-----------------------------------------------------------------------------
LEMMA InitInv == Init => CaptureInv
  <1>. SUFFICES ASSUME Init
                PROVE  CaptureInv
    OBVIOUS
  <1>. USE DEF Init
  <1>1. \A s \in Sessions : s \in Nat /\ s >= 1
    BY SessionNumbers
  <1>2. TaskTypeOK
    <2>1. << >> \in Seq(StoredRows) /\ NewHandler \in Handlers
      BY NewHandlerType
    <2>. QED
      BY <2>1 DEF TaskTypeOK, TaskStates
  <1>3. OpenedTasks /\ HolderRuns /\ OldestFirst /\ EarlierEnded
    BY <1>1 DEF OpenedTasks, HolderRuns, OldestFirst, EarlierEnded, NoSession
  <1>4. UnendedAreLast /\ SessionsInOrder
    BY DEF UnendedAreLast, SessionsInOrder
  <1>5. LoopTypeOK
    <2>1. first \in 1..(MaxSessions + 1) /\ counts \in [Counters -> Nat]
      BY SessionNumbers
    <2>. QED
      BY <2>1 DEF LoopTypeOK, Places, Outcomes
  <1>6. MessageTypeOK
    <2>1. << >> \in Seq(Messages) /\ << >> \in Seq(Events)
      OBVIOUS
    <2>. QED
      BY <2>1 DEF MessageTypeOK
  <1>7. WaitedFor /\ CleanlyDone
    BY DEF WaitedFor, CleanlyDone, Connected, NoSession
  <1>. QED
    BY <1>2, <1>3, <1>4, <1>5, <1>6, <1>7 DEF CaptureInv, TaskInv, LoopInv

LEMMA NextInv == CaptureInv /\ [Next]_vars => CaptureInv'
  <1>. SUFFICES ASSUME CaptureInv, [Next]_vars
                PROVE  CaptureInv'
    OBVIOUS
  <1>1. CASE CaptureStep
    BY <1>1, LoopKeeps
  <1>2. CASE Environment
    BY <1>2, EnvironmentKeeps
  <1>3. CASE \E s \in Sessions : HandlerStep(s)
    BY <1>3, HandlerKeeps
  <1>4. CASE UNCHANGED vars
    <2>1. TaskInv'
      BY <1>4, TaskFrame DEF CaptureInv, vars, loopVars
    <2>. QED
      BY <1>4, <2>1
         DEF CaptureInv, LoopInv, LoopTypeOK, MessageTypeOK, WaitedFor, CleanlyDone,
             Connected, vars, loopVars, wsVars, taskVars
  <1>. QED
    BY <1>1, <1>2, <1>3, <1>4 DEF Next

\* The strengthening is an invariant of the capture process.
THEOREM CaptureInvariant == Spec => []CaptureInv
  BY InitInv, NextInv, PTL DEF Spec

(***************************************************************************)
(* Every variable keeps its type: in particular a handler's state, rebuilt *)
(* by every event, and the rows it hands to the table.                     *)
(***************************************************************************)
THEOREM TypeCorrect == Spec => []TypeOK
  <1>1. CaptureInv => TypeOK
    BY DEF CaptureInv, TaskInv, LoopInv, TypeOK
  <1>. QED
    BY <1>1, CaptureInvariant, PTL

(***************************************************************************)
(* The rows of a session come after those of every earlier one, however    *)
(* the handlers of lost sessions, reconnections, failures, interrupts and  *)
(* restarts interleave: the pool's single connection serialises them.      *)
(***************************************************************************)
THEOREM SessionsAlwaysInOrder == Spec => []SessionsInOrder
  <1>1. CaptureInv => SessionsInOrder
    BY DEF CaptureInv, TaskInv
  <1>. QED
    BY <1>1, CaptureInvariant, PTL

(***************************************************************************)
(* When the process ends cleanly the handler of every session it opened    *)
(* has ended normally: wait_list misses none of them.                      *)
(***************************************************************************)
THEOREM CleanExitIsComplete == Spec => []CleanExitLeavesNothing
  <1>1. CaptureInv => CleanExitLeavesNothing
    BY DEF CaptureInv, LoopInv, CleanlyDone, CleanExitLeavesNothing
  <1>. QED
    BY <1>1, CaptureInvariant, PTL

-----------------------------------------------------------------------------
(***************************************************************************)
(* The capture process implements EpisodeLog: for any number of sessions,  *)
(* messages, interrupts, refusals and restarts, every MIN_SAVE_COUNT and   *)
(* all the faults, the table is a log of whole episodes, and a handler     *)
(* that ended normally has saved all of them.                              *)
(***************************************************************************)
IsEvent(m) == m.kind \in Kinds

(***************************************************************************)
(* The messages of a sequence continue a stream of which the first n       *)
(* events have been handled: its events are those that follow in the       *)
(* stream, in order and without a gap.                                     *)
(***************************************************************************)
Follows(messages, n, events) ==
    \A i \in DOMAIN messages : IsEvent(messages[i]) =>
        /\ messages[i].n \in (n + 1)..Len(events)
        /\ messages[i] = events[messages[i].n]
        /\ \A j \in DOMAIN messages :
              IsEvent(messages[j]) /\ j < i => messages[j].n < messages[i].n
        /\ \A k \in (n + 1)..(messages[i].n - 1) :
              \E j \in DOMAIN messages : IsEvent(messages[j]) /\ messages[j].n = k

\* Every event not handled is among the messages.
AllThere(messages, n, events) ==
    \A k \in (n + 1)..Len(events) :
        \E i \in DOMAIN messages : IsEvent(messages[i]) /\ messages[i].n = k

(***************************************************************************)
(* The strengthening.  What a live handler has taken from its queue is in  *)
(* its rows and its attributes; what is pending in the queue, and for the  *)
(* connected session in the websocket's buffer, follows it.  Nothing is    *)
(* missing as long as capture() goes on, and for a session given up with   *)
(* a None, not even after capture() has left.                              *)
(***************************************************************************)
Live(s) == task[s] \in {"acquire", "run", "close"}
Taken(s) == Saved(s) + Len(book[s].records) + Len(book[s].acc)
Pending(s) == IF s = session THEN queue[s] \o ws ELSE queue[s]
HasNone(s) == \E i \in DOMAIN queue[s] : queue[s][i].kind = "none"
IsCurrent(s) == s = session /\ Connected

BufferInv ==
    /\ pc \notin {"recv", "close", "exited"} => ws = << >>
    /\ \A i \in DOMAIN ws : ws[i].kind # "none"

StreamInv(s) ==
    /\ \A j \in DOMAIN delivered[s] :
          delivered[s][j].n = j /\ (delivered[s][j].kind = "snap" <=> j = 1)
    /\ HasLastEnd(delivered[s])

Made(events, rows, h) ==
    IF Len(events) = 0 THEN Len(rows) = 0 /\ h = NewHandler
                       ELSE Accumulates(events, rows \o h.records, h)

RowsInv(s) ==
    \E rows \in Seq(Rows) :
        /\ Len(rows) = Saved(s)
        /\ HasRows(delivered[s], rows)
        /\ Live(s) => /\ Taken(s) <= Len(delivered[s])
                      /\ Made(SubSeq(delivered[s], 1, Taken(s)), rows, book[s])

NothingMissing(s) ==
    pc \notin {"closePool", "exited"} \/ HasNone(s) \/ task[s] = "close"

QueueInv(s) ==
    Live(s) =>
        /\ Follows(Pending(s), Taken(s), delivered[s])
        /\ NothingMissing(s) => AllThere(Pending(s), Taken(s), delivered[s])
        /\ \A i, j \in DOMAIN queue[s] :
              i < j /\ queue[s][i].kind = "none" => queue[s][j].kind = "none"
        /\ task[s] = "close" => \A i \in DOMAIN queue[s] : queue[s][i].kind = "none"
        /\ IsCurrent(s) => ~HasNone(s) /\ task[s] # "close"

EndInv(s) ==
    /\ task[s] = "none" =>
          delivered[s] = << >> /\ queue[s] = << >> /\ book[s] = NewHandler /\ Saved(s) = 0
    /\ task[s] = "done" => SavedAll(s) /\ ~IsCurrent(s)

SessionInv(s) == StreamInv(s) /\ RowsInv(s) /\ QueueInv(s) /\ EndInv(s)

LogInv == BufferInv /\ \A s \in Sessions : SessionInv(s)

-----------------------------------------------------------------------------
(***************************************************************************)
(* What happens to messages that follow a stream.                          *)
(***************************************************************************)
LEMMA MessageFields ==
    ASSUME NEW messages \in Seq(Messages)
    PROVE  /\ DOMAIN messages = 1..Len(messages) /\ Len(messages) \in Nat
           /\ \A i \in 1..Len(messages) :
                 IsEvent(messages[i]) => messages[i] \in Events /\ messages[i].n \in Nat
  <1>1. DOMAIN messages = 1..Len(messages) /\ Len(messages) \in Nat
    OBVIOUS
  <1>2. \A i \in 1..Len(messages) : messages[i] \in Messages
    BY <1>1
  <1>. QED
    BY <1>1, <1>2, MessageTypes DEF IsEvent, Events

\* The first event is the next one of the stream.
LEMMA HeadFollows ==
    ASSUME NEW messages \in Seq(Messages), messages # << >>, NEW n \in Nat,
           NEW events \in Seq(Events), Follows(messages, n, events),
           IsEvent(Head(messages))
    PROVE  /\ n + 1 <= Len(events) /\ Head(messages) = events[n + 1]
           /\ Follows(Tail(messages), n + 1, events)
           /\ AllThere(messages, n, events) => AllThere(Tail(messages), n + 1, events)
  <1>. DEFINE rest == Tail(messages)
              m == messages[1]
  <1>1. /\ DOMAIN messages = 1..Len(messages) /\ Len(messages) \in Nat /\ Len(messages) > 0
        /\ Head(messages) = m /\ Len(events) \in Nat
        /\ DOMAIN rest = 1..(Len(messages) - 1)
        /\ \A i \in 1..(Len(messages) - 1) : rest[i] = messages[i + 1]
    BY HeadTailProperties
  <1>2. /\ \A i \in 1..Len(messages) : IsEvent(messages[i]) => messages[i].n \in Nat
        /\ 1 \in 1..Len(messages) /\ IsEvent(m)
    BY <1>1, MessageFields
  <1>3. m.n = n + 1
    <2>1. /\ m.n \in (n + 1)..Len(events)
          /\ \A k \in (n + 1)..(m.n - 1) :
                \E j \in DOMAIN messages : IsEvent(messages[j]) /\ messages[j].n = k
      BY <1>1, <1>2 DEF Follows
    <2>2. ASSUME NEW j \in DOMAIN messages, IsEvent(messages[j]), messages[j].n < m.n
          PROVE  FALSE
      <3>1. j # 1 /\ 1 < j
        BY <1>1, <1>2, <2>2
      <3>. QED
        BY <1>1, <1>2, <2>2, <3>1 DEF Follows
    <2>3. n + 1 \notin (n + 1)..(m.n - 1)
      <3>1. ASSUME n + 1 \in (n + 1)..(m.n - 1)
            PROVE  FALSE
        <4>1. PICK j \in DOMAIN messages : IsEvent(messages[j]) /\ messages[j].n = n + 1
          BY <2>1, <3>1
        <4>2. messages[j].n < m.n
          BY <1>2, <3>1, <4>1
        <4>. QED
          BY <2>2, <4>1, <4>2
      <3>. QED
        BY <3>1
    <2>. QED
      BY <1>2, <2>1, <2>3
  <1>. HIDE DEF rest, m
  <1>4. ASSUME NEW i \in DOMAIN rest
        PROVE  i + 1 \in DOMAIN messages /\ rest[i] = messages[i + 1] /\ i \in Nat
    BY <1>1
  <1>5. ASSUME NEW j \in DOMAIN messages, j # 1
        PROVE  j - 1 \in DOMAIN rest /\ rest[j - 1] = messages[j]
    <2>1. j - 1 \in 1..(Len(messages) - 1) /\ (j - 1) + 1 = j
      BY <1>1, <1>5
    <2>. QED
      BY <1>1, <2>1
  <1>6. Follows(rest, n + 1, events)
    <2>1. ASSUME NEW i \in DOMAIN rest, IsEvent(rest[i])
          PROVE  /\ rest[i].n \in (n + 2)..Len(events)
                 /\ rest[i] = events[rest[i].n]
                 /\ \A j \in DOMAIN rest : IsEvent(rest[j]) /\ j < i => rest[j].n < rest[i].n
                 /\ \A k \in (n + 2)..(rest[i].n - 1) :
                       \E j \in DOMAIN rest : IsEvent(rest[j]) /\ rest[j].n = k
      <3>1. /\ i + 1 \in DOMAIN messages /\ rest[i] = messages[i + 1] /\ 1 < i + 1
            /\ 1 \in DOMAIN messages
        BY <1>1, <1>4
      <3>2. rest[i].n \in (n + 1)..Len(events) /\ m.n < rest[i].n
        BY <1>2, <2>1, <3>1 DEF Follows, m
      <3>3. rest[i] = events[rest[i].n]
        BY <2>1, <3>1 DEF Follows
      <3>4. ASSUME NEW j \in DOMAIN rest, IsEvent(rest[j]), j < i
            PROVE  rest[j].n < rest[i].n
        <4>1. j + 1 \in DOMAIN messages /\ rest[j] = messages[j + 1] /\ j + 1 < i + 1
          BY <1>4, <3>4
        <4>. QED
          BY <2>1, <3>1, <3>4, <4>1 DEF Follows
      <3>5. ASSUME NEW k \in (n + 2)..(rest[i].n - 1)
            PROVE  \E j \in DOMAIN rest : IsEvent(rest[j]) /\ rest[j].n = k
        <4>1. k \in (n + 1)..(rest[i].n - 1) /\ k # n + 1
          BY <3>2
        <4>2. PICK j \in DOMAIN messages : IsEvent(messages[j]) /\ messages[j].n = k
          BY <2>1, <3>1, <4>1 DEF Follows
        <4>3. j # 1
          BY <1>3, <4>1, <4>2 DEF m
        <4>. QED
          BY <1>5, <4>2, <4>3
      <3>. QED
        BY <1>3, <3>2, <3>3, <3>4, <3>5
    <2>. QED
      BY <2>1 DEF Follows
  <1>7. ASSUME AllThere(messages, n, events)
        PROVE  AllThere(rest, n + 1, events)
    <2>1. ASSUME NEW k \in (n + 2)..Len(events)
          PROVE  \E i \in DOMAIN rest : IsEvent(rest[i]) /\ rest[i].n = k
      <3>1. k \in (n + 1)..Len(events) /\ k # n + 1
        BY <1>1
      <3>2. PICK i \in DOMAIN messages : IsEvent(messages[i]) /\ messages[i].n = k
        BY <1>7, <3>1 DEF AllThere
      <3>3. i # 1
        BY <1>3, <3>1, <3>2 DEF m
      <3>. QED
        BY <1>5, <3>2, <3>3
    <2>. QED
      BY <2>1 DEF AllThere
  <1>8. n + 1 <= Len(events) /\ m = events[n + 1]
    BY <1>1, <1>2, <1>3 DEF Follows, m
  <1>. QED
    BY <1>1, <1>6, <1>7, <1>8 DEF rest

\* Taking any other message changes nothing.
LEMMA TailFollows ==
    ASSUME NEW messages \in Seq(Messages), messages # << >>, NEW n \in Nat,
           NEW events \in Seq(Events), Follows(messages, n, events),
           ~IsEvent(Head(messages))
    PROVE  /\ Follows(Tail(messages), n, events)
           /\ AllThere(messages, n, events) => AllThere(Tail(messages), n, events)
  <1>. DEFINE rest == Tail(messages)
  <1>1. /\ DOMAIN messages = 1..Len(messages) /\ Len(messages) \in Nat /\ Len(messages) > 0
        /\ Head(messages) = messages[1]
        /\ DOMAIN rest = 1..(Len(messages) - 1)
        /\ \A i \in 1..(Len(messages) - 1) : rest[i] = messages[i + 1]
    BY HeadTailProperties
  <1>. HIDE DEF rest
  <1>2. ASSUME NEW i \in DOMAIN rest
        PROVE  i + 1 \in DOMAIN messages /\ rest[i] = messages[i + 1] /\ i \in Nat
    BY <1>1
  <1>3. ASSUME NEW j \in DOMAIN messages, IsEvent(messages[j])
        PROVE  j - 1 \in DOMAIN rest /\ rest[j - 1] = messages[j]
    <2>1. j # 1
      BY <1>1, <1>3
    <2>. QED
      BY <1>1, <2>1
  <1>4. Follows(rest, n, events)
    <2>1. ASSUME NEW i \in DOMAIN rest, IsEvent(rest[i])
          PROVE  /\ rest[i].n \in (n + 1)..Len(events)
                 /\ rest[i] = events[rest[i].n]
                 /\ \A j \in DOMAIN rest : IsEvent(rest[j]) /\ j < i => rest[j].n < rest[i].n
                 /\ \A k \in (n + 1)..(rest[i].n - 1) :
                       \E j \in DOMAIN rest : IsEvent(rest[j]) /\ rest[j].n = k
      <3>1. i + 1 \in DOMAIN messages /\ rest[i] = messages[i + 1]
        BY <1>2
      <3>2. rest[i].n \in (n + 1)..Len(events) /\ rest[i] = events[rest[i].n]
        BY <2>1, <3>1 DEF Follows
      <3>3. ASSUME NEW j \in DOMAIN rest, IsEvent(rest[j]), j < i
            PROVE  rest[j].n < rest[i].n
        <4>1. j + 1 \in DOMAIN messages /\ rest[j] = messages[j + 1] /\ j + 1 < i + 1
          BY <1>2, <3>3
        <4>. QED
          BY <2>1, <3>1, <3>3, <4>1 DEF Follows
      <3>4. ASSUME NEW k \in (n + 1)..(rest[i].n - 1)
            PROVE  \E j \in DOMAIN rest : IsEvent(rest[j]) /\ rest[j].n = k
        <4>1. PICK j \in DOMAIN messages : IsEvent(messages[j]) /\ messages[j].n = k
          BY <2>1, <3>1 DEF Follows
        <4>. QED
          BY <1>3, <4>1
      <3>. QED
        BY <3>2, <3>3, <3>4
    <2>. QED
      BY <2>1 DEF Follows
  <1>5. AllThere(messages, n, events) => AllThere(rest, n, events)
    BY <1>3 DEF AllThere
  <1>. QED
    BY <1>4, <1>5 DEF rest


\* Another message at the end changes nothing.
LEMMA OtherAppended ==
    ASSUME NEW messages \in Seq(Messages), NEW n \in Nat, NEW events \in Seq(Events),
           NEW m \in Messages, ~IsEvent(m), Follows(messages, n, events)
    PROVE  /\ Follows(Append(messages, m), n, events)
           /\ AllThere(messages, n, events) => AllThere(Append(messages, m), n, events)
  <1>. DEFINE more == Append(messages, m)
  <1>1. /\ DOMAIN messages = 1..Len(messages) /\ Len(messages) \in Nat
        /\ DOMAIN more = 1..(Len(messages) + 1)
        /\ \A i \in 1..Len(messages) : more[i] = messages[i]
        /\ more[Len(messages) + 1] = m
    OBVIOUS
  <1>. HIDE DEF more
  <1>2. ASSUME NEW i \in DOMAIN more, IsEvent(more[i])
        PROVE  i \in DOMAIN messages /\ more[i] = messages[i]
    <2>1. i # Len(messages) + 1
      BY <1>1, <1>2
    <2>. QED
      BY <1>1, <2>1
  <1>3. ASSUME NEW i \in DOMAIN messages
        PROVE  i \in DOMAIN more /\ more[i] = messages[i]
    BY <1>1
  <1>4. Follows(more, n, events)
    <2>1. ASSUME NEW i \in DOMAIN more, IsEvent(more[i])
          PROVE  /\ more[i].n \in (n + 1)..Len(events)
                 /\ more[i] = events[more[i].n]
                 /\ \A j \in DOMAIN more : IsEvent(more[j]) /\ j < i => more[j].n < more[i].n
                 /\ \A k \in (n + 1)..(more[i].n - 1) :
                       \E j \in DOMAIN more : IsEvent(more[j]) /\ more[j].n = k
      <3>1. i \in DOMAIN messages /\ more[i] = messages[i]
        BY <1>2, <2>1
      <3>2. more[i].n \in (n + 1)..Len(events) /\ more[i] = events[more[i].n]
        BY <2>1, <3>1 DEF Follows
      <3>3. \A j \in DOMAIN more : IsEvent(more[j]) /\ j < i => more[j].n < more[i].n
        BY <1>2, <2>1, <3>1 DEF Follows
      <3>4. \A k \in (n + 1)..(more[i].n - 1) :
              \E j \in DOMAIN more : IsEvent(more[j]) /\ more[j].n = k
        BY <1>3, <2>1, <3>1 DEF Follows
      <3>. QED
        BY <3>2, <3>3, <3>4
    <2>. QED
      BY <2>1 DEF Follows
  <1>5. AllThere(messages, n, events) => AllThere(more, n, events)
    BY <1>3 DEF AllThere
  <1>. QED
    BY <1>4, <1>5 DEF more

\* The stream goes on, and so do the messages.
LEMMA NextAppended ==
    ASSUME NEW messages \in Seq(Messages), NEW n \in Nat, NEW events \in Seq(Events),
           n <= Len(events), NEW e \in Events, e.n = Len(events) + 1, e \in Messages, IsEvent(e),
           Follows(messages, n, events), AllThere(messages, n, events)
    PROVE  /\ Follows(Append(messages, e), n, Append(events, e))
           /\ AllThere(Append(messages, e), n, Append(events, e))
  <1>. DEFINE more == Append(messages, e)
              longer == Append(events, e)
              last == Len(messages) + 1
              top == Len(events)
  <1>1. /\ DOMAIN messages = 1..Len(messages) /\ Len(messages) \in Nat
        /\ DOMAIN more = 1..last
        /\ \A i \in 1..Len(messages) : more[i] = messages[i]
        /\ more[last] = e
    OBVIOUS
  <1>2. /\ top \in Nat /\ Len(longer) = top + 1
        /\ \A k \in 1..top : longer[k] = events[k]
        /\ longer[top + 1] = e
    BY EndsArePositions
  <1>3. \A i \in DOMAIN messages : IsEvent(messages[i]) => messages[i].n \in Nat
    BY MessageFields
  <1>. HIDE DEF more, longer
  <1>4. /\ last \in DOMAIN more /\ \A i \in DOMAIN messages : i < last /\ i \in DOMAIN more
        /\ \A i \in DOMAIN more : i \in DOMAIN messages \/ i = last
        /\ \A i \in DOMAIN more : i \in Nat
    BY <1>1
  <1>5. \A i \in DOMAIN messages : more[i] = messages[i]
    BY <1>1
  <1>. HIDE DEF last, top
  <1>6. ASSUME NEW i \in DOMAIN messages, IsEvent(messages[i])
        PROVE  /\ messages[i].n \in (n + 1)..top /\ messages[i].n \in 1..top
               /\ messages[i] = longer[messages[i].n]
               /\ messages[i].n \in (n + 1)..Len(longer)
    <2>1. messages[i].n \in (n + 1)..top /\ messages[i] = events[messages[i].n]
      BY <1>6 DEF Follows, top
    <2>2. messages[i].n \in 1..top /\ messages[i].n \in (n + 1)..Len(longer)
      BY <1>2, <2>1
    <2>. QED
      BY <1>2, <2>1, <2>2
  <1>7. \A k \in (n + 1)..top : \E j \in DOMAIN more : IsEvent(more[j]) /\ more[j].n = k
    BY <1>4, <1>5 DEF AllThere, top
  <1>8. e.n = top + 1
    BY DEF top
  <1>9. Follows(more, n, longer)
    <2>1. ASSUME NEW i \in DOMAIN more, IsEvent(more[i])
          PROVE  /\ more[i].n \in (n + 1)..Len(longer)
                 /\ more[i] = longer[more[i].n]
                 /\ \A j \in DOMAIN more : IsEvent(more[j]) /\ j < i => more[j].n < more[i].n
                 /\ \A k \in (n + 1)..(more[i].n - 1) :
                       \E j \in DOMAIN more : IsEvent(more[j]) /\ more[j].n = k
      <3>1. CASE i \in DOMAIN messages
        <4>1. more[i] = messages[i] /\ ~(last < i)
          BY <1>1, <1>4, <1>5, <3>1 DEF last
        <4>2. ASSUME NEW j \in DOMAIN more, IsEvent(more[j]), j < i
              PROVE  more[j].n < more[i].n
          <5>1. j \in DOMAIN messages /\ more[j] = messages[j]
            BY <1>4, <1>5, <4>1, <4>2
          <5>. QED
            BY <2>1, <3>1, <4>1, <4>2, <5>1 DEF Follows
        <4>3. \A k \in (n + 1)..(more[i].n - 1) : k \in (n + 1)..top
          BY <1>2, <1>6, <2>1, <3>1, <4>1
        <4>. QED
          BY <1>6, <1>7, <2>1, <3>1, <4>1, <4>2, <4>3
      <3>2. CASE i = last
        <4>1. more[i] = e /\ more[i].n = top + 1
          BY <1>1, <1>8, <3>2
        <4>2. /\ more[i].n \in (n + 1)..Len(longer) /\ more[i] = longer[more[i].n]
              /\ \A k \in (n + 1)..(more[i].n - 1) : k \in (n + 1)..top
          <5>1. n <= top
            BY DEF top
          <5>. QED
            BY <1>2, <4>1, <5>1
        <4>3. ASSUME NEW j \in DOMAIN more, IsEvent(more[j]), j < i
              PROVE  more[j].n < more[i].n
          <5>1. j \in DOMAIN messages /\ more[j] = messages[j]
            BY <1>4, <1>5, <3>2, <4>3
          <5>2. more[j].n \in 1..top
            BY <1>6, <4>3, <5>1
          <5>. QED
            BY <1>2, <4>1, <5>2
        <4>. QED
          BY <1>7, <4>2, <4>3
      <3>. QED
        BY <1>4, <3>1, <3>2
    <2>. QED
      BY <2>1 DEF Follows
  <1>10. AllThere(more, n, longer)
    <2>1. ASSUME NEW k \in (n + 1)..Len(longer)
          PROVE  \E j \in DOMAIN more : IsEvent(more[j]) /\ more[j].n = k
      <3>1. k \in (n + 1)..top \/ k = top + 1
        BY <1>2
      <3>. QED
        BY <1>1, <1>4, <1>7, <1>8, <3>1
    <2>. QED
      BY <2>1 DEF AllThere
  <1>. QED
    BY <1>9, <1>10 DEF more, longer

\* So do the first of them.
LEMMA FirstFollow ==
    ASSUME NEW a \in Seq(Messages), NEW b \in Seq(Messages), NEW n \in Nat,
           NEW events \in Seq(Events), Follows(a \o b, n, events)
    PROVE  Follows(a, n, events)
  <1>. DEFINE both == a \o b
  <1>1. /\ DOMAIN a = 1..Len(a) /\ Len(a) \in Nat /\ Len(b) \in Nat
        /\ DOMAIN both = 1..(Len(a) + Len(b))
        /\ \A i \in 1..(Len(a) + Len(b)) :
              both[i] = IF i <= Len(a) THEN a[i] ELSE b[i - Len(a)]
    BY Concat
  <1>. HIDE DEF both
  <1>2. \A i \in DOMAIN a : i \in DOMAIN both /\ both[i] = a[i] /\ i \in Nat
    BY <1>1
  <1>3. \A i \in DOMAIN a : \A j \in DOMAIN both : j \notin DOMAIN a => i < j
    BY <1>1
  <1>4. ASSUME NEW i \in DOMAIN a, IsEvent(a[i])
        PROVE  /\ a[i].n \in (n + 1)..Len(events)
               /\ a[i] = events[a[i].n]
               /\ \A j \in DOMAIN a : IsEvent(a[j]) /\ j < i => a[j].n < a[i].n
               /\ \A k \in (n + 1)..(a[i].n - 1) : \E j \in DOMAIN a : IsEvent(a[j]) /\ a[j].n = k
    <2>1. /\ a[i].n \in (n + 1)..Len(events) /\ a[i] = events[a[i].n]
          /\ \A j \in DOMAIN a : IsEvent(a[j]) /\ j < i => a[j].n < a[i].n
      BY <1>2, <1>4 DEF Follows, both
    <2>2. ASSUME NEW k \in (n + 1)..(a[i].n - 1)
          PROVE  \E j \in DOMAIN a : IsEvent(a[j]) /\ a[j].n = k
      <3>1. PICK j \in DOMAIN both : IsEvent(both[j]) /\ both[j].n = k
        BY <1>2, <1>4, <2>2 DEF Follows, both
      <3>2. k < a[i].n
        BY <2>1
      <3>3. j \in DOMAIN a
        <4>1. ASSUME j \notin DOMAIN a
              PROVE  FALSE
          <5>1. i < j /\ i \in DOMAIN both /\ both[i] = a[i]
            BY <1>2, <1>3, <4>1
          <5>2. a[i].n < k
            BY <1>4, <3>1, <5>1 DEF Follows, both
          <5>. QED
            BY <2>1, <3>2, <5>2
        <4>. QED
          BY <4>1
      <3>. QED
        BY <1>2, <3>1, <3>3
    <2>. QED
      BY <2>1, <2>2
  <1>. QED
    BY <1>4 DEF Follows

\* When nothing is missing and no event is left, all have been handled.
LEMMA NothingLeft ==
    ASSUME NEW messages, NEW n \in Nat, NEW events \in Seq(Events), n <= Len(events),
           AllThere(messages, n, events),
           \A i \in DOMAIN messages : ~IsEvent(messages[i])
    PROVE  n = Len(events)
  <1>1. Len(events) \in Nat
    OBVIOUS
  <1>2. Len(events) \notin (n + 1)..Len(events)
    BY DEF AllThere
  <1>. QED
    BY <1>1, <1>2

-----------------------------------------------------------------------------
(***************************************************************************)
(* Sequences.                                                              *)
(***************************************************************************)
LEMMA FirstEvents ==
    ASSUME NEW events \in Seq(Events), NEW n \in Nat, n <= Len(events)
    PROVE  /\ SubSeq(events, 1, n) \in Seq(Events) /\ Len(SubSeq(events, 1, n)) = n
           /\ \A i \in 1..n : SubSeq(events, 1, n)[i] = events[i]
           /\ n < Len(events) =>
                 SubSeq(events, 1, n + 1) = Append(SubSeq(events, 1, n), events[n + 1])
  <1>1. DOMAIN events = 1..Len(events) /\ Len(events) \in Nat
    OBVIOUS
  <1>2. \A k \in 0..Len(events) :
          /\ SubSeq(events, 1, k) \in Seq(Events) /\ Len(SubSeq(events, 1, k)) = k
          /\ \A i \in 1..k : SubSeq(events, 1, k)[i] = events[i]
    BY <1>1
  <1>3. n \in 0..Len(events)
    BY <1>1
  <1>4. ASSUME n < Len(events)
        PROVE  SubSeq(events, 1, n + 1) = Append(SubSeq(events, 1, n), events[n + 1])
    <2>. DEFINE a == SubSeq(events, 1, n + 1)
                b == SubSeq(events, 1, n)
                e == events[n + 1]
    <2>1. n + 1 \in 0..Len(events) /\ e \in Events
      BY <1>1, <1>4
    <2>2. /\ a \in Seq(Events) /\ Len(a) = n + 1 /\ \A i \in 1..(n + 1) : a[i] = events[i]
          /\ b \in Seq(Events) /\ Len(b) = n /\ \A i \in 1..n : b[i] = events[i]
      BY <1>2, <1>3, <2>1
    <2>. HIDE DEF a, b, e
    <2>3. /\ Append(b, e) \in Seq(Events) /\ Len(Append(b, e)) = n + 1
          /\ \A i \in 1..n : Append(b, e)[i] = b[i]
          /\ Append(b, e)[n + 1] = e
      BY <2>1, <2>2
    <2>4. ASSUME NEW i \in 1..(n + 1)
          PROVE  a[i] = Append(b, e)[i]
      <3>1. i \in 1..n \/ i = n + 1
        OBVIOUS
      <3>2. CASE i \in 1..n
        BY <2>2, <2>3, <3>2
      <3>3. CASE i = n + 1
        BY <2>2, <2>3, <3>3 DEF e
      <3>. QED
        BY <3>1, <3>2, <3>3
    <2>5. a = Append(b, e)
      BY <2>2, <2>3, <2>4, SeqEqual
    <2>. QED
      BY <2>5 DEF a, b, e
  <1>. QED
    BY <1>2, <1>3, <1>4

\* Receiving a message from the buffer, or adding one to it, and the queue.
LEMMA Moved ==
    ASSUME NEW q \in Seq(Messages), NEW w \in Seq(Messages), w # << >>
    PROVE  Append(q, Head(w)) \o Tail(w) = q \o w
  <1>. DEFINE m == Head(w)
              rest == Tail(w)
              more == Append(q, m)
  <1>1. /\ m \in Messages /\ rest \in Seq(Messages) /\ m = w[1]
        /\ Len(w) \in Nat /\ Len(w) > 0 /\ Len(rest) = Len(w) - 1
        /\ \A i \in 1..(Len(w) - 1) : rest[i] = w[i + 1]
    BY HeadTailProperties
  <1>. HIDE DEF m, rest
  <1>2. /\ more \in Seq(Messages) /\ Len(more) = Len(q) + 1 /\ Len(q) \in Nat
        /\ \A i \in 1..Len(q) : more[i] = q[i]
        /\ more[Len(q) + 1] = m
    BY <1>1
  <1>. HIDE DEF more
  <1>3. /\ more \o rest \in Seq(Messages)
        /\ Len(more \o rest) = Len(more) + Len(rest)
        /\ \A i \in 1..(Len(more) + Len(rest)) :
              (more \o rest)[i] = IF i <= Len(more) THEN more[i] ELSE rest[i - Len(more)]
    BY <1>1, <1>2, Concat, ConcatProperties
  <1>4. /\ q \o w \in Seq(Messages)
        /\ Len(q \o w) = Len(q) + Len(w)
        /\ \A i \in 1..(Len(q) + Len(w)) :
              (q \o w)[i] = IF i <= Len(q) THEN q[i] ELSE w[i - Len(q)]
    BY Concat, ConcatProperties
  <1>5. Len(more) + Len(rest) = Len(q) + Len(w)
    BY <1>1, <1>2
  <1>6. ASSUME NEW i \in 1..(Len(q) + Len(w))
        PROVE  (more \o rest)[i] = (q \o w)[i]
    <2>1. CASE i <= Len(q)
      <3>1. i <= Len(more) /\ i \in 1..Len(q)
        BY <1>2, <2>1
      <3>2. (more \o rest)[i] = more[i]
        BY <1>3, <1>5, <3>1
      <3>3. (q \o w)[i] = q[i]
        BY <1>4, <2>1
      <3>. QED
        BY <1>2, <3>1, <3>2, <3>3
    <2>2. CASE i = Len(q) + 1
      <3>1. i <= Len(more) /\ ~(i <= Len(q)) /\ i - Len(q) = 1
        BY <1>2, <2>2
      <3>2. (more \o rest)[i] = more[i] /\ (q \o w)[i] = w[i - Len(q)]
        BY <1>3, <1>4, <1>5, <3>1
      <3>3. more[i] = m
        BY <1>2, <2>2
      <3>. QED
        BY <1>1, <3>1, <3>2, <3>3
    <2>3. CASE i > Len(q) + 1
      <3>1. /\ ~(i <= Len(more)) /\ ~(i <= Len(q))
            /\ i - Len(more) \in 1..(Len(w) - 1) /\ (i - Len(more)) + 1 = i - Len(q)
        BY <1>1, <1>2, <2>3
      <3>2. /\ (more \o rest)[i] = rest[i - Len(more)]
            /\ (q \o w)[i] = w[i - Len(q)]
        BY <1>3, <1>4, <1>5, <3>1
      <3>3. rest[i - Len(more)] = w[(i - Len(more)) + 1]
        BY <1>1, <3>1
      <3>. QED
        BY <3>1, <3>2, <3>3
    <2>4. \A a \in Nat : \A b \in Int : b <= a \/ b = a + 1 \/ b > a + 1
      OBVIOUS
    <2>5. i \in Int /\ Len(q) \in Nat
      BY <1>2
    <2>. QED
      BY <2>1, <2>2, <2>3, <2>4, <2>5
  <1>7. more \o rest = q \o w
    BY <1>3, <1>4, <1>5, <1>6, SeqEqual
  <1>. QED
    BY <1>7 DEF more, m, rest

LEMMA Arrived ==
    ASSUME NEW q \in Seq(Messages), NEW w \in Seq(Messages), NEW m \in Messages
    PROVE  /\ q \o Append(w, m) = Append(q \o w, m) /\ q \o << >> = q
           /\ q \o w \in Seq(Messages)
  <1>1. Append(w, m) = w \o << m >> /\ << m >> \in Seq(Messages)
    OBVIOUS
  <1>2. q \o (w \o << m >>) = (q \o w) \o << m >> /\ q \o w \in Seq(Messages)
    BY <1>1, ConcatAssociative, ConcatProperties
  <1>. QED
    BY <1>1, <1>2, ConcatEmptySeq, AppendIsConcat

-----------------------------------------------------------------------------
(***************************************************************************)
(* What a handler has made of the first events of a stream.                *)
(***************************************************************************)

\* The rows are rows of the stream.
LEMMA MadeRows ==
    ASSUME NEW events \in Seq(Events), NEW n \in Nat, n <= Len(events),
           \A j \in DOMAIN events : events[j].kind = "snap" <=> j = 1,
           NEW rows \in Seq(Rows), NEW h \in Handlers,
           Made(SubSeq(events, 1, n), rows, h)
    PROVE  rows \o h.records \in Seq(Rows) /\ HasRows(events, rows \o h.records)
  <1>1. /\ h.records \in Seq(Rows) /\ rows \o h.records \in Seq(Rows)
        /\ << >> \o << >> = << >> /\ << >> \in Seq(Rows)
    BY HandlerFields, Concat, ConcatEmptySeq
  <1>2. Len(SubSeq(events, 1, n)) = n /\ DOMAIN events = 1..Len(events) /\ Len(events) \in Nat
    BY FirstEvents
  <1>3. CASE n = 0
    <2>1. rows = << >> /\ h.records = << >>
      BY <1>2, <1>3 DEF Made, NewHandler
    <2>2. rows \o h.records = << >> /\ Len(<< >>) = 0
      BY <1>1, <2>1
    <2>. QED
      BY <1>1, <2>2 DEF HasRows
  <1>4. CASE n # 0
    <2>1. n \in 1..Len(events) /\ \A j \in (n + 1)..Len(events) : events[j].kind # "snap"
      BY <1>2, <1>4
    <2>2. HasRows(SubSeq(events, 1, n), rows \o h.records)
      BY <1>2, <1>4 DEF Made, Accumulates
    <2>. QED
      BY <1>1, <2>1, <2>2, RowsOfFirst
  <1>. QED
    BY <1>3, <1>4

\* What it has made of all of them are the complete episodes.
LEMMA MadeAll ==
    ASSUME NEW events \in Seq(Events), NEW rows \in Seq(Rows), NEW h \in Handlers,
           Made(events, rows, h)
    PROVE  CompleteLength(events) = Len(rows) + Len(h.records)
  <1>1. /\ h.records \in Seq(Rows) /\ Len(rows) \in Nat /\ Len(h.records) \in Nat
        /\ Len(rows \o h.records) = Len(rows) + Len(h.records)
    BY HandlerFields, ConcatProperties, LenProperties
  <1>2. CASE Len(events) = 0
    <2>1. events = << >> /\ Len(rows) = 0 /\ h.records = << >>
      BY <1>2 DEF Made, NewHandler
    <2>2. EpisodeEnds(events) = {}
      <3>1. EpisodeEnds(events) \subseteq 1..0
        BY <1>2, EndsArePositions
      <3>. QED
        BY <3>1
    <2>3. CompleteLength(events) = 0
      BY <2>2, LastEndIsComplete
    <2>. QED
      BY <2>1, <2>3
  <1>3. CASE Len(events) # 0
    <2>1. Accumulates(events, rows \o h.records, h)
      BY <1>3 DEF Made
    <2>2. CompleteLength(events) = Len(rows \o h.records)
      BY <2>1, LastEndIsComplete DEF Accumulates, HasRows
    <2>. QED
      BY <1>1, <2>2
  <1>. QED
    BY <1>2, <1>3

\* The next event, taken from the queue by data().
Given(h, e) == IF e.kind = "snap" THEN OnSnapshot(h, << e >>, e.rts) ELSE OnEvent(h, e)

LEMMA MadeEvent ==
    ASSUME NEW events \in Seq(Events), NEW n \in Nat, n < Len(events),
           \A j \in DOMAIN events : events[j].kind = "snap" <=> j = 1,
           NEW rows \in Seq(Rows), NEW h \in Handlers,
           Made(SubSeq(events, 1, n), rows, h)
    PROVE  LET g == Given(h, events[n + 1])
           IN  /\ g \in Handlers
               /\ Made(SubSeq(events, 1, n + 1), rows, g)
               /\ Len(g.records) + Len(g.acc) = Len(h.records) + Len(h.acc) + 1
  <1>. DEFINE before == SubSeq(events, 1, n)
              after == SubSeq(events, 1, n + 1)
              e == events[n + 1]
              one == << e >>
              g == Given(h, e)
  <1>1. /\ before \in Seq(Events) /\ Len(before) = n
        /\ after = Append(before, e)
        /\ n + 1 \in DOMAIN events /\ e \in Events /\ e.rts \in Nat /\ e.kind \in Kinds
        /\ one \in Seq(Events) /\ Len(one) = 1 /\ one[1] = e /\ one = Append(<< >>, e)
        /\ e.kind = "snap" => g = OnSnapshot(h, one, e.rts)
        /\ e.kind # "snap" => g = OnEvent(h, e)
    <2>1. DOMAIN events = 1..Len(events) /\ Len(events) \in Nat /\ n + 1 \in 1..Len(events)
      OBVIOUS
    <2>. QED
      BY <2>1, FirstEvents, EndsArePositions DEF Given
  <1>. HIDE DEF before, after, one, e, g
  <1>2. Len(after) = n + 1 /\ (e.kind = "snap" <=> n = 0)
    <2>1. Len(after) = n + 1
      BY <1>1
    <2>2. e.kind = "snap" <=> n + 1 = 1
      BY <1>1 DEF e
    <2>. QED
      BY <2>1, <2>2
  <1>3. /\ h.records \in Seq(Rows) /\ h.acc \in Seq(Events) /\ h.rts \in Nat
        /\ Len(h.records) \in Nat /\ Len(h.acc) \in Nat
    BY HandlerFields
  <1>4. ASSUME n = 0
        PROVE  /\ g \in Handlers /\ Made(after, rows, g)
               /\ Len(g.records) + Len(g.acc) = Len(h.records) + Len(h.acc) + 1
    <2>1. /\ g = OnSnapshot(h, one, e.rts)
          /\ h = NewHandler /\ rows = << >> /\ before = << >>
      BY <1>1, <1>2, <1>4 DEF Made, before
    <2>2. /\ h.records = << >> /\ h.acc = << >> /\ h.started = FALSE
      BY <2>1 DEF NewHandler
    <2>3. /\ g \in Handlers /\ g.records = h.records \o Stamped(one, e.rts)
          /\ g.rts = e.rts /\ g.acc = h.acc
      <3>1. one \in Seq(Events) /\ e.rts \in Nat
        BY <1>1
      <3>2. /\ OnSnapshot(h, one, e.rts) \in Handlers
            /\ OnSnapshot(h, one, e.rts).records = h.records \o Stamped(one, e.rts)
            /\ OnSnapshot(h, one, e.rts).rts = e.rts /\ OnSnapshot(h, one, e.rts).acc = h.acc
        BY <3>1, OnSnapshotType
      <3>. QED
        BY <2>1, <3>2
    <2>4. g.started = FALSE
      BY <2>1, <2>2 DEF OnSnapshot, NewHandler
    <2>5. /\ Stamped(one, e.rts) \in Seq(Rows) /\ Len(Stamped(one, e.rts)) = 1
      BY <1>1, StampedRows
    <2>6. g.records = Stamped(one, e.rts) /\ rows \o g.records = Stamped(one, e.rts)
      BY <2>1, <2>2, <2>3, <2>5, ConcatEmptySeq
    <2>7. after = one
      BY <1>1, <2>1
    <2>8. Accumulates(one, Stamped(one, e.rts), g)
      <3>1. Len(one) > 0 /\ \A i \in 1..Len(one) : one[i].kind = "snap" /\ one[i].rts = e.rts
        BY <1>1, <1>2, <1>4
      <3>. QED
        BY <1>1, <2>2, <2>3, <2>4, <3>1, SnapshotAccumulates
    <2>9. Made(after, rows, g)
      BY <1>2, <1>4, <2>6, <2>7, <2>8 DEF Made
    <2>. QED
      BY <2>2, <2>3, <2>5, <2>6, <2>9
  <1>5. ASSUME n # 0
        PROVE  /\ g \in Handlers /\ Made(after, rows, g)
               /\ Len(g.records) + Len(g.acc) = Len(h.records) + Len(h.acc) + 1
    <2>. DEFINE made == rows \o h.records
    <2>1. /\ g = OnEvent(h, e) /\ e.kind \in {"add", "del"}
          /\ Accumulates(before, made, h) /\ made \in Seq(Rows)
      <3>1. e.kind \in {"add", "del"}
        BY <1>1, <1>2, <1>5 DEF Kinds
      <3>. QED
        BY <1>1, <1>3, <1>5, <3>1, Concat DEF Made, before
    <2>2. g \in Handlers
      BY <1>1, <2>1, OnEventType
    <2>3. CASE Completes(h, e)
      <3>. DEFINE new == Stamped(h.acc, h.rts)
      <3>1. new \in Seq(Rows) /\ Len(new) = Len(h.acc)
        BY <1>3, StampedRows
      <3>2. g.records = h.records \o new /\ g.acc = one
        BY <2>1, <2>3 DEF OnEvent, one
      <3>3. Accumulates(after, made \o new, g)
        BY <1>1, <2>1, <2>3, EventCompletes
      <3>. HIDE DEF new
      <3>4. rows \o g.records = made \o new
        <4>1. made \o new = rows \o (h.records \o new)
          BY <1>3, <3>1, RowsAssociative
        <4>. HIDE DEF made
        <4>. QED
          BY <3>2, <4>1
      <3>5. Made(after, rows, g)
        BY <1>2, <3>3, <3>4 DEF Made
      <3>6. Len(g.records) = Len(h.records) + Len(h.acc) /\ Len(g.acc) = 1
        <4>1. Len(h.records \o new) = Len(h.records) + Len(new)
          BY <1>3, <3>1, ConcatProperties
        <4>. QED
          BY <1>1, <3>1, <3>2, <4>1
      <3>. QED
        BY <1>3, <2>2, <3>5, <3>6
    <2>4. CASE ~Completes(h, e)
      <3>1. g.records = h.records /\ g.acc = Append(h.acc, e)
        BY <2>1, <2>4 DEF OnEvent
      <3>2. Accumulates(after, made, g)
        BY <1>1, <2>1, <2>4, EventIsAccumulated
      <3>3. Made(after, rows, g)
        BY <1>2, <3>1, <3>2 DEF Made
      <3>4. Len(g.acc) = Len(h.acc) + 1
        BY <1>1, <1>3, <3>1
      <3>5. Len(g.records) = Len(h.records)
        BY <3>1
      <3>6. Len(g.records) + Len(g.acc) = Len(h.records) + Len(h.acc) + 1
        <4>. DEFINE a == Len(h.acc)
                    b == Len(g.acc)
                    c == Len(h.records)
        <4>1. c \in Nat /\ a \in Nat /\ b = a + 1
          BY <1>3, <3>4
        <4>2. Len(g.records) = c
          BY <3>5
        <4>. HIDE DEF a, b, c
        <4>3. c + b = c + a + 1
          BY <4>1
        <4>4. Len(g.records) + b = c + a + 1
          BY <4>2, <4>3
        <4>. QED
          BY <4>4 DEF a, b, c
      <3>. QED
        BY <2>2, <3>3, <3>6
    <2>. QED
      BY <2>3, <2>4
  <1>. QED
    BY <1>4, <1>5 DEF e, g, after

\* A COPY moves the rows from the handler to the table, or none.
LEMMA MadeKept ==
    ASSUME NEW events, Len(events) \in Nat, Len(events) > 0,
           NEW rows \in Seq(Rows), NEW g \in Handlers, Made(events, rows, g)
    PROVE  /\ rows \o Copied(g) \in Seq(Rows)
           /\ Len(rows \o Copied(g)) = Len(rows) + Len(Copied(g))
           /\ Made(events, rows \o Copied(g), Kept(g))
           /\ Len(Copied(g)) + Len(Kept(g).records) = Len(g.records)
           /\ Len(Copied(g)) \in Nat
           /\ \/ rows \o Copied(g) = rows \o g.records
              \/ Copied(g) = << >> /\ rows \o Copied(g) = rows
  <1>1. /\ Kept(g) \in Handlers /\ Copied(g) \in Seq(Rows)
        /\ Kept(g).rts = g.rts /\ Kept(g).acc = g.acc /\ Kept(g).started = g.started
        /\ \/ Copied(g) = g.records /\ Kept(g).records = << >>
           \/ Copied(g) = << >> /\ Kept(g).records = g.records
    BY CopiedAndKept
  <1>2. /\ g.records \in Seq(Rows) /\ Len(g.records) \in Nat /\ Len(rows) \in Nat
        /\ Len(Copied(g)) \in Nat /\ Len(<< >>) = 0
        /\ rows \o g.records \in Seq(Rows)
    BY <1>1, HandlerFields, Concat
  <1>3. /\ rows \o Copied(g) \in Seq(Rows)
        /\ Len(rows \o Copied(g)) = Len(rows) + Len(Copied(g))
        /\ rows \o << >> = rows /\ (rows \o g.records) \o << >> = rows \o g.records
    BY <1>1, <1>2, ConcatProperties, ConcatEmptySeq
  <1>4. Accumulates(events, rows \o g.records, Kept(g))
    <2>1. Accumulates(events, rows \o g.records, g)
      BY DEF Made
    <2>. QED
      BY <1>1, <2>1, AccumulatesSame
  <1>5. (rows \o Copied(g)) \o Kept(g).records = rows \o g.records
    BY <1>1, <1>3
  <1>6. Made(events, rows \o Copied(g), Kept(g))
    BY <1>4, <1>5 DEF Made
  <1>. QED
    BY <1>1, <1>2, <1>3, <1>6

-----------------------------------------------------------------------------
(***************************************************************************)
(* How many rows of a session are in the table.                            *)
(***************************************************************************)
LEMMA SavedRows ==
    ASSUME db \in Seq(StoredRows), NEW s \in Sessions
    PROVE  Saved(s) \in Nat /\ IsFiniteSet({i \in DOMAIN db : db[i].session = s})
  <1>. DEFINE mine == {i \in DOMAIN db : db[i].session = s}
  <1>1. DOMAIN db = 1..Len(db) /\ Len(db) \in Nat
    OBVIOUS
  <1>2. IsFiniteSet(1..Len(db))
    BY <1>1, FS_Interval
  <1>3. mine \in SUBSET (1..Len(db))
    BY <1>1
  <1>4. IsFiniteSet(mine)
    BY <1>2, <1>3, FS_Subset
  <1>. QED
    BY <1>4, FS_CardinalityType DEF Saved

LEMMA SavedGrows ==
    ASSUME db \in Seq(StoredRows), NEW s \in Sessions, NEW rows \in Seq(Rows),
           db' = db \o Tagged(s, rows)
    PROVE  /\ Saved(s)' = Saved(s) + Len(rows)
           /\ \A r \in Sessions : r # s => Saved(r)' = Saved(r)
  <1>. DEFINE new == Tagged(s, rows)
              added == (Len(db) + 1)..(Len(db) + Len(rows))
              of(r) == {i \in DOMAIN db : db[i].session = r}
  <1>1. /\ new \in Seq(StoredRows) /\ \A i \in DOMAIN new : new[i].session = s
        /\ Len(new) = Len(rows) /\ Len(rows) \in Nat
    <2>1. DOMAIN new = DOMAIN rows /\ new \in Seq(StoredRows)
      BY TaggedRows DEF Tagged
    <2>2. DOMAIN rows = 1..Len(rows) /\ DOMAIN new = 1..Len(new)
          /\ Len(rows) \in Nat /\ Len(new) \in Nat
      BY <2>1, LenProperties
    <2>3. Len(new) = Len(rows)
      <3>. HIDE DEF new
      <3>. QED
        BY <2>1, <2>2
    <2>. QED
      BY <2>2, <2>3, TaggedRows
  <1>. HIDE DEF new
  <1>2. /\ DOMAIN db = 1..Len(db) /\ Len(db) \in Nat
        /\ DOMAIN new = 1..Len(new)
        /\ DOMAIN (db \o new) = 1..(Len(db) + Len(new))
        /\ \A i \in 1..(Len(db) + Len(new)) :
              (db \o new)[i] = IF i <= Len(db) THEN db[i] ELSE new[i - Len(db)]
    BY <1>1, Concat, LenProperties
  <1>3. db' = db \o new
    BY DEF new
  <1>4. /\ DOMAIN db' = 1..(Len(db) + Len(rows))
        /\ \A i \in 1..Len(db) : i \in DOMAIN db' /\ i \notin added /\ db'[i] = db[i]
        /\ \A i \in added : i \in DOMAIN db' /\ db'[i].session = s
        /\ \A i \in DOMAIN db' : i \in 1..Len(db) \/ i \in added
    <2>1. \A i \in added : i - Len(db) \in DOMAIN new /\ ~(i <= Len(db)) /\ i \in DOMAIN db'
      BY <1>1, <1>2, <1>3
    <2>2. DOMAIN db' = 1..(Len(db) + Len(rows))
      BY <1>1, <1>2, <1>3
    <2>3. \A i \in 1..Len(db) : i \in DOMAIN db' /\ i \notin added /\ db'[i] = db[i]
      BY <1>1, <1>2, <1>3
    <2>4. ASSUME NEW i \in added
          PROVE  db'[i].session = s
      <3>1. db'[i] = new[i - Len(db)]
        BY <1>1, <1>2, <1>3, <2>1, <2>2
      <3>. QED
        BY <1>1, <2>1, <3>1
    <2>5. \A i \in DOMAIN db' : i \in 1..Len(db) \/ i \in added
      BY <1>1, <1>2, <2>2
    <2>. QED
      BY <2>1, <2>2, <2>3, <2>4, <2>5
  <1>. HIDE DEF added
  <1>5. {i \in DOMAIN db' : db'[i].session = s} = of(s) \union added
    BY <1>2, <1>4
  <1>6. of(s) \cap added = {}
    BY <1>2, <1>4
  <1>7. IsFiniteSet(added) /\ Cardinality(added) = Len(rows)
    <2>1. Len(db) + 1 \in Int /\ Len(db) + Len(rows) \in Int
      BY <1>1, <1>2
    <2>2. Len(rows) = IF Len(db) + 1 > Len(db) + Len(rows) THEN 0
                      ELSE (Len(db) + Len(rows)) - (Len(db) + 1) + 1
      BY <1>1, <1>2
    <2>. QED
      BY <2>1, <2>2, FS_Interval DEF added
  <1>8. ASSUME NEW r \in Sessions, r # s
        PROVE  {i \in DOMAIN db' : db'[i].session = r} = of(r)
    BY <1>2, <1>4, <1>8
  <1>9. Saved(s)' = Saved(s) + Len(rows)
    <2>1. IsFiniteSet(of(s)) /\ Saved(s) = Cardinality(of(s)) /\ Saved(s) \in Nat
      BY SavedRows DEF Saved
    <2>2. Saved(s)' = Cardinality(of(s) \union added)
      BY <1>5 DEF Saved
    <2>. HIDE DEF of
    <2>3. Cardinality(of(s) \union added) = Cardinality(of(s)) + Cardinality(added) - Cardinality({})
      BY <1>6, <1>7, <2>1, FS_Union
    <2>. QED
      BY <1>1, <1>7, <2>1, <2>2, <2>3, FS_EmptySet
  <1>. QED
    BY <1>8, <1>9 DEF Saved

\* A session younger than one that has not ended has no rows.
LEMMA YoungerHaveNone ==
    ASSUME CaptureInv, NEW s \in Sessions, ~Ended(s), NEW r \in Sessions, r > s
    PROVE  Saved(r) = 0
  <1>1. db \in Seq(StoredRows) /\ \A i \in DOMAIN db : db[i].session <= s
    BY DEF CaptureInv, TaskInv, TaskTypeOK, UnendedAreLast
  <1>2. \A i \in DOMAIN db : db[i].session # r
    BY <1>1, SessionNumbers
  <1>3. {i \in DOMAIN db : db[i].session = r} = {}
    BY <1>2
  <1>. QED
    BY <1>3, FS_EmptySet DEF Saved

-----------------------------------------------------------------------------
(***************************************************************************)
(* What a step leaves of a session.                                        *)
(***************************************************************************)
LEMMA SessionTypes ==
    ASSUME CaptureInv, NEW s \in Sessions
    PROVE  /\ queue[s] \in Seq(Messages) /\ ws \in Seq(Messages)
           /\ delivered[s] \in Seq(Events) /\ Len(delivered[s]) \in Nat
           /\ book[s] \in Handlers /\ task[s] \in TaskStates
           /\ Saved(s) \in Nat /\ Taken(s) \in Nat
           /\ Len(book[s].records) \in Nat /\ Len(book[s].acc) \in Nat
           /\ Pending(s) \in Seq(Messages)
           /\ db \in Seq(StoredRows)
           /\ queue[s] \o << >> = queue[s]
  <1>1. /\ queue[s] \in Seq(Messages) /\ ws \in Seq(Messages)
        /\ delivered[s] \in Seq(Events) /\ book[s] \in Handlers /\ task[s] \in TaskStates
        /\ db \in Seq(StoredRows)
    BY DEF CaptureInv, TaskInv, TaskTypeOK, LoopInv, MessageTypeOK
  <1>2. /\ Saved(s) \in Nat /\ Len(delivered[s]) \in Nat
        /\ Len(book[s].records) \in Nat /\ Len(book[s].acc) \in Nat
    BY <1>1, SavedRows, HandlerFields, LenProperties
  <1>3. Taken(s) \in Nat
    BY <1>2 DEF Taken
  <1>4. queue[s] \o ws \in Seq(Messages) /\ queue[s] \o << >> = queue[s]
    BY <1>1, Concat, ConcatEmptySeq
  <1>. QED
    BY <1>1, <1>2, <1>3, <1>4 DEF Pending

\* The session capture() is connected to has been opened and has a task.
LEMMA CurrentSession ==
    ASSUME CaptureInv, Connected \/ session >= first
    PROVE  session \in Sessions /\ task[session] # "none"
  <1>1. session \in Sessions /\ session \in Nat
    BY SessionNumbers, CaptureAssumption
       DEF CaptureInv, LoopInv, LoopTypeOK, WaitedFor, Sessions, NoSession
  <1>. QED
    BY <1>1 DEF CaptureInv, TaskInv, OpenedTasks

\* Nothing happens to the session, or only that its task begins or ends.
LEMMA SessionFrame ==
    ASSUME NEW s \in Sessions, SessionInv(s),
           delivered'[s] = delivered[s], book'[s] = book[s], queue'[s] = queue[s],
           Saved(s)' = Saved(s), Pending(s)' = Pending(s),
           Live(s)' => Live(s),
           \A state \in {"none", "close", "done"} : task'[s] = state => task[s] = state,
           NothingMissing(s)' => NothingMissing(s),
           IsCurrent(s)' => IsCurrent(s)
    PROVE  SessionInv(s)'
  <1>1. Taken(s)' = Taken(s) /\ HasNone(s)' = HasNone(s)
    BY DEF Taken, HasNone
  <1>2. StreamInv(s)'
    BY DEF SessionInv, StreamInv
  <1>3. RowsInv(s)'
    <2>1. PICK rows \in Seq(Rows) :
            /\ Len(rows) = Saved(s)
            /\ HasRows(delivered[s], rows)
            /\ Live(s) => /\ Taken(s) <= Len(delivered[s])
                          /\ Made(SubSeq(delivered[s], 1, Taken(s)), rows, book[s])
      BY DEF SessionInv, RowsInv
    <2>. QED
      BY <1>1, <2>1 DEF RowsInv
  <1>4. QueueInv(s)'
    BY <1>1 DEF SessionInv, QueueInv
  <1>5. EndInv(s)'
    BY DEF SessionInv, EndInv, SavedAll
  <1>. QED
    BY <1>2, <1>3, <1>4, <1>5 DEF SessionInv

\* The session's task is not running.
LEMMA SessionIdle ==
    ASSUME NEW s \in Sessions, SessionInv(s),
           delivered'[s] = delivered[s], Saved(s)' = Saved(s),
           ~Live(s)', EndInv(s)'
    PROVE  SessionInv(s)'
  <1>1. StreamInv(s)'
    BY DEF SessionInv, StreamInv
  <1>2. RowsInv(s)'
    <2>1. PICK rows \in Seq(Rows) : Len(rows) = Saved(s) /\ HasRows(delivered[s], rows)
      BY DEF SessionInv, RowsInv
    <2>. QED
      BY <2>1 DEF RowsInv
  <1>3. QueueInv(s)'
    BY DEF QueueInv
  <1>. QED
    BY <1>1, <1>2, <1>3 DEF SessionInv

\* Its task has failed, or been cancelled, having saved some rows.
LEMMA SessionFailed ==
    ASSUME NEW s \in Sessions, SessionInv(s),
           delivered'[s] = delivered[s], task'[s] = "failed",
           NEW rows \in Seq(Rows), Len(rows) = Saved(s)', HasRows(delivered[s], rows)
    PROVE  SessionInv(s)'
  <1>1. StreamInv(s)'
    BY DEF SessionInv, StreamInv
  <1>2. ~Live(s)'
    BY DEF Live
  <1>3. RowsInv(s)'
    BY <1>2 DEF RowsInv
  <1>4. QueueInv(s)' /\ EndInv(s)'
    BY <1>2 DEF QueueInv, EndInv
  <1>. QED
    BY <1>1, <1>3, <1>4 DEF SessionInv

\* Steps that only move capture() from one await to another.
LEMMA QuietStep ==
    ASSUME CaptureInv, LogInv,
           UNCHANGED << session, ws, queue, delivered, taskVars >>,
           pc \in {"closePool", "exited"} => pc' \in {"closePool", "exited"},
           Connected' => Connected,
           pc' \in {"recv", "close", "exited"} \/ ws = << >>
    PROVE  LogInv'
  <1>1. BufferInv'
    BY DEF LogInv, BufferInv
  <1>2. ASSUME NEW s \in Sessions
        PROVE  SessionInv(s)'
    <2>1. SessionInv(s)
      BY DEF LogInv
    <2>2. /\ delivered'[s] = delivered[s] /\ book'[s] = book[s] /\ queue'[s] = queue[s]
          /\ task' = task
      BY DEF taskVars
    <2>3. Saved(s)' = Saved(s) /\ Pending(s)' = Pending(s) /\ (Live(s)' <=> Live(s))
      BY DEF Saved, Pending, Live, taskVars
    <2>4. NothingMissing(s)' => NothingMissing(s)
      BY <2>2 DEF NothingMissing, HasNone
    <2>5. IsCurrent(s)' => IsCurrent(s)
      BY DEF IsCurrent
    <2>. QED
      BY <2>1, <2>2, <2>3, <2>4, <2>5, SessionFrame
  <1>. QED
    BY <1>1, <1>2 DEF LogInv

-----------------------------------------------------------------------------
(***************************************************************************)
(* capture().                                                              *)
(***************************************************************************)

\* A session that is not the one connected, or connected to, keeps its queue.
LEMMA OtherSession ==
    ASSUME CaptureInv, LogInv, NEW s \in Sessions, s # session, s # session',
           delivered'[s] = delivered[s], queue'[s] = queue[s], UNCHANGED << book, task >>,
           Saved(s)' = Saved(s),
           pc \in {"closePool", "exited"} => pc' \in {"closePool", "exited"}
    PROVE  SessionInv(s)'
  <1>1. SessionInv(s)
    BY DEF LogInv
  <1>2. Pending(s)' = Pending(s) /\ (Live(s)' <=> Live(s)) /\ ~IsCurrent(s)'
    BY DEF Pending, Live, IsCurrent
  <1>3. NothingMissing(s)' => NothingMissing(s)
    BY DEF NothingMissing, HasNone
  <1>. QED
    BY <1>1, <1>2, <1>3, SessionFrame

\* A None after the last message: what is pending has all that is missing.
LEMMA NoneAppended ==
    ASSUME CaptureInv, LogInv, LoseSession, session \in Sessions, ws = << >>,
           pc \notin {"closePool", "exited"},
           UNCHANGED << session, delivered, taskVars >>
    PROVE  LogInv'
  <1>. DEFINE q == queue[session]
  <1>1. /\ queue' = [queue EXCEPT ![session] = Append(@, None)]
        /\ pc' = "connect" /\ ws' = << >>
        /\ UNCHANGED << delivered, book, task, db, session >>
        /\ queue \in [Sessions -> Seq(Messages)]
    BY DEF LoseSession, taskVars, CaptureInv, LoopInv, MessageTypeOK
  <1>2. BufferInv'
    BY <1>1 DEF BufferInv
  <1>3. \A s \in Sessions : Saved(s)' = Saved(s)
    BY <1>1 DEF Saved
  <1>4. ASSUME NEW s \in Sessions, s # session
        PROVE  SessionInv(s)'
    BY <1>1, <1>3, <1>4, OtherSession
  <1>5. SessionInv(session)'
    <2>. DEFINE s == session
                n == Taken(s)
                events == delivered[s]
    <2>1. /\ q \in Seq(Messages) /\ events \in Seq(Events) /\ n \in Nat /\ q \o << >> = q
          /\ s \in Sessions /\ SessionInv(s)
      BY SessionTypes DEF LogInv
    <2>2. /\ queue'[s] = Append(q, None) /\ Append(q, None) \in Seq(Messages)
          /\ Append(q, None) \o << >> = Append(q, None)
      <3>1. Append(q, None) \in Seq(Messages)
        BY <2>1, MessageTypes
      <3>. QED
        BY <1>1, <2>1, <3>1, ConcatEmptySeq
    <2>3. Pending(s) = q /\ Pending(s)' = Append(q, None)
      BY <1>1, <2>1, <2>2 DEF Pending
    <2>4. /\ (Live(s)' <=> Live(s)) /\ Taken(s)' = n /\ ~IsCurrent(s)'
          /\ Saved(s)' = Saved(s) /\ events' = events
      BY <1>1, <1>3 DEF Live, Taken, IsCurrent, Connected
    <2>5. NothingMissing(s)
      BY DEF NothingMissing
    <2>6. ~IsEvent(None) /\ None \in Messages /\ None.kind = "none"
      BY MessageTypes DEF IsEvent, None, Kinds
    <2>7. ASSUME Live(s)
          PROVE  /\ Follows(Append(q, None), n, events)
                 /\ AllThere(Append(q, None), n, events)
      <3>1. Follows(q, n, events) /\ AllThere(q, n, events)
        BY <2>1, <2>3, <2>5, <2>7 DEF SessionInv, QueueInv
      <3>. QED
        BY <2>1, <2>6, <3>1, OtherAppended
    <2>8. ASSUME Live(s)
          PROVE  /\ \A i, j \in DOMAIN Append(q, None) :
                       i < j /\ Append(q, None)[i].kind = "none"
                           => Append(q, None)[j].kind = "none"
                 /\ task[s] = "close" =>
                       \A i \in DOMAIN Append(q, None) : Append(q, None)[i].kind = "none"
      <3>1. /\ \A i, j \in DOMAIN q : i < j /\ q[i].kind = "none" => q[j].kind = "none"
            /\ task[s] = "close" => \A i \in DOMAIN q : q[i].kind = "none"
        BY <2>1, <2>8 DEF SessionInv, QueueInv
      <3>2. /\ DOMAIN Append(q, None) = 1..(Len(q) + 1) /\ DOMAIN q = 1..Len(q) /\ Len(q) \in Nat
            /\ \A i \in 1..Len(q) : Append(q, None)[i] = q[i]
            /\ Append(q, None)[Len(q) + 1] = None
        BY <2>1, <2>6
      <3>3. ASSUME NEW i \in 1..(Len(q) + 1)
            PROVE  i \in 1..Len(q) \/ (i = Len(q) + 1 /\ Append(q, None)[i].kind = "none")
        BY <2>6, <3>2
      <3>4. ASSUME NEW i \in 1..(Len(q) + 1), NEW j \in 1..Len(q), i < j
            PROVE  i \in 1..Len(q)
        BY <3>2, <3>4
      <3>. HIDE DEF q
      <3>. QED
        BY <3>1, <3>2, <3>3, <3>4
    <2>9. QueueInv(s)'
      BY <1>1, <2>2, <2>3, <2>4, <2>7, <2>8 DEF QueueInv
    <2>10. StreamInv(s)' /\ RowsInv(s)'
      BY <1>1, <2>1, <2>4 DEF SessionInv, StreamInv, RowsInv
    <2>11. EndInv(s)'
      <3>1. task'[s] # "none"
        BY <1>1, <2>1 DEF CaptureInv, TaskInv, OpenedTasks, LoopInv, LoopTypeOK, Sessions
      <3>2. task'[s] = "done" => SavedAll(s)'
        BY <1>1, <2>1, <2>4 DEF SessionInv, EndInv, SavedAll
      <3>. QED
        BY <2>4, <3>1, <3>2 DEF EndInv
    <2>. QED
      BY <2>9, <2>10, <2>11 DEF SessionInv
  <1>. QED
    BY <1>2, <1>4, <1>5 DEF LogInv

\* What is left in the buffer is lost, but nothing after it is handled.
LEMMA LeaveKeepsLog ==
    ASSUME CaptureInv, LogInv, NEW why, Leave(why), pc \in {"connect", "subscribe", "recv", "close"},
           UNCHANGED << session, queue, delivered, taskVars >>
    PROVE  LogInv'
  <1>1. /\ pc' = "closePool" /\ ws' = << >>
        /\ UNCHANGED << delivered, book, task, db, session, queue >>
    BY DEF Leave, taskVars
  <1>2. BufferInv'
    BY <1>1 DEF BufferInv
  <1>3. \A s \in Sessions : Saved(s)' = Saved(s)
    BY <1>1 DEF Saved
  <1>4. ASSUME NEW s \in Sessions, s # session
        PROVE  SessionInv(s)'
    BY <1>1, <1>3, <1>4, OtherSession
  <1>5. ASSUME NEW s \in Sessions, s = session
        PROVE  SessionInv(s)'
    <2>1. SessionInv(s) /\ ~IsCurrent(s)'
      BY <1>1 DEF LogInv, IsCurrent, Connected
    <2>2. CASE pc = "connect"
      <3>1. ws = << >>
        BY <2>2 DEF LogInv, BufferInv
      <3>2. /\ Pending(s)' = Pending(s) /\ (Live(s)' <=> Live(s))
            /\ NothingMissing(s)' => NothingMissing(s)
        BY <1>1, <2>2, <3>1 DEF Pending, Live, NothingMissing
      <3>. QED
        BY <1>1, <1>3, <2>1, <3>2, SessionFrame
    <2>3. CASE pc # "connect"
      <3>. DEFINE n == Taken(s)
                  events == delivered[s]
                  q == queue[s]
      <3>1. /\ q \in Seq(Messages) /\ events \in Seq(Events) /\ n \in Nat /\ ws \in Seq(Messages)
            /\ q \o << >> = q
        BY SessionTypes
      <3>2. /\ Pending(s) = q \o ws /\ Pending(s)' = q
            /\ (Live(s)' <=> Live(s)) /\ Taken(s)' = n /\ (HasNone(s)' <=> HasNone(s))
            /\ Saved(s)' = Saved(s)
        BY <1>1, <1>3, <1>5, <3>1 DEF Pending, Live, Taken, HasNone
      <3>3. IsCurrent(s)
        BY <1>5, <2>3 DEF IsCurrent, Connected
      <3>4. ASSUME Live(s)
            PROVE  Follows(q, n, events) /\ ~NothingMissing(s)'
        <4>1. Follows(q \o ws, n, events) /\ ~HasNone(s) /\ task[s] # "close"
          BY <2>1, <3>2, <3>3, <3>4 DEF SessionInv, QueueInv
        <4>2. Follows(q, n, events)
          BY <3>1, <4>1, FirstFollow
        <4>. QED
          BY <1>1, <3>2, <4>1, <4>2 DEF NothingMissing
      <3>5. QueueInv(s)'
        BY <1>1, <2>1, <3>2, <3>4 DEF QueueInv, SessionInv
      <3>6. StreamInv(s)' /\ RowsInv(s)' /\ EndInv(s)'
        BY <1>1, <2>1, <3>2 DEF SessionInv, StreamInv, RowsInv, EndInv, SavedAll
      <3>. QED
        BY <3>5, <3>6 DEF SessionInv
    <2>. QED
      BY <2>2, <2>3
  <1>. QED
    BY <1>2, <1>4, <1>5 DEF LogInv

\* A new session starts with nothing to handle.
LEMMA ConnectKeepsLog ==
    ASSUME CaptureInv, LogInv, Connect
    PROVE  LogInv'
  <1>. PICK new \in Sessions : new = session + 1
    BY CaptureAssumption, SessionNumbers
       DEF Connect, CaptureInv, LoopInv, LoopTypeOK, Sessions, NoSession
  <1>1. /\ new \in Sessions /\ session \in Nat /\ task[new] = "none" /\ session # new
        /\ \A s \in Sessions : s \in Nat
    BY SessionNumbers
       DEF CaptureInv, LoopInv, LoopTypeOK, TaskInv, OpenedTasks, Sessions, NoSession, Connect
  <1>2. /\ pc = "connect" /\ pc' = "subscribe" /\ session' = new
        /\ task' = [task EXCEPT ![new] = "acquire"] /\ task \in [Sessions -> TaskStates]
        /\ UNCHANGED << ws, delivered, queue, book, db >>
    BY DEF Connect, CaptureInv, TaskInv, TaskTypeOK
  <1>3. ws = << >>
    BY <1>2 DEF LogInv, BufferInv
  <1>4. BufferInv'
    BY <1>2, <1>3 DEF BufferInv
  <1>5. \A s \in Sessions : Saved(s)' = Saved(s)
    BY <1>2 DEF Saved
  <1>6. ASSUME NEW s \in Sessions, s # new
        PROVE  SessionInv(s)'
    <2>1. task'[s] = task[s] /\ SessionInv(s) /\ queue[s] \o << >> = queue[s]
      BY <1>2, <1>6, SessionTypes DEF LogInv
    <2>2. /\ Pending(s)' = Pending(s) /\ (Live(s)' <=> Live(s))
          /\ NothingMissing(s)' => NothingMissing(s)
          /\ ~IsCurrent(s)'
      <3>1. Pending(s)' = Pending(s)
        BY <1>2, <1>3, <1>6, <2>1 DEF Pending
      <3>2. (Live(s)' <=> Live(s)) /\ ~IsCurrent(s)'
        BY <1>2, <1>6, <2>1 DEF Live, IsCurrent
      <3>3. NothingMissing(s)
        BY <1>2 DEF NothingMissing
      <3>. QED
        BY <3>1, <3>2, <3>3
    <2>. QED
      BY <1>2, <1>5, <2>1, <2>2, SessionFrame
  <1>7. SessionInv(new)'
    <2>1. /\ delivered[new] = << >> /\ queue[new] = << >> /\ book[new] = NewHandler
          /\ Saved(new) = 0 /\ SessionInv(new) /\ task'[new] = "acquire"
      BY <1>1, <1>2 DEF LogInv, SessionInv, EndInv
    <2>2. /\ delivered'[new] = << >> /\ queue'[new] = << >> /\ book'[new] = NewHandler
          /\ Saved(new)' = 0
      BY <1>1, <1>2, <1>5, <2>1
    <2>3. Taken(new)' = 0 /\ Pending(new)' = << >>
      <3>1. Len(NewHandler.records) = 0 /\ Len(NewHandler.acc) = 0
        BY DEF NewHandler
      <3>2. << >> \o << >> = << >>
        BY <1>1, <2>1, SessionTypes
      <3>3. Taken(new)' = 0
        BY <2>2, <3>1 DEF Taken
      <3>4. Pending(new)' = << >>
        BY <1>2, <1>3, <2>2, <3>2 DEF Pending
      <3>. QED
        BY <3>3, <3>4
    <2>4. StreamInv(new)'
      BY <1>2, <2>1 DEF SessionInv, StreamInv
    <2>5. RowsInv(new)'
      <3>1. /\ << >> \in Seq(Rows) /\ Len(<< >>) = 0 /\ HasRows(<< >>, << >>)
            /\ Len(SubSeq(<< >>, 1, 0)) = 0
        BY NoEvents
      <3>2. Made(SubSeq(<< >>, 1, 0), << >>, NewHandler)
        BY <3>1 DEF Made
      <3>3. \E rows \in Seq(Rows) :
              /\ Len(rows) = 0 /\ HasRows(<< >>, rows)
              /\ 0 <= Len(<< >>) /\ Made(SubSeq(<< >>, 1, 0), rows, NewHandler)
        <4>. WITNESS << >> \in Seq(Rows)
        <4>. QED
          BY <3>1, <3>2
      <3>. QED
        BY <2>2, <2>3, <3>3 DEF RowsInv
    <2>6. QueueInv(new)'
      <3>1. Follows(<< >>, 0, << >>) /\ AllThere(<< >>, 0, << >>)
        BY DEF Follows, AllThere
      <3>2. ~HasNone(new)' /\ task'[new] # "close"
        BY <2>1, <2>2 DEF HasNone
      <3>3. \A i \in DOMAIN << >> : FALSE
        OBVIOUS
      <3>. QED
        BY <2>2, <2>3, <3>1, <3>2, <3>3 DEF QueueInv
    <2>7. EndInv(new)'
      BY <2>1 DEF EndInv
    <2>. QED
      BY <2>4, <2>5, <2>6, <2>7 DEF SessionInv
  <1>. QED
    BY <1>4, <1>6, <1>7 DEF LogInv

\* A message moves from the buffer to the queue.
LEMMA ReceiveKeepsLog ==
    ASSUME CaptureInv, LogInv, Receive
    PROVE  LogInv'
  <1>1. pc = "recv" /\ Connected /\ ws # << >>
    BY DEF Receive, Connected
  <1>2. CASE Ended(session)
    BY <1>1, <1>2, LeaveKeepsLog DEF Receive
  <1>3. CASE ~Ended(session)
    <2>. DEFINE m == Head(ws)
                q == queue[session]
    <2>1. /\ ws' = Tail(ws) /\ queue' = [queue EXCEPT ![session] = Append(q, m)]
          /\ UNCHANGED << pc, session, delivered, book, task, db >>
          /\ queue \in [Sessions -> Seq(Messages)] /\ session \in Sessions
          /\ q \in Seq(Messages) /\ ws \in Seq(Messages)
      BY <1>1, <1>3, CurrentSession, SessionTypes
         DEF Receive, taskVars, CaptureInv, LoopInv, MessageTypeOK
    <2>2. /\ m \in Messages /\ m = ws[1] /\ 1 \in DOMAIN ws
          /\ \A i \in DOMAIN ws' : i + 1 \in DOMAIN ws /\ ws'[i] = ws[i + 1]
      <3>1. /\ Len(ws) \in Nat /\ Len(ws) > 0 /\ DOMAIN ws = 1..Len(ws) /\ m = ws[1]
            /\ DOMAIN Tail(ws) = 1..(Len(ws) - 1)
            /\ \A i \in 1..(Len(ws) - 1) : Tail(ws)[i] = ws[i + 1]
        BY <1>1, <2>1, HeadTailProperties
      <3>. QED
        BY <2>1, <3>1
    <2>3. m.kind # "none" /\ BufferInv'
      <3>1. \A i \in DOMAIN ws : ws[i].kind # "none"
        BY DEF LogInv, BufferInv
      <3>. QED
        BY <1>1, <2>1, <2>2, <3>1 DEF BufferInv
    <2>4. \A s \in Sessions : Saved(s)' = Saved(s)
      BY <2>1 DEF Saved
    <2>5. ASSUME NEW s \in Sessions, s # session
          PROVE  SessionInv(s)'
      BY <1>1, <2>1, <2>4, <2>5, OtherSession
    <2>6. SessionInv(session)'
      <3>. DEFINE s == session
      <3>1. SessionInv(s) /\ IsCurrent(s) /\ queue'[s] = Append(q, m)
        BY <1>1, <2>1 DEF LogInv, IsCurrent
      <3>2. Pending(s)' = Pending(s)
        <4>1. Append(q, m) \o Tail(ws) = q \o ws
          BY <1>1, <2>1, Moved
        <4>. QED
          BY <2>1, <3>1, <4>1 DEF Pending
      <3>3. /\ (Live(s)' <=> Live(s)) /\ Taken(s)' = Taken(s) /\ (IsCurrent(s)' <=> IsCurrent(s))
            /\ NothingMissing(s)
        BY <1>1, <2>1, <2>4 DEF Live, Taken, IsCurrent, Connected, NothingMissing
      <3>4. ASSUME Live(s)
            PROVE  /\ ~HasNone(s)' /\ task'[s] # "close"
                   /\ \A i \in DOMAIN queue'[s] : queue'[s][i].kind # "none"
        <4>1. (\A i \in DOMAIN q : q[i].kind # "none") /\ task[s] # "close"
          BY <3>1, <3>4 DEF SessionInv, QueueInv, HasNone
        <4>2. /\ DOMAIN Append(q, m) = 1..(Len(q) + 1) /\ DOMAIN q = 1..Len(q) /\ Len(q) \in Nat
              /\ \A i \in 1..Len(q) : Append(q, m)[i] = q[i]
              /\ Append(q, m)[Len(q) + 1] = m
          BY <2>1, <2>2
        <4>3. \A i \in 1..(Len(q) + 1) : i \in 1..Len(q) \/ i = Len(q) + 1
          BY <4>2
        <4>4. \A i \in DOMAIN queue'[s] : queue'[s][i].kind # "none"
          <5>. HIDE DEF m, q
          <5>. QED
            BY <2>3, <3>1, <4>1, <4>2, <4>3
        <4>. QED
          BY <2>1, <4>1, <4>4 DEF HasNone
      <3>5. QueueInv(s)'
        BY <2>1, <3>1, <3>2, <3>3, <3>4 DEF QueueInv, SessionInv
      <3>6. StreamInv(s)' /\ RowsInv(s)' /\ EndInv(s)'
        <4>1. task'[s] = task[s] /\ task[s] # "none"
          BY <1>1, <2>1, CurrentSession
        <4>2. Saved(s)' = Saved(s)
          BY <2>1, <2>4
        <4>. QED
          BY <2>1, <3>1, <3>3, <4>1, <4>2 DEF SessionInv, StreamInv, RowsInv, EndInv, SavedAll
      <3>. QED
        BY <3>5, <3>6 DEF SessionInv
    <2>. QED
      BY <2>1, <2>3, <2>5, <2>6 DEF LogInv
  <1>. QED
    BY <1>2, <1>3

LEMMA LoopKeepsLog ==
    ASSUME CaptureInv, LogInv, CaptureStep
    PROVE  LogInv'
  <1>1. CASE Connect
    BY <1>1, ConnectKeepsLog
  <1>2. CASE Refused
    <2>1. pc = "connect" /\ ws = << >> /\ UNCHANGED << session, delivered, taskVars >>
      BY <1>2 DEF Refused, LogInv, BufferInv
    <2>2. CASE session >= first
      BY <1>2, <2>1, <2>2, CurrentSession, NoneAppended DEF Refused
    <2>3. CASE ~(session >= first)
      BY <1>2, <2>1, <2>3, LeaveKeepsLog DEF Refused
    <2>. QED
      BY <2>2, <2>3
  <1>3. CASE ConnectFails
    BY <1>3, LeaveKeepsLog DEF ConnectFails
  <1>4. CASE Subscribe
    <2>1. pc = "subscribe" /\ ws = << >> /\ UNCHANGED << session, delivered, taskVars >>
      BY <1>4 DEF Subscribe, LogInv, BufferInv
    <2>2. CASE wsOpen
      BY <1>4, <2>1, <2>2, QuietStep DEF Subscribe, Connected
    <2>3. CASE ~wsOpen
      BY <1>4, <2>1, <2>3, CurrentSession, NoneAppended DEF Subscribe, Connected
    <2>. QED
      BY <2>2, <2>3
  <1>5. CASE Receive
    BY <1>5, ReceiveKeepsLog
  <1>6. CASE ReceiveClosed
    BY <1>6, CurrentSession, NoneAppended DEF ReceiveClosed, Connected
  <1>7. CASE Timeout \/ Closed
    BY <1>7, QuietStep DEF Timeout, Closed, Connected, loopVars, wsVars
  <1>8. CASE StopConnecting \/ Gather
    <2>1. ws = << >>
      BY <1>8 DEF StopConnecting, Gather, LogInv, BufferInv
    <2>. QED
      BY <1>8, <2>1, QuietStep DEF StopConnecting, Gather, Connected, loopVars, wsVars
  <1>9. CASE ClosePool
    BY <1>9, QuietStep DEF ClosePool, Connected, loopVars, wsVars
  <1>. QED
    BY <1>1, <1>2, <1>3, <1>4, <1>5, <1>6, <1>7, <1>8, <1>9 DEF CaptureStep

-----------------------------------------------------------------------------
(***************************************************************************)
(* Signals, crashes, restarts, the exchange.                               *)
(***************************************************************************)

\* What a handler that is about to close saves are rows of the stream.
LEMMA ClosingRows ==
    ASSUME CaptureInv, LogInv, NEW s \in Sessions, Live(s)
    PROVE  \E rows \in Seq(Rows) :
             /\ Len(rows) = Saved(s) /\ HasRows(delivered[s], rows)
             /\ Taken(s) <= Len(delivered[s])
             /\ Made(SubSeq(delivered[s], 1, Taken(s)), rows, book[s])
             /\ book[s].records \in Seq(Rows)
             /\ rows \o book[s].records \in Seq(Rows)
             /\ Len(rows \o book[s].records) = Saved(s) + Len(book[s].records)
             /\ HasRows(delivered[s], rows \o book[s].records)
  <1>1. PICK rows \in Seq(Rows) :
          /\ Len(rows) = Saved(s) /\ HasRows(delivered[s], rows)
          /\ Taken(s) <= Len(delivered[s])
          /\ Made(SubSeq(delivered[s], 1, Taken(s)), rows, book[s])
    BY DEF LogInv, SessionInv, RowsInv
  <1>2. \A j \in DOMAIN delivered[s] : delivered[s][j].kind = "snap" <=> j = 1
    BY DEF LogInv, SessionInv, StreamInv
  <1>3. /\ rows \o book[s].records \in Seq(Rows)
        /\ HasRows(delivered[s], rows \o book[s].records)
    BY <1>1, <1>2, SessionTypes, MadeRows
  <1>4. book[s].records \in Seq(Rows)
    BY SessionTypes, HandlerFields
  <1>5. Len(rows \o book[s].records) = Len(rows) + Len(book[s].records)
    BY <1>4, ConcatProperties
  <1>. QED
    BY <1>1, <1>3, <1>4, <1>5

LEMMA InterruptGatherKeepsLog ==
    ASSUME CaptureInv, LogInv, InterruptGather
    PROVE  LogInv'
  <1>1. /\ pc = "gather" /\ pc' = "closePool" /\ ws = << >> /\ ws' = << >>
        /\ UNCHANGED << session, delivered, queue, book >>
        /\ task' = [s \in Sessions |->
                      IF s \in waitList /\ ~Ended(s) THEN "failed" ELSE task[s]]
        /\ \/ UNCHANGED db
           \/ /\ holder # NoSession /\ task[holder] = "close"
              /\ db' = db \o Tagged(holder, book[holder].records)
        /\ first..session \subseteq waitList
        /\ first \in Nat /\ session \in Nat
        /\ \A r \in Sessions : r \in Nat
    BY SessionNumbers
       DEF InterruptGather, wsVars, CaptureInv, LoopInv, WaitedFor, LoopTypeOK,
           LogInv, BufferInv, NoSession, Sessions
  <1>2. BufferInv'
    BY <1>1 DEF BufferInv
  <1>3. ASSUME NEW s \in Sessions
        PROVE  task'[s] \in {"none", "done", "failed"} /\ (Ended(s) => task'[s] = task[s])
               /\ (task'[s] = "none" => task[s] = "none")
               /\ (task'[s] = "done" => task[s] = "done")
    <2>1. s < first \/ s \in first..session \/ s > session
      BY <1>1
    <2>2. s < first => Ended(s)
      BY DEF CaptureInv, TaskInv, EarlierEnded
    <2>3. s > session => task[s] = "none"
      BY DEF CaptureInv, TaskInv, OpenedTasks
    <2>. QED
      BY <1>1, <2>1, <2>2, <2>3 DEF Ended
  <1>4. ASSUME NEW s \in Sessions, Saved(s)' = Saved(s)
        PROVE  SessionInv(s)'
    <2>1. SessionInv(s) /\ ~Live(s)' /\ ~IsCurrent(s)'
      BY <1>1, <1>3 DEF LogInv, Live, IsCurrent, Connected
    <2>2. EndInv(s)'
      BY <1>1, <1>3, <1>4, <2>1 DEF SessionInv, EndInv, SavedAll
    <2>. QED
      BY <1>1, <1>4, <2>1, <2>2, SessionIdle
  <1>5. CASE db' = db
    <2>1. \A s \in Sessions : Saved(s)' = Saved(s)
      BY <1>5 DEF Saved
    <2>. QED
      BY <1>2, <1>4, <2>1 DEF LogInv
  <1>6. CASE /\ holder # NoSession /\ task[holder] = "close"
             /\ db' = db \o Tagged(holder, book[holder].records)
    <2>1. PICK s \in Sessions : s = holder
      BY <1>6 DEF CaptureInv, TaskInv, TaskTypeOK
    <2>2. Live(s) /\ task[s] = "close" /\ SessionInv(s)
      BY <1>6, <2>1 DEF Live, LogInv
    <2>3. PICK rows \in Seq(Rows) :
            /\ book[s].records \in Seq(Rows)
            /\ rows \o book[s].records \in Seq(Rows)
            /\ Len(rows \o book[s].records) = Saved(s) + Len(book[s].records)
            /\ HasRows(delivered[s], rows \o book[s].records)
      BY <2>2, ClosingRows
    <2>4. /\ Saved(s)' = Saved(s) + Len(book[s].records)
          /\ \A r \in Sessions : r # s => Saved(r)' = Saved(r)
      BY <1>6, <2>1, <2>3, SessionTypes, SavedGrows
    <2>5. task'[s] = "failed"
      BY <1>3, <2>2
    <2>6. SessionInv(s)'
      BY <1>1, <2>2, <2>3, <2>4, <2>5, SessionFailed
    <2>7. \A r \in Sessions : r # s => SessionInv(r)'
      BY <1>4, <2>4
    <2>. QED
      BY <1>2, <2>6, <2>7 DEF LogInv
  <1>. QED
    BY <1>1, <1>5, <1>6

LEMMA RestartKeepsLog ==
    ASSUME CaptureInv, LogInv, Restart
    PROVE  LogInv'
  <1>1. /\ pc' = "connect" /\ ws' = << >> /\ queue' = [s \in Sessions |-> << >>]
        /\ task' = [s \in Sessions |->
                      IF s > session \/ task[s] = "done" THEN task[s] ELSE "failed"]
        /\ UNCHANGED << session, book, db, delivered >>
    BY DEF Restart
  <1>2. BufferInv'
    BY <1>1 DEF BufferInv
  <1>3. ASSUME NEW s \in Sessions
        PROVE  SessionInv(s)'
    <2>1. SessionInv(s) /\ Saved(s)' = Saved(s) /\ ~IsCurrent(s)'
      BY <1>1 DEF LogInv, Saved, IsCurrent, Connected
    <2>2. task'[s] \in {"none", "done", "failed"} /\ (task'[s] # "failed" => task'[s] = task[s])
      BY <1>1 DEF CaptureInv, TaskInv, OpenedTasks
    <2>3. ~Live(s)' /\ EndInv(s)'
      BY <1>1, <2>1, <2>2 DEF Live, SessionInv, EndInv, SavedAll
    <2>. QED
      BY <1>1, <2>1, <2>3, SessionIdle
  <1>. QED
    BY <1>2, <1>3 DEF LogInv

\* The exchange's messages go to the session capture() is connected to.
LEMMA DeliverFrame ==
    ASSUME CaptureInv, LogInv, NEW m \in Messages, m.kind # "none", Deliver(m), Subscribed,
           \A s \in Sessions : s # session => delivered'[s] = delivered[s]
    PROVE  /\ BufferInv'
           /\ \A s \in Sessions : s # session => SessionInv(s)'
           /\ \A s \in Sessions : s = session =>
                 /\ SessionInv(s) /\ IsCurrent(s) /\ IsCurrent(s)' /\ NothingMissing(s)
                 /\ task[s] \notin {"none", "done"} /\ task'[s] = task[s]
                 /\ (Live(s)' <=> Live(s)) /\ Taken(s)' = Taken(s) /\ Saved(s)' = Saved(s)
                 /\ Pending(s)' = Append(Pending(s), m)
                 /\ queue'[s] = queue[s] /\ book'[s] = book[s]
  <1>1. /\ pc \in {"recv", "close"} /\ pc' = pc /\ Connected
        /\ ws' = Append(ws, m) /\ UNCHANGED << session, queue, task, book, db >>
        /\ ws \in Seq(Messages)
    BY DEF Subscribed, Deliver, Connected, loopVars, taskVars, CaptureInv, LoopInv, MessageTypeOK
  <1>2. BufferInv'
    <2>1. \A i \in DOMAIN ws : ws[i].kind # "none"
      BY DEF LogInv, BufferInv
    <2>2. /\ DOMAIN Append(ws, m) = 1..(Len(ws) + 1) /\ DOMAIN ws = 1..Len(ws) /\ Len(ws) \in Nat
          /\ \A i \in 1..Len(ws) : Append(ws, m)[i] = ws[i]
          /\ Append(ws, m)[Len(ws) + 1] = m
      BY <1>1
    <2>3. \A i \in 1..(Len(ws) + 1) : i \in 1..Len(ws) \/ i = Len(ws) + 1
      BY <2>2
    <2>4. \A i \in DOMAIN ws' : ws'[i].kind # "none"
      BY <1>1, <2>1, <2>2, <2>3
    <2>. QED
      BY <1>1, <2>4 DEF BufferInv
  <1>3. \A s \in Sessions : Saved(s)' = Saved(s)
    BY <1>1 DEF Saved
  <1>4. ASSUME NEW s \in Sessions, s # session
        PROVE  SessionInv(s)'
    BY <1>1, <1>3, <1>4, OtherSession
  <1>5. ASSUME NEW s \in Sessions, s = session
        PROVE  /\ SessionInv(s) /\ IsCurrent(s) /\ IsCurrent(s)' /\ NothingMissing(s)
               /\ task[s] \notin {"none", "done"}
               /\ (Live(s)' <=> Live(s)) /\ Taken(s)' = Taken(s)
               /\ Pending(s)' = Append(Pending(s), m)
    <2>1. SessionInv(s) /\ IsCurrent(s) /\ IsCurrent(s)' /\ NothingMissing(s)
      BY <1>1, <1>5 DEF LogInv, IsCurrent, Connected, NothingMissing
    <2>2. task[s] # "none" /\ task[s] # "done"
      BY <1>1, <1>5, <2>1, CurrentSession DEF SessionInv, EndInv
    <2>3. (Live(s)' <=> Live(s)) /\ Taken(s)' = Taken(s)
      BY <1>1, <1>3 DEF Live, Taken
    <2>4. queue[s] \o Append(ws, m) = Append(queue[s] \o ws, m)
      <3>. DEFINE q == queue[s]
      <3>1. q \in Seq(Messages) /\ ws \in Seq(Messages)
        BY SessionTypes
      <3>. HIDE DEF q
      <3>2. q \o Append(ws, m) = Append(q \o ws, m)
        BY <3>1, Arrived
      <3>. QED
        BY <3>2 DEF q
    <2>5. Pending(s)' = Append(Pending(s), m)
      BY <1>1, <1>5, <2>4 DEF Pending
    <2>. QED
      BY <2>1, <2>2, <2>3, <2>5
  <1>. QED
    BY <1>1, <1>2, <1>3, <1>4, <1>5

LEMMA DeliverNoticeKeepsLog ==
    ASSUME CaptureInv, LogInv, DeliverNotice
    PROVE  LogInv'
  <1>1. PICK m \in Messages : Deliver(m) /\ m.kind \in {"restart", "error"}
    BY MessageTypes DEF DeliverNotice
  <1>2. Subscribed /\ delivered' = delivered
    BY DEF DeliverNotice
  <1>3. m.kind # "none" /\ ~IsEvent(m)
    BY <1>1 DEF IsEvent, Kinds
  <1>4. ASSUME NEW s \in Sessions, s = session
        PROVE  SessionInv(s)'
    <2>1. /\ SessionInv(s) /\ IsCurrent(s) /\ IsCurrent(s)' /\ NothingMissing(s)
          /\ task[s] \notin {"none", "done"} /\ task'[s] = task[s]
          /\ (Live(s)' <=> Live(s)) /\ Taken(s)' = Taken(s) /\ Saved(s)' = Saved(s)
          /\ Pending(s)' = Append(Pending(s), m)
          /\ queue'[s] = queue[s] /\ book'[s] = book[s]
      BY <1>1, <1>2, <1>3, <1>4, DeliverFrame
    <2>2. ASSUME Live(s)
          PROVE  /\ Follows(Pending(s)', Taken(s), delivered[s])
                 /\ AllThere(Pending(s)', Taken(s), delivered[s])
      <3>1. /\ Follows(Pending(s), Taken(s), delivered[s])
            /\ AllThere(Pending(s), Taken(s), delivered[s])
        BY <2>1, <2>2 DEF SessionInv, QueueInv
      <3>2. /\ Pending(s) \in Seq(Messages) /\ Taken(s) \in Nat
            /\ delivered[s] \in Seq(Events)
        BY SessionTypes
      <3>3. /\ Follows(Append(Pending(s), m), Taken(s), delivered[s])
            /\ AllThere(Append(Pending(s), m), Taken(s), delivered[s])
        BY <1>3, <3>1, <3>2, OtherAppended
      <3>. QED
        BY <2>1, <3>3
    <2>3. HasNone(s)' <=> HasNone(s)
      BY <2>1 DEF HasNone
    <2>4. QueueInv(s)'
      BY <1>2, <2>1, <2>2, <2>3 DEF SessionInv, QueueInv
    <2>5. StreamInv(s)' /\ RowsInv(s)' /\ EndInv(s)'
      BY <1>2, <2>1 DEF SessionInv, StreamInv, RowsInv, EndInv
    <2>. QED
      BY <2>4, <2>5 DEF SessionInv
  <1>. QED
    BY <1>1, <1>2, <1>3, <1>4, DeliverFrame DEF LogInv

\* One more event of the stream.
LEMMA StreamGrows ==
    ASSUME NEW events \in Seq(Events), HasLastEnd(events),
           \A j \in DOMAIN events :
              events[j].n = j /\ (events[j].kind = "snap" <=> j = 1),
           NEW e \in Events, e.n = Len(events) + 1,
           e.kind = "snap" <=> Len(events) + 1 = 1
    PROVE  /\ HasLastEnd(Append(events, e))
           /\ \A j \in DOMAIN Append(events, e) :
                 /\ Append(events, e)[j].n = j
                 /\ (Append(events, e)[j].kind = "snap" <=> j = 1)
           /\ \A rows \in Seq(Rows) :
                 HasRows(events, rows) => HasRows(Append(events, e), rows)
  <1>. DEFINE longer == Append(events, e)
  <1>1. /\ DOMAIN events = 1..Len(events) /\ Len(events) \in Nat
        /\ DOMAIN longer = 1..(Len(events) + 1)
        /\ \A i \in 1..Len(events) : longer[i] = events[i]
        /\ longer[Len(events) + 1] = e
        /\ e.kind \in Kinds /\ e.rts \in Nat
        /\ EpisodeEnds(events) \subseteq 1..Len(events)
    <2>1. e.kind \in Kinds /\ e.rts \in Nat
      BY DEF Events
    <2>2. /\ DOMAIN events = 1..Len(events) /\ Len(events) \in Nat
          /\ EpisodeEnds(events) \subseteq 1..Len(events)
      BY EndsArePositions
    <2>3. /\ DOMAIN longer = 1..(Len(events) + 1)
          /\ \A i \in 1..Len(events) : longer[i] = events[i]
          /\ longer[Len(events) + 1] = e
      OBVIOUS
    <2>. QED
      BY <2>1, <2>2, <2>3
  <1>2. \A i \in 1..(Len(events) + 1) : i \in 1..Len(events) \/ i = Len(events) + 1
    BY <1>1
  <1>3. \A j \in DOMAIN longer : longer[j].n = j /\ (longer[j].kind = "snap" <=> j = 1)
    <2>. HIDE DEF longer
    <2>. QED
      BY <1>1, <1>2
  <1>4. CASE Len(events) = 0
    <2>. DEFINE h == [started |-> FALSE, acc |-> << >>, rts |-> e.rts, records |-> << >>]
    <2>1. longer \in Seq(Events) /\ Len(longer) = 1 /\ longer[1] = e /\ e.kind = "snap"
      BY <1>1, <1>4
    <2>2. \A i \in 1..Len(longer) : longer[i].kind = "snap" /\ longer[i].rts = e.rts
      BY <2>1
    <2>3. h.acc = << >> /\ h.rts = e.rts /\ h.started = FALSE
      OBVIOUS
    <2>. HIDE DEF longer, h
    <2>4. Accumulates(longer, Stamped(longer, e.rts), h)
      <3>. DEFINE ts == e.rts
      <3>1. /\ ts \in Nat /\ h.rts = ts /\ Len(longer) > 0 /\ longer \in Seq(Events)
            /\ \A i \in 1..Len(longer) : longer[i].kind = "snap" /\ longer[i].rts = ts
        BY <1>1, <2>1, <2>2, <2>3
      <3>. HIDE DEF ts
      <3>2. Accumulates(longer, Stamped(longer, ts), h)
        BY <2>3, <3>1, SnapshotAccumulates
      <3>. QED
        BY <3>2 DEF ts
    <2>5. HasLastEnd(longer)
      BY <2>4, AccumulatesSame
    <2>6. ASSUME NEW rows \in Seq(Rows), HasRows(events, rows)
          PROVE  HasRows(longer, rows)
      <3>1. EpisodeEnds(events) = {}
        BY <1>1, <1>4
      <3>2. Len(rows) = 0
        BY <2>6, <3>1 DEF HasRows
      <3>. QED
        BY <3>2 DEF HasRows
    <2>. QED
      BY <1>3, <2>5, <2>6 DEF longer
  <1>5. CASE Len(events) > 0
    <2>1. e.kind \in {"add", "del"}
      BY <1>1, <1>5 DEF Kinds
    <2>2. \/ EpisodeEnds(longer) = EpisodeEnds(events)
          \/ EpisodeEnds(longer) = EpisodeEnds(events) \union {Len(events)}
      BY <1>5, <2>1, EndsAfterEvent
    <2>3. HasLastEnd(longer)
      <3>1. CASE EpisodeEnds(longer) = EpisodeEnds(events)
        BY <3>1 DEF HasLastEnd
      <3>2. CASE EpisodeEnds(longer) = EpisodeEnds(events) \union {Len(events)}
        <4>1. /\ Len(events) \in EpisodeEnds(longer)
              /\ \A j \in EpisodeEnds(longer) : j <= Len(events)
          BY <1>1, <3>2
        <4>. QED
          BY <4>1 DEF HasLastEnd
      <3>. QED
        BY <2>2, <3>1, <3>2
    <2>4. \A rows \in Seq(Rows) : HasRows(events, rows) => HasRows(longer, rows)
      BY <1>5, <2>1, RowsStay
    <2>. QED
      BY <1>3, <2>3, <2>4 DEF longer
  <1>. QED
    BY <1>1, <1>4, <1>5

LEMMA DeliverEventKeepsLog ==
    ASSUME CaptureInv, LogInv, NEW kind \in Kinds, DeliverEvent(kind)
    PROVE  LogInv'
  <1>. PICK s \in Sessions : s = session
    BY CurrentSession DEF DeliverEvent, Subscribed, Connected
  <1>. DEFINE events == delivered[s]
              e == [n |-> Len(events) + 1, kind |-> kind, rts |-> Len(events) + 1]
              n == Taken(s)
  <1>1. /\ events \in Seq(Events) /\ Len(events) \in Nat /\ n \in Nat
        /\ Pending(s) \in Seq(Messages)
        /\ delivered \in [Sessions -> Seq(Events)]
    BY SessionTypes DEF CaptureInv, LoopInv, MessageTypeOK
  <1>2. /\ Subscribed /\ Deliver(e) /\ delivered' = [delivered EXCEPT ![s] = Append(events, e)]
        /\ kind = "snap" <=> Len(events) + 1 = 1
    BY DEF DeliverEvent
  <1>3. /\ e \in Events /\ e \in Messages /\ e.kind # "none" /\ IsEvent(e)
        /\ e.n = Len(events) + 1 /\ e.kind = kind
    BY <1>1 DEF Events, Messages, IsEvent, Kinds
  <1>. HIDE DEF e
  <1>4. /\ delivered'[s] = Append(events, e)
        /\ \A r \in Sessions : r # session => delivered'[r] = delivered[r]
    BY <1>1, <1>2
  <1>5. /\ BufferInv' /\ \A r \in Sessions : r # s => SessionInv(r)'
        /\ SessionInv(s) /\ IsCurrent(s) /\ IsCurrent(s)' /\ NothingMissing(s)
        /\ task[s] \notin {"none", "done"} /\ task'[s] = task[s]
        /\ (Live(s)' <=> Live(s)) /\ Taken(s)' = n /\ Saved(s)' = Saved(s)
        /\ Pending(s)' = Append(Pending(s), e)
        /\ queue'[s] = queue[s] /\ book'[s] = book[s]
    BY <1>2, <1>3, <1>4, DeliverFrame
  <1>6. /\ HasLastEnd(Append(events, e))
        /\ \A j \in DOMAIN Append(events, e) :
              /\ Append(events, e)[j].n = j
              /\ (Append(events, e)[j].kind = "snap" <=> j = 1)
        /\ \A rows \in Seq(Rows) : HasRows(events, rows) => HasRows(Append(events, e), rows)
    <2>1. /\ HasLastEnd(events)
          /\ \A j \in DOMAIN events : events[j].n = j /\ (events[j].kind = "snap" <=> j = 1)
      BY <1>5 DEF SessionInv, StreamInv
    <2>. HIDE DEF events
    <2>. QED
      BY <1>1, <1>2, <1>3, <2>1, StreamGrows
  <1>7. StreamInv(s)'
    BY <1>4, <1>6 DEF StreamInv
  <1>8. PICK rows \in Seq(Rows) :
          /\ Len(rows) = Saved(s) /\ HasRows(events, rows)
          /\ Live(s) => n <= Len(events) /\ Made(SubSeq(events, 1, n), rows, book[s])
    BY <1>5 DEF SessionInv, RowsInv
  <1>9. RowsInv(s)'
    <2>1. ASSUME Live(s)
          PROVE  /\ n <= Len(Append(events, e))
                 /\ Made(SubSeq(Append(events, e), 1, n), rows, book[s])
      <3>1. Len(Append(events, e)) = Len(events) + 1 /\ n <= Len(events)
        BY <1>1, <1>3, <1>8, <2>1
      <3>2. SubSeq(Append(events, e), 1, n) = SubSeq(events, 1, n)
        <4>1. \A i \in 1..n : Append(events, e)[i] = events[i]
          BY <1>1, <1>3, <3>1
        <4>2. /\ Append(events, e) \in Seq(Events) /\ n <= Len(Append(events, e))
          BY <1>1, <1>3, <3>1
        <4>. DEFINE a == SubSeq(Append(events, e), 1, n)
                    b == SubSeq(events, 1, n)
        <4>3. /\ a \in Seq(Events) /\ Len(a) = n
              /\ \A i \in 1..n : a[i] = Append(events, e)[i]
          BY <1>1, <4>2, FirstEvents
        <4>4. /\ b \in Seq(Events) /\ Len(b) = n /\ \A i \in 1..n : b[i] = events[i]
          BY <1>1, <3>1, FirstEvents
        <4>. HIDE DEF a, b
        <4>5. a = b
          <5>1. Len(a) = Len(b) /\ \A i \in 1..Len(a) : a[i] = b[i]
            BY <4>1, <4>3, <4>4
          <5>. QED
            BY <4>3, <4>4, <5>1, SeqEqual
        <4>. QED
          BY <4>5 DEF a, b
      <3>3. n <= Len(Append(events, e))
        BY <1>1, <3>1
      <3>. QED
        BY <1>8, <2>1, <3>2, <3>3
    <2>2. HasRows(Append(events, e), rows)
      BY <1>6, <1>8
    <2>. QED
      BY <1>4, <1>5, <1>8, <2>1, <2>2 DEF RowsInv
  <1>10. QueueInv(s)'
    <2>1. ASSUME Live(s)
          PROVE  /\ Follows(Append(Pending(s), e), n, Append(events, e))
                 /\ AllThere(Append(Pending(s), e), n, Append(events, e))
      <3>1. Follows(Pending(s), n, events) /\ AllThere(Pending(s), n, events)
        BY <1>5, <2>1 DEF SessionInv, QueueInv
      <3>2. n <= Len(events)
        BY <1>8, <2>1
      <3>. DEFINE messages == Pending(s)
      <3>. HIDE DEF events, n, messages
      <3>3. messages \in Seq(Messages)
        BY <1>1 DEF messages
      <3>4. Follows(messages, n, events) /\ AllThere(messages, n, events)
        BY <3>1 DEF messages
      <3>5. /\ Follows(Append(messages, e), n, Append(events, e))
            /\ AllThere(Append(messages, e), n, Append(events, e))
        BY <1>1, <1>3, <3>2, <3>3, <3>4, NextAppended
      <3>. QED
        BY <3>5 DEF messages
    <2>2. HasNone(s)' <=> HasNone(s)
      BY <1>5 DEF HasNone
    <2>. QED
      BY <1>4, <1>5, <2>1, <2>2 DEF SessionInv, QueueInv
  <1>11. EndInv(s)'
    BY <1>5 DEF EndInv
  <1>. QED
    BY <1>5, <1>7, <1>9, <1>10, <1>11 DEF LogInv, SessionInv

LEMMA EnvironmentKeepsLog ==
    ASSUME CaptureInv, LogInv, Environment
    PROVE  LogInv'
  <1>1. CASE InterruptReceive
    BY <1>1, QuietStep DEF InterruptReceive, Connected, wsVars
  <1>2. CASE InterruptElsewhere
    BY <1>2, LeaveKeepsLog DEF InterruptElsewhere
  <1>3. CASE InterruptGather
    BY <1>3, InterruptGatherKeepsLog
  <1>4. CASE InterruptClosePool \/ Crash
    BY <1>4, QuietStep DEF InterruptClosePool, Crash, Connected, wsVars
  <1>5. CASE Restart
    BY <1>5, RestartKeepsLog
  <1>6. CASE \E kind \in Kinds : DeliverEvent(kind)
    BY <1>6, DeliverEventKeepsLog
  <1>7. CASE DeliverNotice
    BY <1>7, DeliverNoticeKeepsLog
  <1>8. CASE ExchangeCloses
    <2>1. pc \in {"recv", "close", "exited"} \/ ws = << >>
      BY DEF LogInv, BufferInv
    <2>. QED
      BY <1>8, <2>1, QuietStep DEF ExchangeCloses, Connected, loopVars
  <1>. QED
    BY <1>1, <1>2, <1>3, <1>4, <1>5, <1>6, <1>7, <1>8 DEF Environment

-----------------------------------------------------------------------------
(***************************************************************************)
(* process_messages().                                                     *)
(***************************************************************************)

\* A handler's step is its session's own.
LEMMA HandlerFrame ==
    ASSUME CaptureInv, LogInv, NEW s \in Sessions,
           UNCHANGED << pc, loopVars, ws, delivered >>,
           \A r \in Sessions : r # s =>
               /\ queue'[r] = queue[r] /\ task'[r] = task[r] /\ book'[r] = book[r]
               /\ Saved(r)' = Saved(r),
           SessionInv(s)'
    PROVE  LogInv'
  <1>1. UNCHANGED << pc, session, ws, delivered >>
    BY DEF loopVars
  <1>2. BufferInv'
    BY <1>1 DEF LogInv, BufferInv
  <1>3. ASSUME NEW r \in Sessions, r # s
        PROVE  SessionInv(r)'
    <2>1. SessionInv(r)
      BY DEF LogInv
    <2>2. /\ Pending(r)' = Pending(r) /\ (Live(r)' <=> Live(r))
          /\ (IsCurrent(r)' => IsCurrent(r))
      BY <1>1, <1>3 DEF Pending, Live, IsCurrent, Connected
    <2>3. NothingMissing(r)' => NothingMissing(r)
      BY <1>1, <1>3 DEF NothingMissing, HasNone
    <2>. QED
      BY <1>1, <1>3, <2>1, <2>2, <2>3, SessionFrame
  <1>. QED
    BY <1>2, <1>3 DEF LogInv

LEMMA AcquireKeepsLog ==
    ASSUME CaptureInv, LogInv, NEW s \in Sessions, Acquire(s)
    PROVE  LogInv'
  <1>1. /\ UNCHANGED << pc, loopVars, ws, delivered, session, queue, book, db >>
        /\ task[s] = "acquire" /\ task' = [task EXCEPT ![s] = "run"]
        /\ task \in [Sessions -> TaskStates]
    BY DEF Acquire, wsVars, loopVars, CaptureInv, TaskInv, TaskTypeOK
  <1>2. \A r \in Sessions : Saved(r)' = Saved(r)
    BY <1>1 DEF Saved
  <1>3. SessionInv(s)'
    <2>1. SessionInv(s) /\ task'[s] = "run"
      BY <1>1 DEF LogInv
    <2>2. /\ Pending(s)' = Pending(s) /\ Live(s)
          /\ (IsCurrent(s)' => IsCurrent(s))
      BY <1>1 DEF Pending, Live, IsCurrent, Connected
    <2>3. NothingMissing(s)' => NothingMissing(s)
      BY <1>1, <2>1 DEF NothingMissing, HasNone
    <2>. QED
      BY <1>1, <1>2, <2>1, <2>2, <2>3, SessionFrame
  <1>. QED
    BY <1>1, <1>2, <1>3, HandlerFrame

\* The first message of a queue is the first one pending.
LEMMA FirstPending ==
    ASSUME CaptureInv, NEW s \in Sessions, queue[s] # << >>
    PROVE  /\ Pending(s) # << >> /\ Head(Pending(s)) = Head(queue[s])
           /\ Tail(Pending(s)) = IF s = session THEN Tail(queue[s]) \o ws ELSE Tail(queue[s])
           /\ Head(queue[s]) \in Messages /\ Tail(queue[s]) \in Seq(Messages)
           /\ 1 \in DOMAIN queue[s] /\ queue[s][1] = Head(queue[s])
           /\ \A i \in DOMAIN Tail(queue[s]) :
                 /\ i \in Nat /\ i + 1 \in DOMAIN queue[s]
                 /\ Tail(queue[s])[i] = queue[s][i + 1]
  <1>. DEFINE q == queue[s]
              m == Head(q)
              rest == Tail(q)
  <1>1. q \in Seq(Messages) /\ ws \in Seq(Messages)
    BY SessionTypes
  <1>2. /\ m \in Messages /\ rest \in Seq(Messages) /\ m = q[1]
        /\ Len(q) \in Nat /\ Len(q) > 0 /\ DOMAIN q = 1..Len(q)
        /\ DOMAIN rest = 1..(Len(q) - 1)
        /\ \A i \in 1..(Len(q) - 1) : rest[i] = q[i + 1]
    BY <1>1, HeadTailProperties
  <1>3. \A i \in DOMAIN rest : i \in Nat /\ i + 1 \in DOMAIN q /\ rest[i] = q[i + 1]
    BY <1>2
  <1>4. /\ q \o ws # << >> /\ Head(q \o ws) = m /\ Tail(q \o ws) = rest \o ws
    <2>1. q = << m >> \o rest
      BY <1>1, HeadTailProperties
    <2>. HIDE DEF q, m, rest
    <2>2. << m >> \in Seq(Messages) /\ rest \o ws \in Seq(Messages)
      BY <1>1, <1>2, Concat
    <2>3. q \o ws = << m >> \o (rest \o ws)
      BY <1>1, <1>2, <2>1, <2>2, ConcatAssociative
    <2>. DEFINE b == rest \o ws
    <2>. HIDE DEF b
    <2>4. /\ << m >> \o b # << >> /\ Head(<< m >> \o b) = m /\ Tail(<< m >> \o b) = b
      BY <1>2, <2>2 DEF b
    <2>. QED
      BY <2>3, <2>4 DEF b
  <1>5. /\ Pending(s) # << >> /\ Head(Pending(s)) = m
        /\ Tail(Pending(s)) = IF s = session THEN rest \o ws ELSE rest
    BY <1>4 DEF Pending
  <1>6. 1 \in DOMAIN q
    BY <1>2
  <1>. QED
    BY <1>2, <1>3, <1>5, <1>6

\* The queue after a message has been taken from it.
LEMMA TakesFrom ==
    ASSUME CaptureInv, LogInv, NEW s \in Sessions, NEW m, Takes(s, m),
           UNCHANGED << session, ws, delivered >>
    PROVE  /\ Live(s) /\ task[s] = "run" /\ SessionInv(s) /\ pc # "exited"
           /\ m = Head(Pending(s)) /\ m \in Messages /\ m = Head(queue[s])
           /\ Pending(s) # << >> /\ Pending(s)' = Tail(Pending(s))
           /\ HasNone(s)' => HasNone(s)
           /\ m.kind = "none" => HasNone(s)
           /\ \A r \in Sessions : r # s => queue'[r] = queue[r]
           /\ \A i, j \in DOMAIN queue'[s] :
                 i < j /\ queue'[s][i].kind = "none" => queue'[s][j].kind = "none"
           /\ m.kind = "none" => \A i \in DOMAIN queue'[s] : queue'[s][i].kind = "none"
  <1>1. /\ queue[s] # << >> /\ m = Head(queue[s]) /\ task[s] = "run" /\ pc # "exited"
        /\ queue'[s] = Tail(queue[s]) /\ \A r \in Sessions : r # s => queue'[r] = queue[r]
    BY DEF Takes, CaptureInv, LoopInv, MessageTypeOK
  <1>2. Live(s) /\ SessionInv(s)
    BY <1>1 DEF Live, LogInv
  <1>3. /\ Pending(s) # << >> /\ Head(Pending(s)) = m /\ m \in Messages
        /\ Tail(Pending(s)) = IF s = session THEN queue'[s] \o ws ELSE queue'[s]
        /\ 1 \in DOMAIN queue[s] /\ queue[s][1] = m
        /\ \A i \in DOMAIN queue'[s] :
              i \in Nat /\ i + 1 \in DOMAIN queue[s] /\ queue'[s][i] = queue[s][i + 1]
    BY <1>1, FirstPending
  <1>4. Pending(s)' = Tail(Pending(s))
    BY <1>3 DEF Pending
  <1>5. \A i, j \in DOMAIN queue[s] :
           i < j /\ queue[s][i].kind = "none" => queue[s][j].kind = "none"
    BY <1>2 DEF SessionInv, QueueInv
  <1>6. ASSUME NEW i \in DOMAIN queue'[s], NEW j \in DOMAIN queue'[s], i < j,
               queue'[s][i].kind = "none"
        PROVE  queue'[s][j].kind = "none"
    <2>1. i + 1 < j + 1
      BY <1>3, <1>6
    <2>. QED
      BY <1>3, <1>5, <1>6, <2>1
  <1>7. ASSUME m.kind = "none", NEW i \in DOMAIN queue'[s]
        PROVE  queue'[s][i].kind = "none"
    <2>1. 1 < i + 1
      <3>1. i # 0
        <4>1. queue[s] \in Seq(Messages) /\ Len(queue[s]) \in Nat
          BY SessionTypes
        <4>2. DOMAIN Tail(queue[s]) = 1..(Len(queue[s]) - 1)
          BY <1>1, <4>1, HeadTailProperties
        <4>. QED
          BY <1>1, <1>7, <4>2
      <3>. QED
        BY <1>3, <3>1
    <2>. QED
      BY <1>3, <1>5, <1>7, <2>1
  <1>8. HasNone(s)' => HasNone(s)
    BY <1>3 DEF HasNone
  <1>9. m.kind = "none" => HasNone(s)
    BY <1>3 DEF HasNone
  <1>. QED
    BY <1>1, <1>2, <1>3, <1>4, <1>6, <1>7, <1>8, <1>9

(***************************************************************************)
(* data() is given the next event of the stream: what it copies follows    *)
(* the rows saved, and what it keeps follows what it copies.               *)
(***************************************************************************)
LEMMA EventTaken ==
    ASSUME CaptureInv, LogInv, NEW s \in Sessions, NEW m, Takes(s, m), IsEvent(m),
           UNCHANGED << session, ws, delivered >>
    PROVE  LET h == Given(book[s], m)
               n == Taken(s)
               events == delivered[s]
           IN  /\ n + 1 <= Len(events)
               /\ Follows(Pending(s)', n + 1, events)
               /\ NothingMissing(s) => AllThere(Pending(s)', n + 1, events)
               /\ Len(h.records) + Len(h.acc) = Len(book[s].records) + Len(book[s].acc) + 1
               /\ Len(Copied(h)) + Len(Kept(h).records) = Len(h.records)
               /\ Len(Copied(h)) \in Nat /\ Copied(h) \in Seq(Rows)
               /\ h \in Handlers /\ Kept(h) \in Handlers /\ Kept(h).acc = h.acc
               /\ \E rows \in Seq(Rows) :
                     /\ Len(rows) = Saved(s) /\ HasRows(events, rows)
                     /\ rows \o Copied(h) \in Seq(Rows)
                     /\ Len(rows \o Copied(h)) = Saved(s) + Len(Copied(h))
                     /\ HasRows(events, rows \o Copied(h))
                     /\ Made(SubSeq(events, 1, n + 1), rows \o Copied(h), Kept(h))
  <1>. DEFINE h == Given(book[s], m)
              n == Taken(s)
              events == delivered[s]
  <1>1. /\ Live(s) /\ task[s] = "run" /\ SessionInv(s)
        /\ m = Head(Pending(s)) /\ Pending(s) # << >> /\ Pending(s)' = Tail(Pending(s))
    BY TakesFrom
  <1>2. /\ events \in Seq(Events) /\ Len(events) \in Nat /\ n \in Nat
        /\ book[s] \in Handlers /\ db \in Seq(StoredRows)
        /\ Pending(s) \in Seq(Messages)
    BY SessionTypes
  <1>3. PICK rows \in Seq(Rows) :
          /\ Len(rows) = Saved(s) /\ HasRows(events, rows)
          /\ n <= Len(events) /\ Made(SubSeq(events, 1, n), rows, book[s])
    BY <1>1 DEF SessionInv, RowsInv
  <1>4. /\ n + 1 <= Len(events) /\ m = events[n + 1]
        /\ Follows(Pending(s)', n + 1, events)
        /\ NothingMissing(s) => AllThere(Pending(s)', n + 1, events)
    <2>. DEFINE messages == Pending(s)
    <2>1. /\ messages \in Seq(Messages) /\ messages # << >> /\ IsEvent(Head(messages))
          /\ Follows(messages, n, events)
          /\ NothingMissing(s) => AllThere(messages, n, events)
          /\ m = Head(messages) /\ Pending(s)' = Tail(messages)
      BY <1>1, <1>2 DEF SessionInv, QueueInv
    <2>. HIDE DEF messages, n, events
    <2>2. /\ n + 1 <= Len(events) /\ Head(messages) = events[n + 1]
          /\ Follows(Tail(messages), n + 1, events)
          /\ AllThere(messages, n, events) => AllThere(Tail(messages), n + 1, events)
      BY <1>2, <2>1, HeadFollows
    <2>. QED
      BY <2>1, <2>2 DEF messages
  <1>5. \A j \in DOMAIN events : events[j].kind = "snap" <=> j = 1
    BY <1>1 DEF SessionInv, StreamInv
  <1>6. /\ h \in Handlers
        /\ Made(SubSeq(events, 1, n + 1), rows, h)
        /\ Len(h.records) + Len(h.acc) = Len(book[s].records) + Len(book[s].acc) + 1
    <2>1. n < Len(events)
      BY <1>2, <1>4
    <2>2. /\ Given(book[s], events[n + 1]) \in Handlers
          /\ Made(SubSeq(events, 1, n + 1), rows, Given(book[s], events[n + 1]))
          /\ Len(Given(book[s], events[n + 1]).records) + Len(Given(book[s], events[n + 1]).acc)
               = Len(book[s].records) + Len(book[s].acc) + 1
      <3>. HIDE DEF n, events
      <3>. QED
        BY <1>2, <1>3, <1>5, <2>1, MadeEvent
    <2>. QED
      BY <1>4, <2>2
  <1>. HIDE DEF h
  <1>. DEFINE more == rows \o Copied(h)
              g == Kept(h)
  <1>7. /\ more \in Seq(Rows) /\ Len(more) = Saved(s) + Len(Copied(h))
        /\ Made(SubSeq(events, 1, n + 1), more, g)
        /\ Len(Copied(h)) + Len(g.records) = Len(h.records)
        /\ Len(Copied(h)) \in Nat /\ Copied(h) \in Seq(Rows)
        /\ more = rows \o h.records \/ more = rows
        /\ g \in Handlers /\ g.acc = h.acc
    <2>. DEFINE part == SubSeq(events, 1, n + 1)
    <2>1. Len(part) = n + 1
      BY <1>2, <1>4, FirstEvents
    <2>2. Len(part) \in Nat /\ Len(part) > 0
      BY <1>2, <2>1
    <2>. HIDE DEF part
    <2>3. Made(part, rows, h)
      BY <1>6 DEF part
    <2>4. /\ more \in Seq(Rows) /\ Len(more) = Len(rows) + Len(Copied(h))
          /\ Made(part, more, g)
          /\ Len(Copied(h)) + Len(g.records) = Len(h.records)
          /\ Len(Copied(h)) \in Nat
          /\ more = rows \o h.records \/ more = rows
      BY <1>6, <2>2, <2>3, MadeKept
    <2>5. g \in Handlers /\ g.acc = h.acc /\ Copied(h) \in Seq(Rows)
      BY <1>6, CopiedAndKept
    <2>. QED
      BY <1>3, <2>4, <2>5 DEF part
  <1>8. HasRows(events, more)
    <2>1. HasRows(events, rows \o h.records)
      <3>1. n + 1 \in Nat
        BY <1>2
      <3>. QED
        BY <1>2, <1>4, <1>5, <1>6, <3>1, MadeRows
    <2>. QED
      BY <1>3, <1>7, <2>1
  <1>. QED
    BY <1>3, <1>4, <1>6, <1>7, <1>8 DEF h

LEMMA HandleEventKeepsLog ==
    ASSUME CaptureInv, LogInv, NEW s \in Sessions, HandleEvent(s)
    PROVE  LogInv'
  <1>. DEFINE m == Head(queue[s])
              h == Given(book[s], m)
              g == Kept(h)
              n == Taken(s)
              events == delivered[s]
  <1>1. /\ Takes(s, m) /\ IsEvent(m)
        /\ UNCHANGED << pc, loopVars, session, ws, delivered >>
        /\ \/ /\ book' = [book EXCEPT ![s] = g]
              /\ db' = db \o Tagged(s, Copied(h))
              /\ UNCHANGED task
           \/ /\ task' = [task EXCEPT ![s] = "failed"]
              /\ UNCHANGED << book, db >>
    BY Zenon DEF HandleEvent, Ends, Given, IsEvent, wsVars, loopVars
  <1>. HIDE DEF m
  <1>2. /\ Live(s) /\ task[s] = "run" /\ SessionInv(s)
        /\ HasNone(s)' => HasNone(s)
        /\ \A r \in Sessions : r # s => queue'[r] = queue[r]
        /\ \A i, j \in DOMAIN queue'[s] :
              i < j /\ queue'[s][i].kind = "none" => queue'[s][j].kind = "none"
    BY <1>1, TakesFrom
  <1>3. /\ events \in Seq(Events) /\ Len(events) \in Nat /\ n \in Nat
        /\ db \in Seq(StoredRows)
        /\ task \in [Sessions -> TaskStates] /\ book \in [Sessions -> Handlers]
    BY SessionTypes DEF CaptureInv, TaskInv, TaskTypeOK
  <1>4. /\ n + 1 <= Len(events)
        /\ Follows(Pending(s)', n + 1, events)
        /\ NothingMissing(s) => AllThere(Pending(s)', n + 1, events)
        /\ Len(h.records) + Len(h.acc) = Len(book[s].records) + Len(book[s].acc) + 1
        /\ Len(Copied(h)) + Len(g.records) = Len(h.records)
        /\ Len(Copied(h)) \in Nat /\ Copied(h) \in Seq(Rows)
        /\ h \in Handlers /\ g \in Handlers /\ g.acc = h.acc
    BY <1>1, EventTaken
  <1>5. PICK rows \in Seq(Rows) :
          /\ Len(rows) = Saved(s) /\ HasRows(events, rows)
          /\ rows \o Copied(h) \in Seq(Rows)
          /\ Len(rows \o Copied(h)) = Saved(s) + Len(Copied(h))
          /\ HasRows(events, rows \o Copied(h))
          /\ Made(SubSeq(events, 1, n + 1), rows \o Copied(h), g)
    BY <1>1, EventTaken
  <1>. HIDE DEF h, g
  <1>6. StreamInv(s)'
    BY <1>1, <1>2 DEF SessionInv, StreamInv
  <1>7. CASE /\ task' = [task EXCEPT ![s] = "failed"]
             /\ UNCHANGED << book, db >>
    <2>1. \A r \in Sessions : Saved(r)' = Saved(r)
      BY <1>7 DEF Saved
    <2>2. task'[s] = "failed" /\ \A r \in Sessions : r # s => task'[r] = task[r]
      BY <1>3, <1>7
    <2>3. SessionInv(s)'
      BY <1>1, <1>2, <1>5, <2>1, <2>2, SessionFailed
    <2>. QED
      BY <1>1, <1>2, <1>7, <2>1, <2>2, <2>3, HandlerFrame
  <1>8. CASE /\ book' = [book EXCEPT ![s] = g]
             /\ db' = db \o Tagged(s, Copied(h))
             /\ UNCHANGED task
    <2>1. book'[s] = g /\ \A r \in Sessions : r # s => book'[r] = book[r]
      BY <1>3, <1>8
    <2>2. /\ Saved(s)' = Saved(s) + Len(Copied(h))
          /\ \A r \in Sessions : r # s => Saved(r)' = Saved(r)
      BY <1>3, <1>4, <1>8, SavedGrows
    <2>3. Taken(s)' = n + 1
      <3>. DEFINE saved == Saved(s)
                  copied == Len(Copied(h))
                  kept == Len(g.records)
                  acc == Len(h.acc)
      <3>1. /\ saved \in Nat /\ copied \in Nat /\ kept \in Nat /\ acc \in Nat
        BY <1>4, SessionTypes, HandlerFields
      <3>2. Taken(s)' = (saved + copied) + kept + acc
        BY <1>4, <2>1, <2>2 DEF Taken
      <3>3. copied + kept + acc = Len(book[s].records) + Len(book[s].acc) + 1
        BY <1>4
      <3>4. n = saved + Len(book[s].records) + Len(book[s].acc)
        BY DEF Taken
      <3>5. Len(book[s].records) \in Nat /\ Len(book[s].acc) \in Nat
        BY SessionTypes
      <3>. DEFINE a == Len(book[s].records)
                  b == Len(book[s].acc)
      <3>6. a \in Nat /\ b \in Nat /\ copied + kept + acc = a + b + 1 /\ n = saved + a + b
        BY <3>3, <3>4, <3>5
      <3>. HIDE DEF saved, copied, kept, acc, a, b, n
      <3>. QED
        BY <3>1, <3>2, <3>6
    <2>4. RowsInv(s)'
      <3>1. n + 1 <= Len(events) /\ delivered'[s] = events
        BY <1>1, <1>4
      <3>. QED
        BY <1>5, <2>1, <2>2, <2>3, <3>1 DEF RowsInv
    <2>5. QueueInv(s)'
      <3>1. (NothingMissing(s)' => NothingMissing(s)) /\ (IsCurrent(s)' <=> IsCurrent(s))
        BY <1>1, <1>2, <1>8 DEF NothingMissing, IsCurrent, Connected
      <3>2. task'[s] = "run" /\ delivered'[s] = events
        BY <1>1, <1>2, <1>8
      <3>3. IsCurrent(s) => ~HasNone(s)
        BY <1>2 DEF SessionInv, QueueInv
      <3>. QED
        BY <1>2, <1>4, <2>3, <3>1, <3>2, <3>3 DEF QueueInv
    <2>6. EndInv(s)'
      BY <1>2, <1>8 DEF EndInv
    <2>7. SessionInv(s)'
      BY <1>6, <2>4, <2>5, <2>6 DEF SessionInv
    <2>. QED
      BY <1>1, <1>2, <1>8, <2>1, <2>2, <2>7, HandlerFrame
  <1>. QED
    BY <1>1, <1>7, <1>8

\* Any other message leaves the queue without changing the stream.
LEMMA OtherTaken ==
    ASSUME CaptureInv, LogInv, NEW s \in Sessions, NEW m, Takes(s, m), ~IsEvent(m),
           UNCHANGED << session, ws, delivered >>
    PROVE  /\ Follows(Pending(s)', Taken(s), delivered[s])
           /\ NothingMissing(s) => AllThere(Pending(s)', Taken(s), delivered[s])
  <1>. DEFINE messages == Pending(s)
              n == Taken(s)
              events == delivered[s]
  <1>1. /\ messages \in Seq(Messages) /\ messages # << >> /\ m = Head(messages)
        /\ Pending(s)' = Tail(messages)
        /\ n \in Nat /\ events \in Seq(Events)
        /\ Follows(messages, n, events)
        /\ NothingMissing(s) => AllThere(messages, n, events)
    BY TakesFrom, SessionTypes DEF SessionInv, QueueInv
  <1>. HIDE DEF messages, n, events
  <1>2. /\ Follows(Tail(messages), n, events)
        /\ AllThere(messages, n, events) => AllThere(Tail(messages), n, events)
    BY <1>1, TailFollows
  <1>. QED
    BY <1>1, <1>2 DEF messages, n, events

LEMMA HandleRestartKeepsLog ==
    ASSUME CaptureInv, LogInv, NEW s \in Sessions, HandleRestart(s)
    PROVE  LogInv'
  <1>. DEFINE m == [kind |-> "restart"]
  <1>1. /\ Takes(s, m) /\ ~IsEvent(m)
        /\ UNCHANGED << pc, loopVars, session, ws, delivered, task, book, db >>
    BY DEF HandleRestart, taskVars, loopVars, IsEvent, Kinds
  <1>. HIDE DEF m
  <1>2. /\ task[s] = "run" /\ SessionInv(s) /\ (HasNone(s)' => HasNone(s))
        /\ \A r \in Sessions : r # s => queue'[r] = queue[r]
        /\ \A i, j \in DOMAIN queue'[s] :
              i < j /\ queue'[s][i].kind = "none" => queue'[s][j].kind = "none"
    BY <1>1, TakesFrom
  <1>3. \A r \in Sessions : Saved(r)' = Saved(r)
    BY <1>1 DEF Saved
  <1>4. Taken(s)' = Taken(s) /\ delivered'[s] = delivered[s] /\ task'[s] = "run" /\ Live(s)
    BY <1>1, <1>2, <1>3 DEF Taken, Live
  <1>5. StreamInv(s)' /\ RowsInv(s)' /\ EndInv(s)'
    BY <1>1, <1>2, <1>3, <1>4 DEF SessionInv, StreamInv, RowsInv, EndInv
  <1>6. QueueInv(s)'
    <2>1. /\ Follows(Pending(s)', Taken(s), delivered[s])
          /\ NothingMissing(s) => AllThere(Pending(s)', Taken(s), delivered[s])
      BY <1>1, OtherTaken
    <2>2. (NothingMissing(s)' => NothingMissing(s)) /\ (IsCurrent(s)' <=> IsCurrent(s))
      BY <1>1, <1>2 DEF NothingMissing, IsCurrent, Connected
    <2>3. IsCurrent(s) => ~HasNone(s)
      BY <1>2, <1>4 DEF SessionInv, QueueInv
    <2>. QED
      BY <1>2, <1>4, <2>1, <2>2, <2>3 DEF QueueInv
  <1>7. SessionInv(s)'
    BY <1>5, <1>6 DEF SessionInv
  <1>. QED
    BY <1>1, <1>2, <1>3, <1>7, HandlerFrame

LEMMA HandleNoneKeepsLog ==
    ASSUME CaptureInv, LogInv, NEW s \in Sessions, HandleNone(s)
    PROVE  LogInv'
  <1>1. /\ Takes(s, None) /\ ~IsEvent(None) /\ None.kind = "none"
        /\ UNCHANGED << pc, loopVars, session, ws, delivered, book, db >>
        /\ task' = [task EXCEPT ![s] = "close"]
        /\ task \in [Sessions -> TaskStates]
    BY DEF HandleNone, wsVars, loopVars, IsEvent, Kinds, None,
           CaptureInv, TaskInv, TaskTypeOK
  <1>2. /\ task[s] = "run" /\ SessionInv(s) /\ HasNone(s)
        /\ \A r \in Sessions : r # s => queue'[r] = queue[r]
        /\ \A i \in DOMAIN queue'[s] : queue'[s][i].kind = "none"
    BY <1>1, TakesFrom
  <1>3. \A r \in Sessions : Saved(r)' = Saved(r)
    BY <1>1 DEF Saved
  <1>4. /\ Taken(s)' = Taken(s) /\ delivered'[s] = delivered[s] /\ task'[s] = "close" /\ Live(s)
        /\ \A r \in Sessions : r # s => task'[r] = task[r]
    BY <1>1, <1>2, <1>3 DEF Taken, Live
  <1>5. StreamInv(s)' /\ RowsInv(s)' /\ EndInv(s)'
    BY <1>1, <1>2, <1>3, <1>4 DEF SessionInv, StreamInv, RowsInv, EndInv
  <1>6. QueueInv(s)'
    <2>1. /\ Follows(Pending(s)', Taken(s), delivered[s])
          /\ AllThere(Pending(s)', Taken(s), delivered[s])
      BY <1>1, <1>2, OtherTaken DEF NothingMissing
    <2>2. ~IsCurrent(s)'
      <3>1. ~IsCurrent(s)
        BY <1>2, <1>4 DEF SessionInv, QueueInv
      <3>. QED
        BY <1>1, <3>1 DEF IsCurrent, Connected
    <2>. QED
      BY <1>2, <1>4, <2>1, <2>2 DEF QueueInv
  <1>7. SessionInv(s)'
    BY <1>5, <1>6 DEF SessionInv
  <1>. QED
    BY <1>1, <1>2, <1>3, <1>4, <1>7, HandlerFrame

LEMMA HandleErrorKeepsLog ==
    ASSUME CaptureInv, LogInv, NEW s \in Sessions, HandleError(s)
    PROVE  LogInv'
  <1>. DEFINE m == [kind |-> "error"]
  <1>1. /\ Takes(s, m)
        /\ UNCHANGED << pc, loopVars, session, ws, delivered, book, db >>
        /\ task' = [task EXCEPT ![s] = "failed"]
        /\ task \in [Sessions -> TaskStates]
    BY DEF HandleError, Ends, wsVars, loopVars, CaptureInv, TaskInv, TaskTypeOK
  <1>. HIDE DEF m
  <1>2. SessionInv(s) /\ \A r \in Sessions : r # s => queue'[r] = queue[r]
    BY <1>1, TakesFrom
  <1>3. /\ delivered'[s] = delivered[s] /\ task'[s] = "failed"
        /\ \A r \in Sessions : r # s => task'[r] = task[r]
        /\ \A r \in Sessions : Saved(r)' = Saved(r)
    BY <1>1 DEF Saved
  <1>4. PICK rows \in Seq(Rows) : Len(rows) = Saved(s) /\ HasRows(delivered[s], rows)
    BY <1>2 DEF SessionInv, RowsInv
  <1>5. SessionInv(s)'
    BY <1>2, <1>3, <1>4, SessionFailed
  <1>. QED
    BY <1>1, <1>2, <1>3, <1>5, HandlerFrame

\* A handler that ends normally leaves no complete episode behind.
LEMMA FinishTakesAll ==
    ASSUME CaptureInv, LogInv, NEW s \in Sessions, pc # "exited", task[s] = "close"
    PROVE  Live(s) /\ ~IsCurrent(s) /\ Taken(s) = Len(delivered[s])
  <1>. DEFINE messages == Pending(s)
              n == Taken(s)
              events == delivered[s]
  <1>1. Live(s) /\ SessionInv(s)
    BY DEF Live, LogInv
  <1>2. /\ ~IsCurrent(s) /\ AllThere(messages, n, events)
        /\ \A i \in DOMAIN queue[s] : ~IsEvent(queue[s][i])
    <2>1. /\ ~IsCurrent(s) /\ AllThere(messages, n, events)
          /\ \A i \in DOMAIN queue[s] : queue[s][i].kind = "none"
      BY <1>1 DEF SessionInv, QueueInv, NothingMissing
    <2>. QED
      BY <2>1 DEF IsEvent, Kinds
  <1>3. messages = queue[s]
    <2>1. s = session => ws = << >>
      BY <1>2 DEF IsCurrent, Connected, LogInv, BufferInv
    <2>. QED
      BY <2>1, SessionTypes DEF Pending
  <1>4. n \in Nat /\ events \in Seq(Events) /\ n <= Len(events)
    BY <1>1, ClosingRows, SessionTypes
  <1>5. \A i \in DOMAIN messages : ~IsEvent(messages[i])
    BY <1>2, <1>3
  <1>. HIDE DEF messages, n, events
  <1>6. n = Len(events)
    BY <1>2, <1>4, <1>5, NothingLeft
  <1>. QED
    BY <1>1, <1>2, <1>6 DEF n, events

LEMMA FinishKeepsLog ==
    ASSUME CaptureInv, LogInv, NEW s \in Sessions, Finish(s)
    PROVE  LogInv'
  <1>1. /\ UNCHANGED << pc, loopVars, session, ws, delivered, queue, book >>
        /\ pc # "exited" /\ task[s] = "close"
        /\ \/ /\ task' = [task EXCEPT ![s] = "done"]
              /\ db' = db \o Tagged(s, book[s].records)
           \/ /\ task' = [task EXCEPT ![s] = "failed"]
              /\ UNCHANGED db
        /\ task \in [Sessions -> TaskStates]
    BY DEF Finish, Ends, wsVars, loopVars, CaptureInv, TaskInv, TaskTypeOK
  <1>2. Live(s) /\ ~IsCurrent(s) /\ Taken(s) = Len(delivered[s]) /\ SessionInv(s)
    BY <1>1, FinishTakesAll DEF LogInv
  <1>3. PICK rows \in Seq(Rows) :
          /\ Len(rows) = Saved(s) /\ HasRows(delivered[s], rows)
          /\ Made(SubSeq(delivered[s], 1, Taken(s)), rows, book[s])
          /\ book[s].records \in Seq(Rows)
          /\ rows \o book[s].records \in Seq(Rows)
          /\ Len(rows \o book[s].records) = Saved(s) + Len(book[s].records)
          /\ HasRows(delivered[s], rows \o book[s].records)
    BY <1>2, ClosingRows
  <1>4. \A r \in Sessions : r # s => task'[r] = task[r]
    BY <1>1
  <1>5. CASE /\ task' = [task EXCEPT ![s] = "failed"]
             /\ UNCHANGED db
    <2>1. task'[s] = "failed" /\ \A r \in Sessions : Saved(r)' = Saved(r)
      BY <1>1, <1>5 DEF Saved
    <2>2. SessionInv(s)'
      BY <1>1, <1>2, <1>3, <2>1, SessionFailed
    <2>. QED
      BY <1>1, <1>4, <2>1, <2>2, HandlerFrame
  <1>6. CASE /\ task' = [task EXCEPT ![s] = "done"]
             /\ db' = db \o Tagged(s, book[s].records)
    <2>1. /\ Saved(s)' = Saved(s) + Len(book[s].records)
          /\ \A r \in Sessions : r # s => Saved(r)' = Saved(r)
      BY <1>3, <1>6, SessionTypes, SavedGrows
    <2>2. task'[s] = "done" /\ ~Live(s)' /\ delivered'[s] = delivered[s]
      BY <1>1, <1>6 DEF Live
    <2>3. CompleteLength(delivered[s]) = Saved(s) + Len(book[s].records)
      <3>1. SubSeq(delivered[s], 1, Taken(s)) = delivered[s]
        BY <1>2, SessionTypes, SubSeqFull
      <3>2. Made(delivered[s], rows, book[s])
        BY <1>3, <3>1
      <3>. QED
        BY <1>3, <3>2, SessionTypes, MadeAll
    <2>4. StreamInv(s)' /\ QueueInv(s)' /\ RowsInv(s)'
      BY <1>2, <1>3, <2>1, <2>2 DEF SessionInv, StreamInv, QueueInv, RowsInv
    <2>5. EndInv(s)'
      BY <1>1, <1>2, <2>1, <2>2, <2>3 DEF EndInv, SavedAll, IsCurrent, Connected
    <2>6. SessionInv(s)'
      BY <2>4, <2>5 DEF SessionInv
    <2>. QED
      BY <1>1, <1>4, <2>1, <2>6, HandlerFrame
  <1>. QED
    BY <1>1, <1>5, <1>6

LEMMA HandlerKeepsLog ==
    ASSUME CaptureInv, LogInv, NEW s \in Sessions, HandlerStep(s)
    PROVE  LogInv'
  BY AcquireKeepsLog, HandleEventKeepsLog, HandleRestartKeepsLog, HandleErrorKeepsLog,
     HandleNoneKeepsLog, FinishKeepsLog DEF HandlerStep

-----------------------------------------------------------------------------
(***************************************************************************)
(* The invariant.                                                          *)
(***************************************************************************)
LEMMA InitLog == Init => LogInv
  <1>. SUFFICES ASSUME Init
                PROVE  LogInv
    OBVIOUS
  <1>1. /\ pc = "connect" /\ ws = << >> /\ db = << >>
    BY DEF Init
  <1>2. ASSUME NEW s \in Sessions
        PROVE  SessionInv(s)
    <2>1. /\ task[s] = "none" /\ delivered[s] = << >> /\ queue[s] = << >>
          /\ book[s] = NewHandler
      BY <1>2 DEF Init
    <2>2. Saved(s) = 0
      <3>1. {i \in DOMAIN db : db[i].session = s} = {}
        BY <1>1
      <3>. QED
        BY <3>1, FS_EmptySet DEF Saved
    <2>3. StreamInv(s)
      <3>1. DOMAIN delivered[s] = {}
        BY <2>1
      <3>2. HasLastEnd(delivered[s])
        BY <2>1, NoEvents
      <3>. QED
        BY <3>1, <3>2 DEF StreamInv
    <2>4. RowsInv(s)
      <3>1. HasRows(delivered[s], << >>)
        BY <2>1, NoEvents
      <3>2. ~Live(s)
        BY <2>1 DEF Live
      <3>3. << >> \in Seq(Rows) /\ Len(<< >>) = 0
        OBVIOUS
      <3>. QED
        BY <2>2, <3>1, <3>2, <3>3 DEF RowsInv
    <2>5. QueueInv(s) /\ EndInv(s)
      BY <2>1, <2>2 DEF QueueInv, EndInv, Live
    <2>. QED
      BY <2>3, <2>4, <2>5 DEF SessionInv
  <1>. QED
    BY <1>1, <1>2 DEF LogInv, BufferInv

LEMMA NextLog == CaptureInv /\ LogInv /\ [Next]_vars => LogInv'
  <1>. SUFFICES ASSUME CaptureInv, LogInv, [Next]_vars
                PROVE  LogInv'
    OBVIOUS
  <1>1. CASE Next
    BY <1>1, LoopKeepsLog, EnvironmentKeepsLog, HandlerKeepsLog DEF Next
  <1>2. CASE UNCHANGED vars
    <2>1. UNCHANGED << pc, session, ws, queue, delivered, taskVars >>
      BY <1>2 DEF vars, loopVars, wsVars
    <2>2. pc \in {"recv", "close", "exited"} \/ ws = << >>
      BY DEF LogInv, BufferInv
    <2>. QED
      BY <2>1, <2>2, QuietStep DEF Connected
  <1>. QED
    BY <1>1, <1>2

THEOREM LogInvariant == Spec => [](CaptureInv /\ LogInv)
  <1>1. Init => CaptureInv /\ LogInv
    BY InitInv, InitLog
  <1>2. CaptureInv /\ LogInv /\ [Next]_vars => (CaptureInv /\ LogInv)'
    BY NextInv, NextLog
  <1>. QED
    BY <1>1, <1>2, PTL DEF Spec

(***************************************************************************)
(* From the network to the table: a handler that ended normally has saved  *)
(* every complete episode of what its websocket received, however the      *)
(* session was lost and whatever order the handlers got the connection in. *)
(***************************************************************************)
THEOREM EndedHandlersSavedAll == Spec => []DoneSavedAll
  <1>1. LogInv => DoneSavedAll
    BY DEF LogInv, SessionInv, EndInv, DoneSavedAll
  <1>. QED
    BY <1>1, LogInvariant, PTL

-----------------------------------------------------------------------------
(***************************************************************************)
(* Refinement: the capture implements a log of complete episodes.          *)
(***************************************************************************)

\* The log's words mean here what they mean in the capture.
LEMMA LogEpisodes ==
    /\ \A events : Log!EpisodeEnds(events) = EpisodeEnds(events)
    /\ \A events : Log!CompleteEpisodes(events) = CompleteEpisodes(events)
  BY DEF Log!EpisodeEnds, Log!EndsEpisode, EpisodeEnds, EndsEpisode,
         Log!CompleteEpisodes, Log!CompleteLength, Log!EpisodeStamp,
         CompleteEpisodes, CompleteLength, EpisodeStamp

(***************************************************************************)
(* The three kinds of step: one that leaves stream and table alone, one    *)
(* that receives an event, and one of a live handler that adds rows which  *)
(* continue those saved.                                                   *)
(***************************************************************************)
StepReceives ==
    /\ db' = db
    /\ \E s \in Sessions, e \in Events :
          delivered' = [delivered EXCEPT ![s] = Append(delivered[s], e)]

StepSaves ==
    /\ delivered' = delivered
    /\ \E s \in Sessions : \E rows \in Seq(Rows), new \in Seq(Rows) :
          /\ ~Ended(s)
          /\ Len(rows) = Saved(s)
          /\ rows \o new \in Seq(Rows)
          /\ HasRows(delivered[s], rows \o new)
          /\ db' = db \o Tagged(s, new)

\* close() adds the rows that were left.
LEMMA ClosingSaves ==
    ASSUME CaptureInv, LogInv, NEW s \in Sessions, task[s] = "close",
           db' = db \o Tagged(s, book[s].records), delivered' = delivered
    PROVE  StepSaves
  <1>1. Live(s) /\ ~Ended(s)
    BY DEF Live, Ended
  <1>2. PICK rows \in Seq(Rows) :
          /\ Len(rows) = Saved(s) /\ book[s].records \in Seq(Rows)
          /\ rows \o book[s].records \in Seq(Rows)
          /\ HasRows(delivered[s], rows \o book[s].records)
    BY <1>1, ClosingRows
  <1>. QED
    BY <1>1, <1>2 DEF StepSaves

LEMMA StepKinds ==
    ASSUME CaptureInv, LogInv, Next
    PROVE  UNCHANGED << delivered, db >> \/ StepReceives \/ StepSaves
  <1>1. CASE CaptureStep
    BY <1>1 DEF CaptureStep, Connect, Refused, ConnectFails, Subscribe, Receive,
                ReceiveClosed, Timeout, Closed, StopConnecting, Gather, ClosePool,
                wsVars, taskVars
  <1>2. CASE Environment
    <2>1. CASE \E kind \in Kinds : DeliverEvent(kind)
      <3>1. PICK kind \in Kinds : DeliverEvent(kind)
        BY <2>1
      <3>. DEFINE n == Len(delivered[session]) + 1
                  e == [n |-> n, kind |-> kind, rts |-> n]
      <3>2. /\ delivered' = [delivered EXCEPT ![session] = Append(delivered[session], e)]
            /\ db' = db /\ pc \in {"recv", "close"}
        BY <3>1 DEF DeliverEvent, Deliver, Subscribed, taskVars
      <3>3. session \in Sessions
        BY <3>2, CurrentSession DEF Connected
      <3>4. e \in Events
        BY <3>3, SessionTypes DEF Events
      <3>. QED
        BY <3>2, <3>3, <3>4 DEF StepReceives
    <2>2. CASE InterruptGather
      <3>1. delivered' = delivered /\
            (db' = db \/ /\ holder # NoSession /\ task[holder] = "close"
                         /\ db' = db \o Tagged(holder, book[holder].records))
        BY <2>2 DEF InterruptGather, wsVars
      <3>2. holder # NoSession => holder \in Sessions
        BY DEF CaptureInv, TaskInv, TaskTypeOK
      <3>. QED
        BY <3>1, <3>2, ClosingSaves
    <2>3. CASE \/ InterruptReceive \/ InterruptElsewhere \/ InterruptClosePool
               \/ Crash \/ Restart \/ DeliverNotice \/ ExchangeCloses
      BY <2>3 DEF InterruptReceive, InterruptElsewhere, InterruptClosePool, Crash, Restart,
                  DeliverNotice, Deliver, ExchangeCloses, Leave, wsVars, taskVars
    <2>. QED
      BY <1>2, <2>1, <2>2, <2>3 DEF Environment
  <1>3. CASE \E s \in Sessions : HandlerStep(s)
    <2>1. PICK s \in Sessions : HandlerStep(s)
      BY <1>3
    <2>2. CASE HandleEvent(s)
      <3>. DEFINE m == Head(queue[s])
                  h == Given(book[s], m)
      <3>1. /\ Takes(s, m) /\ IsEvent(m) /\ UNCHANGED << session, ws, delivered >>
            /\ db' = db \/ db' = db \o Tagged(s, Copied(h))
        BY <2>2, Zenon DEF HandleEvent, Given, IsEvent, wsVars, loopVars
      <3>2. /\ Copied(h) \in Seq(Rows)
            /\ \E rows \in Seq(Rows) :
                  /\ Len(rows) = Saved(s)
                  /\ rows \o Copied(h) \in Seq(Rows)
                  /\ HasRows(delivered[s], rows \o Copied(h))
        BY <3>1, EventTaken
      <3>3. ~Ended(s)
        BY <3>1 DEF Takes, Ended
      <3>. HIDE DEF h
      <3>. QED
        BY <3>1, <3>2, <3>3 DEF StepSaves
    <2>3. CASE Finish(s)
      BY <2>3, ClosingSaves DEF Finish, wsVars
    <2>4. CASE Acquire(s) \/ HandleRestart(s) \/ HandleError(s) \/ HandleNone(s)
      BY <2>4 DEF Acquire, HandleRestart, HandleError, HandleNone, wsVars, taskVars
    <2>. QED
      BY <2>1, <2>2, <2>3, <2>4 DEF HandlerStep
  <1>. QED
    BY <1>1, <1>2, <1>3 DEF Next

\* Adding the rows that continue those saved is a step of the log.
LEMMA SavesStep ==
    ASSUME CaptureInv, LogInv, StepSaves, ~UNCHANGED << delivered, db >>
    PROVE  Log!Next
  <1>1. PICK s \in Sessions, rows \in Seq(Rows), new \in Seq(Rows) :
          /\ ~Ended(s)
          /\ Len(rows) = Saved(s)
          /\ rows \o new \in Seq(Rows)
          /\ HasRows(delivered[s], rows \o new)
          /\ db' = db \o Tagged(s, new)
    BY DEF StepSaves
  <1>. DEFINE events == delivered[s]
              n == Saved(s) + Len(new)
              both == rows \o new
  <1>2. /\ delivered' = delivered /\ events \in Seq(Events) /\ HasLastEnd(events)
        /\ Saved(s) \in Nat /\ db \in Seq(StoredRows)
    BY SessionTypes DEF StepSaves, LogInv, SessionInv, StreamInv
  <1>3. /\ DOMAIN new = 1..Len(new) /\ Len(new) \in Nat
        /\ Len(both) = n
        /\ \A i \in 1..Len(new) : both[Saved(s) + i] = new[i] /\ Saved(s) + i \in 1..n
    <2>1. /\ Len(both) = Len(rows) + Len(new)
          /\ \A i \in 1..(Len(rows) + Len(new)) :
                both[i] = IF i <= Len(rows) THEN rows[i] ELSE new[i - Len(rows)]
      BY ConcatProperties
    <2>2. Len(new) \in Nat /\ DOMAIN new = 1..Len(new)
      OBVIOUS
    <2>. HIDE DEF both
    <2>3. ASSUME NEW i \in 1..Len(new)
          PROVE  /\ Saved(s) + i \in 1..(Len(rows) + Len(new)) /\ ~(Saved(s) + i <= Len(rows))
                 /\ (Saved(s) + i) - Len(rows) = i
      BY <1>1, <1>2, <2>2
    <2>. QED
      BY <1>1, <2>1, <2>2, <2>3
  <1>4. /\ n \in {0} \union EpisodeEnds(events)
        /\ \A i \in 1..n : both[i] = CompleteEpisodes(events)[i]
    <2>. HIDE DEF events, both
    <2>1. HasRows(events, both) /\ both \in Seq(Rows)
      BY <1>1 DEF events, both
    <2>. QED
      BY <1>2, <1>3, <2>1, RowsAreComplete
  <1>5. new # << >>
    <2>1. ASSUME new = << >>
          PROVE  db' = db
      <3>1. Tagged(s, new) = << >>
        BY <2>1 DEF Tagged
      <3>. QED
        BY <1>1, <1>2, <3>1
    <2>. QED
      BY <1>2, <2>1
  <1>6. n > Saved(s) /\ n \in EpisodeEnds(events) /\ n - Saved(s) = Len(new)
    <2>1. Len(new) # 0
      BY <1>5
    <2>. QED
      BY <1>2, <1>3, <1>4, <2>1
  <1>7. /\ Saved(s)' = n
        /\ \A r \in Sessions : r # s => Saved(r)' = Saved(r)
    BY <1>1, <1>2, SavedGrows
  <1>8. \A r \in Sessions : r > s => Saved(r) = 0
    BY <1>1, YoungerHaveNone
  <1>. DEFINE saved == [r \in Sessions |-> Saved(r)]
  <1>9. /\ saved' = [saved EXCEPT ![s] = n] /\ saved[s] = Saved(s)
        /\ \A r \in Sessions : r > s => saved[r] = 0
    BY <1>7, <1>8
  <1>10. Log!NewRows(s, delivered'[s], n) = Tagged(s, new)
    <2>1. Log!NewRows(s, delivered'[s], n) =
            [i \in 1..Len(new) |->
               [session |-> s, row |-> CompleteEpisodes(events)[Saved(s) + i]]]
      BY <1>2, <1>6, LogEpisodes DEF Log!NewRows
    <2>2. \A i \in 1..Len(new) : CompleteEpisodes(events)[Saved(s) + i] = new[i]
      BY <1>3, <1>4
    <2>. QED
      BY <1>3, <2>1, <2>2 DEF Tagged
  <1>11. Log!Saves(s)
    <2>1. n \in Log!EpisodeEnds(delivered'[s])
      BY <1>2, <1>6, LogEpisodes
    <2>2. db' = db \o Log!NewRows(s, delivered'[s], n)
      BY <1>1, <1>10
    <2>. HIDE DEF n
    <2>. QED
      BY <1>6, <1>9, <2>1, <2>2 DEF Log!Saves
  <1>12. Log!Receives(s)
    <2>1. events = SubSeq(events, 1, Len(events)) /\ Len(events) \in Nat
      BY <1>2, SubSeqFull
    <2>. QED
      BY <1>2, <2>1 DEF Log!Receives
  <1>. QED
    BY <1>11, <1>12 DEF Log!Next

\* And so is receiving an event.
LEMMA ReceivesStep ==
    ASSUME CaptureInv, LogInv, StepReceives
    PROVE  Log!Next
  <1>1. PICK s \in Sessions, e \in Events :
          delivered' = [delivered EXCEPT ![s] = Append(delivered[s], e)]
    BY DEF StepReceives
  <1>2. delivered \in [Sessions -> Seq(Events)] /\ db' = db
    BY DEF StepReceives, CaptureInv, LoopInv, MessageTypeOK
  <1>3. Log!Receives(s)
    <2>1. /\ delivered'[s] = Append(delivered[s], e) /\ delivered[s] \in Seq(Events)
          /\ \A r \in Sessions \ {s} : delivered'[r] = delivered[r]
      BY <1>1, <1>2
    <2>. DEFINE events == delivered[s]
    <2>. HIDE DEF events
    <2>2. /\ Len(events) <= Len(Append(events, e))
          /\ events = SubSeq(Append(events, e), 1, Len(events))
      BY <2>1 DEF events
    <2>. QED
      BY <2>1, <2>2 DEF Log!Receives, events
  <1>4. [r \in Sessions |-> Saved(r)]' = [r \in Sessions |-> Saved(r)]
    BY <1>2 DEF Saved
  <1>. QED
    BY <1>2, <1>3, <1>4 DEF Log!Next

(***************************************************************************)
(* The capture implements a log of complete episodes: whatever fails, is   *)
(* cancelled, killed or restarted, whichever handler gets the connection,  *)
(* rows are never changed and come in whole episodes, in order from each   *)
(* session's snapshot on, stamped as if nothing had happened, one session  *)
(* after another.                                                          *)
(***************************************************************************)
THEOREM CaptureImplementsLog == Spec => ImplementsLog
  <1>1. Init => Log!Init
    <2>1. db = << >> => \A s \in Sessions : Saved(s) = 0
      <3>1. ASSUME db = << >>, NEW s \in Sessions
            PROVE  Saved(s) = 0
        <4>1. {i \in DOMAIN db : db[i].session = s} = {}
          BY <3>1
        <4>. QED
          BY <4>1, FS_EmptySet DEF Saved
      <3>. QED
        BY <3>1
    <2>. QED
      BY <2>1 DEF Init, Log!Init
  <1>2. CaptureInv /\ LogInv /\ [Next]_vars => [Log!Next]_(Log!vars)
    <2>1. ASSUME CaptureInv, LogInv, Next
          PROVE  Log!Next \/ UNCHANGED << delivered, db >>
      BY <2>1, StepKinds, SavesStep, ReceivesStep
    <2>2. UNCHANGED << delivered, db >> => UNCHANGED Log!vars
      BY DEF Log!vars, Saved
    <2>3. UNCHANGED vars => UNCHANGED << delivered, db >>
      BY DEF vars, wsVars, taskVars
    <2>. QED
      BY <2>1, <2>2, <2>3
  <1>. QED
    BY <1>1, <1>2, LogInvariant, PTL DEF Spec, ImplementsLog, Log!Spec

=============================================================================
