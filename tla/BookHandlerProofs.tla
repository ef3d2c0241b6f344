-------------------------- MODULE BookHandlerProofs --------------------------
(***************************************************************************)
(* A book channel keeps its rows in order, keeps episodes whole and        *)
(* implements EpisodeLog, for every set of timestamps and every bound.     *)
(***************************************************************************)
EXTENDS BookHandler, BookEpisodesProofs

(***************************************************************************)
(* The strengthening.  StampsInOrder speaks of the table alone; what keeps *)
(* it is that the rows still in memory continue the table, and that no     *)
(* stamp and no accumulated event is later than the handler's rts.         *)
(***************************************************************************)
InOrderUpTo(rows, top) ==
    /\ \A i \in DOMAIN rows : rows[i].ev.rts <= rows[i].episode /\ rows[i].episode <= top
    /\ \A i, j \in DOMAIN rows : i <= j => rows[i].episode <= rows[j].episode

NoneAfter(events, top) == \A i \in DOMAIN events : events[i].rts <= top

StampInv ==
    /\ TypeOK
    /\ StampsInOrder
    /\ status = "subscribed" => handler = NewHandler /\ db = << >>
    /\ status = "open" => /\ InOrderUpTo(db \o handler.records, handler.rts)
                          /\ NoneAfter(handler.acc, handler.rts)

\* Rows stamped with the handler's rts continue rows up to it.
LEMMA StampedContinues ==
    ASSUME NEW rows \in Seq(Rows), NEW events \in Seq(Events), NEW ts \in Nat,
           InOrderUpTo(rows, ts), NoneAfter(events, ts)
    PROVE  InOrderUpTo(rows \o Stamped(events, ts), ts)
  <1>. DEFINE new == Stamped(events, ts)
              all == rows \o new
  <1>1. /\ new \in Seq(Rows) /\ Len(new) = Len(events) /\ Len(new) \in Nat
        /\ \A i \in 1..Len(new) : new[i].ev = events[i] /\ new[i].episode = ts
    BY StampedRows
  <1>2. /\ DOMAIN rows = 1..Len(rows) /\ Len(rows) \in Nat
        /\ DOMAIN events = 1..Len(events)
    OBVIOUS
  <1>3. /\ DOMAIN all = 1..(Len(rows) + Len(new))
        /\ \A i \in 1..(Len(rows) + Len(new)) :
              all[i] = IF i <= Len(rows) THEN rows[i] ELSE new[i - Len(rows)]
    <2>1. new \in Seq(Rows)
      BY <1>1
    <2>. HIDE DEF new
    <2>. QED
      BY <2>1, Concat
  <1>4. \A i \in DOMAIN rows : rows[i].episode \in Nat
    BY RowFields
  <1>5. ASSUME NEW i \in DOMAIN all
        PROVE  all[i].ev.rts <= all[i].episode /\ all[i].episode <= ts
    <2>. HIDE DEF new, all
    <2>1. CASE i <= Len(rows)
      BY <2>1, <1>2, <1>3 DEF InOrderUpTo
    <2>2. CASE i > Len(rows)
      <3>1. i - Len(rows) \in 1..Len(new)
        BY <2>2, <1>1, <1>2, <1>3
      <3>2. all[i] = new[i - Len(rows)]
        BY <2>2, <1>2, <1>3
      <3>. QED
        BY <3>1, <3>2, <1>1, <1>2 DEF NoneAfter
    <2>. QED
      BY <2>1, <2>2, <1>2, <1>3
  <1>6. ASSUME NEW i \in DOMAIN all, NEW j \in DOMAIN all, i <= j
        PROVE  all[i].episode <= all[j].episode
    <2>. HIDE DEF new, all
    <2>1. CASE j <= Len(rows)
      BY <2>1, <1>2, <1>3, <1>6 DEF InOrderUpTo
    <2>2. CASE j > Len(rows)
      <3>1. j - Len(rows) \in 1..Len(new)
        BY <2>2, <1>1, <1>2, <1>3
      <3>2. all[j] = new[j - Len(rows)]
        BY <2>2, <1>2, <1>3
      <3>3. all[j].episode = ts
        BY <3>1, <3>2, <1>1
      <3>. QED
        BY <3>3, <1>5
    <2>. QED
      BY <2>1, <2>2, <1>2, <1>3
  <1>. QED
    BY <1>5, <1>6 DEF InOrderUpTo

\* A later bound is a bound.
LEMMA InOrderWeaken ==
    ASSUME NEW rows \in Seq(Rows), NEW a \in Nat, NEW b \in Nat, a <= b,
           InOrderUpTo(rows, a)
    PROVE  InOrderUpTo(rows, b)
  <1>1. \A i \in DOMAIN rows : rows[i].episode \in Nat
    BY RowFields
  <1>. QED
    BY <1>1 DEF InOrderUpTo

\* The first part of rows in order is in order.
LEMMA InOrderPrefix ==
    ASSUME NEW rows \in Seq(Rows), NEW more \in Seq(Rows), NEW top,
           InOrderUpTo(rows \o more, top)
    PROVE  InOrderUpTo(rows, top)
  <1>1. /\ DOMAIN rows = 1..Len(rows) /\ Len(rows) \in Nat /\ Len(more) \in Nat
        /\ DOMAIN (rows \o more) = 1..(Len(rows) + Len(more))
        /\ \A i \in 1..Len(rows) : (rows \o more)[i] = rows[i]
    BY Concat
  <1>2. \A i \in DOMAIN rows : i \in DOMAIN (rows \o more)
    BY <1>1
  <1>. QED
    BY <1>1, <1>2 DEF InOrderUpTo

-----------------------------------------------------------------------------
\* A table in order up to a bound has its stamps in order.
LEMMA InOrderStamps ==
    ASSUME NEW top, InOrderUpTo(db, top)
    PROVE  StampsInOrder
  BY DEF InOrderUpTo, StampsInOrder

(***************************************************************************)
(* Handling a message whose effect on the handler is h.                    *)
(***************************************************************************)
LEMMA HandledKeeps ==
    ASSUME StampInv, NEW h \in Handlers, Handled(h),
           received' \in Seq(Events),
           InOrderUpTo(db \o h.records, h.rts), NoneAfter(h.acc, h.rts)
    PROVE  StampInv'
  <1>1. db \in Seq(Rows) /\ h.records \in Seq(Rows)
    BY HandlerFields DEF StampInv, TypeOK
  <1>2. CASE /\ handler' = Kept(h)
             /\ db' = db \o Copied(h)
             /\ status' = "open"
    <2>1. /\ Kept(h) \in Handlers /\ Kept(h).rts = h.rts /\ Kept(h).acc = h.acc
          /\ Copied(h) \in Seq(Rows) /\ db' \in Seq(Rows)
      BY <1>1, <1>2, CopiedAndKept, Concat
    <2>2. db' \o handler'.records = db \o h.records
      <3>1. CASE Copied(h) = h.records /\ Kept(h).records = << >>
        BY <1>1, <1>2, <2>1, <3>1, ConcatEmptySeq
      <3>2. CASE Copied(h) = << >> /\ Kept(h).records = h.records
        BY <1>1, <1>2, <3>2, ConcatEmptySeq
      <3>. QED
        BY <3>1, <3>2, CopiedAndKept
    <2>3. InOrderUpTo(db' \o handler'.records, handler'.rts)
      BY <1>2, <2>1, <2>2
    <2>4. NoneAfter(handler'.acc, handler'.rts)
      BY <1>2, <2>1
    <2>5. handler' \in Handlers /\ handler'.records \in Seq(Rows)
      BY <1>2, <2>1, HandlerFields
    <2>6. InOrderUpTo(db', handler'.rts)
      BY <2>1, <2>3, <2>5, InOrderPrefix
    <2>7. StampsInOrder'
      BY <2>6 DEF InOrderUpTo, StampsInOrder
    <2>8. TypeOK'
      BY <1>2, <2>1, <2>5 DEF TypeOK
    <2>. QED
      BY <1>2, <2>3, <2>4, <2>7, <2>8 DEF StampInv
  <1>3. CASE status' = "failed" /\ handler' = h /\ UNCHANGED db
    BY <1>3 DEF StampInv, TypeOK, StampsInOrder
  <1>. QED
    BY <1>2, <1>3 DEF Handled

LEMMA SnapshotKeeps ==
    ASSUME StampInv, NEW size \in 1..MaxSnapshot, NEW ts \in Timestamps, Snapshot(size, ts)
    PROVE  StampInv'
  <1>. DEFINE events == [i \in 1..size |-> [n |-> i, kind |-> "snap", rts |-> ts]]
              h == OnSnapshot(handler, events, ts)
  <1>1. ts \in Nat /\ size \in Nat
    BY ChannelAssumption
  <1>2. /\ events \in Seq(Events)
        /\ DOMAIN events = 1..size /\ \A i \in 1..size : events[i].rts = ts
    BY <1>1 DEF Events, Kinds
  <1>3. handler = NewHandler /\ db = << >> /\ handler \in Handlers
    BY DEF Snapshot, StampInv, TypeOK
  <1>. HIDE DEF events
  <1>4. /\ h \in Handlers /\ h.rts = ts /\ h.acc = << >>
        /\ h.records = << >> \o Stamped(events, ts)
    <2>1. /\ h \in Handlers /\ h.rts = ts /\ h.acc = handler.acc
          /\ h.records = handler.records \o Stamped(events, ts)
      BY <1>1, <1>2, <1>3, OnSnapshotType
    <2>2. handler.acc = << >> /\ handler.records = << >>
      BY <1>3 DEF NewHandler
    <2>. HIDE DEF h
    <2>. QED
      BY <2>1, <2>2
  <1>5. InOrderUpTo(<< >>, ts) /\ << >> \in Seq(Rows) /\ NoneAfter(events, ts)
    BY <1>1, <1>2 DEF InOrderUpTo, NoneAfter
  <1>6. InOrderUpTo(<< >> \o Stamped(events, ts), ts)
    BY <1>1, <1>2, <1>5, StampedContinues
  <1>7. db \o h.records = << >> \o Stamped(events, ts)
    BY <1>1, <1>2, <1>3, <1>4, StampedRows, ConcatEmptySeq
  <1>8. NoneAfter(h.acc, h.rts)
    BY <1>4 DEF NoneAfter
  <1>9. Handled(h) /\ received' = events
    BY DEF Snapshot, events
  <1>. HIDE DEF h
  <1>. QED
    BY <1>2, <1>4, <1>6, <1>7, <1>8, <1>9, HandledKeeps

LEMMA EventKeeps ==
    ASSUME StampInv, NEW kind \in {"add", "del"}, NEW ts \in Timestamps, Event(kind, ts)
    PROVE  StampInv'
  <1>. DEFINE e == [n |-> Len(received) + 1, kind |-> kind, rts |-> ts]
              h == OnEvent(handler, e)
              top == Later(handler.rts, ts)
  <1>1. /\ e \in Events /\ e.rts = ts /\ ts \in Nat
        /\ received' = Append(received, e) /\ received' \in Seq(Events)
    BY ChannelAssumption DEF Event, Events, Kinds, StampInv, TypeOK
  <1>2. /\ InOrderUpTo(db \o handler.records, handler.rts)
        /\ NoneAfter(handler.acc, handler.rts)
        /\ handler \in Handlers /\ db \in Seq(Rows)
    BY DEF Event, StampInv, TypeOK
  <1>3. Handled(h)
    BY DEF Event
  <1>. HIDE DEF e
  <1>4. h \in Handlers
    BY <1>1, <1>2, OnEventType
  <1>5. /\ handler.rts \in Nat /\ handler.acc \in Seq(Events) /\ handler.records \in Seq(Rows)
        /\ db \o handler.records \in Seq(Rows)
        /\ top \in Nat /\ handler.rts <= top /\ ts <= top
    BY <1>1, <1>2, HandlerFields, Concat, LaterProperties
  <1>6. h.rts = top
    BY <1>1 DEF OnEvent
  <1>7. NoneAfter(h.acc, h.rts)
    <2>1. \A i \in DOMAIN handler.acc : handler.acc[i].rts \in Nat
      <3>1. \A i \in DOMAIN handler.acc : handler.acc[i] \in Events
        BY <1>5
      <3>. QED
        BY <3>1 DEF Events
    <2>2. CASE Completes(handler, e)
      <3>1. h.acc = << e >>
        BY <2>2 DEF OnEvent
      <3>. QED
        BY <3>1, <1>1, <1>5, <1>6 DEF NoneAfter
    <2>3. CASE ~Completes(handler, e)
      <3>1. h.acc = Append(handler.acc, e)
        BY <2>3 DEF OnEvent
      <3>2. NoneAfter(Append(handler.acc, e), top)
        BY <2>1, <1>1, <1>2, <1>5 DEF NoneAfter
      <3>. QED
        BY <3>1, <3>2, <1>6
    <2>. QED
      BY <2>2, <2>3
  <1>8. InOrderUpTo(db \o h.records, handler.rts)
    <2>1. CASE Completes(handler, e)
      <3>1. h.records = handler.records \o Stamped(handler.acc, handler.rts)
        BY <2>1 DEF OnEvent
      <3>2. db \o h.records = (db \o handler.records) \o Stamped(handler.acc, handler.rts)
        <4>1. Stamped(handler.acc, handler.rts) \in Seq(Rows)
          BY <1>5, StampedRows
        <4>2. (db \o handler.records) \o Stamped(handler.acc, handler.rts)
                = db \o (handler.records \o Stamped(handler.acc, handler.rts))
          BY <4>1, <1>2, <1>5, RowsAssociative
        <4>. QED
          BY <3>1, <4>2
      <3>. QED
        BY <3>2, <1>2, <1>5, StampedContinues
    <2>2. CASE ~Completes(handler, e)
      BY <2>2, <1>2 DEF OnEvent
    <2>. QED
      BY <2>1, <2>2
  <1>9. InOrderUpTo(db \o h.records, h.rts)
    <2>1. db \o h.records \in Seq(Rows)
      BY <1>2, <1>4, HandlerFields, Concat
    <2>. QED
      BY <2>1, <1>5, <1>6, <1>8, InOrderWeaken
  <1>. HIDE DEF h
  <1>. QED
    BY <1>1, <1>3, <1>4, <1>7, <1>9, HandledKeeps

LEMMA CloseKeeps ==
    ASSUME StampInv, Close
    PROVE  StampInv'
  <1>1. /\ handler \in Handlers /\ db \in Seq(Rows) /\ handler.records \in Seq(Rows)
        /\ [handler EXCEPT !.records = << >>] \in Handlers
    <2>1. handler \in Handlers /\ db \in Seq(Rows)
      BY DEF StampInv, TypeOK
    <2>2. << >> \in Seq(Rows)
      OBVIOUS
    <2>3. [handler EXCEPT !.records = << >>] \in Handlers
      BY <2>1, <2>2 DEF Handlers
    <2>. QED
      BY <2>1, <2>3, HandlerFields
  <1>2. InOrderUpTo(db \o handler.records, handler.rts)
    <2>1. CASE status = "subscribed"
      <3>1. db = << >> /\ handler.records = << >> /\ db \o handler.records = << >>
        BY <2>1, <1>1, ConcatEmptySeq DEF StampInv, NewHandler
      <3>. QED
        BY <3>1 DEF InOrderUpTo
    <2>2. CASE status = "open"
      BY <2>2 DEF StampInv
    <2>. QED
      BY <2>1, <2>2 DEF Close
  <1>3. CASE /\ status' = "closed"
             /\ db' = db \o handler.records
             /\ handler' = [handler EXCEPT !.records = << >>]
    <2>1. StampsInOrder'
      BY <1>2, <1>3 DEF InOrderUpTo, StampsInOrder
    <2>2. db' \in Seq(Rows)
      BY <1>1, <1>3, Concat
    <2>. QED
      BY <1>1, <1>3, <2>1, <2>2 DEF StampInv, TypeOK, Close
  <1>4. CASE status' = "failed" /\ UNCHANGED << db, handler >>
    BY <1>4 DEF StampInv, TypeOK, StampsInOrder, Close
  <1>. QED
    BY <1>3, <1>4 DEF Close

\* The strengthening is inductive: data() and close() in bitfinex.py keep it.
THEOREM StampInvariant == Spec => []StampInv
  <1>1. Init => StampInv
    <2>1. << >> \in Seq(Rows) /\ << >> \in Seq(Events)
      OBVIOUS
    <2>. QED
      BY <2>1, NewHandlerType DEF Init, StampInv, TypeOK, StampsInOrder
  <1>2. StampInv /\ [Next]_vars => StampInv'
    <2>1. ASSUME StampInv, UNCHANGED vars
          PROVE  StampInv'
      BY <2>1 DEF StampInv, TypeOK, StampsInOrder, vars
    <2>. QED
      BY <2>1, SnapshotKeeps, EventKeeps, CloseKeeps DEF Next
  <1>. QED
    BY <1>1, <1>2, PTL DEF Spec

\* The variables of a book channel keep their types.
THEOREM TypeCorrect == Spec => []TypeOK
  <1>1. StampInv => TypeOK
    BY DEF StampInv
  <1>. QED
    BY <1>1, StampInvariant, PTL

(***************************************************************************)
(* The rows of a channel never carry a stamp before their own timestamp    *)
(* and are stored in the order of their stamps, for every stream of        *)
(* timestamps: episode_rts is a running maximum and a completed episode is *)
(* stamped before the deletion that completes it is taken into account.    *)
(***************************************************************************)
THEOREM StampsAlwaysInOrder == Spec => []StampsInOrder
  <1>1. StampInv => StampsInOrder
    BY DEF StampInv
  <1>. QED
    BY <1>1, StampInvariant, PTL

-----------------------------------------------------------------------------
(***************************************************************************)
(* The strengthening of EpisodesKept and WholeEpisodesOnly: the rows saved *)
(* and kept are those the handler has made of the events so far, and those *)
(* saved end with an episode, whatever is received later.                  *)
(***************************************************************************)
EpisodeInv ==
    /\ TypeOK
    /\ status = "subscribed" => handler = NewHandler /\ db = << >> /\ received = << >>
    /\ status = "open" => Accumulates(received, db \o handler.records, handler)
    /\ status = "closed" => db = CompleteEpisodes(received)
    /\ HasRows(received, db)
    /\ HasLastEnd(received)

LEMMA HandledKeepsEpisodes ==
    ASSUME EpisodeInv, NEW h \in Handlers, Handled(h),
           received' \in Seq(Events),
           Accumulates(received', db \o h.records, h), HasRows(received', db)
    PROVE  EpisodeInv'
  <1>1. db \in Seq(Rows) /\ h.records \in Seq(Rows)
    BY HandlerFields DEF EpisodeInv, TypeOK
  <1>2. CASE /\ handler' = Kept(h)
             /\ db' = db \o Copied(h)
             /\ status' = "open"
    <2>1. /\ Kept(h) \in Handlers /\ Kept(h).rts = h.rts /\ Kept(h).acc = h.acc
          /\ Kept(h).started = h.started
          /\ Copied(h) \in Seq(Rows) /\ db' \in Seq(Rows)
      BY <1>1, <1>2, CopiedAndKept, Concat
    <2>2. /\ db' \o handler'.records = db \o h.records
          /\ db' = db \o h.records \/ db' = db
      <3>1. CASE Copied(h) = h.records /\ Kept(h).records = << >>
        BY <1>1, <1>2, <2>1, <3>1, ConcatEmptySeq
      <3>2. CASE Copied(h) = << >> /\ Kept(h).records = h.records
        BY <1>1, <1>2, <3>2, ConcatEmptySeq
      <3>. QED
        BY <3>1, <3>2, CopiedAndKept
    <2>3. /\ Accumulates(received', db' \o handler'.records, handler')
          /\ HasRows(received', db \o h.records) /\ HasLastEnd(received')
      BY <1>2, <2>1, <2>2, AccumulatesSame
    <2>4. TypeOK'
      BY <1>2, <2>1 DEF TypeOK
    <2>. QED
      BY <1>2, <2>2, <2>3, <2>4 DEF EpisodeInv, HasLastEnd
  <1>3. CASE status' = "failed" /\ handler' = h /\ UNCHANGED db
    <2>1. HasLastEnd(received')
      BY AccumulatesSame
    <2>2. TypeOK'
      BY <1>1, <1>3 DEF TypeOK
    <2>. QED
      BY <1>3, <2>1, <2>2 DEF EpisodeInv, HasLastEnd
  <1>. QED
    BY <1>2, <1>3 DEF Handled

LEMMA SnapshotKeepsEpisodes ==
    ASSUME EpisodeInv, NEW size \in 1..MaxSnapshot, NEW ts \in Timestamps, Snapshot(size, ts)
    PROVE  EpisodeInv'
  <1>. DEFINE events == [i \in 1..size |-> [n |-> i, kind |-> "snap", rts |-> ts]]
              h == OnSnapshot(handler, events, ts)
  <1>1. ts \in Nat /\ size \in Nat
    BY ChannelAssumption
  <1>2. /\ events \in Seq(Events) /\ Len(events) = size /\ Len(events) > 0
        /\ \A i \in 1..size : events[i].kind = "snap" /\ events[i].rts = ts
    BY <1>1 DEF Events, Kinds
  <1>3. handler = NewHandler /\ db = << >> /\ handler \in Handlers
    BY DEF Snapshot, EpisodeInv, TypeOK
  <1>4. Handled(h) /\ received' = events
    BY DEF Snapshot
  <1>. HIDE DEF events
  <1>5. /\ h \in Handlers /\ h.rts = ts /\ h.acc = << >>
        /\ h.records = << >> \o Stamped(events, ts)
    <2>1. /\ h \in Handlers /\ h.rts = ts /\ h.acc = handler.acc
          /\ h.records = handler.records \o Stamped(events, ts)
      BY <1>1, <1>2, <1>3, OnSnapshotType
    <2>2. handler.acc = << >> /\ handler.records = << >>
      BY <1>3 DEF NewHandler
    <2>. HIDE DEF h
    <2>. QED
      BY <2>1, <2>2
  <1>6. h.started = FALSE
    BY <1>3 DEF OnSnapshot, NewHandler
  <1>7. db \o h.records = Stamped(events, ts)
    BY <1>1, <1>2, <1>3, <1>5, StampedRows, ConcatEmptySeq
  <1>. HIDE DEF h
  <1>8. Accumulates(events, db \o h.records, h)
    BY <1>1, <1>2, <1>5, <1>6, <1>7, SnapshotAccumulates
  <1>9. HasRows(events, db)
    BY <1>3 DEF HasRows
  <1>. QED
    BY <1>2, <1>4, <1>5, <1>8, <1>9, HandledKeepsEpisodes

LEMMA EventKeepsEpisodes ==
    ASSUME EpisodeInv, NEW kind \in {"add", "del"}, NEW ts \in Timestamps, Event(kind, ts)
    PROVE  EpisodeInv'
  <1>. DEFINE e == [n |-> Len(received) + 1, kind |-> kind, rts |-> ts]
              h == OnEvent(handler, e)
              rows == db \o handler.records
  <1>1. /\ e \in Events /\ e.kind \in {"add", "del"}
        /\ received \in Seq(Events)
        /\ received' = Append(received, e) /\ received' \in Seq(Events)
    BY ChannelAssumption DEF Event, Events, Kinds, EpisodeInv, TypeOK
  <1>2. Accumulates(received, rows, handler) /\ handler \in Handlers /\ db \in Seq(Rows)
    BY DEF Event, EpisodeInv, TypeOK
  <1>3. Handled(h)
    BY DEF Event
  <1>. HIDE DEF e
  <1>4. /\ h \in Handlers /\ rows \in Seq(Rows) /\ handler.records \in Seq(Rows)
        /\ Stamped(handler.acc, handler.rts) \in Seq(Rows)
    BY <1>1, <1>2, OnEventType, HandlerFields, StampedRows, Concat
  <1>5. Accumulates(received', db \o h.records, h)
    <2>1. CASE Completes(handler, e)
      <3>1. h.records = handler.records \o Stamped(handler.acc, handler.rts)
        BY <2>1 DEF OnEvent
      <3>2. (db \o handler.records) \o Stamped(handler.acc, handler.rts)
              = db \o (handler.records \o Stamped(handler.acc, handler.rts))
        BY <1>2, <1>4, RowsAssociative
      <3>3. db \o h.records = rows \o Stamped(handler.acc, handler.rts)
        BY <3>1, <3>2
      <3>. QED
        BY <2>1, <3>3, <1>1, <1>2, <1>4, EventCompletes
    <2>2. CASE ~Completes(handler, e)
      <3>1. h.records = handler.records
        BY <2>2 DEF OnEvent
      <3>. QED
        BY <2>2, <3>1, <1>1, <1>2, <1>4, EventIsAccumulated
    <2>. QED
      BY <2>1, <2>2
  <1>6. HasRows(received', db)
    <2>1. Len(received) > 0
      BY <1>2 DEF Accumulates
    <2>2. HasRows(received, db)
      BY DEF EpisodeInv
    <2>. QED
      BY <2>1, <2>2, <1>1, <1>2, RowsStay
  <1>. HIDE DEF h
  <1>. QED
    BY <1>1, <1>3, <1>4, <1>5, <1>6, HandledKeepsEpisodes

LEMMA CloseKeepsEpisodes ==
    ASSUME EpisodeInv, Close
    PROVE  EpisodeInv'
  <1>1. /\ handler \in Handlers /\ db \in Seq(Rows) /\ handler.records \in Seq(Rows)
        /\ [handler EXCEPT !.records = << >>] \in Handlers
        /\ received' = received /\ received \in Seq(Events)
    <2>1. handler \in Handlers /\ db \in Seq(Rows) /\ received \in Seq(Events)
      BY DEF EpisodeInv, TypeOK
    <2>2. << >> \in Seq(Rows)
      OBVIOUS
    <2>3. [handler EXCEPT !.records = << >>] \in Handlers
      BY <2>1, <2>2 DEF Handlers
    <2>. QED
      BY <2>1, <2>3, HandlerFields DEF Close
  <1>2. db \o handler.records \in Seq(Rows)
    BY <1>1, Concat
  <1>3. /\ db \o handler.records = CompleteEpisodes(received)
        /\ HasRows(received, db \o handler.records)
    <2>1. CASE status = "subscribed"
      <3>1. db = << >> /\ handler.records = << >> /\ received = << >>
        BY <2>1 DEF EpisodeInv, NewHandler
      <3>2. db \o handler.records = << >>
        BY <3>1, <1>1, ConcatEmptySeq
      <3>. QED
        BY <3>1, <3>2, NoEvents
    <2>2. CASE status = "open"
      <3>1. Accumulates(received, db \o handler.records, handler)
        BY <2>2 DEF EpisodeInv
      <3>. QED
        BY <3>1, <1>2, AccumulatesComplete, AccumulatesSame
    <2>. QED
      BY <2>1, <2>2 DEF Close
  <1>4. CASE /\ status' = "closed"
             /\ db' = db \o handler.records
             /\ handler' = [handler EXCEPT !.records = << >>]
    <2>1. TypeOK'
      BY <1>1, <1>2, <1>4 DEF TypeOK
    <2>. QED
      BY <1>1, <1>3, <1>4, <2>1 DEF EpisodeInv, HasLastEnd
  <1>5. CASE status' = "failed" /\ UNCHANGED << db, handler >>
    <2>1. TypeOK'
      BY <1>1, <1>5 DEF TypeOK
    <2>. QED
      BY <1>1, <1>5, <2>1 DEF EpisodeInv, HasLastEnd
  <1>. QED
    BY <1>4, <1>5 DEF Close

\* The strengthening is inductive: data() and close() in bitfinex.py keep it.
THEOREM EpisodeInvariant == Spec => []EpisodeInv
  <1>1. Init => EpisodeInv
    <2>1. << >> \in Seq(Rows) /\ << >> \in Seq(Events)
      OBVIOUS
    <2>. QED
      BY <2>1, NewHandlerType, NoEvents DEF Init, EpisodeInv, TypeOK
  <1>2. EpisodeInv /\ [Next]_vars => EpisodeInv'
    <2>1. ASSUME EpisodeInv, UNCHANGED vars
          PROVE  EpisodeInv'
      BY <2>1 DEF EpisodeInv, TypeOK, HasLastEnd, vars
    <2>. QED
      BY <2>1, SnapshotKeepsEpisodes, EventKeepsEpisodes, CloseKeepsEpisodes DEF Next
  <1>. QED
    BY <1>1, <1>2, PTL DEF Spec

(***************************************************************************)
(* Nothing is lost, duplicated or reordered on its way through the         *)
(* handler, for every number of events and all timestamps: the incremental *)
(* grouping of data() makes exactly the episodes one would cut the whole   *)
(* stream into.                                                            *)
(***************************************************************************)
THEOREM EpisodesAlwaysKept == Spec => []EpisodesKept
  <1>1. ASSUME EpisodeInv
        PROVE  EpisodesKept
    <2>1. CASE status = "open"
      <3>1. handler.records \in Seq(Rows) /\ db \in Seq(Rows)
        BY <1>1, HandlerFields DEF EpisodeInv, TypeOK
      <3>2. db \o handler.records \in Seq(Rows)
        BY <3>1, Concat
      <3>. QED
        BY <1>1, <2>1, <3>2, AccumulatesComplete DEF EpisodeInv, EpisodesKept
    <2>2. CASE status # "open"
      BY <1>1, <2>2 DEF EpisodeInv, EpisodesKept
    <2>. QED
      BY <2>1, <2>2
  <1>. QED
    BY <1>1, EpisodeInvariant, PTL

(***************************************************************************)
(* The table never ends within an episode, also when a COPY has failed.    *)
(***************************************************************************)
THEOREM OnlyWholeEpisodes == Spec => []WholeEpisodesOnly
  <1>1. ASSUME EpisodeInv
        PROVE  WholeEpisodesOnly
    <2>. DEFINE complete == CompleteEpisodes(received)
    <2>1. db \in Seq(Rows) /\ received \in Seq(Events)
      BY <1>1 DEF EpisodeInv, TypeOK
    <2>2. /\ Len(db) \in {0} \union EpisodeEnds(received) /\ Len(db) \in Nat
          /\ \A i \in 1..Len(db) : db[i] = complete[i]
      BY <1>1, <2>1, RowsAreComplete DEF EpisodeInv
    <2>3. db = SubSeq(complete, 1, Len(db))
      <3>. HIDE DEF complete
      <3>1. \A i \in 1..Len(db) : complete[i] \in Rows
        BY <2>1, <2>2
      <3>2. /\ SubSeq(complete, 1, Len(db)) \in Seq(Rows)
            /\ Len(SubSeq(complete, 1, Len(db))) = Len(db)
            /\ \A i \in 1..Len(db) : SubSeq(complete, 1, Len(db))[i] = complete[i]
        BY <2>2, <3>1, SubSeqProperties
      <3>. QED
        BY <2>1, <2>2, <3>2, SeqEqual
    <2>. QED
      BY <2>2, <2>3 DEF WholeEpisodesOnly
  <1>. QED
    BY <1>1, EpisodeInvariant, PTL

-----------------------------------------------------------------------------
(***************************************************************************)
(* Refinement: the channel implements a log of complete episodes.          *)
(***************************************************************************)

\* The log's words mean here what they mean in the channel.
LEMMA LogEpisodes ==
    /\ \A events : Log!EpisodeEnds(events) = EpisodeEnds(events)
    /\ \A events : Log!CompleteEpisodes(events) = CompleteEpisodes(events)
  BY DEF Log!EpisodeEnds, Log!EndsEpisode, EpisodeEnds, EndsEpisode,
         Log!CompleteEpisodes, Log!CompleteLength, Log!EpisodeStamp,
         CompleteEpisodes, CompleteLength, EpisodeStamp

(***************************************************************************)
(* A step that receives some events, or none, and adds rows to the table   *)
(* so that it still holds whole episodes only is a step of the log.        *)
(***************************************************************************)
LEMMA LogStep ==
    ASSUME TypeOK, TypeOK', HasRows(received', db'), HasLastEnd(received'),
           NEW more \in Seq(Rows), db' = db \o more,
           Len(received) <= Len(received'),
           received = SubSeq(received', 1, Len(received))
    PROVE  Log!Next
  <1>. DEFINE events == received'
  <1>1. /\ db \in Seq(Rows) /\ db' \in Seq(Rows) /\ events \in Seq(Events)
    BY DEF TypeOK
  <1>2. /\ DOMAIN db = 1..Len(db) /\ Len(db) \in Nat /\ Len(more) \in Nat
        /\ DOMAIN db' = 1..(Len(db) + Len(more)) /\ Len(db') = Len(db) + Len(more)
        /\ \A i \in 1..(Len(db) + Len(more)) :
              db'[i] = IF i <= Len(db) THEN db[i] ELSE more[i - Len(db)]
    BY <1>1, Concat, ConcatProperties
  <1>3. /\ Len(db') \in {0} \union EpisodeEnds(events)
        /\ \A i \in 1..Len(db') : db'[i] = CompleteEpisodes(events)[i]
    BY <1>1, RowsAreComplete
  <1>4. Log!Receives(1)
    BY DEF Log!Receives
  <1>5. CASE Len(more) = 0
    <2>1. db' = db
      BY <1>1, <1>2, <1>5, SeqEqual
    <2>. QED
      BY <1>4, <2>1 DEF Log!Next
  <1>6. CASE Len(more) > 0
    <2>. DEFINE logOf(rows) == [i \in DOMAIN rows |-> [session |-> 1, row |-> rows[i]]]
                new == [i \in 1..Len(more) |->
                          [session |-> 1, row |-> CompleteEpisodes(events)[Len(db) + i]]]
                Logged == [session : {1}, row : Rows]
    <2>1. \A i \in 1..Len(more) :
            CompleteEpisodes(events)[Len(db) + i] = more[i] /\ more[i] \in Rows
      <3>1. ASSUME NEW i \in 1..Len(more)
            PROVE  Len(db) + i \in 1..Len(db') /\ db'[Len(db) + i] = more[i]
        BY <1>2
      <3>. QED
        BY <3>1, <1>3
    <2>2. /\ logOf(db) \in Seq(Logged) /\ Len(logOf(db)) = Len(db)
          /\ logOf(db') \in Seq(Logged) /\ Len(logOf(db')) = Len(db')
          /\ new \in Seq(Logged) /\ Len(new) = Len(more)
      <3>1. \A i \in 1..Len(db) : db[i] \in Rows
        BY <1>1, <1>2
      <3>2. DOMAIN db' = 1..Len(db') /\ \A i \in 1..Len(db') : db'[i] \in Rows
        BY <1>1
      <3>. QED
        BY <1>2, <2>1, <3>1, <3>2
    <2>3. ASSUME NEW i \in 1..Len(db')
          PROVE  logOf(db')[i] = IF i <= Len(db) THEN logOf(db)[i] ELSE new[i - Len(db)]
      <3>1. CASE i <= Len(db)
        BY <1>2, <3>1
      <3>2. CASE i > Len(db)
        <4>1. i - Len(db) \in 1..Len(more)
          BY <1>2, <3>2
        <4>. QED
          BY <1>2, <2>1, <3>2, <4>1
      <3>. QED
        BY <1>2, <3>1, <3>2
    <2>. HIDE DEF logOf, new, Logged
    <2>. HIDE DEF events
    <2>4. /\ logOf(db) \o new \in Seq(Logged)
          /\ Len(logOf(db) \o new) = Len(db')
          /\ \A i \in 1..Len(db') :
                (logOf(db) \o new)[i] = IF i <= Len(db) THEN logOf(db)[i] ELSE new[i - Len(db)]
      <3>. DEFINE a == logOf(db)
      <3>1. a \in Seq(Logged) /\ new \in Seq(Logged)
        BY <2>2
      <3>2. Len(a) = Len(db) /\ Len(new) = Len(more)
        BY <2>2
      <3>. HIDE DEF a
      <3>3. /\ a \o new \in Seq(Logged)
            /\ DOMAIN (a \o new) = 1..(Len(a) + Len(new))
            /\ \A i \in 1..(Len(a) + Len(new)) :
                  (a \o new)[i] = IF i <= Len(a) THEN a[i] ELSE new[i - Len(a)]
        BY <3>1, Concat
      <3>4. Len(db') = Len(a) + Len(new)
        BY <1>2, <3>2
      <3>5. \A i \in 1..Len(db') :
              (a \o new)[i] = IF i <= Len(db) THEN a[i] ELSE new[i - Len(db)]
        BY <3>2, <3>3, <3>4
      <3>6. Len(a \o new) = Len(db')
        BY <1>2, <3>3, <3>4
      <3>. QED
        BY <3>3, <3>5, <3>6 DEF a
    <2>5. logOf(db') = logOf(db) \o new
      BY <2>2, <2>3, <2>4, SeqEqual
    <2>6. Len(db') \in EpisodeEnds(events) /\ Len(db') > Len(db) /\ Len(db') - Len(db) = Len(more)
      BY <1>2, <1>3, <1>6
    <2>7. Log!Saves(1)
      <3>1. Log!NewRows(1, events, Len(db')) = new
        BY <2>6, LogEpisodes DEF Log!NewRows, new
      <3>2. Len(db') \in Log!EpisodeEnds(events)
        BY <2>6, LogEpisodes
      <3>3. logOf(db)' = logOf(db) \o Log!NewRows(1, events, Len(db'))
        BY <2>5, <3>1 DEF logOf
      <3>4. [s \in {1} |-> Len(db)]' = [[s \in {1} |-> Len(db)] EXCEPT ![1] = Len(db')]
        OBVIOUS
      <3>5. /\ Len(db') > [s \in {1} |-> Len(db)][1]
            /\ \A r \in {1} : ~(r > 1)
        BY <2>6
      <3>6. events = ([s \in {1} |-> received]')[1]
        BY DEF events
      <3>7. logOf(db)' = [i \in DOMAIN db |-> [session |-> 1, row |-> db[i]]]'
        BY DEF logOf
      <3>. QED
        BY <3>2, <3>3, <3>4, <3>5, <3>6 DEF Log!Saves, logOf
    <2>. QED
      BY <1>4, <2>7 DEF Log!Next
  <1>. QED
    BY <1>2, <1>5, <1>6

\* Every step of the channel adds rows to the table and events to the stream.
LEMMA StepExtends ==
    ASSUME EpisodeInv, Next
    PROVE  /\ \E more \in Seq(Rows) : db' = db \o more
           /\ Len(received) <= Len(received')
           /\ received = SubSeq(received', 1, Len(received))
  <1>1. /\ db \in Seq(Rows) /\ handler \in Handlers /\ received \in Seq(Events)
        /\ << >> \in Seq(Rows) /\ db \o << >> = db
        /\ handler.records \in Seq(Rows)
    <2>1. db \in Seq(Rows) /\ handler \in Handlers /\ received \in Seq(Events)
      BY DEF EpisodeInv, TypeOK
    <2>. QED
      BY <2>1, HandlerFields, ConcatEmptySeq
  <1>2. ASSUME NEW h \in Handlers, Handled(h)
        PROVE  \E more \in Seq(Rows) : db' = db \o more
    BY <1>1, <1>2, CopiedAndKept DEF Handled
  <1>3. received = SubSeq(received, 1, Len(received)) /\ Len(received) \in Nat
    BY <1>1
  <1>4. ASSUME NEW size \in 1..MaxSnapshot, NEW ts \in Timestamps, Snapshot(size, ts)
        PROVE  /\ \E more \in Seq(Rows) : db' = db \o more
               /\ Len(received) <= Len(received')
               /\ received = SubSeq(received', 1, Len(received))
    <2>. DEFINE events == [i \in 1..size |-> [n |-> i, kind |-> "snap", rts |-> ts]]
    <2>1. events \in Seq(Events) /\ ts \in Nat
      BY ChannelAssumption DEF Events, Kinds
    <2>2. Handled(OnSnapshot(handler, events, ts)) /\ received' = events /\ received = << >>
      BY <1>4 DEF Snapshot, EpisodeInv
    <2>. HIDE DEF events
    <2>3. OnSnapshot(handler, events, ts) \in Handlers
      BY <1>1, <2>1, OnSnapshotType
    <2>4. << >> = SubSeq(events, 1, 0) /\ 0 <= Len(events)
      BY <2>1
    <2>. QED
      BY <1>2, <2>2, <2>3, <2>4
  <1>5. ASSUME NEW kind \in {"add", "del"}, NEW ts \in Timestamps, Event(kind, ts)
        PROVE  /\ \E more \in Seq(Rows) : db' = db \o more
               /\ Len(received) <= Len(received')
               /\ received = SubSeq(received', 1, Len(received))
    <2>. DEFINE e == [n |-> Len(received) + 1, kind |-> kind, rts |-> ts]
    <2>1. e \in Events
      BY <1>3, ChannelAssumption DEF Events, Kinds
    <2>2. Handled(OnEvent(handler, e)) /\ received' = Append(received, e)
      BY <1>5 DEF Event
    <2>. HIDE DEF e
    <2>3. OnEvent(handler, e) \in Handlers
      BY <1>1, <2>1, OnEventType
    <2>4. /\ Len(received) <= Len(Append(received, e))
          /\ received = SubSeq(Append(received, e), 1, Len(received))
      BY <1>1, <2>1
    <2>. QED
      BY <1>2, <2>2, <2>3, <2>4
  <1>6. CASE Close
    <2>1. db' = db \o handler.records \/ db' = db \o << >>
      BY <1>1, <1>6 DEF Close
    <2>2. received' = received
      BY <1>6 DEF Close
    <2>3. Len(received) <= Len(received') /\ received = SubSeq(received', 1, Len(received))
      BY <1>3, <2>2
    <2>. QED
      BY <1>1, <2>1, <2>3
  <1>. QED
    BY <1>4, <1>5, <1>6 DEF Next

(***************************************************************************)
(* A book channel implements a log of complete episodes: for every stream  *)
(* of events and timestamps, every MIN_SAVE_COUNT and wherever a COPY      *)
(* fails, data() and close() only ever add whole episodes to the table,    *)
(* once and for all.                                                       *)
(***************************************************************************)
THEOREM ChannelImplementsLog == Spec => ImplementsLog
  <1>1. Init => Log!Init
    BY DEF Init, Log!Init
  <1>2. EpisodeInv /\ EpisodeInv' /\ [Next]_vars => [Log!Next]_(Log!vars)
    <2>1. ASSUME EpisodeInv, EpisodeInv', Next
          PROVE  Log!Next
      <3>1. /\ TypeOK /\ TypeOK'
            /\ HasRows(received', db') /\ HasLastEnd(received')
        BY <2>1 DEF EpisodeInv
      <3>. QED
        BY <2>1, <3>1, StepExtends, LogStep
    <2>2. UNCHANGED vars => UNCHANGED Log!vars
      BY DEF vars, Log!vars
    <2>. QED
      BY <2>1, <2>2
  <1>. QED
    BY <1>1, <1>2, EpisodeInvariant, PTL DEF Spec, ImplementsLog, Log!Spec
=============================================================================
