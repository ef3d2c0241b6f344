---------------------------- MODULE Level3Loading ---------------------------
(***************************************************************************)
(* Loading of the raw book events captured from Bitfinex into level3:      *)
(* pga_capture_transient() and capture_transient_raw_book_events() of      *)
(* src/db/bitfinex_schema.sql, run now and then while the capture process  *)
(* goes on adding episodes and opening channels.                           *)
(*                                                                         *)
(* The capture process is reduced to what the loading can see of it: rows  *)
(* of whole episodes, in order, and a channel per websocket session, whose *)
(* first episode is a snapshot of the book.  Every instant has at most one *)
(* episode.  An event has two times of the exchange: that of its episode,  *)
(* which level3 shows, and its own stamp, by which the loading orders the  *)
(* events of an order.  The first is the latest stamp seen so far, and     *)
(* stamps may go back, so the two orders may differ.                       *)
(***************************************************************************)
EXTENDS Level3Table

CONSTANTS
    Threshold,        \* p_new_era_start_threshold
    Delay,            \* p_delay
    MaxInterval,      \* p_max_interval
    MaxChanges,       \* bound: events in an episode
    MaxChannels,      \* bound: channels
    MaxBacklog,       \* bound: instants the loading may be behind the capture
    MaxLag,           \* bound: instants an event's stamp is before its episode
    MaxOutOfStep,     \* bound: with so many orders out of step no stamp goes back
    SnapshotPrices,   \* bound: prices of the orders in a snapshot
    MonthStartEvents  \* may an episode fall on the first instant of a month?

ASSUME LoadingAssumption ==
    /\ {Threshold, Delay, MaxInterval, MaxChanges, MaxChannels, MaxBacklog, MaxLag,
        MaxOutOfStep} \subseteq Nat
    /\ SnapshotPrices \subseteq Prices
    /\ MonthStartEvents \in BOOLEAN

VARIABLES
    clock,      \* the time of the last episode
    book,       \* the exchange's book: what a subscriber knows of it
    channels,   \* transient_raw_book_channels
    transient,  \* transient_raw_book_events
    level3,     \* obanalytics.level3
    eras,       \* obanalytics.level3_eras
    load,       \* the load that is running: its period, and its channels to come
    saved,      \* the tables when it began, while it runs
    failed,     \* history: did a load raise an exception?
    loaded,     \* history: the end of the last load
    replay,     \* history: the exchange's book at every instant so far
    inStep      \* history: the orders whose stamps have kept their order

history == << replay, inStep >>
vars == << clock, book, channels, transient, level3, eras, load, saved, failed, loaded,
           history >>

\* An order's place in the book; an absent order has price 0.
Absent == [price |-> 0, amount |-> 1]
Present == [price : Prices, amount : Amounts]
Books == [Orders -> Present \union {Absent}]
IsEmpty(b) == \A o \in Orders : b[o] = Absent

\* The columns episode_timestamp (ts) and exchange_timestamp (stamp); channel
\* -1 marks the orders open in level3, no is the number of the row an event
\* comes from.
OpenOrder == 0
Event(ts, stamp, local, o, state, channel, no) ==
    [ts |-> ts, stamp |-> stamp, local |-> local, id |-> o, price |-> state.price,
     amount |-> state.amount, channel |-> channel, no |-> no]

(***************************************************************************)
(* The order by exchange_timestamp, local_timestamp.  The local time is    *)
(* that of the arrival: of the episodes in turn, and within an episode of  *)
(* its events.  What the loading itself adds has none; SQL sorts NULL as   *)
(* the last.                                                               *)
(***************************************************************************)
ArrivedBefore(a, b) ==
    /\ a.local # Null
    /\ b.local = Null \/ a.ts < b.ts \/ (a.ts = b.ts /\ a.local < b.local)
Precedes(a, b) == a.stamp < b.stamp \/ (a.stamp = b.stamp /\ ArrivedBefore(a, b))

LastTime(events) == Max({e.ts : e \in events})
FirstTime(events) == Min({e.ts : e \in events})

NoLoad == [running |-> FALSE, from |-> 0, to |-> 0, left |-> {}]
NoTables == [channels |-> {}, transient |-> {}, level3 |-> {}, eras |-> << >>]
Tables == [channels |-> channels, transient |-> transient, level3 |-> level3, eras |-> eras]

Init ==
    /\ clock = 0
    /\ book = [o \in Orders |-> Absent]
    /\ channels = {}
    /\ transient = {}
    /\ level3 = {}
    /\ eras = << >>
    /\ load = NoLoad
    /\ saved = NoTables
    /\ failed = FALSE
    /\ loaded = 0
    /\ replay = << >>
    /\ inStep = Orders

-----------------------------------------------------------------------------
(***************************************************************************)
(* The rows made of the events of one order, of which there is one at most *)
(* at an instant.  An event after a deletion starts a new chain (a         *)
(* reincarnation); events number on from the number of the open row, if    *)
(* the chain starts with one.                                              *)
(***************************************************************************)
LastBefore(es, e) ==
    {x \in es : Precedes(x, e) /\ \A y \in es : Precedes(y, e) => ~Precedes(x, y)}
FirstAfter(es, e) ==
    {x \in es : Precedes(e, x) /\ \A y \in es : Precedes(e, y) => ~Precedes(y, x)}

Starts(es, e) == \A x \in LastBefore(es, e) : x.price = 0

\* The events of the chain of e, up to e.
ChainUpTo(es, e) ==
    LET starts == {y \in es : Starts(es, y)}
    IN  {x \in es : ~Precedes(e, x) /\ \A y \in starts : Precedes(x, y) => Precedes(e, y)}
Number(es, e) ==
    LET chain == ChainUpTo(es, e)
        start == CHOOSE x \in chain : Starts(es, x)
    IN  (IF start.no = Null THEN 1 ELSE start.no) + Cardinality(chain) - 1

(***************************************************************************)
(* The first event of the group of events that have the price of e: unlike *)
(* chains, groups go by the times of the episodes.                         *)
(***************************************************************************)
PriceChanges(es, e) ==
    Starts(es, e) \/ (e.price > 0 /\ \E x \in LastBefore(es, e) : x.price # e.price)
PriceStart(es, e) ==
    LET before  == ChainUpTo(es, e)
        chain   == {x \in es : x.ts <= e.ts /\ (x \in before \/ e \in ChainUpTo(es, x))}
        changes == {x \in chain : PriceChanges(es, x)}
        group   == {x \in chain : \A y \in changes : y.ts <= x.ts}
    IN  CHOOSE x \in group : \A y \in group : x.ts <= y.ts

\* A deletion repeats the price of the event before it; without one it is dropped.
IsInserted(es, e) ==
    e.channel # OpenOrder /\ ~(Starts(es, e) /\ e.price = 0)

\* The first row of an order, if it goes on in level3, is left to the trigger,
\* which numbers it and links it with the row before it.
LeftToNobody(es, e) == FALSE   \* a slip the properties tell from the code
LeftToTrigger(es, e) ==
    Number(es, e) > 1 /\ \A x \in es : x.ts < e.ts => ~IsInserted(es, x)

RowOf(es, e) ==
    LET deleted == e.price = 0
        shown   == IF deleted THEN CHOOSE x \in LastBefore(es, e) : TRUE ELSE e
        after   == FirstAfter(es, e)
        isLast  == deleted \/ after = {}
        number  == Number(es, e)
        price   == PriceStart(es, e)
        trigger == LeftToTrigger(es, e)
    IN  [ mts    |-> e.ts,
          id     |-> e.id,
          no     |-> IF trigger THEN Null ELSE number,
          price  |-> shown.price,
          amount |-> shown.amount,
          next   |-> IF deleted THEN MinusInfinity
                     ELSE IF isLast THEN Infinity ELSE (CHOOSE x \in after : TRUE).ts,
          nextNo |-> IF isLast THEN Null ELSE number + 1,
          pmts   |-> IF trigger THEN Null ELSE price.ts,
          pno    |-> IF trigger THEN Null ELSE Number(es, price) ]

RowsToInsert(events) ==
    UNION { LET es == {e \in events : e.id = o}
            IN  {RowOf(es, e) : e \in {x \in es : IsInserted(es, x)}}
          : o \in Orders }

\* Of the events of an order in an episode only the latest counts.
EarliestOnly(events) ==        \* a slip
    {e \in events : \A x \in events : x.id = e.id /\ x.ts = e.ts => ~Precedes(x, e)}
LatestOnly(events) ==
    {e \in events : \A x \in events : x.id = e.id /\ x.ts = e.ts => ~Precedes(e, x)}

(***************************************************************************)
(* _diff_order_books(): the events that turn the open orders into those of *)
(* a snapshot.  The orders missing from it are deleted at its time.        *)
(***************************************************************************)
ChangedOnly(open, snapshot) == \* the diff without the inferred deletions
    {a \in snapshot : \A b \in open :
        b.id = a.id => b.price # a.price \/ b.amount # a.amount}

DiffWithoutChannel(open, snapshot) ==   \* a slip
    ChangedOnly(open, snapshot)
    \union {Event(LastTime(snapshot), LastTime(snapshot), Null, b.id, Absent, b.channel, Null) :
            b \in {b \in open : \A a \in snapshot : a.id # b.id}}

DiffOrderBooks(open, snapshot) ==
    ChangedOnly(open, snapshot)
    \union {Event(LastTime(snapshot), LastTime(snapshot), Null, b.id, Absent,
                  (CHOOSE a \in snapshot : TRUE).channel, Null) :
            b \in {b \in open : \A a \in snapshot : a.id # b.id}}

-----------------------------------------------------------------------------
(***************************************************************************)
(* pga_capture_transient(): loads what is older than the delay, not over   *)
(* the end of a month, and starts a month with a snapshot of level3.  It   *)
(* is one transaction; no other process waits for what it reads.           *)
(***************************************************************************)
ChannelEnd(c, chans) ==
    LET next == {x.start : x \in {x \in chans : x.start > c.start}}
    IN  IF next = {} THEN Infinity ELSE Min(next) - 1

LastEraRows == {r \in level3 : InEraOf(eras, Infinity, r.mts)}
MonthBegins(first) ==
    LastEraRows # {} /\ Month(Max({r.mts : r \in LastEraRows})) # Month(first)

SnapshotChannel(from) ==
    [ channel |-> (CHOOSE e \in transient : \A x \in transient : e.ts <= x.ts).channel,
      start   |-> from ]
MonthSnapshot(from) ==
    {Event(from, from, Null, r.id, r, SnapshotChannel(from).channel, Null) :
        r \in LiveBefore(level3, eras, from)}

BeginLoad ==
    /\ ~load.running
    /\ transient # {}
    /\ LET first    == FirstTime(transient)
           last     == LastTime(transient) - Delay
           crosses  == Month(first) # Month(last)
           newMonth == ~crosses /\ MonthBegins(first)
           from     == IF newMonth THEN MonthStart(first) ELSE first
           upTo     == IF crosses THEN MonthStart(last) - 1 ELSE last
           to       == IF from + MaxInterval < upTo THEN from + MaxInterval ELSE upTo
       IN  /\ channels' = channels \union IF newMonth THEN {SnapshotChannel(from)} ELSE {}
           /\ transient' = transient \union IF newMonth THEN MonthSnapshot(from) ELSE {}
           /\ load' = [ running |-> TRUE, from |-> from, to |-> to,
                        left |-> {c \in channels' : /\ c.start <= to
                                                    /\ ChannelEnd(c, channels') >= from} ]
    /\ saved' = Tables
    /\ UNCHANGED << clock, book, level3, eras, failed, loaded, history >>

(***************************************************************************)
(* capture_transient_raw_book_events(): the channels in the order of their *)
(* starts.  A channel is processed up to the start of the next one.        *)
(***************************************************************************)
\* A new channel continues the era when it follows the book closely enough
\* and in the same month: rows refer to rows of their own partition only.
StartsEraByGap(live, start) ==   \* a slip
    live = {} \/ start - Max({r.mts : r \in live}) > Threshold
StartsEra(live, start) ==
    \/ live = {}
    \/ start - Max({r.mts : r \in live}) > Threshold
    \/ Month(Max({r.mts : r \in live})) # Month(start)

Inserted(before, after) == {r \in after : \A x \in before : Key(x) # Key(r)}

\* What a channel contributes, from start to end: the era it starts, if any,
\* the orders that were open before it, and the events that follow them.
OpenOrders(start) ==
    {Event(r.mts, r.mts, Null, r.id, r, OpenOrder, r.no) : r \in LiveBefore(level3, eras, start)}

CaptureChannel ==
    /\ load.running
    /\ \E c \in load.left :
         /\ \A x \in load.left : c.start <= x.start
         /\ LET cEnd   == ChannelEnd(c, channels)
                start  == IF c.start > load.from THEN c.start ELSE load.from
                end    == IF cEnd < load.to THEN cEnd ELSE load.to
                begins == c.start \in load.from..load.to
                new    == begins /\ StartsEra(LiveBefore(level3, eras, start), start)
                open   == IF new THEN {} ELSE OpenOrders(start)
                ers    == IF new THEN [e \in DOMAIN eras \union {start} |->
                                          IF e \in DOMAIN eras THEN eras[e] ELSE Null]
                          ELSE eras
                snapshot == {e \in transient : e.channel = c.channel /\ e.ts = start}
                events == IF begins /\ ~new
                          THEN (transient \ snapshot) \union DiffOrderBooks(open, snapshot)
                          ELSE transient
                taken  == {e \in events : e.channel = c.channel /\ e.ts \in start..end}
                rows   == RowsToInsert(LatestOnly(taken) \union open)
            IN  /\ ~(new /\ start \in DOMAIN eras)
                /\ transient' = events \ taken
                /\ level3' = InsertRows(level3, ers, rows)
                /\ eras' = UpdateEras(ers, Inserted(level3, level3'))
         /\ load' = [load EXCEPT !.left = @ \ {c}]
    /\ UNCHANGED << clock, book, channels, saved, failed, loaded, history >>

(***************************************************************************)
(* The end of the transaction: the constraints of level3 are checked.  The *)
(* key of level3_eras is checked at once.  An exception changes nothing.   *)
(***************************************************************************)
EraExists ==
    \E c \in load.left :
        /\ \A x \in load.left : c.start <= x.start
        /\ c.start \in load.from..load.to /\ c.start \in DOMAIN eras
        /\ StartsEra(LiveBefore(level3, eras, c.start), c.start)

EndLoad ==
    /\ load.running
    /\ load.left = {} \/ EraExists
    /\ IF load.left = {} /\ Consistent(level3)
       THEN /\ loaded' = IF load.to > loaded THEN load.to ELSE loaded
            /\ UNCHANGED << channels, transient, level3, eras, failed >>
       ELSE /\ channels' = saved.channels
            /\ transient' = saved.transient
            /\ level3' = saved.level3
            /\ eras' = saved.eras
            /\ failed' = TRUE
            /\ UNCHANGED loaded
    /\ load' = NoLoad /\ saved' = NoTables
    /\ UNCHANGED << clock, book, history >>

-----------------------------------------------------------------------------
(***************************************************************************)
(* The capture process adds an episode: events of the current channel.     *)
(***************************************************************************)
Channel == (CHOOSE c \in channels : \A x \in channels : x.channel <= c.channel).channel

Behind == IF transient = {} THEN 0 ELSE clock - FirstTime(transient)
CanAdvance(t) ==
    /\ ~load.running
    /\ t <= MaxTime
    /\ Behind < MaxBacklog
    /\ MonthStartEvents \/ t # MonthStart(t)

Changes == [id : Orders, state : Present \union {Absent}]

\* The latest change of an order counts.
BookAfter(changes) ==
    [o \in Orders |->
        LET own == {i \in DOMAIN changes : changes[i].id = o}
        IN  IF own = {} THEN book[o] ELSE changes[Max(own)].state]

(***************************************************************************)
(* The stamps of an episode's events: the latest is the episode's time,    *)
(* the others may be before it, and before those of earlier events.  An    *)
(* order is in step as long as its events are stamped in the order in      *)
(* which they came, and an event stamped before its episode is still       *)
(* stamped after all that the loading knows of the order: its events and   *)
(* rows, the starts of the channels and that of the month.                 *)
(***************************************************************************)
\* How far stamps may go back.
Lag == IF Cardinality(Orders \ inStep) < MaxOutOfStep THEN MaxLag ELSE 0
Stamps(n, t) ==
    {stamps \in [1..n -> (t - Lag)..t] : \E i \in 1..n : stamps[i] = t}

Known(o, t) ==
    {e.ts : e \in {e \in transient : e.id = o}} \union {r.mts : r \in {r \in level3 : r.id = o}}
    \union {c.start : c \in channels} \union {MonthStart(t)}
KeepsStep(o, changes, stamps, t) ==
    LET own == {i \in DOMAIN changes : changes[i].id = o}
    IN  /\ \A i \in own : stamps[i] = t \/ \A k \in Known(o, t) : k < stamps[i]
        /\ \A i, j \in own : i < j => stamps[i] <= stamps[j]

Episode(changes, stamps) ==
    LET t == clock + 1
    IN  /\ channels # {}
        /\ CanAdvance(t)
        /\ \A i \in DOMAIN changes : changes[i].state # book[changes[i].id] \/ i > 1
        /\ clock' = t
        /\ book' = BookAfter(changes)
        /\ replay' = Append(replay, book')
        /\ inStep' = {o \in inStep : KeepsStep(o, changes, stamps, t)}
        /\ transient' = transient \union
             {Event(t, stamps[i], i, changes[i].id, changes[i].state, Channel, Null) :
                i \in DOMAIN changes}
        /\ UNCHANGED << channels, level3, eras, load, saved, failed, loaded >>

\* A quiet instant.
Tick ==
    /\ ~load.running
    /\ channels # {}
    /\ clock < MaxTime
    /\ clock' = clock + 1
    /\ replay' = Append(replay, book)
    /\ UNCHANGED << book, channels, transient, level3, eras, load, saved, failed, loaded,
                    inStep >>

\* A new session: the snapshot may show any book.
Subscribe(snapshot) ==
    LET t == clock + 1
        channel == IF channels = {} THEN 1 ELSE Channel + 1
    IN  /\ channel <= MaxChannels
        /\ CanAdvance(t)
        /\ ~IsEmpty(snapshot)
        /\ \A o \in Orders : snapshot[o] = Absent \/ snapshot[o].price \in SnapshotPrices
        /\ clock' = t
        /\ book' = snapshot
        /\ replay' = Append(replay, snapshot)
        /\ channels' = channels \union {[channel |-> channel, start |-> t]}
        /\ transient' = transient \union
             {Event(t, t, 1, o, snapshot[o], channel, Null) :
                o \in {o \in Orders : snapshot[o] # Absent}}
        /\ UNCHANGED << level3, eras, load, saved, failed, loaded, inStep >>

Next ==
    \/ /\ CanAdvance(clock + 1)
       /\ \E n \in 1..MaxChanges : \E stamps \in Stamps(n, clock + 1) :
            \E changes \in [1..n -> Changes] : Episode(changes, stamps)
    \/ \E snapshot \in Books : Subscribe(snapshot)
    \/ Tick
    \/ BeginLoad \/ CaptureChannel \/ EndLoad

Spec == Init /\ [][Next]_vars

-----------------------------------------------------------------------------
(***************************************************************************)
(* Type invariant.                                                         *)
(***************************************************************************)
TypeOK ==
    /\ clock \in 0..MaxTime
    /\ book \in Books
    /\ channels \subseteq [channel : 1..MaxChannels, start : Times]
    /\ \A e \in transient : e.ts \in Times /\ e.id \in Orders /\ e.channel \in 1..MaxChannels
    /\ level3 \subseteq Rows
    /\ DOMAIN eras \subseteq Times
    /\ \A e \in DOMAIN eras : eras[e] \in Times \union {Null}
    /\ failed \in BOOLEAN
    /\ loaded \in 0..MaxTime
    /\ Len(replay) = clock
    /\ inStep \subseteq Orders

(***************************************************************************)
(* The order book of level3 at every loaded instant is the book the        *)
(* exchange has shown at that instant, however the events were cut into    *)
(* channels, eras and loads: order_book() and all that is built on it rely *)
(* on it.  It is so for the orders that are in step, whatever the others   *)
(* do; of an order that is not, the loading may lose a deletion.           *)
(***************************************************************************)
BookReplayed ==
    \A t \in {t \in 1..loaded : ErasUpTo(eras, t) # {}} :
        LET live == LiveAt(level3, eras, t)
        IN  \A o \in inStep :
              /\ \A r, x \in live : r.id = o /\ x.id = o => r = x
              /\ LET rows == {[price |-> r.price, amount |-> r.amount] :
                                r \in {r \in live : r.id = o}}
                 IN  rows = {replay[t][o]} \ {Absent}

(***************************************************************************)
(* Chains: a row numbered above 1 follows a row of its order that points   *)
(* at it, and the first row of a chain follows none.  Nothing in the table *)
(* enforces it; show_invalid_chains() looks for violations.  An order that *)
(* is out of step may be numbered in another order than that of its rows.  *)
(***************************************************************************)
ChainsLinked ==
    \A r \in {r \in level3 : r.id \in inStep} :
        LET before == {x \in level3 : x.id = r.id /\ x.next = r.mts /\ x.nextNo = r.no}
        IN  IF r.no = 1 THEN before = {} ELSE \E x \in before : x.no = r.no - 1

(***************************************************************************)
(* No load raises an exception: none breaks a constraint of the table, in  *)
(* particular no row refers over the boundary of its partition, and no era *)
(* is started twice, unless an order is out of step: its rows may then end *)
(* before they begin.  A load that raises is tried again for ever.         *)
(***************************************************************************)
LoadsSucceed == failed => inStep # Orders

(***************************************************************************)
(* level3_eras tells of every era how far level3 goes in it.               *)
(***************************************************************************)
ErasUpToDate ==
    \A e \in DOMAIN eras :
        LET rows == {r \in level3 : r.mts >= e /\ \A x \in DOMAIN eras : x > e => r.mts < x}
        IN  eras[e] = IF rows = {} THEN Null ELSE Max({r.mts : r \in rows})

(***************************************************************************)
(* The time since which an order has had its price, which decides who is   *)
(* maker and who is taker, does not depend on how the events were cut into *)
(* loads: a row that keeps the price of the row before it keeps its        *)
(* price_microtimestamp.                                                   *)
(***************************************************************************)
PriceTimeKept ==
    ~load.running =>
        \A r, x \in level3 :
            /\ x.id = r.id /\ x.next = r.mts /\ x.nextNo = r.no
            /\ x.price = r.price
            => << r.pmts, r.pno >> = << x.pmts, x.pno >>
=============================================================================
