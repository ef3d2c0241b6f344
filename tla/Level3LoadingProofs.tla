------------------------ MODULE Level3LoadingProofs -------------------------
(***************************************************************************)
(* Proofs about Level3Loading, for all books, channels, months, delays and *)
(* cuts of the events into loads.                                          *)
(***************************************************************************)
EXTENDS Level3Loading, TLAPS, FiniteSetTheorems, WellFoundedInduction, NaturalsInduction

States == Present \union {Absent}
StateOf(x) == [price |-> x.price, amount |-> x.amount]

\* The exchange's book at an instant; before the first session it is empty.
BookOf(rep, t) == IF t = 0 THEN [o \in Orders |-> Absent] ELSE rep[t]

-----------------------------------------------------------------------------
(***************************************************************************)
(* level3 up to the instant f.  Later rows and rows that are followed by   *)
(* later ones do not exist yet.                                            *)
(***************************************************************************)
RowsSound(table, f) ==
    /\ table \subseteq Rows
    /\ \A r \in table :
         /\ r.mts <= f /\ r.no >= 1 /\ r.nextNo # 1
         /\ r.next \in {Infinity, MinusInfinity} \/ (r.mts < r.next /\ r.next <= f)

PointsAt(x, r) == x.id = r.id /\ x.next = r.mts /\ x.nextNo = r.no
Linked(table) ==
    \A r \in table : r.no # 1 => \E x \in table : PointsAt(x, r) /\ x.no = r.no - 1

\* The order book of level3 is the exchange's.
Shows(table, ers, t, b) ==
    LET live == LiveAt(table, ers, t)
    IN  /\ \A r, x \in live : r.id = x.id => r = x
        /\ \A r \in live : StateOf(r) = b[r.id]
        /\ \A o \in Orders : b[o] # Absent => \E r \in live : r.id = o
Replays(table, ers, f, rep) ==
    \A t \in 1..f : ErasUpTo(ers, t) # {} => Shows(table, ers, t, rep[t])

RowsOfEra(table, ers, e) == {r \in table : r.mts >= e /\ \A x \in DOMAIN ers : x > e => r.mts < x}
ErasSound(table, ers, f) ==
    /\ DOMAIN ers \subseteq 1..f
    /\ \A e \in DOMAIN ers :
         LET rows == RowsOfEra(table, ers, e)
         IN  /\ rows = {} => ers[e] = Null
             /\ rows # {} => /\ \A r \in rows : r.mts <= ers[e]
                             /\ \E r \in rows : r.mts = ers[e]

Level3Sound(table, ers, f, rep) ==
    /\ RowsSound(table, f)
    /\ Linked(table)
    /\ Replays(table, ers, f, rep)
    /\ ErasSound(table, ers, f)

(***************************************************************************)
(* The transient events after f say how the book goes on: the events of an *)
(* instant at which a channel starts show the book, those of another one   *)
(* change it.  Every event belongs to the channel it falls into.           *)
(***************************************************************************)
LocalTimes == 0..(MaxChanges + 1)
Covers(chans, c, t) == c.start <= t /\ t <= ChannelEnd(c, chans)
EventsAt(events, t, o) == {e \in events : e.ts = t /\ e.id = o}
StartsAt(chans, t) == \E c \in chans : c.start = t

Continues(events, rep, t, o) ==
    LET now == EventsAt(events, t, o)
    IN  /\ now = {} => rep[t][o] = BookOf(rep, t - 1)[o]
        /\ \A e \in now : (\A x \in now : x.local <= e.local) => StateOf(e) = rep[t][o]
ShowsAll(events, rep, t, o) ==
    LET now == EventsAt(events, t, o)
    IN  /\ now = {} => rep[t][o] = Absent
        /\ \A e \in now : StateOf(e) = rep[t][o] /\ e.price > 0

StreamSound(events, chans, f, now, rep) ==
    /\ \A e \in events :
         /\ e.ts \in Nat /\ f < e.ts /\ e.ts <= now
         /\ e.stamp \in Int /\ e.stamp <= e.ts
         /\ e.id \in Orders /\ e.no = Null /\ e.local \in LocalTimes /\ StateOf(e) \in States
         /\ e.channel \in 1..MaxChannels
         /\ \E c \in chans : c.channel = e.channel /\ Covers(chans, c, e.ts)
    /\ \A e, x \in events : e.ts = x.ts /\ e.id = x.id /\ e.local = x.local => e = x
    /\ \A t \in (f + 1)..now : \A o \in Orders :
         IF StartsAt(chans, t) THEN ShowsAll(events, rep, t, o) ELSE Continues(events, rep, t, o)

ChannelsSound(chans, now) ==
    /\ chans \subseteq [channel : 1..MaxChannels, start : 1..now]
    /\ \A c, x \in chans : c.start = x.start => c = x
    /\ chans # {} => \E c \in chans : \A x \in chans : x.start <= c.start /\ x.channel <= c.channel

\* Up to f, the last era has reached the month of every channel it has rows of.
LastRows(table, ers) == {r \in table : InEraOf(ers, Infinity, r.mts)}
MonthsReached(table, ers, chans, f) ==
    LastRows(table, ers) # {} =>
        \A c \in chans : c.start <= f =>
            \E r \in LastRows(table, ers) : Month(c.start) <= Month(r.mts)

\* A load that stops in a month before its first row is the last in it, or the
\* next one crosses its end.
MonthEnds(events, to) ==
    Month(to) < Month(to + 1) \/ \E e \in events : to < e.ts /\ Month(to) < Month(e.ts - Delay)
HasRowsAt(table, ers, to) ==
    LastRows(table, ers) # {} => \E r \in LastRows(table, ers) : Month(to) <= Month(r.mts)
MonthKept(table, ers, events, to) == MonthEnds(events, to) \/ HasRowsAt(table, ers, to)

\* No events but a snapshot made by the load at from fall on a month's start.
MonthStartsQuiet(events, from) == \A e \in events : e.ts = MonthStart(e.ts) => e.ts = from
SessionsShow(chans, f, from, rep) ==
    \A c \in chans : f < c.start =>
        \/ \E o \in Orders : rep[c.start][o] # Absent
        \/ c.start = from /\ rep[c.start] = BookOf(rep, c.start - 1)

\* The orders are in step: an event is stamped after all the loading knows of its order
\* before, and the stamps of an episode follow the arrival of the events.
OrderKept(table, events) ==
    /\ \A e \in events : \A r \in table : r.id = e.id => r.mts < e.stamp
    /\ \A e, x \in events : x.id = e.id =>
         /\ x.ts < e.ts => x.ts < e.stamp
         /\ x.ts = e.ts /\ x.local < e.local => x.local # Null /\ x.stamp <= e.stamp
StampsSound(table, events, chans) ==
    /\ OrderKept(table, events)
    /\ \A e \in events : /\ \A c \in chans : c.start < e.ts => c.start < e.stamp
                         /\ MonthStart(e.ts) < e.ts => MonthStart(e.ts) < e.stamp

Sound(table, ers, events, chans, f, from, now, rep) ==
    /\ f \in 0..now
    /\ Level3Sound(table, ers, f, rep)
    /\ StreamSound(events, chans, f, now, rep)
    /\ ChannelsSound(chans, now)
    /\ MonthsReached(table, ers, chans, f)
    /\ MonthStartsQuiet(events, from)
    /\ SessionsShow(chans, f, from, rep)
    /\ StampsSound(table, events, chans)

(***************************************************************************)
(* A load has got to f: the channels left are those after f, the first of  *)
(* which goes on there.  A load whose end is before its start does nothing.*)
(***************************************************************************)
Left(chans, f, to) == {c \in chans : f < to /\ c.start <= to /\ f < ChannelEnd(c, chans)}
GotTo(f) ==
    IF load.from <= load.to
    THEN /\ load.from - 1 <= f /\ f <= load.to
         /\ load.left = Left(channels, f, load.to)
         /\ f < load.to => \E c \in channels : /\ Covers(channels, c, f + 1)
                                               /\ c.start = f + 1 \/ f = load.from - 1
    ELSE /\ f = IF load.to > loaded THEN load.to ELSE loaded
         /\ load.left \subseteq {c \in channels : c.start <= load.to}

(***************************************************************************)
(* The inductive invariant.                                                *)
(***************************************************************************)
HistorySound ==
    /\ clock \in 0..MaxTime
    /\ replay \in Seq(Books) /\ Len(replay) = clock
    /\ book = BookOf(replay, clock)
    /\ loaded \in 0..clock
    /\ failed \in BOOLEAN
    /\ \A t \in 1..clock : t = MonthStart(t) => replay[t] = BookOf(replay, t - 1)
    /\ channels = {} => clock = 0

Running ==
    /\ load \in [running : {TRUE}, from : 1..clock, to : Int, left : SUBSET channels]
    /\ load.to <= clock /\ loaded < load.from /\ saved.channels # {}
    /\ Sound(saved.level3, saved.eras, saved.transient, saved.channels, loaded, 0, clock, replay)
    /\ MonthKept(saved.level3, saved.eras, saved.transient, loaded)
    /\ IF load.from <= load.to
       THEN \/ MonthEnds(transient, load.to)
            \/ /\ Month(load.from) = Month(load.to)
               /\ HasRowsAt(level3, eras, load.to) \/ \E c \in load.left : c.start = load.from
       ELSE MonthKept(level3, eras, transient, IF load.to > loaded THEN load.to ELSE loaded)
    /\ \E f \in 0..clock :
         /\ GotTo(f)
         /\ Sound(level3, eras, transient, channels, f, IF load.from <= load.to THEN load.from ELSE 0,
                  clock, replay)

IInv ==
    /\ HistorySound
    /\ ~load.running =>
         /\ load = NoLoad
         /\ Sound(level3, eras, transient, channels, loaded, 0, clock, replay)
         /\ MonthKept(level3, eras, transient, loaded)
    /\ load.running => Running

-----------------------------------------------------------------------------
(***************************************************************************)
(* Extrema, and months.                                                    *)
(***************************************************************************)
LEMMA NatMinimum ==
    ASSUME NEW T \in SUBSET Nat, T # {}
    PROVE  \E m \in T : \A k \in T : m <= k
<1> DEFINE R == OpToRel(<, Nat)
<1>1. IsWellFoundedOn(R, Nat)
  BY NatLessThanWellFounded
<1>2. \A x, y \in Nat : x < y => << x, y >> \in R
  BY DEF OpToRel
<1> HIDE DEF R
<1>3. PICK m \in T : \A k \in T : << k, m >> \notin R
  BY <1>1, WFMin
<1>4. \A k \in T : m <= k
  <2>1. TAKE k \in T
  <2>2. m \in Nat /\ k \in Nat
    OBVIOUS
  <2>3. ~(k < m)
    BY <1>2, <1>3, <2>2
  <2>. QED
    BY <2>2, <2>3
<1>. QED
  BY <1>4

LEMMA MaxIsGreatest ==
    ASSUME NEW n \in Nat, NEW S \in SUBSET (0..n), S # {}
    PROVE  /\ Max(S) \in S
           /\ \A y \in S : y <= Max(S)
<1> DEFINE T == {k \in Nat : n - k \in S}
<1>1. PICK s \in S : TRUE
  OBVIOUS
<1>2. n - s \in T
  BY n - (n - s) = s
<1>3. PICK m \in T : \A k \in T : m <= k
  BY <1>2, NatMinimum
<1>4. n - m \in S /\ \A y \in S : n - m >= y
  <2>1. \A y \in S : n - y \in T
    BY \A y \in S : n - (n - y) = y
  <2>. QED
    BY <2>1, <1>3
<1>. QED
  BY <1>4 DEF Max

LEMMA MaxIs ==
    ASSUME NEW n \in Nat, NEW S \in SUBSET (0..n), NEW x \in S, \A y \in S : y <= x
    PROVE  Max(S) = x
<1>1. Max(S) \in S /\ \A y \in S : y <= Max(S)
  <2>1. S # {}
    OBVIOUS
  <2>. QED
    BY <2>1, MaxIsGreatest
<1>2. PICK m : m = Max(S)
  OBVIOUS
<1>3. m \in Nat /\ x \in Nat
  <2>1. \A y \in S : y \in 0..n
    OBVIOUS
  <2>2. \A y \in 0..n : y \in Nat
    OBVIOUS
  <2>3. m \in S
    BY <1>1, <1>2
  <2>. QED
    BY <2>1, <2>2, <2>3
<1>4. m <= x /\ x <= m
  BY <1>1, <1>2
<1>. QED
  BY <1>2, <1>3, <1>4

LEMMA Greatest ==
    ASSUME NEW n \in Nat, NEW S, S \subseteq 0..n, S # {}
    PROVE  \E m \in S : \A y \in S : y <= m
BY MaxIsGreatest

LEMMA MinIsLeast ==
    ASSUME NEW S \in SUBSET Nat, S # {}
    PROVE  /\ Min(S) \in S
           /\ \A y \in S : Min(S) <= y
<1>1. PICK m \in S : \A y \in S : m <= y
  BY NatMinimum
<1>. QED
  BY <1>1 DEF Min

LEMMA MonthOrder ==
    ASSUME NEW a \in Int, NEW b \in Int, a <= b
    PROVE  /\ Month(a) \in Int /\ Month(b) \in Int
           /\ Month(a) <= Month(b)
BY TableAssumption DEF Month

LEMMA MonthStarts ==
    ASSUME NEW t \in Int
    PROVE  /\ Month(t) \in Int /\ MonthStart(t) \in Int
           /\ MonthStart(t) <= t
           /\ Month(MonthStart(t)) = Month(t)
           /\ Month(MonthStart(t) - 1) < Month(t)
BY TableAssumption DEF Month, MonthStart

-----------------------------------------------------------------------------
(***************************************************************************)
(* Rows are inserted instant by instant.                                   *)
(***************************************************************************)
InsertsUpTo(g, n, table, ers, rows) ==
    g = [t \in 0..n |-> IF t = 0 THEN table
                        ELSE InsertInstant(g[t - 1], ers, {r \in rows : r.mts = t})]

LEMMA InsertsUpToExists ==
    ASSUME NEW table, NEW ers, NEW rows, NEW n \in Nat
    PROVE  \E g : InsertsUpTo(g, n, table, ers, rows)
<1> DEFINE T == {m \in Nat : ~ \E g : InsertsUpTo(g, m, table, ers, rows)}
<1>1. SUFFICES ASSUME T # {} PROVE FALSE
  OBVIOUS
<1>2. PICK m \in T : \A k \in T : m <= k
  BY <1>1, NatMinimum
<1>3. m \in Nat /\ ~ \E g : InsertsUpTo(g, m, table, ers, rows)
  OBVIOUS
<1>4. CASE m = 0
  <2> DEFINE h == [t \in 0..0 |-> table]
  <2>1. h = [t \in 0..0 |-> IF t = 0 THEN table
                            ELSE InsertInstant(h[t - 1], ers, {r \in rows : r.mts = t})]
    OBVIOUS
  <2>. QED
    BY <1>3, <1>4, <2>1 DEF InsertsUpTo
<1>5. CASE m # 0
  <2>1. m - 1 \in Nat /\ m - 1 \notin T
    BY <1>2, <1>3, <1>5
  <2>2. PICK g : InsertsUpTo(g, m - 1, table, ers, rows)
    BY <2>1
  <2> DEFINE h == [t \in 0..m |->
                     IF t = m THEN InsertInstant(g[m - 1], ers, {r \in rows : r.mts = m})
                     ELSE g[t]]
  <2>3. \A t \in 0..m : h[t] = IF t = 0 THEN table
                               ELSE InsertInstant(h[t - 1], ers, {r \in rows : r.mts = t})
    <3>1. TAKE t \in 0..m
    <3>2. CASE t = m
      <4>1. m - 1 \in 0..m /\ m - 1 # m
        BY <1>3, <1>5
      <4>2. h[t - 1] = g[m - 1]
        BY <3>2, <4>1
      <4>. QED
        BY <1>5, <3>2, <4>2
    <3>3. CASE t # m
      <4>1. t \in 0..(m - 1)
        BY <1>3, <3>3
      <4>2. g[t] = IF t = 0 THEN table
                   ELSE InsertInstant(g[t - 1], ers, {r \in rows : r.mts = t})
        BY <2>2, <4>1 DEF InsertsUpTo
      <4>3. t # 0 => t - 1 \in 0..m /\ t - 1 # m
        BY <1>3, <4>1
      <4>4. t # 0 => h[t - 1] = g[t - 1]
        BY <4>3
      <4>5. h[t] = g[t]
        BY <3>3
      <4>. QED
        BY <4>2, <4>4, <4>5
    <3>. QED
      BY <3>2, <3>3
  <2>4. InsertsUpTo(h, m, table, ers, rows)
    BY <2>3 DEF InsertsUpTo
  <2>. QED
    BY <1>3, <2>4
<1>. QED
  BY <1>4, <1>5

Instant(rows, t) == {r \in rows : r.mts = t}
InsertSteps(g, table, ers, rows) ==
    /\ g[0] = table
    /\ \A t \in Times : g[t] = InsertInstant(g[t - 1], ers, Instant(rows, t))
    /\ InsertRows(table, ers, rows) = g[MaxTime]

LEMMA InsertsInSteps ==
    ASSUME NEW table, NEW ers, NEW rows
    PROVE  \E g : InsertSteps(g, table, ers, rows)
<1> DEFINE g == CHOOSE g : InsertsUpTo(g, MaxTime, table, ers, rows)
<1>1. MaxTime \in Nat
  BY TableAssumption
<1>2. InsertsUpTo(g, MaxTime, table, ers, rows)
  BY <1>1, InsertsUpToExists
<1>3. InsertRows(table, ers, rows) = g[MaxTime]
  BY Zenon DEF InsertRows, InsertsUpTo
<1> HIDE DEF g
<1>4. \A t \in 0..MaxTime :
        g[t] = IF t = 0 THEN table ELSE InsertInstant(g[t - 1], ers, {r \in rows : r.mts = t})
  BY <1>2 DEF InsertsUpTo
<1>5. g[0] = table
  <2>1. 0 \in 0..MaxTime
    BY <1>1
  <2>. QED
    BY <1>4, <2>1
<1>6. ASSUME NEW t \in Times
      PROVE  g[t] = InsertInstant(g[t - 1], ers, Instant(rows, t))
  BY <1>1, <1>4 DEF Times, Instant
<1>7. InsertSteps(g, table, ers, rows)
  BY <1>3, <1>5, <1>6 DEF InsertSteps
<1>. QED
  BY <1>7

\* Rows before the trigger and the constraints: of any times and numbers.
RawRows == [mts : Int, id : Orders, no : Int, price : Int, amount : Int,
            next : Int, nextNo : Int, pmts : Int, pno : Int]
Part(table, o) == {x \in table : x.id = o}
IsComplete(r) == r.pmts # Null /\ r.no # Null

LEMMA RowsAreRaw == Rows \subseteq RawRows
<1>1. SUFFICES ASSUME NEW x \in Rows PROVE x \in RawRows
  OBVIOUS
<1>2. x = [mts |-> x.mts, id |-> x.id, no |-> x.no, price |-> x.price, amount |-> x.amount,
           next |-> x.next, nextNo |-> x.nextNo, pmts |-> x.pmts, pno |-> x.pno]
  BY DEF Rows
<1>3. /\ x.mts \in Times /\ x.id \in Orders /\ x.no \in Nat /\ x.price \in Prices
      /\ x.amount \in Amounts /\ x.next \in Times \union {Infinity, MinusInfinity}
      /\ x.nextNo \in Nat /\ x.pmts \in Times /\ x.pno \in Nat
  BY DEF Rows
<1>4. \A t \in Times \union {Infinity, MinusInfinity} : t \in Int
  BY TableAssumption DEF Times, Infinity, MinusInfinity
<1>5. x.mts \in Int /\ x.next \in Int /\ x.pmts \in Int
  BY <1>3, <1>4
<1>6. x.no \in Int /\ x.nextNo \in Int /\ x.pno \in Int
  BY <1>3
<1>7. x.price \in Int /\ x.amount \in Int
  <2>1. \A p \in Prices \union Amounts : p \in Int
    BY TableAssumption
  <2>. QED
    BY <1>3, <2>1
<1>. QED
  BY <1>2, <1>3, <1>5, <1>6, <1>7 DEF RawRows

LEMMA RawFields ==
    ASSUME NEW x \in RawRows
    PROVE  /\ x.mts \in Int /\ x.id \in Orders /\ x.no \in Int /\ x.price \in Int
           /\ x.amount \in Int /\ x.next \in Int /\ x.nextNo \in Int /\ x.pmts \in Int
           /\ x.pno \in Int
BY DEF RawRows

LEMMA RawExceptNext ==
    ASSUME NEW x \in RawRows, NEW v \in Int, NEW w \in Int
    PROVE  LET y == [x EXCEPT !.next = v, !.nextNo = w]
           IN  /\ y \in RawRows
               /\ y.mts = x.mts /\ y.id = x.id /\ y.no = x.no /\ y.price = x.price
               /\ y.amount = x.amount /\ y.next = v /\ y.nextNo = w
               /\ y.pmts = x.pmts /\ y.pno = x.pno
BY DEF RawRows

LEMMA RawExceptNumber ==
    ASSUME NEW x \in RawRows, NEW u \in Int, NEW v \in Int, NEW w \in Int
    PROVE  LET y == [x EXCEPT !.no = u, !.pmts = v, !.pno = w]
           IN  /\ y \in RawRows
               /\ y.mts = x.mts /\ y.id = x.id /\ y.no = u /\ y.price = x.price
               /\ y.amount = x.amount /\ y.next = x.next /\ y.nextNo = x.nextNo
               /\ y.pmts = v /\ y.pno = w
BY DEF RawRows

LEMMA ContinueTyped ==
    ASSUME NEW table \in SUBSET RawRows, NEW prev \in RawRows, NEW new \in RawRows,
           prev.id = new.id
    PROVE  /\ Continue(table, prev, new) \subseteq RawRows
           /\ \A x \in Continue(table, prev, new) : x \in table \/ x.id = new.id
<1> DEFINE event == IF new.price = 0
                    THEN [new EXCEPT !.price = prev.price, !.amount = prev.amount]
                    ELSE new
           no == prev.no + 1
           a == [prev EXCEPT !.next = new.mts, !.nextNo = no]
           b == [event EXCEPT !.no = no,
                    !.pmts = IF SamePrice(event, new, prev) THEN prev.pmts ELSE new.mts,
                    !.pno  = IF SamePrice(event, new, prev) THEN prev.pno  ELSE no]
<1>1. Continue(table, prev, new) = (table \ {prev}) \union {a, b}
  BY DEF Continue
<1>2. event \in RawRows /\ event.id = new.id
  BY DEF RawRows
<1> HIDE DEF event
<1>3. a \in RawRows /\ a.id = new.id
  <2>1. \A v, w \in Int : LET y == [prev EXCEPT !.next = v, !.nextNo = w]
                           IN  y \in RawRows /\ y.id = prev.id
    BY DEF RawRows
  <2>2. no \in Int /\ new.mts \in Int
    BY RawFields
  <2>. QED
    BY Zenon, <2>1, <2>2
<1>4. b \in RawRows /\ b.id = new.id
  <2> DEFINE pmts == IF SamePrice(event, new, prev) THEN prev.pmts ELSE new.mts
             pno  == IF SamePrice(event, new, prev) THEN prev.pno  ELSE no
  <2>1. no \in Int /\ pmts \in Int /\ pno \in Int
    BY RawFields
  <2>2. \A u, v, w \in Int : LET y == [event EXCEPT !.no = u, !.pmts = v, !.pno = w]
                              IN  y \in RawRows /\ y.id = event.id
    BY <1>2 DEF RawRows
  <2>. QED
    BY Zenon, <1>2, <2>1, <2>2
<1> HIDE DEF a, b
<1>. QED
  BY <1>1, <1>3, <1>4

LEMMA IncorporateTyped ==
    ASSUME NEW table \in SUBSET RawRows, NEW ers, NEW new \in RawRows
    PROVE  /\ Incorporate(table, ers, new) \subseteq RawRows
           /\ \A x \in Incorporate(table, ers, new) : x \in table \/ x.id = new.id
<1>1. Previous(table, ers, new) \subseteq {r \in table : r.id = new.id}
  BY DEF Previous
<1>2. CASE (new.pmts # Null /\ new.no # Null) \/ Cardinality(Previous(table, ers, new)) > 1
  BY <1>2 DEF Incorporate
<1>3. CASE /\ ~((new.pmts # Null /\ new.no # Null) \/ Cardinality(Previous(table, ers, new)) > 1)
           /\ Previous(table, ers, new) # {}
  <2> DEFINE prev == CHOOSE r \in Previous(table, ers, new) : TRUE
  <2>1. prev \in Previous(table, ers, new)
    BY <1>3
  <2>2. Incorporate(table, ers, new) = Continue(table, prev, new)
    BY <1>3 DEF Incorporate
  <2> HIDE DEF prev
  <2>. QED
    BY <1>1, <2>1, <2>2, ContinueTyped
<1>4. CASE /\ ~((new.pmts # Null /\ new.no # Null) \/ Cardinality(Previous(table, ers, new)) > 1)
           /\ Previous(table, ers, new) = {}
  <2> DEFINE first == [new EXCEPT !.no = 1, !.pmts = new.mts, !.pno = 1]
  <2>1. first \in RawRows /\ first.id = new.id
    <3>1. \A u, v, w \in Int : LET y == [new EXCEPT !.no = u, !.pmts = v, !.pno = w]
                                IN  y \in RawRows /\ y.id = new.id
      BY DEF RawRows
    <3>2. new.mts \in Int /\ 1 \in Int
      BY RawFields
    <3>. QED
      BY Zenon, <3>1, <3>2
  <2>2. Incorporate(table, ers, new) \in {table, table \union {first}}
    BY <1>4 DEF Incorporate
  <2> HIDE DEF first
  <2>. QED
    BY <2>1, <2>2
<1>. QED
  BY <1>2, <1>3, <1>4

\* One instant, seen from an order.
InstantSeen(table, ers, rows, o) ==
    /\ InsertInstant(table, ers, rows) \subseteq RawRows
    /\ Part(rows, o) = {} => Part(InsertInstant(table, ers, rows), o) = Part(table, o)
    /\ \A r \in Part(rows, o) : (\A x \in Part(rows, o) : x = r) =>
         Part(InsertInstant(table, ers, rows), o) = Incorporate(Part(table, o), ers, r)

LEMMA InstantOfOrder ==
    ASSUME NEW table, NEW ers, NEW rows, NEW o,
           table \subseteq RawRows, rows \subseteq RawRows
    PROVE  InstantSeen(table, ers, rows, o)
<1> DEFINE after == InsertInstant(table, ers, rows)
<1>1. after = {x \in table : \A r \in rows : r.id # x.id} \union
              UNION {Incorporate(Part(table, r.id), ers, r) : r \in rows}
  BY DEF InsertInstant, Part
<1> HIDE DEF after
<1>2. ASSUME NEW r \in rows
      PROVE  /\ Incorporate(Part(table, r.id), ers, r) \subseteq RawRows
             /\ \A x \in Incorporate(Part(table, r.id), ers, r) : x.id = r.id
  <2>1. Part(table, r.id) \in SUBSET RawRows /\ \A x \in Part(table, r.id) : x.id = r.id
    BY DEF Part
  <2>2. r \in RawRows
    OBVIOUS
  <2>. QED
    BY <2>1, <2>2, IncorporateTyped
<1>3. after \subseteq RawRows
  BY <1>1, <1>2
<1>4. ASSUME Part(rows, o) = {}
      PROVE  Part(after, o) = Part(table, o)
  <2>1. \A r \in rows : r.id # o
    BY <1>4 DEF Part
  <2>2. \A x \in UNION {Incorporate(Part(table, r.id), ers, r) : r \in rows} : x.id # o
    BY <1>2, <2>1
  <2>. QED
    BY <1>1, <2>1, <2>2 DEF Part
<1>5. ASSUME NEW r \in Part(rows, o), \A x \in Part(rows, o) : x = r
      PROVE  Part(after, o) = Incorporate(Part(table, o), ers, r)
  <2>1. r \in rows /\ r.id = o /\ \A x \in rows : x.id = o => x = r
    BY <1>5 DEF Part
  <2>2. \A x \in Incorporate(Part(table, o), ers, r) : x.id = o
    BY <1>2, <2>1
  <2>3. Incorporate(Part(table, o), ers, r) \subseteq Part(after, o)
    BY <1>1, <2>1, <2>2 DEF Part
  <2>4. \A x \in Part(after, o) : x \in Incorporate(Part(table, o), ers, r)
    <3>1. TAKE x \in Part(after, o)
    <3>2. x \in after /\ x.id = o
      BY DEF Part
    <3>3. PICK y \in rows : x \in Incorporate(Part(table, y.id), ers, y)
      BY <1>1, <2>1, <3>2
    <3>4. y = r
      BY <1>2, <2>1, <3>2, <3>3
    <3>. QED
      BY <2>1, <3>3, <3>4
  <2>. QED
    BY <2>3, <2>4
<1>. QED
  BY <1>3, <1>4, <1>5 DEF after, InstantSeen

\* All of the rows of an order, the first of which may be left to the trigger.
FirstRow(rows, o, first) ==
    /\ first \in Part(rows, o)
    /\ \A r \in Part(rows, o) : /\ r.mts \in Times /\ first.mts <= r.mts
                                /\ r = first \/ IsComplete(r)
    /\ \A r, x \in Part(rows, o) : r.mts = x.mts => r = x

InsertedFrom(table, ers, rows, o, first) ==
    Part(InsertRows(table, ers, rows), o) =
      Incorporate(Part(table, o), ers, first) \union (Part(rows, o) \ {first})

LEMMA RowsOfOrder ==
    ASSUME NEW table, NEW ers, NEW rows, NEW o, NEW first,
           table \subseteq RawRows, rows \subseteq RawRows, FirstRow(rows, o, first)
    PROVE  InsertedFrom(table, ers, rows, o, first)
<1>h. /\ first \in Part(rows, o)
      /\ \A r \in Part(rows, o) : r.mts \in Times
      /\ \A r, x \in Part(rows, o) : r.mts = x.mts => r = x
      /\ \A r \in Part(rows, o) : first.mts <= r.mts /\ (r = first \/ IsComplete(r))
  BY DEF FirstRow
<1> DEFINE own == Part(rows, o)
           UpTo(t) == IF t < first.mts THEN Part(table, o)
                      ELSE Incorporate(Part(table, o), ers, first) \union
                           {r \in own \ {first} : r.mts <= t}
<1>0. PICK g : InsertSteps(g, table, ers, rows)
  BY InsertsInSteps
<1>1. /\ g[0] = table
      /\ \A t \in Times : g[t] = InsertInstant(g[t - 1], ers, Instant(rows, t))
      /\ InsertRows(table, ers, rows) = g[MaxTime]
  BY <1>0 DEF InsertSteps
<1>2. MaxTime \in Nat /\ Times = 1..MaxTime /\ first.mts \in Times
  BY <1>h, TableAssumption DEF Times
<1>3. \A t \in 0..MaxTime : g[t] \in SUBSET RawRows /\ Part(g[t], o) = UpTo(t)
  <2> DEFINE T == {t \in 0..MaxTime : ~(g[t] \in SUBSET RawRows /\ Part(g[t], o) = UpTo(t))}
  <2>1. SUFFICES ASSUME T # {} PROVE FALSE
    OBVIOUS
  <2>2. PICK t \in T : \A k \in T : t <= k
    <3>1. T \in SUBSET Nat
      BY <1>h, <1>2
    <3>. QED
      BY <2>1, <3>1, NatMinimum
  <2>3. t \in 0..MaxTime /\ ~(g[t] \in SUBSET RawRows /\ Part(g[t], o) = UpTo(t))
    OBVIOUS
  <2>4. CASE t = 0
    <3>1. t < first.mts
      BY <1>h, <1>2, <2>4
    <3>. QED
      BY <1>1, <2>3, <2>4, <3>1
  <2>5. CASE t # 0
    <3>1. t \in Times /\ t - 1 \in 0..MaxTime /\ t - 1 < t
      BY <1>2, <2>3, <2>5
    <3>2. g[t - 1] \in SUBSET RawRows /\ Part(g[t - 1], o) = UpTo(t - 1)
      <4>1. t \in Int /\ ~(t <= t - 1)
        BY <1>2, <2>3
      <4>2. t - 1 \notin T
        BY <2>2, <4>1
      <4>. QED
        BY <3>1, <4>2
    <3> DEFINE now == Instant(rows, t)
    <3>3. g[t] = InsertInstant(g[t - 1], ers, now) /\ now \in SUBSET RawRows
      BY <1>1, <3>1 DEF Instant
    <3>4. /\ g[t] \subseteq RawRows
          /\ Part(now, o) = {} => Part(g[t], o) = UpTo(t - 1)
          /\ \A r \in Part(now, o) : (\A x \in Part(now, o) : x = r) =>
               Part(g[t], o) = Incorporate(UpTo(t - 1), ers, r)
      <4>1. InstantSeen(g[t - 1], ers, now, o)
        BY <3>2, <3>3, InstantOfOrder
      <4> HIDE DEF now, UpTo
      <4>. QED
        BY <3>2, <3>3, <4>1 DEF InstantSeen
    <3>5. Part(now, o) = {r \in own : r.mts = t}
      BY DEF Part, Instant
    <3>6. \A r \in own : r.mts \in Int /\ (r.mts <= t <=> r.mts <= t - 1 \/ r.mts = t)
      BY <1>h, <1>2, <3>1
    <3>7. CASE Part(now, o) = {}
      <4>1. \A r \in own : r.mts # t
        BY <3>5, <3>7
      <4>2. UpTo(t) = UpTo(t - 1)
        <5>1. t < first.mts <=> t - 1 < first.mts
          BY <1>h, <1>2, <3>1, <4>1
        <5>2. {r \in own \ {first} : r.mts <= t} = {r \in own \ {first} : r.mts <= t - 1}
          BY <1>h, <3>6, <4>1
        <5>. QED
          BY <5>1, <5>2
      <4>. QED
        BY <2>3, <3>4, <3>7, <4>2
    <3>8. CASE Part(now, o) # {}
      <4>1. PICK r \in own : r.mts = t
        BY <1>h, <3>5, <3>8
      <4>2. r \in Part(now, o) /\ \A x \in Part(now, o) : x = r
        BY <1>h, <3>5, <4>1 DEF Part, Instant
      <4>3. Part(g[t], o) = Incorporate(UpTo(t - 1), ers, r)
        BY <3>4, <4>2
      <4>4. CASE r = first
        <5>1. t - 1 < first.mts /\ ~(t < first.mts)
          BY <1>2, <3>1, <4>1, <4>4
        <5>2. {x \in own \ {first} : x.mts <= t} = {}
          <6>1. ASSUME NEW x \in own, x.mts <= t PROVE x = first
            <7>1. x.mts = t
              BY <1>h, <1>2, <3>1, <3>6, <4>1, <4>4, <6>1
            <7>. QED
              BY <1>h, <4>1, <4>4, <7>1
          <6>. QED
            BY <6>1
        <5>. QED
          BY <2>3, <3>4, <4>3, <4>4, <5>1, <5>2
      <4>5. CASE r # first
        <5>1. ~(t - 1 < first.mts) /\ ~(t < first.mts)
          <6>1. first.mts <= t /\ first.mts # t
            BY <1>h, <4>1, <4>5
          <6>. QED
            BY <1>2, <3>1, <6>1
        <5>2. Incorporate(UpTo(t - 1), ers, r) = UpTo(t - 1) \union {r}
          BY <1>h, <4>1, <4>5 DEF Incorporate, IsComplete
        <5>3. {x \in own \ {first} : x.mts <= t} =
                {x \in own \ {first} : x.mts <= t - 1} \union {r}
          BY <1>h, <3>6, <4>1, <4>5
        <5>4. UpTo(t) = UpTo(t - 1) \union {r}
          BY <5>1, <5>3
        <5>. QED
          BY <2>3, <3>4, <4>3, <5>2, <5>4
      <4>. QED
        BY <4>4, <4>5
    <3>. QED
      BY <3>7, <3>8
  <2>. QED
    BY <2>4, <2>5
<1>4. MaxTime \in 0..MaxTime /\ ~(MaxTime < first.mts) /\ \A r \in own : r.mts <= MaxTime
  BY <1>h, <1>2
<1>5. {r \in own \ {first} : r.mts <= MaxTime} = own \ {first}
  BY <1>4
<1>. QED
  BY <1>1, <1>3, <1>4, <1>5 DEF InsertedFrom

LEMMA NoRowsOfOrder ==
    ASSUME NEW table \in SUBSET RawRows, NEW ers, NEW rows \in SUBSET RawRows, NEW o,
           Part(rows, o) = {}
    PROVE  /\ InsertRows(table, ers, rows) \subseteq RawRows
           /\ Part(InsertRows(table, ers, rows), o) = Part(table, o)
<1>0. PICK g : InsertSteps(g, table, ers, rows)
  BY InsertsInSteps
<1>1. /\ g[0] = table
      /\ \A t \in Times : g[t] = InsertInstant(g[t - 1], ers, Instant(rows, t))
      /\ InsertRows(table, ers, rows) = g[MaxTime]
  BY <1>0 DEF InsertSteps
<1>2. MaxTime \in Nat /\ Times = 1..MaxTime
  BY TableAssumption DEF Times
<1> DEFINE Same(t) == g[t] \in SUBSET RawRows /\ Part(g[t], o) = Part(table, o)
<1>3. \A t \in 0..MaxTime : Same(t)
  <2> DEFINE T == {t \in 0..MaxTime : ~Same(t)}
  <2>1. SUFFICES ASSUME T # {} PROVE FALSE
    OBVIOUS
  <2>2. PICK t \in T : \A k \in T : t <= k
    <3>1. T \in SUBSET Nat
      BY <1>2
    <3>. QED
      BY <2>1, <3>1, NatMinimum
  <2>3. t \in 0..MaxTime /\ ~Same(t)
    OBVIOUS
  <2>4. t # 0
    BY <1>1, <2>3
  <2>5. t \in Times /\ t - 1 \in 0..MaxTime /\ t - 1 < t
    BY <1>2, <2>3, <2>4
  <2>6. Same(t - 1)
    <3>1. t - 1 \notin T
      BY <2>2, <2>3, <2>5
    <3>. QED
      BY <2>5, <3>1
  <2> DEFINE now == Instant(rows, t)
  <2>7. g[t] = InsertInstant(g[t - 1], ers, now) /\ now \in SUBSET RawRows /\ Part(now, o) = {}
    BY <1>1, <2>5 DEF Part, Instant
  <2>8. Same(t)
    <3>1. InstantSeen(g[t - 1], ers, now, o)
      BY <2>6, <2>7, InstantOfOrder
    <3>. QED
      BY <2>6, <2>7, <3>1 DEF InstantSeen
  <2>. QED
    BY <2>3, <2>8
<1>4. MaxTime \in 0..MaxTime
  BY <1>2
<1>. QED
  BY <1>1, <1>3, <1>4

-----------------------------------------------------------------------------
(***************************************************************************)
(* The events of an order, one at most at an instant: their neighbours,    *)
(* chains and numbers.                                                     *)
(***************************************************************************)
OneOrder(es, o) ==
    /\ IsFiniteSet(es)
    /\ \A e \in es : e.ts \in Nat /\ e.id = o /\ e.no \in Nat /\ StateOf(e) \in States
    /\ \A e, x \in es : e.ts = x.ts => e = x
    /\ \A e, x \in es : Precedes(e, x) <=> e.ts < x.ts

\* The events of an order that is in step are ordered by the times of their episodes.
JustBefore(es, e) == {x \in es : x.ts < e.ts /\ \A y \in es : y.ts < e.ts => y.ts <= x.ts}
JustAfter(es, e) == {x \in es : x.ts > e.ts /\ \A y \in es : y.ts > e.ts => y.ts >= x.ts}
SoFar(es, e) ==
    {x \in es : x.ts <= e.ts /\ \A y \in es : x.ts < y.ts /\ y.ts <= e.ts => ~Starts(es, y)}
ByTime(es) ==
    \A e \in es : /\ LastBefore(es, e) = JustBefore(es, e)
                 /\ FirstAfter(es, e) = JustAfter(es, e)
                 /\ ChainUpTo(es, e) = SoFar(es, e)

LEMMA InTime ==
    ASSUME NEW es, NEW o, OneOrder(es, o)
    PROVE  ByTime(es)
<1>1. \A e \in es : e.ts \in Nat
  BY DEF OneOrder
<1>2. \A e, x \in es : Precedes(e, x) <=> e.ts < x.ts
  BY DEF OneOrder
<1>3. ASSUME NEW e \in es PROVE LastBefore(es, e) = JustBefore(es, e)
  <2>1. ASSUME NEW x \in es
        PROVE  /\ Precedes(x, e) <=> x.ts < e.ts
               /\ (\A y \in es : Precedes(y, e) => ~Precedes(x, y))
                    <=> (\A y \in es : y.ts < e.ts => y.ts <= x.ts)
    BY <1>1, <1>2
  <2>. QED
    BY <2>1, Zenon DEF LastBefore, JustBefore
<1>4. ASSUME NEW e \in es PROVE FirstAfter(es, e) = JustAfter(es, e)
  <2>1. ASSUME NEW x \in es
        PROVE  /\ Precedes(e, x) <=> x.ts > e.ts
               /\ (\A y \in es : Precedes(e, y) => ~Precedes(y, x))
                    <=> (\A y \in es : y.ts > e.ts => y.ts >= x.ts)
    BY <1>1, <1>2
  <2>. QED
    BY <2>1, Zenon DEF FirstAfter, JustAfter
<1>5. ASSUME NEW e \in es PROVE ChainUpTo(es, e) = SoFar(es, e)
  <2>1. PICK starts : starts = {y \in es : Starts(es, y)}
    OBVIOUS
  <2>2. ChainUpTo(es, e) =
          {x \in es : ~Precedes(e, x) /\ \A y \in starts : Precedes(x, y) => Precedes(e, y)}
    BY <2>1 DEF ChainUpTo
  <2>3. ASSUME NEW x \in es
        PROVE  /\ ~Precedes(e, x) <=> x.ts <= e.ts
               /\ (\A y \in starts : Precedes(x, y) => Precedes(e, y))
                    <=> (\A y \in es : x.ts < y.ts /\ y.ts <= e.ts => ~Starts(es, y))
    BY <1>1, <1>2, <2>1
  <2>. QED
    BY <2>2, <2>3, Zenon DEF SoFar
<1>. QED
  BY <1>3, <1>4, <1>5 DEF ByTime

LEMMA StateIs ==
    ASSUME NEW e, StateOf(e) \in States
    PROVE  /\ e.price \in Prices \union {0} /\ e.price \in Nat /\ e.amount \in Nat \ {0}
           /\ e.price # 0 => e.price \in Prices /\ e.amount \in Amounts
           /\ e.price = 0 <=> StateOf(e) = Absent
<1>1. StateOf(e) = [price |-> e.price, amount |-> e.amount]
  BY DEF StateOf
<1>2. CASE StateOf(e) \in Present
  <2>1. e.price \in Prices /\ e.amount \in Amounts
    BY <1>1, <1>2 DEF Present
  <2>2. e.price \in Nat \ {0} /\ e.amount \in Nat \ {0}
    BY <2>1, TableAssumption
  <2>3. StateOf(e) # Absent
    BY <1>1, <2>2 DEF Absent
  <2>. QED
    BY <2>1, <2>2, <2>3
<1>3. CASE StateOf(e) = Absent
  <2>1. e.price = 0 /\ e.amount = 1
    BY <1>1, <1>3 DEF Absent
  <2>. QED
    BY <1>3, <2>1
<1>. QED
  BY <1>2, <1>3 DEF States

LEMMA LastBeforeExists ==
    ASSUME NEW es, NEW o, OneOrder(es, o), NEW e \in es, NEW x \in es, x.ts < e.ts
    PROVE  \E p \in es : p \in LastBefore(es, e)
<1>0. ByTime(es)
  BY InTime
<1> DEFINE S == {y.ts : y \in {y \in es : y.ts < e.ts}}
<1>1. e.ts \in Nat /\ S \subseteq 0..e.ts /\ S # {}
  BY DEF OneOrder
<1>2. PICK m \in S : \A y \in S : y <= m
  BY <1>1, Greatest
<1>3. PICK p \in es : p.ts < e.ts /\ p.ts = m
  OBVIOUS
<1>4. p \in LastBefore(es, e)
  BY <1>2, <1>3, <1>0 DEF ByTime, JustBefore
<1>. QED
  BY <1>4

LEMMA FirstAfterExists ==
    ASSUME NEW es, NEW o, OneOrder(es, o), NEW e \in es, NEW x \in es, e.ts < x.ts
    PROVE  \E n \in es : n \in FirstAfter(es, e)
<1>0. ByTime(es)
  BY InTime
<1> DEFINE S == {y.ts : y \in {y \in es : y.ts > e.ts}}
<1>1. S \in SUBSET Nat /\ S # {}
  BY DEF OneOrder
<1>2. PICK m \in S : \A y \in S : m <= y
  BY <1>1, NatMinimum
<1>3. PICK n \in es : n.ts > e.ts /\ n.ts = m
  OBVIOUS
<1>4. n \in FirstAfter(es, e)
  BY <1>2, <1>3, <1>0 DEF ByTime, JustAfter
<1>. QED
  BY <1>4

LEMMA Neighbours ==
    ASSUME NEW es, NEW o, OneOrder(es, o), NEW e \in es
    PROVE  /\ \A p \in LastBefore(es, e) : /\ p \in es /\ p.ts < e.ts
                                           /\ \A y \in es : y.ts < e.ts => y.ts <= p.ts
                                           /\ LastBefore(es, e) = {p}
                                           /\ e \in FirstAfter(es, p)
           /\ \A n \in FirstAfter(es, e) : /\ n \in es /\ e.ts < n.ts
                                           /\ \A y \in es : e.ts < y.ts => n.ts <= y.ts
                                           /\ FirstAfter(es, e) = {n}
                                           /\ e \in LastBefore(es, n)
<1>0. ByTime(es)
  BY InTime
<1>1. \A x \in es : x.ts \in Nat
  BY DEF OneOrder
<1>2. ASSUME NEW p \in LastBefore(es, e)
      PROVE  /\ p \in es /\ p.ts < e.ts
             /\ \A y \in es : y.ts < e.ts => y.ts <= p.ts
             /\ LastBefore(es, e) = {p}
             /\ e \in FirstAfter(es, p)
  <2>1. p \in es /\ p.ts < e.ts /\ \A y \in es : y.ts < e.ts => y.ts <= p.ts
    BY <1>0 DEF ByTime, JustBefore
  <2>2. ASSUME NEW x \in LastBefore(es, e) PROVE x = p
    <3>1. x \in es /\ x.ts < e.ts /\ \A y \in es : y.ts < e.ts => y.ts <= x.ts
      BY <1>0 DEF ByTime, JustBefore
    <3>2. x.ts = p.ts
      BY <1>1, <2>1, <3>1
    <3>. QED
      BY <2>1, <3>1, <3>2 DEF OneOrder
  <2>3. e \in FirstAfter(es, p)
    <3>1. \A y \in es : y.ts > p.ts => y.ts >= e.ts
      BY <1>1, <2>1
    <3>. QED
      BY <2>1, <3>1, <1>0 DEF ByTime, JustAfter
  <2>. QED
    BY <2>1, <2>2, <2>3
<1>3. ASSUME NEW n \in FirstAfter(es, e)
      PROVE  /\ n \in es /\ e.ts < n.ts
             /\ \A y \in es : e.ts < y.ts => n.ts <= y.ts
             /\ FirstAfter(es, e) = {n}
             /\ e \in LastBefore(es, n)
  <2>1. n \in es /\ e.ts < n.ts /\ \A y \in es : e.ts < y.ts => n.ts <= y.ts
    BY <1>1, <1>0 DEF ByTime, JustAfter
  <2>2. ASSUME NEW x \in FirstAfter(es, e) PROVE x = n
    <3>1. x \in es /\ e.ts < x.ts /\ \A y \in es : e.ts < y.ts => x.ts <= y.ts
      BY <1>1, <1>0 DEF ByTime, JustAfter
    <3>2. x.ts = n.ts
      BY <1>1, <2>1, <3>1
    <3>. QED
      BY <2>1, <3>1, <3>2 DEF OneOrder
  <2>3. e \in LastBefore(es, n)
    <3>1. \A y \in es : y.ts < n.ts => y.ts <= e.ts
      BY <1>1, <2>1
    <3>. QED
      BY <2>1, <3>1, <1>0 DEF ByTime, JustBefore
  <2>. QED
    BY <2>1, <2>2, <2>3
<1>. QED
  BY <1>2, <1>3

\* A chain has one start.
IsChainStart(es, e, s) ==
    /\ s \in ChainUpTo(es, e) /\ Starts(es, s)
    /\ \A x \in ChainUpTo(es, e) : Starts(es, x) => x = s

LEMMA ChainHasStart ==
    ASSUME NEW es, NEW o, OneOrder(es, o), NEW e \in es
    PROVE  /\ ChainUpTo(es, e) \subseteq es /\ e \in ChainUpTo(es, e)
           /\ IsFiniteSet(ChainUpTo(es, e))
           /\ \E s \in es : IsChainStart(es, e, s)
<1>0. ByTime(es)
  BY InTime
<1> DEFINE chain == ChainUpTo(es, e)
<1>1. \A x \in es : x.ts \in Nat
  BY DEF OneOrder
<1>2. chain \subseteq es /\ e \in chain
  BY <1>1, <1>0 DEF ByTime, SoFar
<1>3. IsFiniteSet(chain)
  BY <1>2, FS_Subset DEF OneOrder
<1>4. PICK s \in chain : \A x \in chain : s.ts <= x.ts
  <2> DEFINE S == {x.ts : x \in chain}
  <2>1. S \in SUBSET Nat /\ S # {}
    BY <1>1, <1>2
  <2>2. PICK m \in S : \A k \in S : m <= k
    BY <2>1, NatMinimum
  <2>3. PICK s \in chain : s.ts = m
    OBVIOUS
  <2>. QED
    BY <2>2, <2>3
<1>5. Starts(es, s)
  <2>1. SUFFICES ASSUME ~Starts(es, s) PROVE FALSE
    OBVIOUS
  <2>2. PICK p \in LastBefore(es, s) : p.price # 0
    BY <2>1 DEF Starts
  <2>3. p \in es /\ p.ts < s.ts /\ \A y \in es : y.ts < s.ts => y.ts <= p.ts
    BY <1>0, <1>2 DEF ByTime, JustBefore
  <2>4. s \in es /\ s.ts <= e.ts /\ \A y \in es : s.ts < y.ts /\ y.ts <= e.ts => ~Starts(es, y)
    BY <1>0 DEF ByTime, SoFar
  <2>5. ASSUME NEW y \in es, p.ts < y.ts, y.ts <= e.ts
        PROVE  ~Starts(es, y)
    <3>1. CASE s.ts < y.ts
      BY <2>4, <2>5, <3>1
    <3>2. CASE y.ts = s.ts
      <4>1. y = s
        BY <2>4, <3>2 DEF OneOrder
      <4>. QED
        BY <2>1, <4>1
    <3>3. CASE y.ts < s.ts
      BY <1>1, <2>3, <2>5, <3>3
    <3>. QED
      BY <1>1, <2>4, <3>1, <3>2, <3>3
  <2>6. p \in chain
    <3>1. p.ts <= e.ts
      BY <1>1, <2>3, <2>4
    <3>. QED
      BY <2>3, <2>5, <3>1, <1>0 DEF ByTime, SoFar
  <2>. QED
    BY <1>1, <1>2, <1>4, <2>3, <2>6
<1>6. ASSUME NEW x \in chain, Starts(es, x)
      PROVE  x = s
  <2>1. x \in es /\ x.ts <= e.ts /\ s \in es
    BY <1>2, <1>0 DEF ByTime, SoFar
  <2>2. ~(s.ts < x.ts)
    BY <1>6, <2>1, <1>0 DEF ByTime, SoFar
  <2>3. s.ts = x.ts
    BY <1>1, <1>4, <2>1, <2>2
  <2>. QED
    BY <2>1, <2>3 DEF OneOrder
<1>7. s \in es /\ IsChainStart(es, e, s)
  BY <1>2, <1>5, <1>6 DEF IsChainStart
<1>. QED
  BY <1>2, <1>3, <1>7

First(s) == IF s.no = Null THEN 1 ELSE s.no
LEMMA NumberIs ==
    ASSUME NEW es, NEW e, NEW s, IsChainStart(es, e, s)
    PROVE  Number(es, e) = First(s) + Cardinality(ChainUpTo(es, e)) - 1
<1> DEFINE start == CHOOSE x \in ChainUpTo(es, e) : Starts(es, x)
<1>1. start = s
  BY DEF IsChainStart
<1>2. Number(es, e) =
        (IF start.no = Null THEN 1 ELSE start.no) + Cardinality(ChainUpTo(es, e)) - 1
  BY Zenon DEF Number
<1> HIDE DEF start
<1>. QED
  BY <1>1, <1>2 DEF First

LEMMA NumberOfStart ==
    ASSUME NEW es, NEW o, OneOrder(es, o), NEW e \in es, Starts(es, e)
    PROVE  Number(es, e) = First(e)
<1>0. ByTime(es)
  BY InTime
<1>1. \A x \in es : x.ts \in Nat
  BY DEF OneOrder
<1>2. ASSUME NEW x \in ChainUpTo(es, e) PROVE x = e
  <2>1. x \in es /\ x.ts <= e.ts /\ \A y \in es : x.ts < y.ts /\ y.ts <= e.ts => ~Starts(es, y)
    BY <1>0 DEF ByTime, SoFar
  <2>2. ~(x.ts < e.ts)
    BY <1>1, <2>1
  <2>3. x.ts = e.ts
    BY <1>1, <2>1, <2>2
  <2>. QED
    BY <2>1, <2>3 DEF OneOrder
<1>3. e \in ChainUpTo(es, e)
  BY ChainHasStart
<1>4. ChainUpTo(es, e) = {e}
  BY <1>2, <1>3
<1>5. IsChainStart(es, e, e)
  BY <1>4 DEF IsChainStart
<1>6. Cardinality(ChainUpTo(es, e)) = 1
  BY <1>4, FS_Singleton
<1>7. First(e) \in Nat
  BY DEF OneOrder, First
<1>. QED
  BY <1>5, <1>6, <1>7, NumberIs

LEMMA NumberTyped ==
    ASSUME NEW es, NEW o, OneOrder(es, o), NEW e \in es
    PROVE  Number(es, e) \in Nat \ {0}
<1>1. PICK s \in es : IsChainStart(es, e, s)
  BY ChainHasStart
<1>2. First(s) \in Nat \ {0}
  BY DEF OneOrder, First, Null
<1>3. Cardinality(ChainUpTo(es, e)) \in Nat /\ Cardinality(ChainUpTo(es, e)) # 0
  <2>1. IsFiniteSet(ChainUpTo(es, e)) /\ ChainUpTo(es, e) # {}
    BY ChainHasStart
  <2>. QED
    BY <2>1, FS_CardinalityType, FS_EmptySet
<1>. QED
  BY <1>1, <1>2, <1>3, NumberIs

LEMMA NumberOfNext ==
    ASSUME NEW es, NEW o, OneOrder(es, o), NEW e \in es, NEW p \in LastBefore(es, e),
           p.price # 0
    PROVE  Number(es, e) = Number(es, p) + 1
<1>0. ByTime(es)
  BY InTime
<1>1. \A x \in es : x.ts \in Nat
  BY DEF OneOrder
<1>2. p \in es /\ p.ts < e.ts /\ \A y \in es : y.ts < e.ts => y.ts <= p.ts
  BY Neighbours
<1>3. ~Starts(es, e)
  BY DEF Starts
<1>4. ASSUME NEW x \in ChainUpTo(es, p) PROVE x \in ChainUpTo(es, e) /\ x # e
  <2>1. x \in es /\ x.ts <= p.ts /\ \A y \in es : x.ts < y.ts /\ y.ts <= p.ts => ~Starts(es, y)
    BY <1>0, <1>2 DEF ByTime, SoFar
  <2>2. ASSUME NEW y \in es, x.ts < y.ts, y.ts <= e.ts PROVE ~Starts(es, y)
    <3>1. CASE y.ts < e.ts
      BY <1>2, <2>1, <2>2, <3>1
    <3>2. CASE y.ts = e.ts
      <4>1. y = e
        BY <3>2 DEF OneOrder
      <4>. QED
        BY <1>3, <4>1
    <3>. QED
      BY <1>1, <2>2, <3>1, <3>2
  <2>3. x.ts <= e.ts /\ x # e
    BY <1>1, <1>2, <2>1
  <2>. QED
    BY <2>1, <2>2, <2>3, <1>0 DEF ByTime, SoFar
<1>5. ASSUME NEW x \in ChainUpTo(es, e), x # e PROVE x \in ChainUpTo(es, p)
  <2>1. x \in es /\ x.ts <= e.ts /\ \A y \in es : x.ts < y.ts /\ y.ts <= e.ts => ~Starts(es, y)
    BY <1>0 DEF ByTime, SoFar
  <2>2. x.ts # e.ts
    BY <1>5, <2>1 DEF OneOrder
  <2>3. x.ts <= p.ts
    BY <1>1, <1>2, <2>1, <2>2
  <2>4. ASSUME NEW y \in es, x.ts < y.ts, y.ts <= p.ts PROVE ~Starts(es, y)
    <3>1. y.ts <= e.ts
      BY <1>1, <1>2, <2>4
    <3>. QED
      BY <2>1, <2>4, <3>1
  <2>. QED
    BY <1>0, <1>2, <2>1, <2>3, <2>4 DEF ByTime, SoFar
<1>6. e \in ChainUpTo(es, e) /\ IsFiniteSet(ChainUpTo(es, p))
  BY <1>2, ChainHasStart
<1>7. ChainUpTo(es, e) = ChainUpTo(es, p) \union {e} /\ e \notin ChainUpTo(es, p)
  BY <1>4, <1>5, <1>6
<1>8. /\ Cardinality(ChainUpTo(es, e)) = Cardinality(ChainUpTo(es, p)) + 1
      /\ Cardinality(ChainUpTo(es, p)) \in Nat
  BY <1>6, <1>7, FS_AddElement, FS_CardinalityType
<1>9. PICK s \in es : IsChainStart(es, p, s)
  BY <1>2, ChainHasStart
<1>10. IsChainStart(es, e, s)
  <2>1. s \in ChainUpTo(es, p) /\ Starts(es, s)
    BY <1>9 DEF IsChainStart
  <2>2. ASSUME NEW x \in ChainUpTo(es, e), Starts(es, x) PROVE x = s
    <3>1. x # e
      BY <1>3, <2>2
    <3>2. x \in ChainUpTo(es, p)
      BY <1>5, <3>1
    <3>. QED
      BY <1>9, <2>2, <3>2 DEF IsChainStart
  <2>. QED
    BY <1>4, <2>1, <2>2 DEF IsChainStart
<1>11. First(s) \in Nat
  BY DEF OneOrder, First
<1>. QED
  BY <1>8, <1>9, <1>10, <1>11, NumberIs

LEMMA PriceStartExists ==
    ASSUME NEW es, NEW o, OneOrder(es, o), NEW e \in es
    PROVE  PriceStart(es, e) \in es
<1>1. \A x \in es : x.ts \in Nat
  BY DEF OneOrder
<1> DEFINE chain == {x \in es : x.ts <= e.ts /\ (x \in ChainUpTo(es, e) \/ e \in ChainUpTo(es, x))}
           changes == {x \in chain : PriceChanges(es, x)}
           group == {x \in chain : \A y \in changes : y.ts <= x.ts}
           S == {x.ts : x \in group}
<1>2. e \in group
  <2>1. e \in chain
    BY <1>1, ChainHasStart
  <2>. QED
    BY <2>1
<1>3. S \in SUBSET Nat /\ S # {}
  BY <1>1, <1>2
<1>4. PICK m \in S : \A k \in S : m <= k
  BY <1>3, NatMinimum
<1>5. \E x \in group : \A y \in group : x.ts <= y.ts
  BY <1>4
<1>6. PriceStart(es, e) \in group
  <2>1. PriceStart(es, e) = CHOOSE x \in group : \A y \in group : x.ts <= y.ts
    BY Zenon DEF PriceStart
  <2> HIDE DEF group
  <2>. QED
    BY <1>5, <2>1
<1>. QED
  BY <1>6

-----------------------------------------------------------------------------
(***************************************************************************)
(* The events of an order a channel contributes after f: its open row, if  *)
(* it has one, and those to insert.                                        *)
(***************************************************************************)
IsOpen(e) == e.channel = OpenOrder
Stream(es, o, f) ==
    /\ OneOrder(es, o)
    /\ \A e \in es : /\ e.ts \in Times
                     /\ IsOpen(e) => e.ts <= f /\ e.price # 0 /\ e.no # Null
                     /\ ~IsOpen(e) => f < e.ts /\ e.no = Null
    /\ \A e, x \in es : IsOpen(e) /\ IsOpen(x) => e = x

Kept(es) == {e \in es : IsOpen(e) \/ IsInserted(es, e)}

LEMMA StreamTimes ==
    ASSUME NEW es, NEW o, NEW f \in Nat, Stream(es, o, f)
    PROVE  /\ OneOrder(es, o)
           /\ \A e \in es : e.ts \in Nat /\ e.ts \in Times /\ StateOf(e) \in States
           /\ \A e, x \in es : IsOpen(e) => x = e \/ (~IsOpen(x) /\ e.ts < x.ts)
<1>1. OneOrder(es, o) /\ \A e \in es : e.ts \in Nat /\ e.ts \in Times /\ StateOf(e) \in States
  BY DEF Stream, OneOrder
<1>2. ASSUME NEW e \in es, NEW x \in es, IsOpen(e), x # e
      PROVE  ~IsOpen(x) /\ e.ts < x.ts
  <2>1. ~IsOpen(x)
    BY <1>2 DEF Stream
  <2>2. e.ts <= f /\ f < x.ts
    BY <1>2, <2>1 DEF Stream
  <2>. QED
    BY <1>1, <2>1, <2>2
<1>. QED
  BY <1>1, <1>2

LEMMA OpenStarts ==
    ASSUME NEW es, NEW o, NEW f \in Nat, Stream(es, o, f), NEW e \in es, IsOpen(e)
    PROVE  LastBefore(es, e) = {} /\ Starts(es, e) /\ Number(es, e) = e.no
<1>1. LastBefore(es, e) = {}
  <2>1. ASSUME NEW p \in LastBefore(es, e) PROVE FALSE
    <3>1. p \in es /\ p.ts < e.ts
      <4>1. ByTime(es)
        BY InTime DEF Stream
      <4>. QED
        BY <4>1 DEF ByTime, JustBefore
    <3>2. p.ts \in Nat /\ e.ts \in Nat /\ (p = e \/ e.ts < p.ts)
      BY <3>1, StreamTimes
    <3>. QED
      BY <3>1, <3>2
  <2>. QED
    BY <2>1
<1>2. Starts(es, e)
  BY <1>1 DEF Starts
<1>3. Number(es, e) = First(e)
  BY <1>2, NumberOfStart, StreamTimes
<1>. QED
  BY <1>1, <1>2, <1>3 DEF First, Stream

LEMMA PositiveKept ==
    ASSUME NEW es, NEW e \in es, e.price # 0
    PROVE  e \in Kept(es)
BY DEF Kept, IsInserted, IsOpen

LEMMA InsertedStart ==
    ASSUME NEW es, NEW o, NEW f \in Nat, Stream(es, o, f), NEW e \in es, IsInserted(es, e),
           Starts(es, e)
    PROVE  Number(es, e) = 1 /\ e.price # 0
<1>1. ~IsOpen(e) /\ e.price # 0
  BY DEF IsInserted, IsOpen
<1>2. e.no = Null
  BY <1>1 DEF Stream
<1>. QED
  BY <1>1, <1>2, NumberOfStart, StreamTimes DEF First

LEMMA InsertedAfter ==
    ASSUME NEW es, NEW o, NEW f \in Nat, Stream(es, o, f), NEW e \in es, ~Starts(es, e)
    PROVE  \E p \in Kept(es) : /\ p.price # 0 /\ LastBefore(es, e) = {p}
                               /\ FirstAfter(es, p) = {e}
                               /\ Number(es, e) = Number(es, p) + 1
<1>1. PICK p \in LastBefore(es, e) : p.price # 0
  BY DEF Starts
<1>2. p \in es /\ LastBefore(es, e) = {p} /\ e \in FirstAfter(es, p)
  BY Neighbours, StreamTimes
<1>3. FirstAfter(es, p) = {e}
  BY <1>2, Neighbours, StreamTimes
<1>4. Number(es, e) = Number(es, p) + 1
  BY <1>1, NumberOfNext, StreamTimes
<1>5. p \in Kept(es)
  BY <1>1, <1>2, PositiveKept
<1>. QED
  BY <1>1, <1>2, <1>3, <1>4, <1>5

LEMMA FollowerInserted ==
    ASSUME NEW es, NEW o, NEW f \in Nat, Stream(es, o, f), NEW e \in es, e.price # 0,
           NEW n \in FirstAfter(es, e)
    PROVE  /\ n \in es /\ IsInserted(es, n) /\ ~Starts(es, n)
           /\ FirstAfter(es, e) = {n} /\ LastBefore(es, n) = {e}
           /\ Number(es, n) = Number(es, e) + 1
<1>1. n \in es /\ e.ts < n.ts /\ FirstAfter(es, e) = {n} /\ e \in LastBefore(es, n)
  BY Neighbours, StreamTimes
<1>2. LastBefore(es, n) = {e}
  BY <1>1, Neighbours, StreamTimes
<1>3. ~Starts(es, n)
  BY <1>1 DEF Starts
<1>4. ~IsOpen(n)
  <2>1. IsOpen(n) => Starts(es, n)
    BY <1>1, OpenStarts
  <2>. QED
    BY <1>3, <2>1
<1>5. Number(es, n) = Number(es, e) + 1
  BY <1>1, NumberOfNext, StreamTimes
<1>. QED
  BY <1>1, <1>2, <1>3, <1>4, <1>5 DEF IsInserted, IsOpen

LEMMA LeftToTriggerIs ==
    ASSUME NEW es, NEW o, NEW f \in Nat, Stream(es, o, f), NEW e \in es, IsInserted(es, e)
    PROVE  LeftToTrigger(es, e) <=> \E p \in es : IsOpen(p) /\ FirstAfter(es, p) = {e}
<1>1. ASSUME LeftToTrigger(es, e)
      PROVE  \E p \in es : IsOpen(p) /\ FirstAfter(es, p) = {e}
  <2>1. ~Starts(es, e)
    BY <1>1, InsertedStart DEF LeftToTrigger
  <2>2. PICK p \in Kept(es) : LastBefore(es, e) = {p} /\ FirstAfter(es, p) = {e}
    BY <2>1, InsertedAfter
  <2>3. p \in es /\ p.ts < e.ts
    BY <2>2, Neighbours, StreamTimes
  <2>4. ~IsInserted(es, p)
    BY <1>1, <2>3 DEF LeftToTrigger
  <2>. QED
    BY <2>2, <2>3, <2>4 DEF Kept
<1>2. ASSUME NEW p \in es, IsOpen(p), FirstAfter(es, p) = {e}
      PROVE  LeftToTrigger(es, e)
  <2>1. p.price # 0 /\ p.no # Null
    BY <1>2 DEF Stream
  <2>2. Number(es, e) = Number(es, p) + 1 /\ LastBefore(es, e) = {p}
    BY <1>2, <2>1, FollowerInserted
  <2>3. Number(es, p) \in Nat \ {0}
    BY NumberTyped, StreamTimes
  <2>4. ASSUME NEW x \in es, x.ts < e.ts PROVE ~IsInserted(es, x)
    <3>1. \A y \in es : y.ts < e.ts => y.ts <= p.ts
      BY <2>2, Neighbours, StreamTimes
    <3>2. x = p
      BY <1>2, <2>4, <3>1, StreamTimes
    <3>. QED
      BY <1>2, <3>2 DEF IsInserted, IsOpen
  <2>. QED
    BY <2>2, <2>3, <2>4 DEF LeftToTrigger
<1>. QED
  BY <1>1, <1>2

(***************************************************************************)
(* The row of an event.                                                    *)
(***************************************************************************)
NextIs(es, e, x) ==
    /\ e.price = 0 => x.next = MinusInfinity /\ x.nextNo = Null
    /\ e.price # 0 =>
         /\ FirstAfter(es, e) = {} => x.next = Infinity
         /\ \A n \in FirstAfter(es, e) : x.next = n.ts /\ x.nextNo = Number(es, e) + 1
IsRow(es, e, x) ==
    /\ x \in Rows
    /\ x.mts = e.ts /\ x.id = e.id /\ x.no = Number(es, e)
    /\ e.price # 0 => StateOf(x) = StateOf(e)
    /\ NextIs(es, e, x)
    /\ x.nextNo # 1

RowFits(es, o, e, row) ==
    /\ row \in RawRows
    /\ row.mts = e.ts /\ row.id = o /\ row.price # 0
    /\ LeftToTrigger(es, e) => row.pmts = Null
    /\ ~LeftToTrigger(es, e) => IsComplete(row) /\ IsRow(es, e, row)
    /\ \A no \in Nat, pmts \in Times, pno \in Nat :
         no = Number(es, e) =>
           IsRow(es, e, [row EXCEPT !.no = no, !.pmts = pmts, !.pno = pno])

LEMMA RowOfEvent ==
    ASSUME NEW es, NEW o \in Orders, NEW f \in Nat, Stream(es, o, f), NEW e \in es,
           IsInserted(es, e)
    PROVE  RowFits(es, o, e, RowOf(es, e))
<1>0. PICK row : row = RowOf(es, e)
  OBVIOUS
<1> DEFINE shown  == IF e.price = 0 THEN CHOOSE x \in LastBefore(es, e) : TRUE ELSE e
           isLast == e.price = 0 \/ FirstAfter(es, e) = {}
           trigger == LeftToTrigger(es, e)
           nxt    == IF e.price = 0 THEN MinusInfinity
                     ELSE IF isLast THEN Infinity
                     ELSE (CHOOSE x \in FirstAfter(es, e) : TRUE).ts
           number == Number(es, e)
           nextNo == IF isLast THEN Null ELSE number + 1
           no     == IF trigger THEN Null ELSE number
           start  == PriceStart(es, e)
           pmts   == IF trigger THEN Null ELSE start.ts
           pno    == IF trigger THEN Null ELSE Number(es, start)
<1>1. row = [mts |-> e.ts, id |-> e.id, no |-> no, price |-> shown.price,
             amount |-> shown.amount, next |-> nxt, nextNo |-> nextNo,
             pmts |-> pmts, pno |-> pno]
  BY <1>0 DEF RowOf
<1>2. shown.price \in Prices /\ shown.amount \in Amounts /\ (e.price # 0 => shown = e)
  <2>1. CASE e.price # 0
    BY <2>1, StateIs, StreamTimes
  <2>2. CASE e.price = 0
    <3>1. ~Starts(es, e)
      BY <2>2 DEF IsInserted
    <3>2. PICK p \in Kept(es) : p.price # 0 /\ LastBefore(es, e) = {p}
      BY <3>1, InsertedAfter
    <3>3. shown = p /\ p \in es
      BY <2>2, <3>2 DEF Kept
    <3>. QED
      BY <2>2, <3>2, <3>3, StateIs, StreamTimes
  <2>. QED
    BY <2>1, <2>2
<1>3. number \in Nat \ {0} /\ nextNo \in Nat /\ nextNo # 1 /\ no \in Nat
  <2>1. number \in Nat \ {0}
    BY NumberTyped, StreamTimes
  <2> HIDE DEF number
  <2>. QED
    BY <2>1 DEF Null
<1>4. nxt \in Times \union {Infinity, MinusInfinity}
  <2>1. CASE isLast
    BY <2>1
  <2>2. CASE ~isLast
    <3>1. PICK n \in FirstAfter(es, e) : TRUE
      BY <2>2
    <3>2. n \in es /\ FirstAfter(es, e) = {n}
      BY Neighbours, StreamTimes
    <3>3. nxt = n.ts
      BY <2>2, <3>2
    <3>. QED
      BY <3>2, <3>3, StreamTimes
  <2>. QED
    BY <2>1, <2>2
<1>5. ASSUME NEW x, x.next = nxt, x.nextNo = nextNo PROVE NextIs(es, e, x)
  <2>1. ASSUME NEW n \in FirstAfter(es, e), e.price # 0
        PROVE  nxt = n.ts /\ nextNo = number + 1
    <3>1. FirstAfter(es, e) = {n}
      BY Neighbours, StreamTimes
    <3>2. ~isLast
      BY <2>1
    <3>. QED
      BY <2>1, <3>1, <3>2
  <2>. QED
    BY <1>5, <2>1 DEF NextIs
<1>6. start \in es /\ start.ts \in Times /\ Number(es, start) \in Nat
  BY PriceStartExists, StreamTimes, NumberTyped
<1>7. e.ts \in Times /\ e.id = o
  BY StreamTimes DEF OneOrder
<1>8. /\ pmts \in Times \union {Null} /\ pno \in Nat
      /\ trigger => pmts = Null
      /\ ~trigger => pmts \in Times /\ no = number
  BY <1>6 DEF Null
<1>9. \A t \in Times : t \in Int /\ t # Null
  BY TableAssumption DEF Times, Null
<1>10. Prices \subseteq Int /\ Amounts \subseteq Int /\ 0 \notin Prices
       /\ Infinity \in Int /\ MinusInfinity \in Int /\ Null \in Int
  BY TableAssumption DEF Infinity, MinusInfinity, Null
<1> HIDE DEF shown, nxt, number, nextNo, no, start, pmts, pno, trigger
<1>11. /\ row.mts = e.ts /\ row.id = o /\ row.no = no /\ row.price = shown.price
       /\ row.amount = shown.amount /\ row.next = nxt /\ row.nextNo = nextNo
       /\ row.pmts = pmts /\ row.pno = pno
  BY <1>1, <1>7
<1>12. row \in RawRows
  <2>1. nxt \in Int /\ pmts \in Int /\ e.ts \in Int
    BY <1>4, <1>7, <1>8, <1>9, <1>10
  <2>2. shown.price \in Int /\ shown.amount \in Int
    BY <1>2, <1>10
  <2>3. no \in Int /\ nextNo \in Int /\ pno \in Int
    BY <1>3, <1>8
  <2>. QED
    BY <1>1, <1>7, <2>1, <2>2, <2>3 DEF RawRows
<1>13. ASSUME NEW m \in Nat, NEW pm \in Times, NEW pn \in Nat, m = number
       PROVE  IsRow(es, e, [row EXCEPT !.no = m, !.pmts = pm, !.pno = pn])
  <2> DEFINE x == [row EXCEPT !.no = m, !.pmts = pm, !.pno = pn]
  <2>1. row \in [mts : Times, id : Orders, no : Nat, price : Prices, amount : Amounts,
                 next : Times \union {Infinity, MinusInfinity}, nextNo : Nat,
                 pmts : Times \union {Null}, pno : Nat]
    BY <1>1, <1>2, <1>3, <1>4, <1>7, <1>8
  <2>2. x \in Rows
    BY <2>1 DEF Rows
  <2>3. /\ x.mts = e.ts /\ x.id = e.id /\ x.no = m /\ x.price = shown.price
        /\ x.amount = shown.amount /\ x.next = nxt /\ x.nextNo = nextNo
    BY <1>7, <1>11, <2>1
  <2> HIDE DEF x
  <2>4. e.price # 0 => StateOf(x) = StateOf(e)
    BY <1>2, <2>3 DEF StateOf
  <2>5. NextIs(es, e, x)
    BY <1>5, <2>3
  <2>. QED
    BY <1>3, <1>13, <2>2, <2>3, <2>4, <2>5 DEF IsRow, number, x
<1>14. ASSUME ~trigger PROVE IsComplete(row) /\ IsRow(es, e, row)
  <2>1. pmts \in Times /\ no = number
    BY <1>8, <1>14
  <2>2. row \in Rows
    BY <1>1, <1>2, <1>3, <1>4, <1>7, <1>8, <2>1 DEF Rows
  <2>3. e.price # 0 => StateOf(row) = StateOf(e)
    BY <1>2, <1>11 DEF StateOf
  <2>4. NextIs(es, e, row)
    BY <1>5, <1>11
  <2>5. IsRow(es, e, row)
    BY <1>3, <1>7, <1>11, <2>1, <2>2, <2>3, <2>4 DEF IsRow, number
  <2>6. IsComplete(row)
    BY <1>3, <1>9, <1>11, <2>1 DEF IsComplete, Null
  <2>. QED
    BY <2>5, <2>6
<1>15. row.price # 0
  BY <1>2, <1>10, <1>11
<1>. QED
  BY <1>0, <1>8, <1>11, <1>12, <1>13, <1>14, <1>15 DEF trigger, number, RowFits

(***************************************************************************)
(* The rows of an order after the load of a channel: those before, but the *)
(* open one, and a row of every event that is kept.                        *)
(***************************************************************************)
OpenEvent(r) == Event(r.mts, r.mts, Null, r.id, r, OpenOrder, r.no)
OpenRows(table, es, o, R) ==
    /\ R \subseteq Part(table, o)
    /\ \A r, x \in R : r = x
    /\ \A r \in R : r.next = Infinity /\ r.nextNo # 1 /\ OpenEvent(r) \in es
    /\ \A e \in es : IsOpen(e) => \E r \in R : e = OpenEvent(r)
Grown(table, after, es, o, R) ==
    \E row : /\ \A e \in Kept(es) : IsRow(es, e, row[e])
             /\ Part(after, o) = (Part(table, o) \ R) \union {row[e] : e \in Kept(es)}

LEMMA OpenEventIs ==
    ASSUME NEW r
    PROVE  LET e == OpenEvent(r)
           IN  /\ e.ts = r.mts /\ e.id = r.id /\ e.no = r.no /\ StateOf(e) = StateOf(r)
               /\ e.price = r.price /\ IsOpen(e) /\ e.channel = OpenOrder
BY DEF OpenEvent, Event, StateOf, IsOpen

\* The open row goes on.
LEMMA OpenRowIs ==
    ASSUME NEW es, NEW o \in Orders, NEW f \in Nat, Stream(es, o, f),
           NEW r \in Rows, r.id = o, r.next = Infinity, r.nextNo # 1,
           OpenEvent(r) \in es
    PROVE  LET e == OpenEvent(r)
           IN  /\ FirstAfter(es, e) = {} => IsRow(es, e, r)
               /\ \A n \in FirstAfter(es, e) :
                    IsRow(es, e, [r EXCEPT !.next = n.ts, !.nextNo = r.no + 1])
<1> DEFINE e == OpenEvent(r)
<1>1. /\ e.ts = r.mts /\ e.id = r.id /\ e.no = r.no /\ StateOf(e) = StateOf(r)
      /\ e.price = r.price /\ IsOpen(e) /\ e \in es
  BY OpenEventIs
<1> HIDE DEF e
<1>2. Number(es, e) = r.no
  BY <1>1, OpenStarts
<1>3. r.no \in Nat \ {0} /\ e.price # 0
  BY <1>1, <1>2, NumberTyped, StreamTimes DEF Stream
<1>4. ASSUME FirstAfter(es, e) = {}
      PROVE  IsRow(es, e, r)
  BY <1>1, <1>2, <1>3, <1>4 DEF IsRow, NextIs
<1>5. ASSUME NEW n \in FirstAfter(es, e)
      PROVE  IsRow(es, e, [r EXCEPT !.next = n.ts, !.nextNo = r.no + 1])
  <2> DEFINE x == [r EXCEPT !.next = n.ts, !.nextNo = r.no + 1]
  <2>1. n.ts \in Times /\ FirstAfter(es, e) = {n}
    BY <1>1, Neighbours, StreamTimes
  <2>2. r.no + 1 \in Nat /\ r.no + 1 # 1
    BY <1>3
  <2>3. x \in Rows
    BY <2>1, <2>2 DEF Rows
  <2>4. /\ x.mts = r.mts /\ x.id = r.id /\ x.no = r.no /\ x.price = r.price
        /\ x.amount = r.amount /\ x.next = n.ts /\ x.nextNo = r.no + 1
    BY DEF Rows
  <2> HIDE DEF x
  <2>5. StateOf(x) = StateOf(e)
    BY <1>1, <2>4 DEF StateOf
  <2>6. NextIs(es, e, x)
    BY <1>2, <1>3, <2>1, <2>4 DEF NextIs
  <2>7. IsRow(es, e, x)
    BY <1>1, <1>2, <1>3, <2>2, <2>3, <2>4, <2>5, <2>6 DEF IsRow
  <2>. QED
    BY <2>7 DEF x
<1>. QED
  BY <1>4, <1>5 DEF e

\* Without an open row.
LEMMA OrderStarts ==
    ASSUME NEW table, table \subseteq RawRows, NEW ers, NEW rows, rows \subseteq RawRows,
           NEW es, NEW o \in Orders, NEW f \in Nat, Stream(es, o, f),
           Part(rows, o) = {RowOf(es, e) : e \in {x \in es : IsInserted(es, x)}},
           \A e \in es : ~IsOpen(e)
    PROVE  Grown(table, InsertRows(table, ers, rows), es, o, {})
<1> DEFINE row == [e \in Kept(es) |-> RowOf(es, e)]
           after == InsertRows(table, ers, rows)
<1>1. Kept(es) = {x \in es : IsInserted(es, x)}
  BY DEF Kept
<1>2. ASSUME NEW e \in Kept(es)
      PROVE  /\ IsRow(es, e, row[e]) /\ IsComplete(row[e])
             /\ row[e].mts = e.ts /\ row[e].mts \in Times
  <2>1. e \in es /\ IsInserted(es, e)
    BY <1>1
  <2>2. ~LeftToTrigger(es, e)
    BY <2>1, LeftToTriggerIs
  <2>3. IsRow(es, e, RowOf(es, e)) /\ IsComplete(RowOf(es, e)) /\ RowOf(es, e).mts = e.ts
    <3>1. RowFits(es, o, e, RowOf(es, e))
      BY <2>1, RowOfEvent
    <3>. QED
      BY <2>2, <3>1 DEF RowFits
  <2>. QED
    BY <2>1, <2>3, StreamTimes
<1>3. Part(rows, o) = {row[e] : e \in Kept(es)}
  BY <1>1
<1> HIDE DEF row
<1>4. CASE Kept(es) = {}
  <2>1. Part(rows, o) = {}
    BY <1>3, <1>4
  <2>2. Part(after, o) = Part(table, o)
    BY <2>1, NoRowsOfOrder
  <2>. QED
    BY <1>2, <1>4, <2>2 DEF Grown
<1>5. CASE Kept(es) # {}
  <2>1. PICK e \in Kept(es) : \A x \in Kept(es) : e.ts <= x.ts
    <3> DEFINE S == {x.ts : x \in Kept(es)}
    <3>1. S \in SUBSET Nat /\ S # {}
      BY <1>5, StreamTimes DEF Kept
    <3>2. PICK m \in S : \A k \in S : m <= k
      BY <3>1, NatMinimum
    <3>3. PICK e \in Kept(es) : e.ts = m
      OBVIOUS
    <3>. QED
      BY <3>2, <3>3
  <2>2. row[e] \in Part(rows, o)
    BY <1>3
  <2>3. \A r \in Part(rows, o) : /\ r.mts \in Times /\ row[e].mts <= r.mts
                                 /\ r = row[e] \/ IsComplete(r)
    BY <1>2, <1>3, <2>1
  <2>4. ASSUME NEW r \in Part(rows, o), NEW x \in Part(rows, o), r.mts = x.mts
        PROVE  r = x
    <3>1. PICK a \in Kept(es) : r = row[a]
      BY <1>3
    <3>2. PICK b \in Kept(es) : x = row[b]
      BY <1>3
    <3>3. a.ts = b.ts
      BY <1>2, <2>4, <3>1, <3>2
    <3>4. a = b
      BY <3>3, StreamTimes DEF OneOrder, Kept
    <3>. QED
      BY <3>1, <3>2, <3>4
  <2>5. Part(after, o) = Incorporate(Part(table, o), ers, row[e]) \union
                           (Part(rows, o) \ {row[e]})
    <3>1. FirstRow(rows, o, row[e])
      BY <2>2, <2>3, <2>4 DEF FirstRow
    <3>2. InsertedFrom(table, ers, rows, o, row[e])
      BY <3>1, RowsOfOrder
    <3>. QED
      BY <3>2 DEF InsertedFrom
  <2>6. Incorporate(Part(table, o), ers, row[e]) = Part(table, o) \union {row[e]}
    BY <1>2 DEF Incorporate, IsComplete
  <2>7. Part(after, o) = (Part(table, o) \ {}) \union {row[x] : x \in Kept(es)}
    BY <1>3, <2>2, <2>5, <2>6
  <2>. QED
    BY <1>2, <2>7 DEF Grown
<1>. QED
  BY <1>4, <1>5

\* With an open row, which is the only one that is live then.
LEMMA OrderGoesOn ==
    ASSUME NEW table, table \subseteq Rows, NEW ers, NEW rows, rows \subseteq RawRows,
           NEW es, NEW o \in Orders, NEW f \in Nat, Stream(es, o, f),
           Part(rows, o) = {RowOf(es, e) : e \in {x \in es : IsInserted(es, x)}},
           NEW r \in Part(table, o), OpenRows(table, es, o, {r}),
           \A t \in Times : f < t =>
             \A x \in Part(table, o) : InEraOf(ers, t, x.mts) /\ x.mts <= t /\ x.next > t <=> x = r
    PROVE  Grown(table, InsertRows(table, ers, rows), es, o, {r})
<1> DEFINE after == InsertRows(table, ers, rows)
           u == OpenEvent(r)
<1>1. /\ u \in es /\ IsOpen(u) /\ u.ts = r.mts /\ u.price = r.price /\ u.price # 0
      /\ r \in table /\ r.id = o /\ r \in Rows /\ r.next = Infinity /\ r.nextNo # 1
  BY OpenEventIs DEF OpenRows, Part, Stream
<1>2. /\ FirstAfter(es, u) = {} => IsRow(es, u, r)
      /\ \A n \in FirstAfter(es, u) :
           IsRow(es, u, [r EXCEPT !.next = n.ts, !.nextNo = r.no + 1])
  BY <1>1, OpenRowIs
<1>3. \A e \in es : IsOpen(e) => e = u
  BY DEF OpenRows
<1>4. table \subseteq RawRows
  BY RowsAreRaw
<1> HIDE DEF u
<1>5. CASE FirstAfter(es, u) = {}
  <2>1. \A e \in es : e = u
    <3>1. ASSUME NEW e \in es, e # u PROVE FALSE
      <4>1. u.ts < e.ts
        BY <1>1, <3>1, StreamTimes
      <4>. QED
        BY <1>1, <1>5, <4>1, FirstAfterExists, StreamTimes
    <3>. QED
      BY <3>1
  <2>2. ~IsInserted(es, u)
    BY <1>1 DEF IsInserted, IsOpen
  <2>3. Part(rows, o) = {} /\ Kept(es) = {u}
    BY <1>1, <2>1, <2>2 DEF Kept
  <2>4. Part(after, o) = Part(table, o)
    BY <1>4, <2>3, NoRowsOfOrder
  <2> DEFINE row == [e \in {u} |-> r]
  <2>5. \A e \in Kept(es) : IsRow(es, e, row[e])
    BY <1>2, <1>5, <2>3
  <2>6. Part(after, o) = (Part(table, o) \ {r}) \union {row[e] : e \in Kept(es)}
    BY <2>3, <2>4
  <2>. QED
    BY <2>5, <2>6 DEF Grown
<1>6. CASE FirstAfter(es, u) # {}
  <2>1. PICK n \in FirstAfter(es, u) : TRUE
    BY <1>6
  <2>2. /\ n \in es /\ IsInserted(es, n) /\ FirstAfter(es, u) = {n}
        /\ Number(es, n) = Number(es, u) + 1 /\ LastBefore(es, n) = {u}
    BY <1>1, <2>1, FollowerInserted
  <2>3. Number(es, u) = r.no /\ r.no \in Nat
    BY <1>1, OpenStarts, OpenEventIs DEF Rows, u
  <2>4. \A e \in es : e # u => ~IsOpen(e) /\ n.ts <= e.ts
    <3>1. ASSUME NEW e \in es, e # u PROVE ~IsOpen(e) /\ n.ts <= e.ts
      <4>1. ~IsOpen(e) /\ u.ts < e.ts
        BY <1>1, <3>1, StreamTimes
      <4>. QED
        BY <1>1, <2>1, <4>1, Neighbours, StreamTimes
    <3>. QED
      BY <3>1
  <2>5. n # u /\ ~IsInserted(es, u) /\ Kept(es) = {u} \union {x \in es : IsInserted(es, x)}
    BY <1>1, <1>3, <2>2 DEF Kept, IsInserted, IsOpen
  <2>6. LeftToTrigger(es, n)
    BY <1>1, <2>2, LeftToTriggerIs
  <2>7. ASSUME NEW e \in es, IsInserted(es, e), e # n PROVE ~LeftToTrigger(es, e)
    BY <1>3, <2>2, <2>7, LeftToTriggerIs
  <2>8. PICK new : new = RowOf(es, n) /\ RowFits(es, o, n, new)
    BY <2>2, RowOfEvent
  <2>9. /\ new \in RawRows /\ new.mts = n.ts /\ new.id = o /\ new.price # 0 /\ new.pmts = Null
        /\ \A no \in Nat, pmts \in Times, pno \in Nat :
             no = Number(es, n) =>
               IsRow(es, n, [new EXCEPT !.no = no, !.pmts = pmts, !.pno = pno])
    BY <2>6, <2>8 DEF RowFits
  <2>10. n.ts \in Times /\ f < n.ts
    BY <2>2, <2>4, <2>5 DEF Stream
  <2>11. Previous(Part(table, o), ers, new) = {r}
    <3>1. \A x \in Part(table, o) : x.id = new.id /\
            (InEraOf(ers, n.ts, x.mts) /\ x.mts <= n.ts /\ x.next > n.ts <=> x = r)
      BY <2>9, <2>10 DEF Part
    <3>. QED
      BY <2>9, <3>1 DEF Previous
  <2> DEFINE old  == [r EXCEPT !.next = new.mts, !.nextNo = r.no + 1]
             same == SamePrice(new, new, r)
             pmts == IF same THEN r.pmts ELSE new.mts
             pno  == IF same THEN r.pno ELSE r.no + 1
             now  == [new EXCEPT !.no = r.no + 1, !.pmts = pmts, !.pno = pno]
  <2>12. Incorporate(Part(table, o), ers, new) = (Part(table, o) \ {r}) \union {old, now}
    <3>1. Cardinality({r}) = 1
      BY FS_Singleton
    <3>2. Incorporate(Part(table, o), ers, new) =
            Continue(Part(table, o), CHOOSE x \in {r} : TRUE, new)
      <4>1. /\ ~(new.pmts # Null /\ new.no # Null)
            /\ ~(Cardinality(Previous(Part(table, o), ers, new)) > 1)
            /\ Previous(Part(table, o), ers, new) # {}
        <5>1. Cardinality(Previous(Part(table, o), ers, new)) = 1
          BY <2>11, <3>1
        <5>2. ~(Cardinality(Previous(Part(table, o), ers, new)) > 1)
          BY <5>1
        <5>3. r \in Previous(Part(table, o), ers, new)
          BY <2>11
        <5>. QED
          BY <2>9, <5>2, <5>3
      <4>. QED
        BY <2>11, <4>1, Zenon DEF Incorporate
    <3>3. (CHOOSE x \in {r} : TRUE) = r
      OBVIOUS
    <3>4. Continue(Part(table, o), r, new) = (Part(table, o) \ {r}) \union {old, now}
      BY <2>9 DEF Continue
    <3>. QED
      BY <3>2, <3>3, <3>4
  <2>13. IsRow(es, u, old)
    BY <1>2, <2>1, <2>9
  <2>14. IsRow(es, n, now)
    <3>1. pmts \in Times /\ pno \in Nat /\ r.no + 1 \in Nat
      <4>1. r.pmts \in Times /\ r.pno \in Nat
        BY <1>1 DEF Rows
      <4>2. new.mts \in Times
        BY <2>9, <2>10
      <4>3. r.no + 1 \in Nat
        BY <2>3
      <4> HIDE DEF same
      <4>. QED
        BY <4>1, <4>2, <4>3
    <3> HIDE DEF pmts, pno
    <3>. QED
      BY <2>2, <2>3, <2>9, <3>1
  <2> HIDE DEF old, now
  <2>15. ASSUME NEW e \in es, IsInserted(es, e)
         PROVE  /\ RowOf(es, e).mts = e.ts /\ RowOf(es, e).mts \in Times
                /\ new.mts <= RowOf(es, e).mts
                /\ e # n => IsComplete(RowOf(es, e)) /\ IsRow(es, e, RowOf(es, e))
    <3>1. PICK x : x = RowOf(es, e) /\ RowFits(es, o, e, x)
      BY <2>15, RowOfEvent
    <3>2. /\ x.mts = e.ts
          /\ ~LeftToTrigger(es, e) => IsComplete(x) /\ IsRow(es, e, x)
      BY <3>1 DEF RowFits
    <3>3. e # u /\ e.ts \in Times /\ n.ts <= e.ts
      BY <2>4, <2>5, <2>15, StreamTimes
    <3>. QED
      BY <2>7, <2>9, <2>15, <3>1, <3>2, <3>3
  <2>16. ASSUME NEW a \in es, NEW b \in es, IsInserted(es, a), IsInserted(es, b),
                RowOf(es, a).mts = RowOf(es, b).mts
         PROVE  a = b
    BY <2>15, <2>16 DEF Stream, OneOrder
  <2>17. Part(after, o) = Incorporate(Part(table, o), ers, new) \union (Part(rows, o) \ {new})
    <3>1. new \in Part(rows, o)
      BY <2>2, <2>8
    <3>2. \A x \in Part(rows, o) : x.mts \in Times
      BY <2>15
    <3>3. \A x, y \in Part(rows, o) : x.mts = y.mts => x = y
      BY <2>16
    <3>4. \A x \in Part(rows, o) : new.mts <= x.mts /\ (x = new \/ IsComplete(x))
      BY <2>8, <2>15
    <3>5. FirstRow(rows, o, new)
      BY <3>1, <3>2, <3>3, <3>4 DEF FirstRow
    <3>6. InsertedFrom(table, ers, rows, o, new)
      BY <1>4, <3>5, RowsOfOrder
    <3>. QED
      BY <3>6 DEF InsertedFrom
  <2> DEFINE row == [e \in Kept(es) |-> IF e = u THEN old ELSE IF e = n THEN now ELSE RowOf(es, e)]
  <2>18. \A e \in Kept(es) : IsRow(es, e, row[e])
    BY <2>5, <2>13, <2>14, <2>15
  <2>19. Part(rows, o) \ {new} = {RowOf(es, e) : e \in {x \in es : IsInserted(es, x) /\ x # n}}
    <3>1. \A e \in es : IsInserted(es, e) /\ RowOf(es, e) = new => e = n
      BY <2>2, <2>8, <2>16
    <3>. QED
      BY <2>2, <2>8, <3>1
  <2>20. {row[e] : e \in Kept(es)} =
           {old, now} \union {RowOf(es, e) : e \in {x \in es : IsInserted(es, x) /\ x # n}}
    BY <1>1, <2>2, <2>5
  <2>21. Part(after, o) = (Part(table, o) \ {r}) \union {row[e] : e \in Kept(es)}
    BY <2>12, <2>17, <2>19, <2>20
  <2>. QED
    BY <2>18, <2>21 DEF Grown
<1>. QED
  BY <1>5, <1>6

-----------------------------------------------------------------------------
(***************************************************************************)
(* The table after the load of a channel from f + 1 to g.                  *)
(***************************************************************************)
Captured(table, after, es, o, R, f, g) ==
    /\ Stream(es, o, f)
    /\ OpenRows(table, es, o, R)
    /\ Grown(table, after, es, o, R)
    /\ \A e \in es : e.ts <= g
AllCaptured(table, after, f, g) ==
    /\ after \subseteq RawRows
    /\ \A o \in Orders : \E es, R : Captured(table, after, es, o, R, f, g)

LEMMA TimesAre ==
    /\ Times \subseteq Nat /\ \A t \in Times : t # Null /\ t < Infinity /\ t # MinusInfinity
    /\ Infinity \in Int /\ MinusInfinity \in Int /\ \A t \in Nat : MinusInfinity < t
BY TableAssumption DEF Times, Infinity, MinusInfinity, Null

LEMMA RowTimes ==
    ASSUME NEW x \in Rows
    PROVE  x.mts \in Times /\ x.mts \in Nat /\ x.next \in Int
<1>1. x.mts \in Times /\ x.next \in Times \union {Infinity, MinusInfinity}
  BY DEF Rows
<1>2. x.mts \in Nat
  BY <1>1, TimesAre
<1>3. \A t \in Times \union {Infinity, MinusInfinity} : t \in Int
  BY TableAssumption DEF Times, Infinity, MinusInfinity
<1>. QED
  BY <1>1, <1>2, <1>3

LEMMA RowFields ==
    ASSUME NEW x \in Rows
    PROVE  /\ x.mts \in Times /\ x.id \in Orders /\ x.no \in Nat
           /\ x.price \in Prices /\ x.price # 0 /\ x.amount \in Amounts
           /\ x.next \in Times \union {Infinity, MinusInfinity}
           /\ x.nextNo \in Nat /\ x.pmts \in Times /\ x.pno \in Nat
           /\ x.mts \in Nat /\ x.next \in Int
           /\ StateOf(x) \in States /\ StateOf(x) # Absent
<1>1. /\ x.mts \in Times /\ x.id \in Orders /\ x.no \in Nat
      /\ x.price \in Prices /\ x.amount \in Amounts
      /\ x.next \in Times \union {Infinity, MinusInfinity}
      /\ x.nextNo \in Nat /\ x.pmts \in Times /\ x.pno \in Nat
  BY DEF Rows
<1>2. x.price # 0
  BY <1>1, TableAssumption
<1>3. x.mts \in Nat /\ x.next \in Int
  BY RowTimes
<1>4. StateOf(x) \in Present /\ StateOf(x) # Absent
  BY <1>1, <1>2 DEF StateOf, Present, Absent
<1>. QED
  BY <1>1, <1>2, <1>3, <1>4 DEF States

\* An order of the table, and where its rows come from.
OrderAfter(table, after, es, o, R, row, f, g) ==
    /\ Captured(table, after, es, o, R, f, g)
    /\ \A e \in Kept(es) : IsRow(es, e, row[e]) /\ row[e] \in after
    /\ Part(after, o) = (Part(table, o) \ R) \union {row[e] : e \in Kept(es)}

LEMMA RowAfter ==
    ASSUME NEW table, NEW after, NEW f, NEW g, AllCaptured(table, after, f, g),
           NEW x \in after
    PROVE  \E es, R, row : /\ x.id \in Orders
                           /\ OrderAfter(table, after, es, x.id, R, row, f, g)
<1>1. x.id \in Orders
  <2>1. x \in RawRows
    BY DEF AllCaptured
  <2>. QED
    BY <2>1, RawFields
<1>2. PICK es, R : Captured(table, after, es, x.id, R, f, g)
  BY <1>1 DEF AllCaptured
<1>3. PICK row : /\ \A e \in Kept(es) : IsRow(es, e, row[e])
                 /\ Part(after, x.id) =
                      (Part(table, x.id) \ R) \union {row[e] : e \in Kept(es)}
  BY <1>2 DEF Captured, Grown
<1>4. \A e \in Kept(es) : row[e] \in after
  BY <1>3 DEF Part
<1>5. OrderAfter(table, after, es, x.id, R, row, f, g)
  BY <1>2, <1>3, <1>4 DEF OrderAfter
<1>. QED
  BY <1>1, <1>5

LEMMA RowsAfter ==
    ASSUME NEW f \in Nat, NEW g \in Nat, f <= g, NEW table, RowsSound(table, f), NEW after,
           AllCaptured(table, after, f, g)
    PROVE  RowsSound(after, g)
<1>1. ASSUME NEW x \in after
      PROVE  /\ x \in Rows
             /\ x.mts <= g /\ x.no >= 1 /\ x.nextNo # 1
             /\ x.next \in {Infinity, MinusInfinity} \/ (x.mts < x.next /\ x.next <= g)
  <2>0. PICK es, R, row : x.id \in Orders /\ OrderAfter(table, after, es, x.id, R, row, f, g)
    BY RowAfter
  <2>1. /\ x.id \in Orders
        /\ Captured(table, after, es, x.id, R, f, g)
        /\ \A e \in Kept(es) : IsRow(es, e, row[e]) /\ row[e] \in after
        /\ Part(after, x.id) =
             (Part(table, x.id) \ R) \union {row[e] : e \in Kept(es)}
        /\ x \in Part(table, x.id) \ R \/ \E e \in Kept(es) : x = row[e]
    <3>1. x \in Part(after, x.id)
      BY DEF Part
    <3>. QED
      BY <2>0, <3>1 DEF OrderAfter
  <2>2. CASE x \in Part(table, x.id) \ R
    <3>1. x \in table /\ x \in Rows
      BY <2>2 DEF Part, RowsSound
    <3>2. x.mts \in Nat /\ x.next \in Int
      BY <3>1, RowTimes
    <3>. QED
      BY <3>1, <3>2 DEF RowsSound
  <2>3. CASE \E e \in Kept(es) : x = row[e]
    <3>1. PICK e \in Kept(es) : x = row[e]
      BY <2>3
    <3>2. e \in es /\ IsRow(es, e, x) /\ Stream(es, x.id, f) /\ e.ts <= g
      BY <2>1, <3>1 DEF Kept, Captured
    <3>3. Number(es, e) \in Nat \ {0} /\ OneOrder(es, x.id)
      BY <3>2, NumberTyped, StreamTimes
    <3>4. x \in Rows /\ x.mts <= g /\ x.no >= 1 /\ x.nextNo # 1
      BY <3>2, <3>3 DEF IsRow
    <3>5. CASE e.price = 0 \/ FirstAfter(es, e) = {}
      BY <3>2, <3>4, <3>5 DEF IsRow, NextIs
    <3>6. CASE e.price # 0 /\ FirstAfter(es, e) # {}
      <4>1. PICK n \in FirstAfter(es, e) : TRUE
        BY <3>6
      <4>2. n \in es /\ e.ts < n.ts
        BY <3>2, <3>3, <4>1, Neighbours
      <4>3. x.next = n.ts /\ x.mts = e.ts /\ n.ts <= g
        BY <2>1, <3>2, <3>6, <4>1, <4>2 DEF IsRow, NextIs, Captured
      <4>. QED
        BY <3>4, <4>2, <4>3
    <3>. QED
      BY <3>5, <3>6
  <2>. QED
    BY <2>1, <2>2, <2>3
<1>. QED
  BY <1>1 DEF RowsSound

LEMMA LinkedAfter ==
    ASSUME NEW f \in Nat, NEW g \in Nat, f <= g, NEW table, RowsSound(table, f), Linked(table),
           NEW after, AllCaptured(table, after, f, g)
    PROVE  Linked(after)
<1>1. SUFFICES ASSUME NEW x \in after, x.no # 1
               PROVE  \E y \in after : PointsAt(y, x) /\ y.no = x.no - 1
  BY DEF Linked
<1>0. PICK es, R, row : x.id \in Orders /\ OrderAfter(table, after, es, x.id, R, row, f, g)
  BY RowAfter
<1>2. /\ x.id \in Orders
      /\ Captured(table, after, es, x.id, R, f, g)
      /\ \A e \in Kept(es) : IsRow(es, e, row[e]) /\ row[e] \in after
      /\ Part(after, x.id) =
           (Part(table, x.id) \ R) \union {row[e] : e \in Kept(es)}
      /\ x \in Part(table, x.id) \ R \/ \E e \in Kept(es) : x = row[e]
  <2>1. x \in Part(after, x.id)
    BY DEF Part
  <2>. QED
    BY <1>0, <2>1 DEF OrderAfter
<1>3. /\ Stream(es, x.id, f) /\ OpenRows(table, es, x.id, R) /\ OneOrder(es, x.id)
      /\ \A r \in R : r \in table /\ r.id = x.id /\ r.next = Infinity
  BY <1>2, StreamTimes DEF Captured, OpenRows, Part
<1>4. ASSUME NEW r \in table, r.id = x.id, r.mts = x.mts, r.no = x.no
      PROVE  \E y \in after : PointsAt(y, x) /\ y.no = x.no - 1
  <2>1. PICK y \in table : PointsAt(y, r) /\ y.no = r.no - 1
    BY <1>1, <1>4 DEF Linked
  <2>2. y.id = x.id /\ y.next = r.mts /\ r.mts \in Times
    BY <1>4, <2>1, RowFields DEF PointsAt, RowsSound
  <2>3. y \notin R
    BY <1>3, <2>2, TimesAre
  <2>4. y \in after
    BY <1>2, <2>2, <2>3 DEF Part
  <2>. QED
    BY <1>4, <2>1, <2>4 DEF PointsAt
<1>5. CASE x \in Part(table, x.id) \ R
  BY <1>4, <1>5 DEF Part
<1>6. CASE \E e \in Kept(es) : x = row[e]
  <2>1. PICK e \in Kept(es) : x = row[e]
    BY <1>6
  <2>2. e \in es /\ IsRow(es, e, x)
    BY <1>2, <2>1 DEF Kept
  <2>3. CASE IsOpen(e)
    <3>1. PICK r \in R : e = OpenEvent(r)
      BY <1>3, <2>2, <2>3 DEF OpenRows
    <3>2. Number(es, e) = e.no /\ e.no = r.no /\ e.ts = r.mts
      BY <1>3, <2>2, <2>3, <3>1, OpenStarts, OpenEventIs
    <3>3. r.mts = x.mts /\ r.no = x.no
      BY <2>2, <3>2 DEF IsRow
    <3>. QED
      BY <1>3, <1>4, <3>3
  <2>4. CASE ~IsOpen(e)
    <3>1. ~Starts(es, e)
      BY <1>1, <1>3, <2>2, <2>4, InsertedStart DEF IsRow, Kept
    <3>2. PICK p \in Kept(es) : /\ p.price # 0 /\ FirstAfter(es, p) = {e}
                                /\ Number(es, e) = Number(es, p) + 1
      BY <1>3, <2>2, <3>1, InsertedAfter
    <3>3. IsRow(es, p, row[p]) /\ row[p] \in after /\ p \in es
      BY <1>2, <3>2 DEF Kept
    <3>4. Number(es, p) \in Nat
      BY <1>3, <3>3, NumberTyped
    <3>5. row[p].next = e.ts /\ row[p].nextNo = Number(es, p) + 1 /\ row[p].no = Number(es, p)
      BY <3>2, <3>3 DEF IsRow, NextIs
    <3>6. row[p].id = x.id
      BY <1>3, <3>3 DEF IsRow, OneOrder
    <3>7. PointsAt(row[p], x) /\ row[p].no = x.no - 1
      BY <2>2, <3>2, <3>4, <3>5, <3>6 DEF PointsAt, IsRow
    <3>. QED
      BY <3>3, <3>7
  <2>. QED
    BY <2>3, <2>4
<1>. QED
  BY <1>2, <1>5, <1>6

LEMMA KeysAfter ==
    ASSUME NEW f \in Nat, NEW g \in Nat, f <= g, NEW table, RowsSound(table, f),
           NEW after, AllCaptured(table, after, f, g)
    PROVE  /\ \A x \in after : x.mts <= f => \E y \in table : Key(y) = Key(x)
           /\ \A y \in table : \E x \in after : Key(x) = Key(y)
<1>1. ASSUME NEW x \in after, x.mts <= f
      PROVE  \E y \in table : Key(y) = Key(x)
  <2>0. PICK es, R, row : x.id \in Orders /\ OrderAfter(table, after, es, x.id, R, row, f, g)
    BY RowAfter
  <2>1. /\ x.id \in Orders
        /\ Captured(table, after, es, x.id, R, f, g)
        /\ \A e \in Kept(es) : IsRow(es, e, row[e]) /\ row[e] \in after
        /\ Part(after, x.id) =
             (Part(table, x.id) \ R) \union {row[e] : e \in Kept(es)}
        /\ x \in Part(table, x.id) \ R \/ \E e \in Kept(es) : x = row[e]
    <3>1. x \in Part(after, x.id)
      BY DEF Part
    <3>. QED
      BY <2>0, <3>1 DEF OrderAfter
  <2>2. CASE x \in Part(table, x.id) \ R
    BY <2>2 DEF Part
  <2>3. CASE \E e \in Kept(es) : x = row[e]
    <3>1. PICK e \in Kept(es) : x = row[e]
      BY <2>3
    <3>2. e \in es /\ IsRow(es, e, x) /\ Stream(es, x.id, f) /\ OpenRows(table, es, x.id, R)
      BY <2>1, <3>1 DEF Kept, Captured
    <3>3. x.mts = e.ts /\ e.ts \in Nat
      BY <3>2, StreamTimes DEF IsRow
    <3>4. IsOpen(e)
      BY <1>1, <3>2, <3>3 DEF Stream
    <3>5. PICK r \in R : e = OpenEvent(r)
      BY <3>2, <3>4 DEF OpenRows
    <3>6. Number(es, e) = e.no /\ e.no = r.no /\ e.ts = r.mts /\ e.id = r.id
      BY <3>2, <3>4, <3>5, OpenStarts, OpenEventIs
    <3>7. r \in table /\ Key(r) = Key(x)
      BY <3>2, <3>6 DEF IsRow, Key, OpenRows, Part
    <3>. QED
      BY <3>7
  <2>. QED
    BY <2>1, <2>2, <2>3
<1>2. ASSUME NEW y \in table
      PROVE  \E x \in after : Key(x) = Key(y)
  <2>1. y.id \in Orders
    BY RowFields DEF RowsSound
  <2>2. PICK es, R : Captured(table, after, es, y.id, R, f, g)
    BY <2>1 DEF AllCaptured
  <2>3. PICK row : /\ \A e \in Kept(es) : IsRow(es, e, row[e])
                   /\ Part(after, y.id) =
                        (Part(table, y.id) \ R) \union {row[e] : e \in Kept(es)}
    BY <2>2 DEF Captured, Grown
  <2>4. CASE y \notin R
    BY <2>3, <2>4 DEF Part
  <2>5. CASE y \in R
    <3> DEFINE e == OpenEvent(y)
    <3>1. e \in es /\ IsOpen(e) /\ e.ts = y.mts /\ e.no = y.no /\ e.id = y.id
      BY <2>2, <2>5, OpenEventIs DEF Captured, OpenRows
    <3> HIDE DEF e
    <3>2. Number(es, e) = e.no /\ e \in Kept(es)
      BY <2>1, <2>2, <3>1, OpenStarts DEF Captured, Kept
    <3>3. Key(row[e]) = Key(y) /\ row[e] \in Part(after, y.id)
      BY <2>3, <3>1, <3>2 DEF IsRow, Key
    <3>. QED
      BY <3>3 DEF Part
  <2>. QED
    BY <2>4, <2>5
<1>. QED
  BY <1>1, <1>2

(***************************************************************************)
(* What an order book shows of an order: the state its last event tells.   *)
(***************************************************************************)
LastIs(es, t, s) ==
    \/ s = Absent /\ \A e \in es : t < e.ts
    \/ \E e \in es : e.ts <= t /\ StateOf(e) = s /\ \A x \in es : x.ts <= t => x.ts <= e.ts
ShowsOrder(table, ers, t, o, s) ==
    LET live == {x \in LiveAt(table, ers, t) : x.id = o}
    IN  /\ \A x, y \in live : x = y
        /\ \A x \in live : StateOf(x) = s
        /\ s # Absent => live # {}

LEMMA OrderShown ==
    ASSUME NEW f \in Nat, NEW g \in Nat, NEW t \in Times, f < t,
           NEW table, RowsSound(table, f), NEW after, NEW ers,
           NEW es, NEW o \in Orders, NEW R, Captured(table, after, es, o, R, f, g),
           NEW s, LastIs(es, t, s),
           \A x \in Part(table, o) : x.next = Infinity /\ InEraOf(ers, t, x.mts) => x \in R,
           \A x \in R : InEraOf(ers, t, x.mts),
           \A m \in Times : f < m => InEraOf(ers, t, m)
    PROVE  ShowsOrder(after, ers, t, o, s)
<1> DEFINE live == {x \in LiveAt(after, ers, t) : x.id = o}
<1>1. /\ Stream(es, o, f) /\ OpenRows(table, es, o, R) /\ OneOrder(es, o)
      /\ \A e \in es : e.ts \in Nat /\ e.ts \in Times /\ StateOf(e) \in States
  BY StreamTimes DEF Captured
<1>2. PICK row : /\ \A e \in Kept(es) : IsRow(es, e, row[e])
                 /\ Part(after, o) = (Part(table, o) \ R) \union {row[e] : e \in Kept(es)}
  BY DEF Captured, Grown
<1>3. t \in Nat /\ t < Infinity
  BY TimesAre
<1>4. ASSUME NEW x \in live
      PROVE  \E e \in Kept(es) : /\ x = row[e] /\ e \in es /\ e.ts <= t /\ StateOf(x) = StateOf(e)
                                 /\ \A y \in es : y.ts <= t => y.ts <= e.ts
  <2>1. x \in Part(after, o) /\ InEraOf(ers, t, x.mts) /\ x.mts <= t /\ x.next > t
    BY DEF LiveAt, Part
  <2>2. x \notin Part(table, o) \ R
    <3>1. SUFFICES ASSUME x \in Part(table, o), x \notin R PROVE FALSE
      OBVIOUS
    <3>2. x \in Rows /\ (x.next \in {Infinity, MinusInfinity} \/ x.next <= f)
      BY <3>1 DEF Part, RowsSound
    <3>3. x.next \in Int
      BY <3>2, RowTimes
    <3>4. x.next = Infinity
      BY <1>3, <2>1, <3>2, <3>3, TimesAre
    <3>. QED
      BY <2>1, <3>1, <3>4
  <2>3. PICK e \in Kept(es) : x = row[e]
    BY <1>2, <2>1, <2>2
  <2>4. e \in es /\ IsRow(es, e, x)
    BY <1>2, <2>3 DEF Kept
  <2>5. e.ts <= t /\ e.price # 0
    <3>1. e.price = 0 => x.next = MinusInfinity
      BY <2>4 DEF IsRow, NextIs
    <3>. QED
      BY <1>3, <2>1, <2>4, <3>1, TimesAre DEF IsRow
  <2>6. ASSUME NEW y \in es, y.ts <= t, e.ts < y.ts PROVE FALSE
    <3>1. PICK n \in FirstAfter(es, e) : n \in es
      BY <1>1, <2>4, <2>6, FirstAfterExists
    <3>2. n.ts <= y.ts
      BY <1>1, <2>4, <2>6, Neighbours
    <3>3. x.next = n.ts
      BY <2>4, <2>5 DEF IsRow, NextIs
    <3>. QED
      BY <1>1, <1>3, <2>1, <2>6, <3>1, <3>2, <3>3
  <2>7. \A y \in es : y.ts <= t => y.ts <= e.ts
    BY <1>1, <2>4, <2>6
  <2>. QED
    BY <2>3, <2>4, <2>5, <2>7 DEF IsRow
<1>5. ASSUME NEW a \in es, NEW b \in es, a.ts <= t, b.ts <= t,
             \A y \in es : y.ts <= t => y.ts <= a.ts,
             \A y \in es : y.ts <= t => y.ts <= b.ts
      PROVE  a = b
  <2>1. a.ts = b.ts
    BY <1>1, <1>5
  <2>. QED
    BY <1>1, <2>1 DEF OneOrder
<1>6. ASSUME NEW x \in live, NEW y \in live PROVE x = y
  BY <1>4, <1>5
<1>7. ASSUME NEW x \in live PROVE StateOf(x) = s
  <2>1. PICK e \in Kept(es) : /\ x = row[e] /\ e \in es /\ e.ts <= t /\ StateOf(x) = StateOf(e)
                              /\ \A y \in es : y.ts <= t => y.ts <= e.ts
    BY <1>4
  <2>2. PICK a \in es : a.ts <= t /\ StateOf(a) = s /\ \A y \in es : y.ts <= t => y.ts <= a.ts
    <3>1. ~(t < e.ts)
      BY <1>1, <1>3, <2>1
    <3>. QED
      BY <2>1, <3>1 DEF LastIs
  <2>. QED
    BY <1>5, <2>1, <2>2
<1>8. ASSUME s # Absent PROVE live # {}
  <2>1. PICK e \in es : e.ts <= t /\ StateOf(e) = s /\ \A y \in es : y.ts <= t => y.ts <= e.ts
    BY <1>8 DEF LastIs
  <2>2. e.price # 0 /\ e \in Kept(es)
    BY <1>1, <1>8, <2>1, StateIs, PositiveKept
  <2> DEFINE x == row[e]
  <2>3. IsRow(es, e, x) /\ x \in Part(after, o)
    BY <1>2, <2>2
  <2>4. x.mts = e.ts /\ x.mts <= t
    BY <2>1, <2>3 DEF IsRow
  <2>5. x.next > t
    <3>1. CASE FirstAfter(es, e) = {}
      <4>1. x.next = Infinity
        BY <2>2, <2>3, <3>1 DEF IsRow, NextIs
      <4>. QED
        BY <1>3, <4>1, TimesAre
    <3>2. CASE FirstAfter(es, e) # {}
      <4>1. PICK n \in FirstAfter(es, e) : TRUE
        BY <3>2
      <4>2. n \in es /\ e.ts < n.ts /\ x.next = n.ts
        BY <1>1, <2>2, <2>3, <4>1, Neighbours DEF IsRow, NextIs
      <4>. QED
        BY <1>1, <1>3, <2>1, <4>2
    <3>. QED
      BY <3>1, <3>2
  <2>6. InEraOf(ers, t, x.mts)
    <3>1. CASE IsOpen(e)
      <4>1. PICK r \in R : e = OpenEvent(r)
        BY <1>1, <3>1 DEF OpenRows
      <4>2. e.ts = r.mts
        BY <4>1, OpenEventIs
      <4>. QED
        BY <2>4, <4>1, <4>2
    <3>2. CASE ~IsOpen(e)
      BY <1>1, <2>4, <3>2 DEF Stream
    <3>. QED
      BY <3>1, <3>2
  <2>7. x \in live
    BY <2>3, <2>4, <2>5, <2>6 DEF LiveAt, Part
  <2>. QED
    BY <2>7
<1>. QED
  BY <1>6, <1>7, <1>8 DEF ShowsOrder

\* The state of the last event follows the book.
LEMMA LastFollows ==
    ASSUME NEW f \in Nat, NEW g \in Nat, f <= g, NEW es, \A e \in es : e.ts \in Nat,
           NEW s, LastIs(es, f, s[f]),
           \A t \in (f + 1)..g :
             /\ (\A e \in es : e.ts # t) => s[t] = s[t - 1]
             /\ \A e \in es : e.ts = t => StateOf(e) = s[t]
    PROVE  \A t \in f..g : LastIs(es, t, s[t])
<1> DEFINE T == {t \in f..g : ~LastIs(es, t, s[t])}
<1>1. SUFFICES ASSUME T # {} PROVE FALSE
  OBVIOUS
<1>2. PICK t \in T : \A k \in T : t <= k
  <2>1. T \in SUBSET Nat
    OBVIOUS
  <2>. QED
    BY <1>1, <2>1, NatMinimum
<1>3. t \in f..g /\ ~LastIs(es, t, s[t]) /\ t # f /\ t \in Nat
  OBVIOUS
<1>4. t - 1 \in f..g /\ t \in (f + 1)..g /\ ~(t <= t - 1)
  BY <1>3
<1>5. LastIs(es, t - 1, s[t - 1])
  <2>1. t - 1 \notin T
    BY <1>2, <1>4
  <2>. QED
    BY <1>4, <2>1
<1>6. CASE \E e \in es : e.ts = t
  <2>1. PICK e \in es : e.ts = t
    BY <1>6
  <2>2. StateOf(e) = s[t] /\ e.ts <= t /\ \A x \in es : x.ts <= t => x.ts <= e.ts
    BY <1>3, <1>4, <2>1
  <2>. QED
    BY <1>3, <2>2 DEF LastIs
<1>7. CASE \A e \in es : e.ts # t
  <2>1. s[t] = s[t - 1]
    BY <1>4, <1>7
  <2>2. \A e \in es : (e.ts <= t <=> e.ts <= t - 1) /\ (t < e.ts <=> t - 1 < e.ts)
    BY <1>3, <1>7
  <2>3. LastIs(es, t, s[t])
    BY <1>5, <2>1, <2>2 DEF LastIs
  <2>. QED
    BY <1>3, <2>3
<1>. QED
  BY <1>6, <1>7

-----------------------------------------------------------------------------
(***************************************************************************)
(* The open rows: those of the last era that nothing follows.              *)
(***************************************************************************)
InLastEra(ers, t) == DOMAIN ers # {} /\ \A e \in DOMAIN ers : e <= t
OpenTable(table, ers) == {r \in table : r.next = Infinity /\ InLastEra(ers, r.mts)}

LEMMA LastEra ==
    ASSUME NEW f \in Nat, NEW ers, DOMAIN ers \subseteq 1..f, NEW t \in Nat, f <= t
    PROVE  /\ ErasUpTo(ers, t) = DOMAIN ers
           /\ \A m : InEraOf(ers, t, m) <=> InLastEra(ers, m)
<1>1. \A e \in DOMAIN ers : e <= t
  OBVIOUS
<1>2. ErasUpTo(ers, t) = DOMAIN ers
  BY <1>1 DEF ErasUpTo
<1>. QED
  BY <1>2 DEF InEraOf, InLastEra

LEMMA OpenTableIs ==
    ASSUME NEW f \in 0..MaxTime, NEW table, RowsSound(table, f), NEW ers,
           DOMAIN ers \subseteq 1..f, NEW t \in 0..MaxTime
    PROVE  /\ f <= t => LiveAt(table, ers, t) = OpenTable(table, ers)
           /\ f < t => LiveBefore(table, ers, t) = OpenTable(table, ers)
<1>1. f \in Nat /\ t \in Nat /\ t < Infinity /\ MinusInfinity < t /\ Infinity \in Int
  BY TableAssumption DEF Infinity, MinusInfinity
<1>2. ASSUME f <= t, NEW r \in table
      PROVE  /\ InEraOf(ers, t, r.mts) <=> InLastEra(ers, r.mts)
             /\ r.mts <= t /\ (f < t => r.mts < t)
             /\ r.next > t <=> r.next = Infinity
             /\ f < t => (r.next >= t <=> r.next = Infinity)
  <2>1. r \in Rows /\ r.mts <= f /\ (r.next \in {Infinity, MinusInfinity} \/ r.next <= f)
    BY DEF RowsSound
  <2>2. r.mts \in Nat /\ r.next \in Int
    BY <2>1, RowTimes
  <2>3. MinusInfinity \in Int
    BY TimesAre
  <2>4. InEraOf(ers, t, r.mts) <=> InLastEra(ers, r.mts)
    BY <1>1, <1>2, LastEra
  <2>. QED
    BY <1>1, <1>2, <2>1, <2>2, <2>3, <2>4
<1>3. f <= t => LiveAt(table, ers, t) = OpenTable(table, ers)
  BY <1>2 DEF LiveAt, OpenTable
<1>4. f < t => LiveBefore(table, ers, t) = OpenTable(table, ers)
  <2>1. f < t => f <= t
    BY <1>1
  <2>. QED
    BY <1>2, <2>1 DEF LiveBefore, OpenTable
<1>. QED
  BY <1>3, <1>4

LEMMA OpenTableShown ==
    ASSUME NEW f \in 0..MaxTime, NEW table, NEW ers, NEW rep, Level3Sound(table, ers, f, rep)
    PROVE  /\ OpenTable(table, ers) \subseteq table
           /\ \A r, x \in OpenTable(table, ers) : r.id = x.id => r = x
           /\ \A r \in OpenTable(table, ers) : StateOf(r) = BookOf(rep, f)[r.id]
           /\ DOMAIN ers # {} =>
                \A o \in Orders : BookOf(rep, f)[o] # Absent =>
                  \E r \in OpenTable(table, ers) : r.id = o
<1>1. OpenTable(table, ers) # {} => DOMAIN ers # {}
  BY DEF OpenTable, InLastEra
<1>2. CASE DOMAIN ers # {}
  <2>1. DOMAIN ers \subseteq 1..f /\ RowsSound(table, f) /\ Replays(table, ers, f, rep)
    BY DEF Level3Sound, ErasSound
  <2>2. f \in Nat /\ f # 0 /\ f \in 1..f
    BY <1>2, <2>1
  <2>3. ErasUpTo(ers, f) # {}
    BY <1>2, <2>1, <2>2, LastEra
  <2>4. Shows(table, ers, f, rep[f])
    BY <2>1, <2>2, <2>3 DEF Replays
  <2>5. LiveAt(table, ers, f) = OpenTable(table, ers)
    BY <2>1, <2>2, OpenTableIs
  <2>6. BookOf(rep, f) = rep[f]
    BY <2>2 DEF BookOf
  <2>7. OpenTable(table, ers) \subseteq table
    BY DEF OpenTable
  <2>. QED
    BY <2>4, <2>5, <2>6, <2>7 DEF Shows
<1>3. CASE DOMAIN ers = {}
  BY <1>1, <1>3
<1>. QED
  BY <1>2, <1>3
-----------------------------------------------------------------------------
(***************************************************************************)
(* Channels and what of the events falls into them.                        *)
(***************************************************************************)
EndIs(chans, c) ==
    /\ c.start \in Times /\ ChannelEnd(c, chans) \in Nat /\ c.start <= ChannelEnd(c, chans)
    /\ \A x \in chans : c.start < x.start => ChannelEnd(c, chans) < x.start
    /\ ChannelEnd(c, chans) # Infinity => \E x \in chans : x.start = ChannelEnd(c, chans) + 1

LEMMA ChannelEndIs ==
    ASSUME NEW now \in 0..MaxTime, NEW chans, ChannelsSound(chans, now), NEW c \in chans
    PROVE  EndIs(chans, c)
<1> DEFINE next == {x.start : x \in {x \in chans : x.start > c.start}}
<1>1. \A x \in chans : x.start \in 1..now
  BY DEF ChannelsSound
<1>2. \A n \in 1..now : n \in Times /\ n \in Nat /\ n <= MaxTime
  BY TableAssumption DEF Times
<1>3. \A x \in chans : x.start \in Nat /\ x.start <= MaxTime
  BY <1>1, <1>2
<1>4. CASE next = {}
  <2>1. ChannelEnd(c, chans) = Infinity
    BY <1>4 DEF ChannelEnd
  <2>2. \A x \in chans : ~(c.start < x.start)
    BY <1>3, <1>4
  <2>3. Infinity \in Nat /\ \A n \in Nat : n <= MaxTime => n <= Infinity
    BY TableAssumption DEF Infinity
  <2>. QED
    BY <1>1, <1>2, <1>3, <2>1, <2>2, <2>3 DEF EndIs
<1>5. CASE next # {}
  <2>1. next \in SUBSET Nat
    BY <1>3
  <2>2. Min(next) \in next /\ \A y \in next : Min(next) <= y
    BY <1>5, <2>1, MinIsLeast
  <2>3. PICK m : m = Min(next)
    OBVIOUS
  <2>4. ChannelEnd(c, chans) = m - 1
    BY <1>5, <2>3 DEF ChannelEnd
  <2>5. PICK y \in chans : y.start > c.start /\ m = y.start
    BY <2>2, <2>3
  <2>6. m \in Nat /\ c.start \in Nat /\ c.start < m
    BY <1>3, <2>5
  <2>7. \A x \in chans : c.start < x.start => m <= x.start
    <3>1. \A x \in chans : c.start < x.start => x.start \in next
      BY <1>3
    <3>. QED
      BY <2>2, <2>3, <3>1
  <2>8. m - 1 \in Nat /\ c.start <= m - 1
    BY <2>6
  <2>9. \A x \in chans : c.start < x.start => m - 1 < x.start
    BY <1>3, <2>6, <2>7
  <2>10. y.start = (m - 1) + 1
    BY <2>5, <2>6
  <2>11. c.start \in Times
    BY <1>1, <1>2
  <2>. QED
    BY <2>4, <2>8, <2>9, <2>10, <2>11 DEF EndIs
<1>. QED
  BY <1>4, <1>5

\* An instant falls into one channel.
LEMMA OneCovers ==
    ASSUME NEW now \in 0..MaxTime, NEW chans, ChannelsSound(chans, now), NEW c \in chans,
           NEW x \in chans, NEW t \in Nat, Covers(chans, c, t), Covers(chans, x, t)
    PROVE  c = x
<1>1. EndIs(chans, c) /\ EndIs(chans, x)
  BY ChannelEndIs
<1>2. c.start \in Times /\ x.start \in Times
  BY <1>1 DEF EndIs
<1>3. c.start \in Nat /\ x.start \in Nat
  BY <1>2, TimesAre
<1>4. ~(c.start < x.start)
  BY <1>1, <1>3 DEF EndIs, Covers
<1>5. ~(x.start < c.start)
  BY <1>1, <1>3 DEF EndIs, Covers
<1>. QED
  BY <1>3, <1>4, <1>5 DEF ChannelsSound

\* The channel c covers what is after f up to g.
Piece(chans, c, f, g) == c \in chans /\ f < g /\ c.start <= f + 1 /\ g <= ChannelEnd(c, chans)

LEMMA InPiece ==
    ASSUME NEW now \in 0..MaxTime, NEW f \in 0..now, NEW g \in 0..now, NEW chans, NEW events,
           NEW rep, ChannelsSound(chans, now), StreamSound(events, chans, f, now, rep),
           NEW c, Piece(chans, c, f, g)
    PROVE  /\ \A e \in events : e.ts <= g => e.channel = c.channel
           /\ \A t \in (f + 1)..g : StartsAt(chans, t) <=> (t = f + 1 /\ c.start = t)
<1>1. c \in chans /\ EndIs(chans, c)
  BY ChannelEndIs DEF Piece
<1>2. c.start \in Nat /\ ChannelEnd(c, chans) \in Nat /\ f \in Nat /\ g \in Nat
  <2>1. f \in Nat /\ g \in Nat
    <3>1. now \in Nat
      BY TableAssumption
    <3>. QED
      BY <3>1
  <2>2. c.start \in Times /\ ChannelEnd(c, chans) \in Nat
    BY <1>1 DEF EndIs
  <2>. QED
    BY <2>1, <2>2, TimesAre
<1>3. \A t \in Nat : f < t /\ t <= g => Covers(chans, c, t)
  BY <1>2 DEF Covers, Piece
<1>4. ASSUME NEW e \in events, e.ts <= g PROVE e.channel = c.channel
  <2>1. e.ts \in Nat /\ f < e.ts
    BY DEF StreamSound
  <2>2. PICK x \in chans : x.channel = e.channel /\ Covers(chans, x, e.ts)
    BY DEF StreamSound
  <2>3. Covers(chans, c, e.ts)
    BY <1>3, <1>4, <2>1
  <2>4. x = c
    BY <1>1, <2>1, <2>2, <2>3, OneCovers
  <2>. QED
    BY <2>2, <2>4
<1>5. ASSUME NEW t \in (f + 1)..g, StartsAt(chans, t) PROVE t = f + 1 /\ c.start = t
  <2>1. PICK x \in chans : x.start = t
    BY <1>5 DEF StartsAt
  <2>2. t \in Nat /\ f < t /\ t <= g
    BY <1>2
  <2>3. ~(c.start < t)
    BY <1>1, <1>2, <2>1, <2>2 DEF EndIs, Piece
  <2>4. c.start <= f + 1
    BY DEF Piece
  <2>. QED
    BY <1>2, <2>2, <2>3, <2>4
<1>6. \A t : c.start = t => StartsAt(chans, t)
  BY <1>1 DEF StartsAt
<1>. QED
  BY <1>4, <1>5, <1>6
-----------------------------------------------------------------------------
(***************************************************************************)
(* The events a piece takes: as they are, or with the difference of its    *)
(* snapshot to the open orders in place of the snapshot.                   *)
(***************************************************************************)
EventSound(e, f, g) ==
    /\ e.ts \in Nat /\ f < e.ts /\ e.ts <= g
    /\ e.stamp \in Int /\ e.stamp <= e.ts
    /\ e.id \in Orders /\ e.no = Null /\ e.local \in LocalTimes /\ StateOf(e) \in States
    /\ e.channel \in 1..MaxChannels
TakenSound(taken, f, g) ==
    /\ \A e \in taken : EventSound(e, f, g)
    /\ \A e, x \in taken : e.ts = x.ts /\ e.id = x.id /\ e.local = x.local => e = x

Later(events, g) == {e \in events : g < e.ts}
TakenOf(events, c, f, g) == {e \in events : e.channel = c.channel /\ e.ts \in (f + 1)..g}
SnapshotOf(events, c, f) == {e \in events : e.channel = c.channel /\ e.ts = f + 1}
OpenEvents(live) == {OpenEvent(r) : r \in live}
WithDiff(events, live, c, f) ==
    (events \ SnapshotOf(events, c, f)) \union
    DiffOrderBooks(OpenEvents(live), SnapshotOf(events, c, f))

\* What is taken of evs, and of which events of the stream it consists.
Takes(evs, events, c, f, g) ==
    /\ TakenSound(TakenOf(evs, c, f, g), f, g)
    /\ evs \ TakenOf(evs, c, f, g) = Later(events, g)

LEMMA PlainTaken ==
    ASSUME NEW now \in 0..MaxTime, NEW f \in 0..now, NEW g \in 0..now, NEW chans, NEW events,
           NEW rep, ChannelsSound(chans, now), StreamSound(events, chans, f, now, rep),
           NEW c, Piece(chans, c, f, g)
    PROVE  /\ Takes(events, events, c, f, g)
           /\ TakenOf(events, c, f, g) = {e \in events : e.ts <= g}
<1> DEFINE taken == TakenOf(events, c, f, g)
<1>1. f \in Nat /\ g \in Nat
  <2>1. now \in Nat
    BY TableAssumption
  <2>. QED
    BY <2>1
<1>2. \A e \in events : e.ts \in Nat /\ f < e.ts
  BY DEF StreamSound
<1>3. \A e \in events : e.ts <= g => e.channel = c.channel
  BY InPiece
<1>4. \A e \in events : e.ts \in (f + 1)..g <=> e.ts <= g
  BY <1>1, <1>2
<1>5. taken = {e \in events : e.ts <= g}
  BY <1>3, <1>4 DEF TakenOf
<1>6. \A e \in events : (~(e.ts <= g) <=> g < e.ts)
  BY <1>1, <1>2
<1>7. events \ taken = Later(events, g)
  BY <1>5, <1>6 DEF Later
<1>8. TakenSound(taken, f, g)
  <2>1. \A e \in taken : e \in events /\ e.ts <= g
    BY <1>5
  <2>2. \A e \in taken : EventSound(e, f, g)
    BY <2>1 DEF StreamSound, EventSound
  <2>3. \A e, x \in taken : e.ts = x.ts /\ e.id = x.id /\ e.local = x.local => e = x
    BY <2>1 DEF StreamSound
  <2>. QED
    BY <2>2, <2>3 DEF TakenSound
<1>. QED
  BY <1>5, <1>7, <1>8 DEF Takes

\* The difference of a snapshot to the open orders.
Deletion(b, c, f) == Event(f + 1, f + 1, Null, b.id, Absent, c.channel, Null)
DiffIs(events, live, c, f) ==
    DiffOrderBooks(OpenEvents(live), SnapshotOf(events, c, f)) =
      {a \in SnapshotOf(events, c, f) : \A r \in live : r.id = a.id => StateOf(r) # StateOf(a)}
      \union {Deletion(r, c, f) : r \in {r \in live : \A a \in SnapshotOf(events, c, f) : a.id # r.id}}

LEMMA Diff ==
    ASSUME NEW f \in Nat, NEW c, NEW events, NEW live, SnapshotOf(events, c, f) # {}
    PROVE  DiffIs(events, live, c, f)
<1> DEFINE snapshot == SnapshotOf(events, c, f)
           open == OpenEvents(live)
           missing == {r \in live : \A a \in snapshot : a.id # r.id}
<1>1. \A a \in snapshot : a.ts = f + 1 /\ a.channel = c.channel
  BY DEF SnapshotOf
<1>2. LastTime(snapshot) = f + 1
  <2>1. {e.ts : e \in snapshot} = {f + 1}
    BY <1>1
  <2>2. {f + 1} \in SUBSET (0..(f + 1)) /\ f + 1 \in {f + 1} /\ \A y \in {f + 1} : y <= f + 1
    OBVIOUS
  <2>3. Max({f + 1}) = f + 1
    BY <2>2, MaxIs
  <2>. QED
    BY <2>1, <2>3 DEF LastTime
<1>3. (CHOOSE a \in snapshot : TRUE).channel = c.channel
  BY <1>1
<1>4. \A r \in live : LET b == OpenEvent(r)
                      IN  b.id = r.id /\ b.price = r.price /\ b.amount = r.amount
  BY DEF OpenEvent, Event
<1>5. ChangedOnly(open, snapshot) =
        {a \in snapshot : \A r \in live : r.id = a.id => StateOf(r) # StateOf(a)}
  <2>1. \A a : \A r \in live : StateOf(r) # StateOf(a) <=> r.price # a.price \/ r.amount # a.amount
    BY DEF StateOf
  <2>. QED
    BY <1>4, <2>1 DEF ChangedOnly, OpenEvents
<1>6. {Event(LastTime(snapshot), LastTime(snapshot), Null, b.id, Absent, (CHOOSE a \in snapshot : TRUE).channel, Null) :
         b \in {b \in open : \A a \in snapshot : a.id # b.id}} = {Deletion(r, c, f) : r \in missing}
  <2> DEFINE gone == {b \in open : \A a \in snapshot : a.id # b.id}
  <2>1. \A b \in gone : \E r \in missing : b.id = r.id
    BY <1>4 DEF OpenEvents
  <2>2. \A r \in missing : \E b \in gone : b.id = r.id
    BY <1>4 DEF OpenEvents
  <2>3. \A b \in gone : Event(LastTime(snapshot), LastTime(snapshot), Null, b.id, Absent,
                              (CHOOSE a \in snapshot : TRUE).channel, Null) =
                        Event(f + 1, f + 1, Null, b.id, Absent, c.channel, Null)
    BY <1>2, <1>3
  <2> HIDE DEF gone, missing
  <2>4. {Event(f + 1, f + 1, Null, b.id, Absent, c.channel, Null) : b \in gone} =
        {Event(f + 1, f + 1, Null, r.id, Absent, c.channel, Null) : r \in missing}
    BY <2>1, <2>2
  <2>5. {Event(LastTime(snapshot), LastTime(snapshot), Null, b.id, Absent,
               (CHOOSE a \in snapshot : TRUE).channel, Null) : b \in gone} =
        {Event(f + 1, f + 1, Null, b.id, Absent, c.channel, Null) : b \in gone}
    BY <1>2, <1>3
  <2>. QED
    BY <2>4, <2>5 DEF gone, Deletion
<1>. QED
  BY <1>5, <1>6 DEF DiffOrderBooks, DiffIs

\* What of the order o is taken at t, in place of the snapshot.
DiffAt(taken, events, live, o, f) ==
    LET was == EventsAt(events, f + 1, o)
        now == EventsAt(taken, f + 1, o)
    IN  /\ \A e \in now : \/ e \in was /\ \A r \in Part(live, o) : StateOf(r) # StateOf(e)
                          \/ StateOf(e) = Absent /\ was = {}
        /\ now = {} => /\ was = {} => Part(live, o) = {}
                       /\ \A a \in was : \E r \in Part(live, o) : StateOf(r) = StateOf(a)

LEMMA DeletionIs ==
    ASSUME NEW r, NEW c, NEW f
    PROVE  LET e == Deletion(r, c, f)
           IN  /\ e.ts = f + 1 /\ e.stamp = f + 1 /\ e.local = Null
               /\ e.id = r.id /\ e.no = Null
               /\ e.channel = c.channel /\ StateOf(e) = Absent
BY DEF Deletion, Event, StateOf, Absent

LEMMA DiffTaken ==
    ASSUME NEW now \in 0..MaxTime, NEW f \in 0..now, NEW g \in 0..now, NEW chans, NEW events,
           NEW rep, ChannelsSound(chans, now), StreamSound(events, chans, f, now, rep),
           NEW c, Piece(chans, c, f, g), SnapshotOf(events, c, f) # {},
           NEW live, \A r \in live : r.id \in Orders
    PROVE  LET evs == WithDiff(events, live, c, f)
               taken == TakenOf(evs, c, f, g)
           IN  /\ Takes(evs, events, c, f, g)
               /\ \A t \in (f + 2)..g : \A o : EventsAt(taken, t, o) = EventsAt(events, t, o)
               /\ \A o : DiffAt(taken, events, live, o, f)
<1> DEFINE snapshot == SnapshotOf(events, c, f)
           diff == DiffOrderBooks(OpenEvents(live), snapshot)
           evs == WithDiff(events, live, c, f)
           taken == TakenOf(evs, c, f, g)
           missing == {r \in live : \A a \in snapshot : a.id # r.id}
           changed == {a \in snapshot : \A r \in live : r.id = a.id => StateOf(r) # StateOf(a)}
<1>1. f \in Nat /\ g \in Nat /\ f < g
  <2>1. now \in Nat
    BY TableAssumption
  <2>. QED
    BY <2>1 DEF Piece
<1>2. \A e \in events : e.ts \in Nat /\ f < e.ts
  BY DEF StreamSound
<1>3. \A e \in events : e.ts <= g => e.channel = c.channel
  <2>1. TakenOf(events, c, f, g) = {e \in events : e.ts <= g}
    BY PlainTaken
  <2>. QED
    BY <2>1 DEF TakenOf
<1>4. snapshot = {e \in events : e.ts = f + 1}
  <2>1. \A e \in events : e.ts = f + 1 => e.ts <= g
    BY <1>1
  <2>. QED
    BY <1>3, <2>1 DEF SnapshotOf
<1>5. diff = changed \union {Deletion(r, c, f) : r \in missing}
  BY <1>1, Diff DEF DiffIs
<1>6. c \in chans /\ c.channel \in 1..MaxChannels
  BY DEF ChannelsSound, Piece
<1>7. \A e \in diff : /\ e.ts = f + 1 /\ e.channel = c.channel
                      /\ e \in changed \/ \E r \in missing : e = Deletion(r, c, f)
  <2>1. \A e \in changed : e.ts = f + 1 /\ e.channel = c.channel
    BY DEF SnapshotOf
  <2>. QED
    BY <1>5, <2>1, DeletionIs
<1>8. evs = (events \ snapshot) \union diff
  BY DEF WithDiff
<1>9. f + 1 \in (f + 1)..g
  BY <1>1
<1> HIDE DEF diff, evs, snapshot
<1>10. \A e : e \in taken <=> (e \in events /\ e.ts <= g /\ e.ts # f + 1) \/ e \in diff
  <2>1. \A e \in events : e.ts \in (f + 1)..g <=> e.ts <= g
    BY <1>1, <1>2
  <2>. QED
    BY <1>3, <1>4, <1>7, <1>8, <1>9, <2>1 DEF TakenOf
<1>11. evs \ taken = Later(events, g)
  <2>1. \A e \in events : (~(e.ts <= g) <=> g < e.ts) /\ (g < e.ts => e.ts # f + 1)
    BY <1>1, <1>2
  <2>2. \A e \in events : e.ts # f + 1 => e \in evs
    BY <1>4, <1>8
  <2>3. \A e \in evs : e \in diff \/ (e \in events /\ e.ts # f + 1)
    BY <1>4, <1>8
  <2>4. \A e \in diff : e.ts = f + 1 /\ ~(g < e.ts)
    BY <1>1, <1>7
  <2> HIDE DEF taken
  <2>. QED
    BY <1>10, <2>1, <2>2, <2>3, <2>4 DEF Later
<1> HIDE DEF taken
<1>12. \A e \in changed : e \in events /\ e.ts = f + 1
  BY <1>4
<1>13. \A e \in diff : EventSound(e, f, g)
  <2>1. ASSUME NEW e \in changed PROVE EventSound(e, f, g)
    <3>1. e \in events /\ e.ts = f + 1 /\ f < f + 1 /\ f + 1 <= g
      BY <1>1, <1>12
    <3>. QED
      BY <3>1 DEF StreamSound, EventSound
  <2>2. ASSUME NEW r \in missing PROVE EventSound(Deletion(r, c, f), f, g)
    <3>1. f + 1 \in Nat /\ f < f + 1 /\ f + 1 <= f + 1 /\ f + 1 <= g /\ f + 1 \in Int
      BY <1>1
    <3>2. Null \in LocalTimes
      BY LoadingAssumption DEF LocalTimes, Null
    <3>3. r.id \in Orders
      OBVIOUS
    <3>4. Absent \in States
      BY DEF States
    <3>5. PICK e : e = Deletion(r, c, f)
      OBVIOUS
    <3>6. e.ts = f + 1 /\ e.stamp = f + 1 /\ e.id = r.id /\ e.no = Null /\ e.local = Null
          /\ e.channel = c.channel /\ StateOf(e) = Absent
      BY <3>5, DeletionIs
    <3>7. EventSound(e, f, g)
      BY <1>6, <3>1, <3>2, <3>3, <3>4, <3>6 DEF EventSound
    <3>. QED
      BY <3>5, <3>7
  <2>. QED
    BY <1>7, <2>1, <2>2
<1>14. TakenSound(taken, f, g)
  <2>1. \A e \in taken : EventSound(e, f, g)
    <3>1. \A e \in events : e.ts <= g => EventSound(e, f, g)
      BY DEF StreamSound, EventSound
    <3>. QED
      BY <1>10, <1>13, <3>1
  <2>2. \A e, x \in events : e.ts = x.ts /\ e.id = x.id /\ e.local = x.local => e = x
    BY DEF StreamSound
  <2>3. ASSUME NEW e \in diff, NEW x \in diff, e.id = x.id, e.local = x.local PROVE e = x
    <3>1. CASE e \in changed /\ x \in changed
      BY <1>12, <2>2, <2>3, <3>1
    <3>2. ASSUME NEW r \in missing, e = Deletion(r, c, f) PROVE e = x
      <4>1. e.id = r.id
        BY <3>2, DeletionIs
      <4>2. x \notin changed
        BY <2>3, <4>1
      <4>3. PICK y \in missing : x = Deletion(y, c, f)
        BY <1>7, <4>2
      <4>4. x.id = y.id
        BY <4>3, DeletionIs
      <4>5. y.id = r.id
        BY <2>3, <4>1, <4>4
      <4>. QED
        BY <3>2, <4>3, <4>5 DEF Deletion
    <3>3. ASSUME NEW r \in missing, x = Deletion(r, c, f) PROVE e = x
      <4>1. x.id = r.id
        BY <3>3, DeletionIs
      <4>2. e \notin changed
        BY <2>3, <4>1
      <4>3. PICK y \in missing : e = Deletion(y, c, f)
        BY <1>7, <4>2
      <4>4. e.id = y.id
        BY <4>3, DeletionIs
      <4>5. y.id = r.id
        BY <2>3, <4>1, <4>4
      <4>. QED
        BY <3>3, <4>3, <4>5 DEF Deletion
    <3>. QED
      BY <1>7, <3>1, <3>2, <3>3
  <2>4. \A e \in diff : e.ts = f + 1
    BY <1>7
  <2>5. ASSUME NEW e \in taken, NEW x \in taken, e.ts = x.ts, e.id = x.id, e.local = x.local
        PROVE  e = x
    <3>1. CASE e \in diff
      BY <1>10, <2>3, <2>4, <2>5, <3>1
    <3>2. CASE e \notin diff
      BY <1>10, <2>2, <2>4, <2>5, <3>2
    <3>. QED
      BY <3>1, <3>2
  <2>. QED
    BY <2>1, <2>5 DEF TakenSound
<1>15. ASSUME NEW t \in (f + 2)..g, NEW o
       PROVE  EventsAt(taken, t, o) = EventsAt(events, t, o)
  <2>1. t # f + 1 /\ t <= g
    BY <1>1
  <2>. QED
    BY <1>7, <1>10, <2>1 DEF EventsAt
<1>16. ASSUME NEW o PROVE DiffAt(taken, events, live, o, f)
  <2>1. \A e : e \in EventsAt(taken, f + 1, o) <=> e \in diff /\ e.id = o
    BY <1>7, <1>10 DEF EventsAt
  <2>2. \A e : e \in EventsAt(events, f + 1, o) <=> e \in snapshot /\ e.id = o
    BY <1>4 DEF EventsAt
  <2>3. ASSUME NEW e \in EventsAt(taken, f + 1, o)
        PROVE  \/ e \in EventsAt(events, f + 1, o) /\ \A r \in Part(live, o) : StateOf(r) # StateOf(e)
               \/ StateOf(e) = Absent /\ EventsAt(events, f + 1, o) = {}
    <3>1. CASE e \in changed
      BY <2>1, <2>2, <3>1 DEF Part
    <3>2. ASSUME NEW r \in missing, e = Deletion(r, c, f)
          PROVE  StateOf(e) = Absent /\ EventsAt(events, f + 1, o) = {}
      <4>1. e.id = r.id /\ StateOf(e) = Absent
        BY <3>2, DeletionIs
      <4>. QED
        BY <2>1, <2>2, <4>1
    <3>. QED
      BY <1>7, <2>1, <3>1, <3>2
  <2>4. ASSUME EventsAt(taken, f + 1, o) = {}
        PROVE  /\ EventsAt(events, f + 1, o) = {} => Part(live, o) = {}
               /\ \A a \in EventsAt(events, f + 1, o) : \E r \in Part(live, o) : StateOf(r) = StateOf(a)
    <3>1. ASSUME EventsAt(events, f + 1, o) = {}, NEW r \in Part(live, o) PROVE FALSE
      <4>1. r \in missing
        BY <2>2, <3>1 DEF Part
      <4>2. Deletion(r, c, f) \in diff
        BY <1>5, <4>1 DEF diff
      <4>3. Deletion(r, c, f).id = r.id /\ r.id = o
        BY DeletionIs DEF Part
      <4>. QED
        BY <2>1, <2>4, <4>2, <4>3
    <3>2. ASSUME NEW a \in EventsAt(events, f + 1, o)
          PROVE  \E r \in Part(live, o) : StateOf(r) = StateOf(a)
      <4>1. a \in snapshot /\ a.id = o /\ a \notin diff
        BY <2>1, <2>2, <2>4
      <4>2. a \notin changed
        BY <1>5, <4>1
      <4>. QED
        BY <4>1, <4>2 DEF Part
    <3>. QED
      BY <3>1, <3>2
  <2>. QED
    BY <2>3, <2>4 DEF DiffAt
<1>. QED
  BY <1>11, <1>14, <1>15, <1>16 DEF taken, evs, Takes

-----------------------------------------------------------------------------
(***************************************************************************)
(* The events taken follow the book: s is the state of an order from f on. *)
(***************************************************************************)
StepFollows(taken, o, t, s) ==
    LET now == EventsAt(taken, t, o)
    IN  /\ now = {} => s[t] = s[t - 1]
        /\ \A e \in now : (\A x \in now : x.local <= e.local) => StateOf(e) = s[t]
OrderFollows(taken, o, f, g, s) == \A t \in (f + 1)..g : StepFollows(taken, o, t, s)
BookFrom(s, rep, o, f, g, base) == s[f] = base /\ \A t \in (f + 1)..g : s[t] = rep[t][o]

\* Where no channel starts.
LEMMA ContinuesFollows ==
    ASSUME NEW now \in 0..MaxTime, NEW f \in 0..now, NEW g \in 0..now, NEW chans, NEW events,
           NEW rep, ChannelsSound(chans, now), StreamSound(events, chans, f, now, rep),
           NEW c, Piece(chans, c, f, g), NEW o \in Orders, NEW s, NEW base,
           BookFrom(s, rep, o, f, g, base),
           NEW t \in (f + 1)..g, ~(t = f + 1 /\ c.start = t),
           t = f + 1 => base = BookOf(rep, f)[o],
           NEW taken, EventsAt(taken, t, o) = EventsAt(events, t, o)
    PROVE  StepFollows(taken, o, t, s)
<1>1. f \in Nat /\ g \in Nat /\ t \in Nat /\ t <= g
  <2>1. now \in Nat
    BY TableAssumption
  <2>. QED
    BY <2>1
<1>2. ~StartsAt(chans, t)
  BY InPiece
<1>3. Continues(events, rep, t, o)
  <2>1. t \in (f + 1)..now
    BY TableAssumption
  <2>. QED
    BY <1>2, <2>1 DEF StreamSound
<1>4. s[t] = rep[t][o] /\ s[t - 1] = BookOf(rep, t - 1)[o]
  <2>1. CASE t = f + 1
    <3>1. t - 1 = f
      BY <1>1, <2>1
    <3>. QED
      BY <2>1, <3>1 DEF BookFrom
  <2>2. CASE t # f + 1
    <3>1. t - 1 \in (f + 1)..g /\ t - 1 # 0
      BY <1>1, <2>2
    <3>. QED
      BY <3>1 DEF BookFrom, BookOf
  <2>. QED
    BY <2>1, <2>2
<1>. QED
  BY <1>3, <1>4 DEF Continues, StepFollows

\* A channel goes on.
LEMMA PlainFollows ==
    ASSUME NEW now \in 0..MaxTime, NEW f \in 0..now, NEW g \in 0..now, NEW chans, NEW events,
           NEW rep, ChannelsSound(chans, now), StreamSound(events, chans, f, now, rep),
           NEW c, Piece(chans, c, f, g), NEW o \in Orders, NEW s, c.start # f + 1,
           BookFrom(s, rep, o, f, g, BookOf(rep, f)[o])
    PROVE  OrderFollows(TakenOf(events, c, f, g), o, f, g, s)
<1> DEFINE taken == TakenOf(events, c, f, g)
<1>1. taken = {e \in events : e.ts <= g}
  BY PlainTaken
<1>2. ASSUME NEW t \in (f + 1)..g PROVE EventsAt(taken, t, o) = EventsAt(events, t, o)
  <2>1. t <= g
    OBVIOUS
  <2>. QED
    BY <1>1, <2>1 DEF EventsAt
<1> HIDE DEF taken
<1>3. \A t \in (f + 1)..g : StepFollows(taken, o, t, s)
  BY <1>2, ContinuesFollows
<1>. QED
  BY <1>3 DEF OrderFollows, taken

\* A channel starts an era: only its snapshot says what the book is.
LEMMA NewFollows ==
    ASSUME NEW now \in 0..MaxTime, NEW f \in 0..now, NEW g \in 0..now, NEW chans, NEW events,
           NEW rep, ChannelsSound(chans, now), StreamSound(events, chans, f, now, rep),
           NEW c, Piece(chans, c, f, g), NEW o \in Orders, NEW s, c.start = f + 1,
           BookFrom(s, rep, o, f, g, Absent)
    PROVE  OrderFollows(TakenOf(events, c, f, g), o, f, g, s)
<1> DEFINE taken == TakenOf(events, c, f, g)
<1>1. taken = {e \in events : e.ts <= g}
  BY PlainTaken
<1>2. ASSUME NEW t \in (f + 1)..g PROVE EventsAt(taken, t, o) = EventsAt(events, t, o)
  <2>1. t <= g
    OBVIOUS
  <2>. QED
    BY <1>1, <2>1 DEF EventsAt
<1> HIDE DEF taken
<1>3. ASSUME NEW t \in (f + 1)..g, t # f + 1 PROVE StepFollows(taken, o, t, s)
  BY <1>2, <1>3, ContinuesFollows
<1>4. ASSUME f + 1 \in (f + 1)..g PROVE StepFollows(taken, o, f + 1, s)
  <2>1. StartsAt(chans, f + 1)
    BY DEF StartsAt, Piece
  <2>2. f + 1 \in (f + 1)..now /\ (f + 1) - 1 = f
    BY <1>4, TableAssumption
  <2>3. ShowsAll(events, rep, f + 1, o)
    BY <2>1, <2>2 DEF StreamSound
  <2>4. s[f + 1] = rep[f + 1][o] /\ s[f] = Absent
    BY <1>4 DEF BookFrom
  <2>5. EventsAt(taken, f + 1, o) = EventsAt(events, f + 1, o)
    BY <1>2, <1>4
  <2>. QED
    BY <2>2, <2>3, <2>4, <2>5 DEF ShowsAll, StepFollows
<1>5. \A t \in (f + 1)..g : StepFollows(taken, o, t, s)
  BY <1>3, <1>4
<1>. QED
  BY <1>5 DEF OrderFollows, taken

\* A channel goes on an era: its snapshot shows how the open orders changed.
LEMMA DiffFollows ==
    ASSUME NEW now \in 0..MaxTime, NEW f \in 0..now, NEW g \in 0..now, NEW chans, NEW events,
           NEW rep, ChannelsSound(chans, now), StreamSound(events, chans, f, now, rep),
           NEW c, Piece(chans, c, f, g), NEW o \in Orders, NEW s, c.start = f + 1,
           SnapshotOf(events, c, f) # {},
           NEW live, \A r \in live : r.id \in Orders /\ StateOf(r) = BookOf(rep, f)[r.id],
           BookOf(rep, f)[o] # Absent => Part(live, o) # {},
           BookFrom(s, rep, o, f, g, BookOf(rep, f)[o])
    PROVE  OrderFollows(TakenOf(WithDiff(events, live, c, f), c, f, g), o, f, g, s)
<1> DEFINE taken == TakenOf(WithDiff(events, live, c, f), c, f, g)
<1>1. /\ \A t \in (f + 2)..g : EventsAt(taken, t, o) = EventsAt(events, t, o)
      /\ DiffAt(taken, events, live, o, f)
  BY DiffTaken
<1> HIDE DEF taken
<1>0. f \in Nat /\ g \in Nat
  <2>1. now \in Nat
    BY TableAssumption
  <2>. QED
    BY <2>1
<1>3. ASSUME NEW t \in (f + 1)..g, t # f + 1 PROVE StepFollows(taken, o, t, s)
  <2>1. t \in (f + 2)..g
    BY <1>0, <1>3
  <2>. QED
    BY <1>1, <1>3, <2>1, ContinuesFollows
<1>4. ASSUME f + 1 \in (f + 1)..g PROVE StepFollows(taken, o, f + 1, s)
  <2>1. StartsAt(chans, f + 1)
    BY DEF StartsAt, Piece
  <2>2. f + 1 \in (f + 1)..now /\ (f + 1) - 1 = f
    BY <1>4, TableAssumption
  <2>3. ShowsAll(events, rep, f + 1, o)
    BY <2>1, <2>2 DEF StreamSound
  <2>4. s[f + 1] = rep[f + 1][o] /\ s[f] = BookOf(rep, f)[o]
    BY <1>4 DEF BookFrom
  <2>5. ASSUME NEW e \in EventsAt(taken, f + 1, o) PROVE StateOf(e) = s[f + 1]
    BY <1>1, <2>3, <2>4 DEF DiffAt, ShowsAll
  <2>6. ASSUME EventsAt(taken, f + 1, o) = {} PROVE s[f + 1] = s[f]
    <3>1. CASE EventsAt(events, f + 1, o) = {}
      BY <1>1, <2>3, <2>4, <2>6, <3>1 DEF DiffAt, ShowsAll
    <3>2. CASE EventsAt(events, f + 1, o) # {}
      <4>1. PICK a \in EventsAt(events, f + 1, o) : TRUE
        BY <3>2
      <4>2. PICK r \in Part(live, o) : StateOf(r) = StateOf(a)
        BY <1>1, <2>6 DEF DiffAt
      <4>3. StateOf(r) = BookOf(rep, f)[o]
        BY DEF Part
      <4>. QED
        BY <2>3, <2>4, <4>2, <4>3 DEF ShowsAll
    <3>. QED
      BY <3>1, <3>2
  <2>. QED
    BY <2>2, <2>5, <2>6 DEF StepFollows
<1>5. \A t \in (f + 1)..g : StepFollows(taken, o, t, s)
  BY <1>3, <1>4
<1>. QED
  BY <1>5 DEF OrderFollows, taken

-----------------------------------------------------------------------------
(***************************************************************************)
(* The events of an order a piece contributes: the latest of what it takes *)
(* at every instant, and the open row.                                     *)
(***************************************************************************)
LatestSound(taken) ==
    /\ LatestOnly(taken) \subseteq taken
    /\ \A e, x \in LatestOnly(taken) : e.id = x.id /\ e.ts = x.ts => e = x
    /\ \A e \in LatestOnly(taken) : \A x \in EventsAt(taken, e.ts, e.id) : x.local <= e.local
    /\ \A e \in taken : \E x \in LatestOnly(taken) : x.id = e.id /\ x.ts = e.ts

\* The events of an order that is in step follow each other as they arrived.
LEMMA KeptOrder ==
    ASSUME NEW f, NEW g, NEW taken, TakenSound(taken, f, g), NEW table, OrderKept(table, taken),
           NEW e \in taken, NEW x \in taken, e.id = x.id
    PROVE  Precedes(e, x) <=> e.ts < x.ts \/ (e.ts = x.ts /\ e.local < x.local)
<1>1. MaxChanges \in Nat /\ Null \in Nat
  BY LoadingAssumption DEF Null
<1>2. \A k \in {e, x} : /\ k.ts \in Nat /\ k.stamp \in Int /\ k.stamp <= k.ts
                        /\ k.local \in Nat
  BY <1>1 DEF TakenSound, EventSound, LocalTimes
<1>3. e.ts = x.ts /\ e.local = x.local => e = x
  BY DEF TakenSound
<1>4. /\ e.ts < x.ts => e.ts < x.stamp
      /\ x.ts < e.ts => x.ts < e.stamp
      /\ x.ts = e.ts /\ e.local < x.local => e.local # Null /\ e.stamp <= x.stamp
      /\ x.ts = e.ts /\ x.local < e.local => x.local # Null /\ x.stamp <= e.stamp
  BY DEF OrderKept
<1>5. CASE e.ts < x.ts
  BY <1>2, <1>4, <1>5 DEF Precedes
<1>6. CASE x.ts < e.ts
  BY <1>2, <1>4, <1>6 DEF Precedes
<1>7. CASE e.ts = x.ts /\ e.local < x.local
  BY <1>2, <1>4, <1>7 DEF Precedes, ArrivedBefore
<1>8. CASE e.ts = x.ts /\ x.local < e.local
  BY <1>1, <1>2, <1>4, <1>8 DEF Precedes, ArrivedBefore
<1>9. CASE e.ts = x.ts /\ e.local = x.local
  BY <1>2, <1>3, <1>9 DEF Precedes, ArrivedBefore
<1>. QED
  BY <1>2, <1>5, <1>6, <1>7, <1>8, <1>9

LEMMA Latest ==
    ASSUME NEW f, NEW g, NEW taken, TakenSound(taken, f, g), NEW table, OrderKept(table, taken)
    PROVE  LatestSound(taken)
<1>1. /\ \A e \in taken : e.ts \in Nat /\ e.local \in LocalTimes
      /\ \A e, x \in taken : e.ts = x.ts /\ e.id = x.id /\ e.local = x.local => e = x
  BY DEF TakenSound, EventSound
<1>2. PICK n \in Nat : n = MaxChanges + 1
  BY LoadingAssumption
<1>3. \A e \in taken : e.local \in 0..n /\ e.local \in Nat
  BY <1>1, <1>2 DEF LocalTimes
<1>7. ASSUME NEW e \in taken, NEW x \in taken, e.id = x.id, e.ts = x.ts
      PROVE  Precedes(e, x) <=> e.local < x.local
  BY <1>1, <1>7, KeptOrder
<1>4. \A e \in LatestOnly(taken) :
        e \in taken /\ \A x \in taken : x.id = e.id /\ x.ts = e.ts => x.local <= e.local
  BY <1>3, <1>7 DEF LatestOnly
<1>5. ASSUME NEW e \in LatestOnly(taken), NEW x \in LatestOnly(taken), e.id = x.id, e.ts = x.ts
      PROVE  e = x
  <2>1. e.local = x.local
    BY <1>3, <1>4, <1>5
  <2>. QED
    BY <1>1, <1>4, <1>5, <2>1
<1>6. ASSUME NEW e \in taken PROVE \E x \in LatestOnly(taken) : x.id = e.id /\ x.ts = e.ts
  <2> DEFINE now == {x \in taken : x.id = e.id /\ x.ts = e.ts}
             S == {x.local : x \in now}
  <2>1. S \subseteq 0..n /\ S # {}
    BY <1>3
  <2>2. PICK m \in S : \A y \in S : y <= m
    BY <2>1, Greatest
  <2>3. PICK x \in now : x.local = m
    BY <2>2
  <2>4. \A y \in taken : y.id = x.id /\ y.ts = x.ts => y.local <= x.local
    <3>1. \A y \in taken : y.id = x.id /\ y.ts = x.ts => y.local \in S
      OBVIOUS
    <3>. QED
      BY <2>2, <2>3, <3>1
  <2>5. x \in LatestOnly(taken)
    BY <1>3, <1>7, <2>4 DEF LatestOnly
  <2>. QED
    BY <2>5
<1>. QED
  BY <1>4, <1>5, <1>6 DEF LatestSound, EventsAt

LiveSound(table, live) ==
    /\ live \subseteq table
    /\ \A r \in live : r.next = Infinity
    /\ \A r, x \in live : r.id = x.id => r = x
AllEvents(taken, live) == LatestOnly(taken) \union OpenEvents(live)

\* Of an order, and what it contributes.
Contributes(table, taken, live, o, f, g) ==
    LET es == Part(AllEvents(taken, live), o)
    IN  /\ Stream(es, o, f)
        /\ OpenRows(table, es, o, Part(live, o))
        /\ \A e \in es : e.ts <= g
        /\ \A e \in es : ~IsOpen(e) => e \in LatestOnly(taken)

LEMMA OrderContributes ==
    ASSUME NEW f \in 0..MaxTime, NEW g \in 0..MaxTime, f <= g, NEW table, RowsSound(table, f),
           NEW live, LiveSound(table, live), NEW taken, TakenSound(taken, f, g),
           OrderKept(table, taken), NEW o
    PROVE  Contributes(table, taken, live, o, f, g)
<1> DEFINE es == Part(AllEvents(taken, live), o)
<1>0. f \in Nat /\ g \in Nat /\ MaxTime \in Nat
  BY TableAssumption
<1>1. LatestSound(taken)
  BY Latest
<1>2. ASSUME NEW e \in es, e \in LatestOnly(taken)
      PROVE  /\ e.ts \in Nat /\ f < e.ts /\ e.ts <= g /\ e.id = o /\ e.no = Null /\ e.no \in Nat
             /\ StateOf(e) \in States /\ ~IsOpen(e) /\ e.ts \in Times
  <2>1. EventSound(e, f, g)
    BY <1>1, <1>2 DEF LatestSound, TakenSound
  <2>2. e.ts \in Nat /\ f < e.ts /\ e.ts <= g /\ e.no = Null /\ StateOf(e) \in States
    BY <2>1 DEF EventSound
  <2>3. e.channel # 0
    BY <2>1 DEF EventSound
  <2>4. e.ts \in Times
    BY <1>0, <2>2 DEF Times
  <2>5. e.id = o
    BY DEF Part
  <2>. QED
    BY <2>2, <2>3, <2>4, <2>5 DEF IsOpen, OpenOrder, Null
<1>3. ASSUME NEW r \in live, r.id = o
      PROVE  LET e == OpenEvent(r)
             IN  /\ e \in es /\ e.ts \in Nat /\ e.ts <= f /\ e.id = o /\ e.no # Null /\ e.no \in Nat
                 /\ StateOf(e) \in States /\ IsOpen(e) /\ e.ts \in Times /\ e.price # 0
  <2>1. r \in Rows /\ r.mts <= f /\ r.no >= 1
    BY DEF LiveSound, RowsSound
  <2>2. r.mts \in Times /\ r.mts \in Nat /\ r.no \in Nat /\ StateOf(r) \in States /\ r.price # 0
    BY <2>1, RowFields
  <2>3. r.no # Null
    BY <2>1, <2>2 DEF Null
  <2> DEFINE e == OpenEvent(r)
  <2>4. /\ e.ts = r.mts /\ e.id = r.id /\ e.no = r.no /\ StateOf(e) = StateOf(r)
        /\ e.price = r.price /\ IsOpen(e)
    BY OpenEventIs
  <2>5. e \in es
    BY <1>3, <2>4 DEF Part, AllEvents, OpenEvents
  <2> HIDE DEF e
  <2>6. /\ e.ts \in Nat /\ e.ts <= f /\ e.id = o /\ e.no # Null /\ e.no \in Nat
        /\ StateOf(e) \in States /\ IsOpen(e) /\ e.ts \in Times /\ e.price # 0
    BY <1>3, <2>1, <2>2, <2>3, <2>4
  <2>. QED
    BY <2>5, <2>6 DEF e
<1>4. ASSUME NEW e \in es
      PROVE  e \in LatestOnly(taken) \/ \E r \in Part(live, o) : e = OpenEvent(r)
  <2>1. ASSUME NEW r \in live, e = OpenEvent(r) PROVE r \in Part(live, o)
    <3>1. e.id = r.id /\ e.id = o
      BY <2>1, OpenEventIs DEF Part
    <3>. QED
      BY <3>1 DEF Part
  <2>. QED
    BY <2>1 DEF Part, AllEvents, OpenEvents
<1>5. \A r \in Part(live, o) : r \in live /\ r.id = o
  BY DEF Part
<1> HIDE DEF es
<1>6. \A e \in es : IsOpen(e) => \E r \in Part(live, o) : e = OpenEvent(r)
  BY <1>2, <1>4
<1>7. ASSUME NEW e \in es, IsOpen(e)
      PROVE  /\ e.ts \in Nat /\ e.ts <= f /\ e.id = o /\ e.no # Null /\ e.no \in Nat
             /\ StateOf(e) \in States /\ e.ts \in Times /\ e.price # 0
  BY <1>3, <1>5, <1>6, <1>7
<1>8. \A e \in es : ~IsOpen(e) => e \in LatestOnly(taken)
  <2>1. ASSUME NEW e \in es, NEW r \in Part(live, o), e = OpenEvent(r) PROVE IsOpen(e)
    BY <2>1, OpenEventIs
  <2>. QED
    BY <1>4, <2>1
<1>9. \A r, x \in Part(live, o) : r = x
  BY <1>5 DEF LiveSound
<1>10. \A e, x \in es : IsOpen(e) /\ IsOpen(x) => e = x
  BY <1>6, <1>9
<1>11. ASSUME NEW e \in es, NEW x \in es, e.ts = x.ts PROVE e = x
  <2>1. CASE IsOpen(e) /\ IsOpen(x)
    BY <1>10, <2>1
  <2>2. CASE IsOpen(e) /\ ~IsOpen(x)
    <3>1. e.ts \in Nat /\ e.ts <= f /\ x.ts \in Nat /\ f < x.ts
      BY <1>2, <1>7, <1>8, <2>2
    <3>. QED
      BY <1>0, <1>11, <3>1
  <2>3. CASE ~IsOpen(e) /\ IsOpen(x)
    <3>1. x.ts \in Nat /\ x.ts <= f /\ e.ts \in Nat /\ f < e.ts
      BY <1>2, <1>7, <1>8, <2>3
    <3>. QED
      BY <1>0, <1>11, <3>1
  <2>4. CASE ~IsOpen(e) /\ ~IsOpen(x)
    <3>1. e \in LatestOnly(taken) /\ x \in LatestOnly(taken)
      BY <1>8, <2>4
    <3>2. e.id = x.id
      BY <1>2, <3>1
    <3>. QED
      BY <1>1, <1>11, <3>1, <3>2 DEF LatestSound
  <2>. QED
    BY <2>1, <2>2, <2>3, <2>4
<1>12. \A e \in es : /\ e.ts \in Nat /\ e.id = o /\ e.no \in Nat /\ StateOf(e) \in States
                     /\ e.ts \in Times
  BY <1>2, <1>7, <1>8
<1>13. IsFiniteSet(es)
  <2> DEFINE h == [e \in es |-> e.ts]
  <2>1. h \in [es -> Times]
    BY <1>12
  <2>2. \A e, x \in es : h[e] = h[x] => e = x
    BY <1>11
  <2>3. h \in Injection(es, Times)
    BY <2>1, <2>2 DEF Injection, IsInjective
  <2>4. IsFiniteSet(Times)
    BY <1>0, FS_Interval DEF Times
  <2>. QED
    BY <2>3, <2>4, FS_Injection
<1>17. ASSUME NEW e \in es, NEW x \in es PROVE Precedes(e, x) <=> e.ts < x.ts
  <2>1. ASSUME NEW y \in es, ~IsOpen(y)
        PROVE  /\ y \in taken /\ y.ts \in Nat /\ f < y.ts /\ y.stamp \in Int
               /\ y.stamp <= y.ts
    <3>1. y \in taken /\ y.ts \in Nat /\ f < y.ts
      BY <1>1, <1>2, <1>8, <2>1 DEF LatestSound
    <3>. QED
      BY <3>1 DEF TakenSound, EventSound
  <2>2. ASSUME NEW y \in es, IsOpen(y)
        PROVE  /\ y.ts \in Nat /\ y.ts <= f /\ y.stamp = y.ts /\ y.local = Null
               /\ \E r \in table : r.id = o /\ r.mts = y.ts
    <3>1. PICK r \in Part(live, o) : y = OpenEvent(r)
      BY <1>6, <2>2
    <3>2. y.ts = r.mts /\ y.stamp = r.mts /\ y.local = Null
      BY <3>1 DEF OpenEvent, Event
    <3>. QED
      BY <1>5, <1>7, <2>2, <3>2 DEF LiveSound
  <2>3. ASSUME NEW y \in es, NEW z \in es, IsOpen(y), ~IsOpen(z)
        PROVE  y.ts < z.ts /\ Precedes(y, z) /\ ~Precedes(z, y)
    <3>1. z.id = o
      BY <1>12
    <3>2. y.ts < z.stamp
      BY <2>1, <2>2, <2>3, <3>1 DEF OrderKept
    <3>. QED
      BY <1>0, <2>1, <2>2, <2>3, <3>2 DEF Precedes
  <2>4. CASE IsOpen(e) /\ IsOpen(x)
    BY <1>10, <2>2, <2>4 DEF Precedes, ArrivedBefore
  <2>5. CASE IsOpen(e) /\ ~IsOpen(x)
    BY <2>3, <2>5
  <2>6. CASE ~IsOpen(e) /\ IsOpen(x)
    BY <2>1, <2>2, <2>3, <2>6
  <2>7. CASE ~IsOpen(e) /\ ~IsOpen(x)
    <3>1. Precedes(e, x) <=> e.ts < x.ts \/ (e.ts = x.ts /\ e.local < x.local)
      BY <1>12, <2>1, <2>7, KeptOrder
    <3>2. e.ts = x.ts => ~(e.local < x.local)
      <4>1. e.ts = x.ts => e = x
        BY <1>11
      <4>2. e.local \in Nat
        BY <2>1, <2>7, LoadingAssumption DEF TakenSound, EventSound, LocalTimes
      <4>. QED
        BY <4>1, <4>2
    <3>. QED
      BY <3>1, <3>2
  <2>. QED
    BY <2>4, <2>5, <2>6, <2>7
<1>14. Stream(es, o, f)
  <2>1. OneOrder(es, o)
    BY <1>11, <1>12, <1>13, <1>17 DEF OneOrder
  <2>2. \A e \in es : /\ IsOpen(e) => e.ts <= f /\ e.price # 0 /\ e.no # Null
                      /\ ~IsOpen(e) => f < e.ts /\ e.no = Null
    BY <1>2, <1>7, <1>8
  <2>. QED
    BY <1>10, <1>12, <2>1, <2>2 DEF Stream
<1>15. OpenRows(table, es, o, Part(live, o))
  <2>1. Part(live, o) \subseteq Part(table, o)
    BY DEF Part, LiveSound
  <2>2. \A r \in Part(live, o) : r.next = Infinity /\ r.nextNo # 1 /\ OpenEvent(r) \in es
    BY <1>3, <1>5 DEF LiveSound, RowsSound
  <2>. QED
    BY <1>6, <1>9, <2>1, <2>2 DEF OpenRows
<1>16. \A e \in es : e.ts <= g
  <2>1. \A e \in es : IsOpen(e) => e.ts <= g
    <3>1. \A t \in Nat : t <= f => t <= g
      BY <1>0
    <3>. QED
      BY <1>7, <3>1
  <2>. QED
    BY <1>2, <1>8, <2>1
<1>. QED
  BY <1>8, <1>14, <1>15, <1>16 DEF Contributes, es

-----------------------------------------------------------------------------
(***************************************************************************)
(* The table after a piece.                                                *)
(***************************************************************************)
LEMMA InsertsRaw ==
    ASSUME NEW table, table \subseteq RawRows, NEW ers, NEW rows, rows \subseteq RawRows
    PROVE  InsertRows(table, ers, rows) \subseteq RawRows
<1> DEFINE o == {x \in Orders : x \notin x}
<1>1. o \notin Orders
  OBVIOUS
<1>2. Part(rows, o) = {}
  <2>1. \A r \in rows : r.id \in Orders
    BY DEF RawRows
  <2> HIDE DEF o
  <2>. QED
    BY <1>1, <2>1 DEF Part
<1> HIDE DEF o
<1>. QED
  BY <1>2, NoRowsOfOrder

\* The rows of an order.
RowsAre(rows, es, o) == Part(rows, o) = {RowOf(es, e) : e \in {x \in es : IsInserted(es, x)}}

LEMMA RowsOfAll ==
    ASSUME NEW f \in Nat, NEW events, \A o \in Orders : Stream(Part(events, o), o, f)
    PROVE  /\ RowsToInsert(events) \subseteq RawRows
           /\ \A o \in Orders : RowsAre(RowsToInsert(events), Part(events, o), o)
<1> DEFINE RowsOf(o) == {RowOf(Part(events, o), e) :
                           e \in {x \in Part(events, o) : IsInserted(Part(events, o), x)}}
<1>1. RowsToInsert(events) = UNION {RowsOf(o) : o \in Orders}
  BY DEF RowsToInsert, Part
<1>2. ASSUME NEW o \in Orders, NEW x \in RowsOf(o) PROVE x \in RawRows /\ x.id = o
  <2>1. PICK e \in Part(events, o) : /\ IsInserted(Part(events, o), e)
                                     /\ x = RowOf(Part(events, o), e)
    BY <1>2
  <2>2. RowFits(Part(events, o), o, e, RowOf(Part(events, o), e))
    BY <2>1, RowOfEvent
  <2>. QED
    BY <2>1, <2>2 DEF RowFits
<1> HIDE DEF RowsOf
<1>3. RowsToInsert(events) \subseteq RawRows
  BY <1>1, <1>2
<1>4. ASSUME NEW o \in Orders PROVE Part(RowsToInsert(events), o) = RowsOf(o)
  BY <1>1, <1>2 DEF Part
<1>. QED
  BY <1>3, <1>4 DEF RowsOf, RowsAre

\* The rows that are live after f, before the piece.
LiveFrom(table, ers, live, f) == \A t \in Times : f < t => LiveAt(table, ers, t) = live
AfterPiece(table, ers, taken, live) ==
    InsertRows(table, ers, RowsToInsert(AllEvents(taken, live)))

OrderCaptured(table, after, taken, live, o, f, g) ==
    Captured(table, after, Part(AllEvents(taken, live), o), o, Part(live, o), f, g)

LEMMA PieceCaptured ==
    ASSUME NEW f \in 0..MaxTime, NEW g \in 0..MaxTime, f <= g, NEW table, RowsSound(table, f),
           NEW live, LiveSound(table, live), NEW taken, TakenSound(taken, f, g),
           OrderKept(table, taken),
           NEW ers, LiveFrom(table, ers, live, f),
           NEW after, after = AfterPiece(table, ers, taken, live)
    PROVE  /\ AllCaptured(table, after, f, g)
           /\ \A o \in Orders : OrderCaptured(table, after, taken, live, o, f, g)
<1> DEFINE all == AllEvents(taken, live)
           rows == RowsToInsert(all)
<1>0. f \in Nat /\ g \in Nat
  BY TableAssumption
<1>1. \A o \in Orders : Contributes(table, taken, live, o, f, g)
  BY OrderContributes
<1> HIDE DEF all
<1>2. \A o \in Orders : /\ Stream(Part(all, o), o, f)
                        /\ OpenRows(table, Part(all, o), o, Part(live, o))
                        /\ \A e \in Part(all, o) : e.ts <= g
  BY <1>1 DEF Contributes, all
<1>3. rows \subseteq RawRows /\ \A o \in Orders : RowsAre(rows, Part(all, o), o)
  BY <1>0, <1>2, RowsOfAll
<1> HIDE DEF rows
<1>4. table \subseteq Rows /\ table \subseteq RawRows
  BY RowsAreRaw DEF RowsSound
<1>5. after = InsertRows(table, ers, rows)
  BY DEF AfterPiece, all, rows
<1>6. after \subseteq RawRows
  BY <1>3, <1>4, <1>5, InsertsRaw
<1>7. ASSUME NEW o \in Orders PROVE Grown(table, after, Part(all, o), o, Part(live, o))
  <2> DEFINE es == Part(all, o)
  <2>1. Stream(es, o, f) /\ OpenRows(table, es, o, Part(live, o))
    BY <1>2
  <2>2. Part(rows, o) = {RowOf(es, e) : e \in {x \in es : IsInserted(es, x)}}
    BY <1>3 DEF RowsAre
  <2> HIDE DEF es
  <2>3. CASE Part(live, o) = {}
    <3>1. \A e \in es : ~IsOpen(e)
      BY <2>1, <2>3 DEF OpenRows
    <3>2. Grown(table, InsertRows(table, ers, rows), es, o, {})
      BY <1>0, <1>3, <1>4, <2>1, <2>2, <3>1, OrderStarts
    <3>. QED
      BY <1>5, <2>3, <3>2 DEF es
  <2>4. ASSUME NEW r \in Part(live, o)
        PROVE  Grown(table, after, Part(all, o), o, Part(live, o))
    <3>1. Part(live, o) = {r}
      BY <2>1, <2>4 DEF OpenRows
    <3>2. OpenRows(table, es, o, {r}) /\ r \in Part(table, o)
      BY <2>1, <2>4, <3>1 DEF OpenRows
    <3>3. \A t \in Times : f < t =>
            \A x \in Part(table, o) : InEraOf(ers, t, x.mts) /\ x.mts <= t /\ x.next > t <=> x = r
      <4>1. ASSUME NEW t \in Times, f < t, NEW x \in Part(table, o)
            PROVE  InEraOf(ers, t, x.mts) /\ x.mts <= t /\ x.next > t <=> x = r
        <5>1. x \in table /\ x.id = o
          BY DEF Part
        <5>2. (InEraOf(ers, t, x.mts) /\ x.mts <= t /\ x.next > t) <=> x \in LiveAt(table, ers, t)
          BY <5>1 DEF LiveAt
        <5>3. LiveAt(table, ers, t) = live
          BY <4>1 DEF LiveFrom
        <5>4. x \in live <=> x \in Part(live, o)
          BY <5>1 DEF Part
        <5>. QED
          BY <3>1, <5>2, <5>3, <5>4
      <4>. QED
        BY <4>1
    <3>4. Grown(table, InsertRows(table, ers, rows), es, o, {r})
      BY <1>0, <1>3, <1>4, <2>1, <2>2, <3>2, <3>3, OrderGoesOn
    <3>. QED
      BY <1>5, <3>1, <3>4 DEF es
  <2>. QED
    BY <2>3, <2>4
<1>8. \A o \in Orders : OrderCaptured(table, after, taken, live, o, f, g)
  BY <1>2, <1>7 DEF OrderCaptured, Captured, all
<1>9. AllCaptured(table, after, f, g)
  BY <1>6, <1>8 DEF AllCaptured, OrderCaptured
<1>. QED
  BY <1>8, <1>9

-----------------------------------------------------------------------------
(***************************************************************************)
(* The order book after a piece.                                           *)
(***************************************************************************)
BookStates(base, rep, o, f, g) == [t \in f..g |-> IF t = f THEN base[o] ELSE rep[t][o]]
Starting(live, base) ==
    \A o \in Orders : /\ \A r \in Part(live, o) : StateOf(r) = base[o]
                      /\ Part(live, o) = {} => base[o] = Absent
AllFollow(taken, base, rep, f, g) ==
    \A o \in Orders : OrderFollows(taken, o, f, g, BookStates(base, rep, o, f, g))

LEMMA LastShows ==
    ASSUME NEW f \in 0..MaxTime, NEW g \in 0..MaxTime, f <= g, NEW table, RowsSound(table, f),
           NEW live, LiveSound(table, live), NEW taken, TakenSound(taken, f, g),
           OrderKept(table, taken),
           NEW base, Starting(live, base), NEW rep, AllFollow(taken, base, rep, f, g),
           NEW o \in Orders
    PROVE  \A t \in f..g : LastIs(Part(AllEvents(taken, live), o), t,
                                  BookStates(base, rep, o, f, g)[t])
<1> DEFINE es == Part(AllEvents(taken, live), o)
           s == BookStates(base, rep, o, f, g)
<1>0. f \in Nat /\ g \in Nat
  BY TableAssumption
<1>1. /\ Stream(es, o, f) /\ OpenRows(table, es, o, Part(live, o))
      /\ \A e \in es : ~IsOpen(e) => e \in LatestOnly(taken)
  BY OrderContributes DEF Contributes
<1>2. \A e \in es : e.ts \in Nat
  BY <1>0, <1>1, StreamTimes
<1>3. LatestSound(taken)
  BY Latest
<1>4. \A e \in LatestOnly(taken) : e.id = o => e \in es
  BY DEF Part, AllEvents
<1>5. \A e \in es : e.id = o
  BY DEF Part
<1>6. \A t \in (f + 1)..g : StepFollows(taken, o, t, s)
  BY DEF AllFollow, OrderFollows
<1>7. s[f] = base[o]
  <2>1. f \in f..g
    BY <1>0
  <2>. QED
    BY <2>1 DEF BookStates
<1> HIDE DEF es, s
<1>8. \A e \in es : (IsOpen(e) => e.ts <= f) /\ (~IsOpen(e) => f < e.ts)
  BY <1>1 DEF Stream
<1>9. LastIs(es, f, s[f])
  <2>1. CASE Part(live, o) = {}
    <3>1. \A e \in es : ~IsOpen(e)
      BY <1>1, <2>1 DEF OpenRows
    <3>2. s[f] = Absent
      BY <1>7, <2>1 DEF Starting
    <3>. QED
      BY <1>8, <3>1, <3>2 DEF LastIs
  <2>2. ASSUME NEW r \in Part(live, o) PROVE LastIs(es, f, s[f])
    <3>1. PICK e \in es : e = OpenEvent(r)
      BY <1>1, <2>2 DEF OpenRows
    <3>2. IsOpen(e) /\ StateOf(e) = StateOf(r)
      BY <3>1, OpenEventIs
    <3>3. e.ts <= f /\ StateOf(e) = s[f]
      BY <1>7, <1>8, <3>2 DEF Starting
    <3>4. ASSUME NEW x \in es, x.ts <= f PROVE x.ts <= e.ts
      <4>1. IsOpen(x)
        BY <1>0, <1>2, <1>8, <3>4
      <4>2. x = e
        BY <1>1, <3>2, <4>1 DEF Stream
      <4>. QED
        BY <1>2, <4>2
    <3>. QED
      BY <3>3, <3>4 DEF LastIs
  <2>. QED
    BY <2>1, <2>2
<1>10. ASSUME NEW t \in (f + 1)..g
       PROVE  /\ (\A e \in es : e.ts # t) => s[t] = s[t - 1]
              /\ \A e \in es : e.ts = t => StateOf(e) = s[t]
  <2>1. StepFollows(taken, o, t, s) /\ t \in Nat /\ f < t
    BY <1>0, <1>6
  <2>2. ASSUME \A e \in es : e.ts # t PROVE s[t] = s[t - 1]
    <3>1. EventsAt(taken, t, o) = {}
      BY <1>3, <1>4, <2>2 DEF EventsAt, LatestSound
    <3>. QED
      BY <2>1, <3>1 DEF StepFollows
  <2>3. ASSUME NEW e \in es, e.ts = t PROVE StateOf(e) = s[t]
    <3>1. ~IsOpen(e)
      BY <1>0, <1>8, <2>1, <2>3
    <3>2. e \in LatestOnly(taken) /\ e.id = o
      BY <1>1, <1>5, <3>1
    <3>3. e \in taken /\ \A x \in EventsAt(taken, t, o) : x.local <= e.local
      BY <1>3, <2>3, <3>2 DEF LatestSound
    <3>4. e \in EventsAt(taken, t, o)
      BY <2>3, <3>2, <3>3 DEF EventsAt
    <3>. QED
      BY <2>1, <3>3, <3>4 DEF StepFollows
  <2>. QED
    BY <2>2, <2>3
<1>11. \A t \in f..g : LastIs(es, t, s[t])
  BY <1>0, <1>2, <1>9, <1>10, LastFollows
<1>. QED
  BY <1>11 DEF es, s

\* After f.
LEMMA ShownAfter ==
    ASSUME NEW f \in 0..MaxTime, NEW g \in 0..MaxTime, f <= g, NEW table, RowsSound(table, f),
           NEW live, LiveSound(table, live), NEW taken, TakenSound(taken, f, g),
           OrderKept(table, taken),
           NEW ers, LiveFrom(table, ers, live, f), DOMAIN ers # {}, DOMAIN ers \subseteq 1..(f + 1),
           NEW base, Starting(live, base), NEW rep, AllFollow(taken, base, rep, f, g),
           NEW after, after = AfterPiece(table, ers, taken, live),
           NEW o \in Orders, NEW t \in (f + 1)..g
    PROVE  ShowsOrder(after, ers, t, o, rep[t][o])
<1> DEFINE es == Part(AllEvents(taken, live), o)
<1>0. f \in Nat /\ g \in Nat /\ MaxTime \in Nat /\ t \in Nat /\ f < t /\ t <= g /\ t \in Times
  <2>1. f \in Nat /\ g \in Nat /\ MaxTime \in Nat
    BY TableAssumption
  <2>. QED
    BY <2>1 DEF Times
<1>1. LastIs(es, t, rep[t][o])
  <2>1. BookStates(base, rep, o, f, g)[t] = rep[t][o] /\ t \in f..g
    BY <1>0 DEF BookStates
  <2>. QED
    BY <2>1, LastShows
<1>2. Captured(table, after, es, o, Part(live, o), f, g)
  BY PieceCaptured DEF OrderCaptured
<1> HIDE DEF es
<1>3. LiveAt(table, ers, t) = live
  BY <1>0 DEF LiveFrom
<1>4. \A x \in Part(table, o) : x.next = Infinity /\ InEraOf(ers, t, x.mts) => x \in Part(live, o)
  <2>1. ASSUME NEW x \in Part(table, o), x.next = Infinity, InEraOf(ers, t, x.mts)
        PROVE  x \in Part(live, o)
    <3>1. x \in table /\ x.id = o
      BY DEF Part
    <3>2. x.mts <= f /\ x.mts \in Nat
      BY <3>1, RowTimes DEF RowsSound
    <3>3. x.mts <= t
      BY <1>0, <3>2
    <3>4. Infinity > t
      BY <1>0 DEF Infinity
    <3>5. x \in LiveAt(table, ers, t)
      BY <2>1, <3>1, <3>3, <3>4 DEF LiveAt
    <3>. QED
      BY <1>3, <3>1, <3>5 DEF Part
  <2>. QED
    BY <2>1
<1>5. \A x \in Part(live, o) : InEraOf(ers, t, x.mts)
  BY <1>3 DEF Part, LiveAt
<1>6. \A m \in Times : f < m => InEraOf(ers, t, m)
  <2>1. ASSUME NEW m \in Times, f < m PROVE InEraOf(ers, t, m)
    <3>1. \A e \in DOMAIN ers : e \in Nat /\ e <= f + 1
      BY <1>0
    <3>2. m \in Nat
      BY TimesAre
    <3>3. \A e \in Nat : e <= f + 1 => e <= t /\ e <= m
      BY <1>0, <2>1, <3>2
    <3>4. ErasUpTo(ers, t) = DOMAIN ers
      BY <3>1, <3>3 DEF ErasUpTo
    <3>. QED
      BY <3>1, <3>3, <3>4 DEF InEraOf
  <2>. QED
    BY <2>1
<1>. QED
  BY <1>0, <1>1, <1>2, <1>4, <1>5, <1>6, OrderShown

\* Up to f nothing changes: the open row is still live then.
LEMMA ShownBefore ==
    ASSUME NEW f \in 0..MaxTime, NEW g \in 0..MaxTime, f <= g, NEW table, RowsSound(table, f),
           NEW after, AllCaptured(table, after, f, g), NEW o \in Orders, NEW t \in 1..f,
           NEW before, NEW ers, ErasUpTo(ers, t) = ErasUpTo(before, t),
           NEW s, ShowsOrder(table, before, t, o, s)
    PROVE  ShowsOrder(after, ers, t, o, s)
<1>0. f \in Nat /\ g \in Nat /\ MaxTime \in Nat /\ t \in Nat /\ t <= f /\ Infinity > t
  <2>1. f \in Nat /\ g \in Nat /\ MaxTime \in Nat
    BY TableAssumption
  <2>. QED
    BY <2>1 DEF Infinity
<1>1. PICK es, R : Captured(table, after, es, o, R, f, g)
  BY DEF AllCaptured
<1>2. /\ Stream(es, o, f) /\ OpenRows(table, es, o, R) /\ Grown(table, after, es, o, R)
  BY <1>1 DEF Captured
<1>3. PICK row : /\ \A e \in Kept(es) : IsRow(es, e, row[e])
                 /\ Part(after, o) = (Part(table, o) \ R) \union {row[e] : e \in Kept(es)}
  BY <1>2 DEF Grown
<1>4. \A m : InEraOf(ers, t, m) <=> InEraOf(before, t, m)
  BY DEF InEraOf
<1> DEFINE was == {x \in LiveAt(table, before, t) : x.id = o}
           now == {x \in LiveAt(after, ers, t) : x.id = o}
<1>5. \A x : x \in was <=> x \in Part(table, o) /\ InEraOf(before, t, x.mts) /\ x.mts <= t /\ x.next > t
  BY DEF LiveAt, Part
<1>6. \A x : x \in now <=> x \in Part(after, o) /\ InEraOf(before, t, x.mts) /\ x.mts <= t /\ x.next > t
  BY <1>4 DEF LiveAt, Part
<1>7. /\ \A x, y \in was : x = y
      /\ \A x \in was : StateOf(x) = s
      /\ s # Absent => was # {}
  BY DEF ShowsOrder
<1> HIDE DEF was, now
\* The row of the open event.
<1>8. ASSUME NEW e \in Kept(es), row[e].mts <= t
      PROVE  \E r \in R : /\ e = OpenEvent(r) /\ row[e].mts = r.mts /\ StateOf(row[e]) = StateOf(r)
                          /\ InEraOf(before, t, row[e].mts) => r \in was
  <2>1. e \in es /\ IsRow(es, e, row[e])
    BY <1>3 DEF Kept
  <2>2. row[e].mts = e.ts /\ e.ts \in Nat
    BY <1>0, <1>2, <2>1, StreamTimes DEF IsRow
  <2>3. IsOpen(e)
    BY <1>0, <1>2, <1>8, <2>1, <2>2 DEF Stream
  <2>4. PICK r \in R : e = OpenEvent(r)
    BY <1>2, <2>1, <2>3 DEF OpenRows
  <2>5. e.ts = r.mts /\ StateOf(e) = StateOf(r)
    BY <2>4, OpenEventIs
  <2>6. e.price # 0
    BY <1>2, <2>1, <2>3 DEF Stream
  <2>7. StateOf(row[e]) = StateOf(e)
    BY <2>1, <2>6 DEF IsRow
  <2>8. r \in Part(table, o) /\ r.next = Infinity
    BY <1>2 DEF OpenRows
  <2>9. InEraOf(before, t, row[e].mts) => r \in was
    BY <1>0, <1>5, <1>8, <2>2, <2>5, <2>8
  <2>. QED
    BY <2>2, <2>4, <2>5, <2>7, <2>9
<1>9. ASSUME NEW x \in now
      PROVE  \/ x \in was /\ x \notin R
             \/ \E e \in Kept(es), r \in R : /\ x = row[e] /\ e = OpenEvent(r) /\ r \in was
                                             /\ StateOf(x) = StateOf(r)
  <2>1. /\ x \in Part(after, o) /\ InEraOf(before, t, x.mts) /\ x.mts <= t /\ x.next > t
    BY <1>6
  <2>2. CASE x \in Part(table, o) \ R
    BY <1>5, <2>1, <2>2
  <2>3. ASSUME NEW e \in Kept(es), x = row[e]
        PROVE  \E d \in Kept(es), r \in R : /\ x = row[d] /\ d = OpenEvent(r) /\ r \in was
                                            /\ StateOf(x) = StateOf(r)
    BY <1>8, <2>1, <2>3
  <2>. QED
    BY <1>3, <2>1, <2>2, <2>3
<1>10. \A x \in now : StateOf(x) = s
  BY <1>7, <1>9
<1>11. ASSUME NEW x \in now, NEW y \in now PROVE x = y
  <2>1. \A r, q \in R : r = q
    BY <1>2 DEF OpenRows
  <2>. QED
    BY <1>7, <1>9, <2>1
<1>12. ASSUME s # Absent PROVE now # {}
  <2>1. PICK r \in was : TRUE
    BY <1>7, <1>12
  <2>2. r \in Part(table, o) /\ InEraOf(before, t, r.mts) /\ r.mts <= t /\ r.next > t
    BY <1>5
  <2>3. CASE r \notin R
    BY <1>3, <1>6, <2>2, <2>3
  <2>4. CASE r \in R
    <3> DEFINE e == OpenEvent(r)
    <3>1. e \in es /\ r.next = Infinity
      BY <1>2, <2>4 DEF OpenRows
    <3>2. IsOpen(e) /\ e.ts = r.mts
      BY OpenEventIs
    <3>3. e.price # 0
      BY <1>2, <3>1, <3>2 DEF Stream
    <3>4. e \in Kept(es)
      BY <3>1, <3>2 DEF Kept
    <3> HIDE DEF e
    <3>5. IsRow(es, e, row[e])
      BY <1>3, <3>4
    <3>6. row[e].mts = r.mts
      BY <3>2, <3>5 DEF IsRow
    <3>7. row[e].next > t
      <4>1. CASE FirstAfter(es, e) = {}
        BY <1>0, <3>3, <3>5, <4>1 DEF IsRow, NextIs
      <4>2. ASSUME NEW n \in FirstAfter(es, e) PROVE row[e].next > t
        <5>1. n \in es /\ IsInserted(es, n)
          BY <1>0, <1>2, <3>1, <3>3, <4>2, FollowerInserted
        <5>2. ~IsOpen(n)
          BY <5>1 DEF IsInserted, IsOpen
        <5>3. f < n.ts /\ n.ts \in Nat
          BY <1>0, <1>2, <5>1, <5>2, StreamTimes DEF Stream
        <5>4. row[e].next = n.ts
          BY <3>3, <3>5, <4>2 DEF IsRow, NextIs
        <5>. QED
          BY <1>0, <5>3, <5>4
      <4>. QED
        BY <4>1, <4>2
    <3>8. row[e] \in Part(after, o)
      BY <1>3, <3>4
    <3>9. row[e] \in now
      BY <1>6, <2>2, <3>6, <3>7, <3>8
    <3>. QED
      BY <3>9
  <2>. QED
    BY <2>3, <2>4
<1>. QED
  BY <1>10, <1>11, <1>12 DEF ShowsOrder, now

\* An order book shows every order.
LEMMA ShowsEach ==
    ASSUME NEW table, table \subseteq Rows, NEW ers, NEW t, NEW b
    PROVE  Shows(table, ers, t, b) <=> \A o \in Orders : ShowsOrder(table, ers, t, o, b[o])
<1> DEFINE live == LiveAt(table, ers, t)
<1>1. \A x \in live : x \in Rows
  BY DEF LiveAt
<1>2. \A x \in live : x.id \in Orders
  BY <1>1, RowFields
<1> HIDE DEF live
<1>3. ASSUME Shows(table, ers, t, b), NEW o \in Orders PROVE ShowsOrder(table, ers, t, o, b[o])
  BY <1>3 DEF Shows, ShowsOrder, live
<1>4. ASSUME \A o \in Orders : ShowsOrder(table, ers, t, o, b[o]) PROVE Shows(table, ers, t, b)
  <2>1. \A r, x \in live : r.id = x.id => r = x
    BY <1>2, <1>4 DEF ShowsOrder, live
  <2>2. \A r \in live : StateOf(r) = b[r.id]
    BY <1>2, <1>4 DEF ShowsOrder, live
  <2>3. \A o \in Orders : b[o] # Absent => \E r \in live : r.id = o
    BY <1>2, <1>4 DEF ShowsOrder, live
  <2>. QED
    BY <2>1, <2>2, <2>3 DEF Shows, live
<1>. QED
  BY <1>3, <1>4

\* A piece may start an era.
Started(before, ers, f) ==
    /\ DOMAIN before \subseteq DOMAIN ers /\ DOMAIN ers \subseteq DOMAIN before \union {f + 1}
    /\ \A e \in DOMAIN before : ers[e] = before[e]
    /\ \A e \in DOMAIN ers : e \notin DOMAIN before => ers[e] = Null

LEMMA ReplaysAfter ==
    ASSUME NEW f \in 0..MaxTime, NEW g \in 0..MaxTime, f <= g, NEW table, RowsSound(table, f),
           NEW live, LiveSound(table, live), NEW taken, TakenSound(taken, f, g),
           OrderKept(table, taken),
           NEW before, DOMAIN before \subseteq 1..f, NEW ers, Started(before, ers, f),
           LiveFrom(table, ers, live, f), NEW rep, Replays(table, before, f, rep),
           NEW base,
           DOMAIN ers # {} => Starting(live, base) /\ AllFollow(taken, base, rep, f, g),
           NEW after, after = AfterPiece(table, ers, taken, live)
    PROVE  Replays(after, ers, g, rep)
<1>0. f \in Nat /\ g \in Nat /\ MaxTime \in Nat
  BY TableAssumption
<1>1. AllCaptured(table, after, f, g)
  BY PieceCaptured
<1>2. after \subseteq Rows /\ table \subseteq Rows
  <2>1. RowsSound(after, g)
    BY <1>0, <1>1, RowsAfter
  <2>. QED
    BY <2>1 DEF RowsSound
<1>3. DOMAIN ers \subseteq 1..(f + 1)
  <2>1. 1..f \subseteq 1..(f + 1) /\ f + 1 \in 1..(f + 1)
    BY <1>0
  <2>. QED
    BY <2>1 DEF Started
<1>4. SUFFICES ASSUME NEW t \in 1..g, ErasUpTo(ers, t) # {} PROVE Shows(after, ers, t, rep[t])
  BY DEF Replays
<1>5. CASE t \in 1..f
  <2>1. ErasUpTo(ers, t) = ErasUpTo(before, t)
    <3>1. \A e \in DOMAIN ers : e <= t => e \in DOMAIN before
      <4>1. ~(f + 1 <= t)
        BY <1>0, <1>5
      <4>. QED
        BY <4>1 DEF Started
    <3>. QED
      BY <3>1 DEF ErasUpTo, Started
  <2>2. Shows(table, before, t, rep[t])
    BY <1>4, <1>5, <2>1 DEF Replays
  <2>3. \A o \in Orders : ShowsOrder(table, before, t, o, rep[t][o])
    BY <1>2, <2>2, ShowsEach
  <2>4. \A o \in Orders : ShowsOrder(after, ers, t, o, rep[t][o])
    BY <1>1, <1>5, <2>1, <2>3, ShownBefore
  <2>. QED
    BY <1>2, <2>4, ShowsEach
<1>6. CASE t \notin 1..f
  <2>1. t \in (f + 1)..g
    BY <1>0, <1>6
  <2>2. DOMAIN ers # {}
    BY <1>4 DEF ErasUpTo
  <2>3. \A o \in Orders : ShowsOrder(after, ers, t, o, rep[t][o])
    BY <1>3, <2>1, <2>2, ShownAfter
  <2>. QED
    BY <1>2, <2>3, ShowsEach
<1>. QED
  BY <1>5, <1>6

\* The inserted rows are those after f.
LEMMA InsertedLater ==
    ASSUME NEW f \in Nat, NEW g \in Nat, f <= g, NEW table, RowsSound(table, f),
           NEW after, AllCaptured(table, after, f, g)
    PROVE  Inserted(table, after) = {x \in after : f < x.mts}
<1>1. /\ \A x \in after : x.mts <= f => \E y \in table : Key(y) = Key(x)
  BY KeysAfter
<1>2. \A y \in table : y.mts \in Nat /\ y.mts <= f
  BY RowTimes DEF RowsSound
<1>3. after \subseteq Rows
  BY RowsAfter DEF RowsSound
<1>4. \A x \in after : x.mts \in Nat
  BY <1>3, RowTimes
<1>5. ASSUME NEW x \in after, f < x.mts, NEW y \in table, Key(y) = Key(x) PROVE FALSE
  <2>1. x.mts = y.mts
    BY <1>5 DEF Key
  <2>. QED
    BY <1>2, <1>4, <1>5, <2>1
<1>. QED
  BY <1>1, <1>4, <1>5 DEF Inserted

LEMMA TimesAfter ==
    ASSUME NEW f \in Nat, NEW g \in Nat, f <= g, NEW table, RowsSound(table, f),
           NEW after, AllCaptured(table, after, f, g)
    PROVE  /\ \A x \in after : x.mts <= f => \E y \in table : y.mts = x.mts
           /\ \A y \in table : \E x \in after : x.mts = y.mts
<1>1. /\ \A x \in after : x.mts <= f => \E y \in table : Key(y) = Key(x)
      /\ \A y \in table : \E x \in after : Key(x) = Key(y)
  BY KeysAfter
<1>2. \A x, y : Key(x) = Key(y) => x.mts = y.mts
  BY DEF Key
<1>. QED
  BY <1>1, <1>2

LEMMA ErasAfter ==
    ASSUME NEW f \in 0..MaxTime, NEW g \in 0..MaxTime, f < g, NEW table, RowsSound(table, f),
           NEW after, AllCaptured(table, after, f, g),
           NEW before, ErasSound(table, before, f), NEW ers, Started(before, ers, f)
    PROVE  /\ ErasSound(after, UpdateEras(ers, Inserted(table, after)), g)
           /\ DOMAIN UpdateEras(ers, Inserted(table, after)) = DOMAIN ers
<1> DEFINE ins == Inserted(table, after)
           new == UpdateEras(ers, ins)
<1>0. f \in Nat /\ g \in Nat /\ MaxTime \in Nat /\ f <= g /\ f < f + 1
  <2>1. f \in Nat /\ g \in Nat /\ MaxTime \in Nat
    BY TableAssumption
  <2>. QED
    BY <2>1
<1>1. ins = {x \in after : f < x.mts}
  BY <1>0, InsertedLater
<1>2. DOMAIN before \subseteq 1..f /\ DOMAIN ers \subseteq 1..(f + 1) /\ DOMAIN ers \subseteq 1..g
  <2>1. DOMAIN before \subseteq 1..f
    BY DEF ErasSound
  <2>2. 1..f \subseteq 1..(f + 1) /\ f + 1 \in 1..(f + 1) /\ 1..(f + 1) \subseteq 1..g
    BY <1>0
  <2>. QED
    BY <2>1, <2>2 DEF Started
<1>3. after \subseteq Rows /\ \A x \in after : x.mts \in Nat /\ x.mts <= g
  <2>1. RowsSound(after, g)
    BY <1>0, RowsAfter
  <2>. QED
    BY <2>1, RowTimes DEF RowsSound
<1>4. \A y \in table : y.mts \in Nat /\ y.mts <= f
  BY RowTimes DEF RowsSound
<1>5. /\ \A x \in after : x.mts <= f => \E y \in table : y.mts = x.mts
      /\ \A y \in table : \E x \in after : x.mts = y.mts
  BY <1>0, TimesAfter
<1>6. DOMAIN new = DOMAIN ers
  BY DEF UpdateEras
<1> DEFINE IsLast(e) == \A d \in DOMAIN ers : d <= e
           Told(e) == LET rows == RowsOfEra(after, ers, e)
                      IN  /\ rows = {} => new[e] = Null
                          /\ rows # {} => /\ \A r \in rows : r.mts <= new[e]
                                          /\ \E r \in rows : r.mts = new[e]
<1> HIDE DEF ins
\* An era that no inserted row falls into.
<1>7. ASSUME NEW e \in DOMAIN before, new[e] = ers[e], ins = {} \/ ~IsLast(e) PROVE Told(e)
  <2> DEFINE rows == RowsOfEra(after, ers, e)
             was == RowsOfEra(table, before, e)
  <2>1. /\ was = {} => new[e] = Null
        /\ was # {} => (\A r \in was : r.mts <= new[e]) /\ \E r \in was : r.mts = new[e]
    BY <1>7 DEF ErasSound, Started
  <2>2. \A x \in rows : x.mts <= f
    <3>1. CASE ins = {}
      BY <1>0, <1>1, <1>3, <3>1 DEF RowsOfEra
    <3>2. CASE ~IsLast(e)
      <4>1. PICK d \in DOMAIN ers : ~(d <= e)
        BY <3>2
      <4>2. d \in Nat /\ e \in Nat /\ d <= f + 1
        BY <1>0, <1>2
      <4>3. \A x \in rows : x.mts < d /\ x.mts \in Nat
        BY <1>3, <4>1, <4>2 DEF RowsOfEra
      <4>. QED
        BY <1>0, <4>2, <4>3
    <3>. QED
      BY <1>7, <3>1, <3>2
  <2>3. \A x \in rows : \E y \in was : y.mts = x.mts
    <3>1. ASSUME NEW x \in rows PROVE \E y \in was : y.mts = x.mts
      <4>1. x \in after /\ x.mts >= e /\ \A d \in DOMAIN ers : d > e => x.mts < d
        BY DEF RowsOfEra
      <4>2. PICK y \in table : y.mts = x.mts
        BY <1>5, <2>2, <4>1
      <4>3. y \in was
        BY <4>1, <4>2 DEF RowsOfEra, Started
      <4>. QED
        BY <4>2, <4>3
    <3>. QED
      BY <3>1
  <2>4. \A y \in was : \E x \in rows : x.mts = y.mts
    <3>1. ASSUME NEW y \in was PROVE \E x \in rows : x.mts = y.mts
      <4>1. y \in table /\ y.mts >= e /\ \A d \in DOMAIN before : d > e => y.mts < d
        BY DEF RowsOfEra
      <4>2. PICK x \in after : x.mts = y.mts
        BY <1>5, <4>1
      <4>3. y.mts < f + 1
        BY <1>0, <1>4, <4>1
      <4>4. x \in rows
        BY <4>1, <4>2, <4>3 DEF RowsOfEra, Started
      <4>. QED
        BY <4>2, <4>4
    <3>. QED
      BY <3>1
  <2> HIDE DEF rows, was, new
  <2>5. rows = {} <=> was = {}
    BY <2>3, <2>4
  <2>6. was # {} => (\A r \in rows : r.mts <= new[e]) /\ \E r \in rows : r.mts = new[e]
    BY <2>1, <2>3, <2>4
  <2>. QED
    BY <2>1, <2>5, <2>6 DEF rows
<1>8. ASSUME ins = {} PROVE \A e \in DOMAIN ers : Told(e)
  <2>1. new = ers
    BY <1>8 DEF UpdateEras
  <2>2. ASSUME NEW e \in DOMAIN ers, e \notin DOMAIN before PROVE Told(e)
    <3>1. e = f + 1 /\ ers[e] = Null
      BY <2>2 DEF Started
    <3>2. RowsOfEra(after, ers, e) = {}
      BY <1>0, <1>1, <1>3, <1>8, <3>1 DEF RowsOfEra
    <3>. QED
      BY <2>1, <3>1, <3>2
  <2>. QED
    BY <1>7, <1>8, <2>1, <2>2
<1>9. ASSUME ins # {} PROVE \A e \in DOMAIN ers : Told(e)
  <2> DEFINE S == {r.mts : r \in ins}
  <2>1. S \in SUBSET (0..g) /\ S # {}
    BY <1>1, <1>3, <1>9
  <2>2. PICK m \in S : m = Max(S) /\ \A y \in S : y <= m
    BY <1>0, <2>1, MaxIsGreatest
  <2>3. PICK x \in ins : x.mts = m
    BY <2>2
  <2>4. m \in Nat /\ f < m /\ m <= g
    BY <1>1, <1>3, <2>3
  <2>5. ErasUpTo(ers, m) = DOMAIN ers
    <3>1. \A e \in DOMAIN ers : e <= m
      BY <1>0, <1>2, <2>4
    <3>. QED
      BY <3>1 DEF ErasUpTo
  <2> HIDE DEF S
  <2>6. \A e \in DOMAIN ers :
          new[e] = IF DOMAIN ers # {} /\ e = Max(DOMAIN ers) /\ ers[e] < m THEN m ELSE ers[e]
    BY <1>9, <2>2, <2>5 DEF UpdateEras, S
  <2>7. \A e \in DOMAIN ers : e = Max(DOMAIN ers) <=> IsLast(e)
    <3>1. DOMAIN ers \in SUBSET (0..(f + 1)) /\ f + 1 \in Nat
      BY <1>0, <1>2
    <3>2. ASSUME NEW e \in DOMAIN ers, IsLast(e) PROVE e = Max(DOMAIN ers)
      BY <3>1, <3>2, MaxIs
    <3>3. ASSUME NEW e \in DOMAIN ers, e = Max(DOMAIN ers) PROVE IsLast(e)
      <4>1. DOMAIN ers # {}
        OBVIOUS
      <4>. QED
        BY <3>1, <3>3, <4>1, MaxIsGreatest
    <3>. QED
      BY <3>2, <3>3
  <2>8. ASSUME NEW e \in DOMAIN ers, ~IsLast(e) PROVE Told(e)
    <3>1. new[e] = ers[e]
      BY <2>6, <2>7, <2>8
    <3>2. e \in DOMAIN before
      <4>1. \A d \in DOMAIN ers : d <= f + 1
        BY <1>0, <1>2
      <4>2. e # f + 1
        BY <2>8, <4>1
      <4>. QED
        BY <4>2 DEF Started
    <3>. QED
      BY <1>7, <2>8, <3>1, <3>2
  <2>9. ASSUME NEW e \in DOMAIN ers, IsLast(e) PROVE Told(e)
    <3>1. ers[e] < m
      <4>1. CASE e \notin DOMAIN before
        BY <1>0, <2>4, <4>1 DEF Started, Null
      <4>2. CASE e \in DOMAIN before
        <5>1. ers[e] = before[e]
          BY <4>2 DEF Started
        <5>2. before[e] = Null \/ \E r \in table : r.mts = before[e]
          BY <4>2 DEF ErasSound, RowsOfEra
        <5>. QED
          BY <1>0, <1>4, <2>4, <5>1, <5>2 DEF Null
      <4>. QED
        BY <4>1, <4>2
    <3>2. new[e] = m
      BY <2>6, <2>7, <2>9, <3>1
    <3>3. \A r \in after : r.mts <= m
      <4>1. \A r \in after : f < r.mts => r.mts \in S
        BY <1>1 DEF S
      <4>. QED
        BY <1>0, <1>3, <2>2, <2>4, <4>1
    <3>4. x \in RowsOfEra(after, ers, e)
      <4>1. x \in after
        BY <1>1
      <4>2. e \in Nat /\ e <= f + 1
        BY <1>0, <1>2
      <4>3. x.mts >= e
        BY <1>0, <2>3, <2>4, <4>2
      <4>4. \A d \in DOMAIN ers : ~(d > e)
        BY <1>2, <2>9
      <4>. QED
        BY <4>1, <4>3, <4>4 DEF RowsOfEra
    <3>. QED
      BY <2>3, <3>2, <3>3, <3>4 DEF RowsOfEra
  <2>. QED
    BY <2>8, <2>9
<1>10. \A e \in DOMAIN ers : Told(e)
  BY <1>8, <1>9
<1> HIDE DEF new
<1>11. \A e : RowsOfEra(after, new, e) = RowsOfEra(after, ers, e)
  BY <1>6 DEF RowsOfEra
<1>12. ErasSound(after, new, g)
  BY <1>2, <1>6, <1>10, <1>11 DEF ErasSound
<1>. QED
  BY <1>6, <1>12 DEF new, ins

-----------------------------------------------------------------------------
(***************************************************************************)
(* A piece: whether it starts an era, what is open before it, and the      *)
(* events it is made of.                                                   *)
(***************************************************************************)
StartsNew(table, before, c, f) ==
    c.start = f + 1 /\ StartsEra(LiveBefore(table, before, f + 1), f + 1)
LiveOf(table, before, f, new) == IF new THEN {} ELSE LiveBefore(table, before, f + 1)
ErasOf(before, f, new) ==
    IF new THEN [e \in DOMAIN before \union {f + 1} |-> IF e \in DOMAIN before THEN before[e] ELSE Null]
    ELSE before
EventsOf(events, live, c, f, new) ==
    IF c.start = f + 1 /\ ~new THEN WithDiff(events, live, c, f) ELSE events
BaseOf(rep, f, new) == IF new THEN [o \in Orders |-> Absent] ELSE BookOf(rep, f)

\* The open rows before a piece show the book, and are the ones live after f.
LiveFits(table, before, live, ers, rep, f, new) ==
    /\ LiveSound(table, live)
    /\ LiveFrom(table, ers, live, f)
    /\ Started(before, ers, f)
    /\ \A r \in live : r.id \in Orders
    /\ ~new => \A r \in live : StateOf(r) = BookOf(rep, f)[r.id]
    /\ ~new /\ DOMAIN before # {} =>
         \A o \in Orders : BookOf(rep, f)[o] # Absent => Part(live, o) # {}
    /\ DOMAIN ers # {} => Starting(live, BaseOf(rep, f, new))

LEMMA LiveOfPiece ==
    ASSUME NEW f \in 0..MaxTime, f < MaxTime, NEW table, NEW before, NEW rep,
           Level3Sound(table, before, f, rep), NEW new \in BOOLEAN,
           NEW live, live = LiveOf(table, before, f, new), NEW ers, ers = ErasOf(before, f, new)
    PROVE  LiveFits(table, before, live, ers, rep, f, new)
<1>0. f \in Nat /\ MaxTime \in Nat /\ f + 1 \in 0..MaxTime /\ f < f + 1
  BY TableAssumption
<1>1. RowsSound(table, f) /\ DOMAIN before \subseteq 1..f
  BY DEF Level3Sound, ErasSound
<1>2. CASE new
  <2>1. live = {}
    BY <1>2 DEF LiveOf
  <2>2. ers = [e \in DOMAIN before \union {f + 1} |-> IF e \in DOMAIN before THEN before[e] ELSE Null]
    BY <1>2 DEF ErasOf
  <2>3. Started(before, ers, f)
    BY <2>2 DEF Started
  <2>4. LiveFrom(table, ers, live, f)
    <3>1. ASSUME NEW t \in Times, f < t, NEW x \in LiveAt(table, ers, t) PROVE FALSE
      <4>1. x \in table /\ InEraOf(ers, t, x.mts)
        BY <3>1 DEF LiveAt
      <4>2. x.mts \in Nat /\ x.mts <= f
        BY <1>1, <4>1, RowTimes DEF RowsSound
      <4>3. t \in Nat
        BY TimesAre
      <4>4. f + 1 \in ErasUpTo(ers, t)
        BY <1>0, <2>2, <3>1, <4>3 DEF ErasUpTo
      <4>5. f + 1 <= x.mts
        BY <4>1, <4>4 DEF InEraOf
      <4>. QED
        BY <1>0, <4>2, <4>5
    <3>. QED
      BY <2>1, <3>1 DEF LiveFrom
  <2>5. LiveSound(table, live) /\ \A r \in live : r.id \in Orders
    BY <2>1 DEF LiveSound
  <2>6. Starting(live, BaseOf(rep, f, new))
    BY <1>2, <2>1 DEF Starting, BaseOf, Part
  <2>. QED
    BY <1>2, <2>3, <2>4, <2>5, <2>6 DEF LiveFits
<1>3. CASE ~new
  <2>1. ers = before /\ Started(before, ers, f)
    BY <1>3 DEF ErasOf, Started
  <2>2. live = OpenTable(table, before)
    <3>1. LiveBefore(table, before, f + 1) = OpenTable(table, before)
      BY <1>0, <1>1, OpenTableIs
    <3>. QED
      BY <1>3, <3>1 DEF LiveOf
  <2>3. LiveFrom(table, ers, live, f)
    <3>1. ASSUME NEW t \in Times, f < t PROVE LiveAt(table, ers, t) = live
      <4>1. t \in 0..MaxTime /\ f <= t
        BY <1>0, <3>1 DEF Times
      <4>. QED
        BY <1>1, <2>1, <2>2, <4>1, OpenTableIs
    <3>. QED
      BY <3>1 DEF LiveFrom
  <2>4. /\ live \subseteq table
        /\ \A r, x \in live : r.id = x.id => r = x
        /\ \A r \in live : StateOf(r) = BookOf(rep, f)[r.id]
        /\ DOMAIN before # {} =>
             \A o \in Orders : BookOf(rep, f)[o] # Absent => \E r \in live : r.id = o
    BY <2>2, OpenTableShown
  <2>5. \A r \in live : r.id \in Orders
    BY <1>1, <2>4, RowFields DEF RowsSound
  <2>6. LiveSound(table, live)
    <3>1. \A r \in live : r.next = Infinity
      BY <2>2 DEF OpenTable
    <3>. QED
      BY <2>4, <3>1 DEF LiveSound
  <2>7. DOMAIN before # {} => \A o \in Orders : BookOf(rep, f)[o] # Absent => Part(live, o) # {}
    BY <2>4 DEF Part
  <2>8. DOMAIN ers # {} => Starting(live, BaseOf(rep, f, new))
    <3>1. BaseOf(rep, f, new) = BookOf(rep, f)
      BY <1>3 DEF BaseOf
    <3>. QED
      BY <2>1, <2>4, <2>7, <3>1 DEF Starting, Part
  <2>. QED
    BY <2>1, <2>3, <2>4, <2>5, <2>6, <2>7, <2>8 DEF LiveFits
<1>. QED
  BY <1>2, <1>3

\* An era that goes on has open rows, of the month of the snapshot.
LEMMA GoesOn ==
    ASSUME NEW f \in 0..MaxTime, f < MaxTime, NEW table, NEW before, NEW rep,
           Level3Sound(table, before, f, rep),
           NEW live, live = LiveBefore(table, before, f + 1), ~StartsEra(live, f + 1)
    PROVE  \E r \in live : Month(r.mts) = Month(f + 1)
<1>1. live # {} /\ Month(Max({r.mts : r \in live})) = Month(f + 1)
  BY DEF StartsEra
<1>2. \A r \in live : r.mts \in Nat /\ r.mts <= f
  BY RowTimes DEF LiveBefore, Level3Sound, RowsSound
<1>3. f \in Nat
  BY TableAssumption
<1>4. {r.mts : r \in live} \in SUBSET (0..f) /\ {r.mts : r \in live} # {}
  BY <1>1, <1>2, <1>3
<1>5. Max({r.mts : r \in live}) \in {r.mts : r \in live}
  BY <1>3, <1>4, MaxIsGreatest
<1>. QED
  BY <1>1, <1>5

\* The snapshot of a channel that goes on an era is not empty.
LEMMA SnapshotExists ==
    ASSUME NEW now \in 0..MaxTime, NEW f \in 0..now, NEW g \in 0..now, NEW table, NEW before,
           NEW events, NEW chans, NEW from, NEW rep,
           Sound(table, before, events, chans, f, from, now, rep),
           NEW c, Piece(chans, c, f, g), c.start = f + 1,
           ~StartsEra(LiveBefore(table, before, f + 1), f + 1)
    PROVE  SnapshotOf(events, c, f) # {}
<1>0. f \in Nat /\ now \in Nat /\ f + 1 \in (f + 1)..now /\ f \in 0..MaxTime /\ f < MaxTime
      /\ f < f + 1 /\ (f + 1) - 1 = f /\ f + 1 <= g
  <2>1. now \in Nat /\ MaxTime \in Nat
    BY TableAssumption
  <2>. QED
    BY <2>1 DEF Piece
<1>1. /\ Level3Sound(table, before, f, rep) /\ StreamSound(events, chans, f, now, rep)
      /\ ChannelsSound(chans, now) /\ SessionsShow(chans, f, from, rep)
  BY DEF Sound
<1>2. c \in chans /\ StartsAt(chans, f + 1)
  BY DEF Piece, StartsAt
<1>3. \E o \in Orders : rep[f + 1][o] # Absent
  <2>1. CASE \E o \in Orders : rep[c.start][o] # Absent
    BY <2>1
  <2>2. CASE rep[c.start] = BookOf(rep, c.start - 1)
    <3>1. rep[f + 1] = BookOf(rep, f)
      BY <1>0, <2>2
    <3>2. PICK r \in LiveBefore(table, before, f + 1) : TRUE
      BY DEF StartsEra
    <3>3. LiveBefore(table, before, f + 1) = LiveOf(table, before, f, FALSE)
      BY DEF LiveOf
    <3>4. LiveFits(table, before, LiveBefore(table, before, f + 1), before, rep, f, FALSE)
      <4>1. before = ErasOf(before, f, FALSE)
        BY DEF ErasOf
      <4>. QED
        BY <1>0, <1>1, <3>3, <4>1, LiveOfPiece
    <3>5. r \in table /\ r.id \in Orders /\ StateOf(r) = rep[f + 1][r.id]
      BY <3>1, <3>4 DEF LiveFits, LiveSound
    <3>6. StateOf(r) # Absent
      BY <1>1, <3>5, RowFields DEF Level3Sound, RowsSound
    <3>. QED
      BY <3>5, <3>6
  <2>. QED
    BY <1>0, <1>1, <1>2, <2>1, <2>2 DEF SessionsShow
<1>4. PICK o \in Orders : rep[f + 1][o] # Absent
  BY <1>3
<1>5. ShowsAll(events, rep, f + 1, o)
  BY <1>0, <1>1, <1>2 DEF StreamSound
<1>6. PICK e \in EventsAt(events, f + 1, o) : TRUE
  BY <1>4, <1>5 DEF ShowsAll
<1>7. e \in events /\ e.ts = f + 1
  BY DEF EventsAt
<1>8. e.channel = c.channel
  BY <1>0, <1>1, <1>7, InPiece
<1>. QED
  BY <1>7, <1>8 DEF SnapshotOf

\* What a piece takes follows the book.
PieceTaken(table, before, events, evs, taken, c, f, g, rep, new) ==
    /\ Takes(evs, events, c, f, g)
    /\ DOMAIN ErasOf(before, f, new) # {} => AllFollow(taken, BaseOf(rep, f, new), rep, f, g)

LEMMA TakenOfPiece ==
    ASSUME NEW now \in 0..MaxTime, NEW f \in 0..now, NEW g \in 0..now, NEW table, NEW before,
           NEW events, NEW chans, NEW from, NEW rep,
           Sound(table, before, events, chans, f, from, now, rep), NEW c, Piece(chans, c, f, g),
           NEW new \in BOOLEAN, new <=> StartsNew(table, before, c, f),
           NEW live, live = LiveOf(table, before, f, new),
           NEW evs, evs = EventsOf(events, live, c, f, new),
           NEW taken, taken = TakenOf(evs, c, f, g)
    PROVE  PieceTaken(table, before, events, evs, taken, c, f, g, rep, new)
<1>0. f \in 0..MaxTime /\ f < MaxTime
  <2>1. now \in Nat /\ MaxTime \in Nat
    BY TableAssumption
  <2>. QED
    BY <2>1 DEF Piece
<1>1. /\ Level3Sound(table, before, f, rep) /\ StreamSound(events, chans, f, now, rep)
      /\ ChannelsSound(chans, now)
  BY DEF Sound
<1> DEFINE ers == ErasOf(before, f, new)
           base == BaseOf(rep, f, new)
<1>2. LiveFits(table, before, live, ers, rep, f, new)
  BY <1>0, <1>1, LiveOfPiece
<1>3. ASSUME NEW o \in Orders PROVE BookFrom(BookStates(base, rep, o, f, g), rep, o, f, g, base[o])
  <2>1. f \in Nat /\ g \in Nat
    <3>1. now \in Nat
      BY TableAssumption
    <3>. QED
      BY <3>1
  <2>2. f \in f..g /\ \A t \in (f + 1)..g : t \in f..g /\ t # f
    BY <2>1 DEF Piece
  <2> HIDE DEF base
  <2>. QED
    BY <2>2 DEF BookFrom, BookStates
<1>4. CASE new
  <2>1. evs = events /\ c.start = f + 1
    BY <1>4 DEF EventsOf, StartsNew
  <2>2. Takes(evs, events, c, f, g)
    BY <1>1, <2>1, PlainTaken
  <2>3. \A o \in Orders : base[o] = Absent
    BY <1>4 DEF BaseOf
  <2>4. ASSUME NEW o \in Orders PROVE OrderFollows(taken, o, f, g, BookStates(base, rep, o, f, g))
    <3> HIDE DEF base
    <3>1. PICK s : s = BookStates(base, rep, o, f, g)
      OBVIOUS
    <3>2. BookFrom(s, rep, o, f, g, Absent)
      BY <1>3, <2>3, <3>1
    <3>3. OrderFollows(TakenOf(events, c, f, g), o, f, g, s)
      BY <1>1, <2>1, <3>2, NewFollows
    <3>. QED
      BY <2>1, <3>1, <3>3
  <2>. QED
    BY <2>2, <2>4 DEF PieceTaken, AllFollow
<1>5. CASE ~new /\ c.start # f + 1
  <2>1. evs = events
    BY <1>5 DEF EventsOf
  <2>2. Takes(evs, events, c, f, g)
    BY <1>1, <2>1, PlainTaken
  <2>3. base = BookOf(rep, f)
    BY <1>5 DEF BaseOf
  <2>4. ASSUME NEW o \in Orders PROVE OrderFollows(taken, o, f, g, BookStates(base, rep, o, f, g))
    <3> HIDE DEF base
    <3>1. PICK s : s = BookStates(base, rep, o, f, g)
      OBVIOUS
    <3>2. BookFrom(s, rep, o, f, g, BookOf(rep, f)[o])
      BY <1>3, <2>3, <3>1
    <3>3. OrderFollows(TakenOf(events, c, f, g), o, f, g, s)
      BY <1>1, <1>5, <3>2, PlainFollows
    <3>. QED
      BY <2>1, <3>1, <3>3
  <2>. QED
    BY <2>2, <2>4 DEF PieceTaken, AllFollow
<1>6. CASE ~new /\ c.start = f + 1
  <2>1. evs = WithDiff(events, live, c, f)
    BY <1>6 DEF EventsOf
  <2>2. SnapshotOf(events, c, f) # {}
    <3>1. ~StartsEra(LiveBefore(table, before, f + 1), f + 1)
      BY <1>6 DEF StartsNew
    <3>. QED
      BY <1>6, <3>1, SnapshotExists
  <2>3. \A r \in live : r.id \in Orders /\ StateOf(r) = BookOf(rep, f)[r.id]
    BY <1>2, <1>6 DEF LiveFits
  <2>4. Takes(evs, events, c, f, g)
    BY <1>1, <2>1, <2>2, <2>3, DiffTaken
  <2>5. base = BookOf(rep, f) /\ ers = before
    BY <1>6 DEF BaseOf, ErasOf
  <2>6. ASSUME DOMAIN before # {}, NEW o \in Orders
        PROVE  OrderFollows(taken, o, f, g, BookStates(base, rep, o, f, g))
    <3> HIDE DEF base
    <3>1. PICK s : s = BookStates(base, rep, o, f, g)
      OBVIOUS
    <3>2. BookFrom(s, rep, o, f, g, BookOf(rep, f)[o])
      BY <1>3, <2>5, <3>1
    <3>3. BookOf(rep, f)[o] # Absent => Part(live, o) # {}
      BY <1>2, <1>6, <2>6 DEF LiveFits
    <3>4. OrderFollows(TakenOf(WithDiff(events, live, c, f), c, f, g), o, f, g, s)
      BY <1>1, <1>6, <2>2, <2>3, <3>2, <3>3, DiffFollows
    <3>. QED
      BY <2>1, <3>1, <3>4
  <2>. QED
    BY <2>4, <2>5, <2>6 DEF PieceTaken, AllFollow
<1>. QED
  BY <1>4, <1>5, <1>6

\* What a piece takes is in step: it is of the stream, or deletes at its start.
OfStream(taken, events, c) == \A e \in taken : e \in events \/ e.ts = c.start

LEMMA TakenKept ==
    ASSUME NEW now \in 0..MaxTime, NEW f \in 0..now, NEW g \in 0..now, NEW table, NEW before,
           NEW events, NEW chans, NEW from, NEW rep,
           Sound(table, before, events, chans, f, from, now, rep), NEW c, Piece(chans, c, f, g),
           NEW new \in BOOLEAN, new <=> StartsNew(table, before, c, f),
           NEW live, live = LiveOf(table, before, f, new),
           NEW evs, evs = EventsOf(events, live, c, f, new),
           NEW taken, taken = TakenOf(evs, c, f, g)
    PROVE  OrderKept(table, taken) /\ OfStream(taken, events, c)
<1>0. f \in Nat
  BY TableAssumption
<1>1. /\ RowsSound(table, f) /\ StreamSound(events, chans, f, now, rep)
      /\ StampsSound(table, events, chans) /\ OrderKept(table, events)
  BY DEF Sound, Level3Sound, StampsSound
<1>2. \A e \in events : e.ts \in Nat /\ f < e.ts /\ e.local \in Nat
  <2>1. MaxChanges \in Nat
    BY LoadingAssumption
  <2>. QED
    BY <1>1, <2>1 DEF StreamSound, LocalTimes
<1>3. CASE evs = events
  <2>1. taken \subseteq events
    BY <1>3 DEF TakenOf
  <2>. QED
    BY <1>1, <2>1 DEF OrderKept, OfStream
<1>4. CASE evs # events
  <2> DEFINE snapshot == SnapshotOf(events, c, f)
             missing == {r \in live : \A a \in snapshot : a.id # r.id}
  <2>1. ~new /\ c.start = f + 1 /\ evs = WithDiff(events, live, c, f)
    BY <1>4 DEF EventsOf
  <2>2. snapshot # {}
    <3>1. ~StartsEra(LiveBefore(table, before, f + 1), f + 1)
      BY <2>1 DEF StartsNew
    <3>. QED
      BY <2>1, <3>1, SnapshotExists
  <2>3. DiffIs(events, live, c, f)
    BY <1>0, <2>2, Diff
  <2>4. ASSUME NEW e \in taken
        PROVE  e \in events \/ \E r \in missing : e = Deletion(r, c, f)
    <3>1. e \in events \/ e \in DiffOrderBooks(OpenEvents(live), snapshot)
      BY <2>1 DEF TakenOf, WithDiff
    <3>. QED
      BY <2>3, <3>1 DEF DiffIs, SnapshotOf
  <2>5. ASSUME NEW e \in taken, NEW r \in missing, e = Deletion(r, c, f)
        PROVE  /\ e.ts = f + 1 /\ e.stamp = f + 1 /\ e.local = Null
               /\ \A a \in snapshot : a.id # e.id
    BY <2>5, DeletionIs
  <2>6. ASSUME NEW e \in taken, e \in events, e.ts = f + 1 PROVE e \in snapshot
    BY <2>6 DEF TakenOf, SnapshotOf
  <2> HIDE DEF snapshot, missing
  <2>7. ASSUME NEW e \in taken, NEW r \in table, r.id = e.id PROVE r.mts < e.stamp
    <3>1. CASE e \in events
      BY <1>1, <2>7, <3>1 DEF OrderKept
    <3>2. CASE \E y \in missing : e = Deletion(y, c, f)
      <4>1. r \in Rows /\ r.mts <= f /\ e.stamp = f + 1
        BY <1>1, <2>5, <3>2 DEF RowsSound
      <4>2. r.mts \in Nat
        BY <4>1, RowTimes
      <4>. QED
        BY <1>0, <4>1, <4>2
    <3>. QED
      BY <2>4, <3>1, <3>2
  <2>8. ASSUME NEW e \in taken, NEW x \in taken, x.id = e.id
        PROVE  /\ x.ts < e.ts => x.ts < e.stamp
               /\ x.ts = e.ts /\ x.local < e.local => x.local # Null /\ x.stamp <= e.stamp
    <3>1. CASE e \in events /\ x \in events
      BY <1>1, <2>8, <3>1 DEF OrderKept
    <3>2. CASE e \in events /\ x \notin events
      <4>1. x.ts = f + 1 /\ x.stamp = f + 1 /\ x.local = Null /\ \A a \in snapshot : a.id # x.id
        BY <2>4, <2>5, <3>2
      <4>2. e.ts # f + 1
        BY <2>6, <2>8, <3>2, <4>1
      <4>3. c \in chans /\ c.start = f + 1
        BY <2>1 DEF Piece
      <4>4. f + 1 < e.ts => f + 1 < e.stamp
        BY <1>1, <3>2, <4>3 DEF StampsSound
      <4>. QED
        BY <4>1, <4>2, <4>4
    <3>3. CASE e \notin events
      <4>1. e.ts = f + 1 /\ e.stamp = f + 1 /\ e.local = Null
        BY <2>4, <2>5, <3>3
      <4>2. x.ts = f + 1 \/ (x.ts \in Nat /\ f < x.ts)
        BY <1>2, <2>4, <2>5
      <4>3. x.local \in Nat
        BY <1>2, <2>4, <2>5 DEF Null
      <4>. QED
        BY <1>0, <4>1, <4>2, <4>3 DEF Null
    <3>. QED
      BY <3>1, <3>2, <3>3
  <2>9. OfStream(taken, events, c)
    BY <2>1, <2>4, <2>5 DEF OfStream
  <2>. QED
    BY <2>7, <2>8, <2>9 DEF OrderKept
<1>. QED
  BY <1>3, <1>4

\* The rows of the piece are of its events: those after it are stamped later.
LEMMA StampsAfter ==
    ASSUME NEW now \in 0..MaxTime, NEW f \in 0..now, NEW g \in 0..now, NEW chans, NEW events,
           NEW rep, StreamSound(events, chans, f, now, rep), ChannelsSound(chans, now),
           NEW table, StampsSound(table, events, chans),
           NEW c \in chans, NEW taken, OfStream(taken, events, c), LatestSound(taken),
           NEW live, live \subseteq table,
           NEW after, after \subseteq RawRows,
           \A o \in Orders : OrderCaptured(table, after, taken, live, o, f, g),
           c.start <= g
    PROVE  StampsSound(after, Later(events, g), chans)
<1>0. g \in Nat /\ \A e \in events : e.ts \in Nat
  BY TableAssumption DEF StreamSound
<1>1. ASSUME NEW x \in after
      PROVE  \/ \E r \in table : r.id = x.id /\ r.mts = x.mts
             \/ \E e \in taken : e.id = x.id /\ e.ts = x.mts /\ e.ts <= g
  <2>1. x.id \in Orders
    BY DEF RawRows
  <2>2. PICK o \in Orders : o = x.id
    BY <2>1
  <2> DEFINE es == Part(AllEvents(taken, live), o)
  <2>3. /\ OpenRows(table, es, o, Part(live, o)) /\ Grown(table, after, es, o, Part(live, o))
        /\ \A e \in es : e.ts <= g
    BY DEF OrderCaptured, Captured
  <2>4. PICK row : /\ \A e \in Kept(es) : IsRow(es, e, row[e])
                   /\ Part(after, o) =
                        (Part(table, o) \ Part(live, o)) \union {row[e] : e \in Kept(es)}
    BY <2>3 DEF Grown
  <2>5. x \in Part(after, o)
    BY <2>2 DEF Part
  <2>6. CASE x \in Part(table, o)
    BY <2>2, <2>6 DEF Part
  <2>7. ASSUME NEW e \in Kept(es), x = row[e]
        PROVE  \/ \E r \in table : r.id = x.id /\ r.mts = x.mts
               \/ \E k \in taken : k.id = x.id /\ k.ts = x.mts /\ k.ts <= g
    <3>1. e \in es /\ x.mts = e.ts /\ e.id = o /\ e.ts <= g
      BY <2>3, <2>4, <2>7 DEF Kept, IsRow, Part
    <3>2. e \in LatestOnly(taken) \/ \E r \in live : e = OpenEvent(r)
      BY <3>1 DEF AllEvents, OpenEvents, Part
    <3>3. CASE e \in LatestOnly(taken)
      BY <2>2, <3>1, <3>3 DEF LatestSound
    <3>4. ASSUME NEW r \in live, e = OpenEvent(r)
          PROVE  \E y \in table : y.id = x.id /\ y.mts = x.mts
      <4>1. e.ts = r.mts /\ e.id = r.id
        BY <3>4, OpenEventIs
      <4>. QED
        BY <2>2, <3>1, <4>1
    <3>. QED
      BY <3>2, <3>3, <3>4
  <2>. QED
    BY <2>4, <2>5, <2>6, <2>7
<1>2. ASSUME NEW k \in Later(events, g), NEW x \in after, x.id = k.id PROVE x.mts < k.stamp
  <2>1. k \in events /\ g < k.ts
    BY DEF Later
  <2>2. CASE \E r \in table : r.id = x.id /\ r.mts = x.mts
    BY <1>2, <2>1, <2>2 DEF StampsSound, OrderKept
  <2>3. ASSUME NEW e \in taken, e.id = x.id, e.ts = x.mts, e.ts <= g PROVE x.mts < k.stamp
    <3>1. CASE e \in events
      <4>1. e.ts < k.ts
        BY <1>0, <2>1, <2>3, <3>1
      <4>. QED
        BY <1>2, <2>1, <2>3, <3>1, <4>1 DEF StampsSound, OrderKept
    <3>2. CASE e.ts = c.start
      <4>1. c.start \in Nat
        BY TableAssumption DEF ChannelsSound
      <4>2. c.start < k.ts
        BY <1>0, <2>1, <4>1
      <4>. QED
        BY <2>1, <2>3, <3>2, <4>2 DEF StampsSound
    <3>. QED
      BY <3>1, <3>2 DEF OfStream
  <2>. QED
    BY <1>1, <2>2, <2>3
<1>3. Later(events, g) \subseteq events
  BY DEF Later
<1>. QED
  BY <1>2, <1>3 DEF StampsSound, OrderKept

\* The eras matter by their starts only.
LEMMA SameEras ==
    ASSUME NEW a, NEW b, DOMAIN a = DOMAIN b, NEW table, NEW f, NEW rep
    PROVE  /\ Replays(table, a, f, rep) <=> Replays(table, b, f, rep)
           /\ LastRows(table, a) = LastRows(table, b)
<1>1. \A t : ErasUpTo(a, t) = ErasUpTo(b, t)
  BY DEF ErasUpTo
<1>2. \A t, m : InEraOf(a, t, m) <=> InEraOf(b, t, m)
  BY <1>1 DEF InEraOf
<1>3. \A t : LiveAt(table, a, t) = LiveAt(table, b, t)
  BY <1>2 DEF LiveAt
<1>4. \A t, s : Shows(table, a, t, s) <=> Shows(table, b, t, s)
  BY <1>3 DEF Shows
<1>. QED
  BY <1>1, <1>2, <1>4 DEF Replays, LastRows

LEMMA LastRowsAre ==
    ASSUME NEW f \in 0..MaxTime, NEW table, NEW ers, DOMAIN ers \subseteq 1..f
    PROVE  LastRows(table, ers) = {r \in table : InLastEra(ers, r.mts)}
<1>1. f \in Nat /\ Infinity \in Nat /\ f <= Infinity
  BY TableAssumption DEF Infinity
<1>2. \A m : InEraOf(ers, Infinity, m) <=> InLastEra(ers, m)
  BY <1>1, LastEra
<1>. QED
  BY <1>2 DEF LastRows

LastRowsKept(table, before, after, last, f, new) ==
    /\ \A x \in LastRows(after, last) :
         f < x.mts \/ (~new /\ \E y \in LastRows(table, before) : y.mts = x.mts)
    /\ ~new => \A y \in LastRows(table, before) : \E x \in LastRows(after, last) : x.mts = y.mts

LEMMA LastRowsAfter ==
    ASSUME NEW f \in 0..MaxTime, NEW g \in 0..MaxTime, f < g, NEW table, RowsSound(table, f),
           NEW after, AllCaptured(table, after, f, g), NEW new \in BOOLEAN,
           NEW before, DOMAIN before \subseteq 1..f,
           NEW last, DOMAIN last = DOMAIN ErasOf(before, f, new)
    PROVE  LastRowsKept(table, before, after, last, f, new)
<1>0. f \in Nat /\ g \in Nat /\ f <= g /\ f + 1 \in 1..g /\ 1..f \subseteq 1..g
  <2>1. f \in Nat /\ g \in Nat
    BY TableAssumption
  <2>. QED
    BY <2>1
<1>1. \A y \in table : y.mts \in Nat /\ y.mts <= f
  BY RowTimes DEF RowsSound
<1>2. \A x \in after : x.mts \in Nat
  <2>1. RowsSound(after, g)
    BY <1>0, RowsAfter
  <2>. QED
    BY <2>1, RowTimes DEF RowsSound
<1>3. /\ \A x \in after : x.mts <= f => \E y \in table : y.mts = x.mts
      /\ \A y \in table : \E x \in after : x.mts = y.mts
  BY <1>0, TimesAfter
<1>4. DOMAIN last = IF new THEN DOMAIN before \union {f + 1} ELSE DOMAIN before
  BY DEF ErasOf
<1>5. DOMAIN last \subseteq 1..g
  BY <1>0, <1>4
<1>6. LastRows(table, before) = {r \in table : InLastEra(before, r.mts)}
  BY LastRowsAre
<1>7. LastRows(after, last) = {r \in after : InLastEra(last, r.mts)}
  BY <1>5, LastRowsAre
<1>8. ~new => \A m : InLastEra(last, m) <=> InLastEra(before, m)
  BY <1>4 DEF InLastEra
<1>9. ASSUME NEW x \in LastRows(after, last), ~(f < x.mts)
      PROVE  ~new /\ \E y \in LastRows(table, before) : y.mts = x.mts
  <2>1. x \in after /\ InLastEra(last, x.mts) /\ x.mts \in Nat /\ x.mts <= f
    BY <1>0, <1>2, <1>7, <1>9
  <2>2. ASSUME new PROVE FALSE
    <3>1. f + 1 <= x.mts
      BY <1>4, <2>1, <2>2 DEF InLastEra
    <3>. QED
      BY <1>0, <2>1, <3>1
  <2>3. PICK y \in table : y.mts = x.mts
    BY <1>3, <2>1
  <2>4. y \in LastRows(table, before)
    BY <1>6, <1>8, <2>1, <2>2, <2>3
  <2>. QED
    BY <2>2, <2>3, <2>4
<1>10. ASSUME ~new, NEW y \in LastRows(table, before)
       PROVE  \E x \in LastRows(after, last) : x.mts = y.mts
  <2>1. y \in table /\ InLastEra(before, y.mts)
    BY <1>6
  <2>2. PICK x \in after : x.mts = y.mts
    BY <1>3, <2>1
  <2>3. x \in LastRows(after, last)
    BY <1>7, <1>8, <1>10, <2>1, <2>2
  <2>. QED
    BY <2>2, <2>3
<1>. QED
  BY <1>9, <1>10 DEF LastRowsKept

\* Live rows are of the last era.
LEMMA LiveInLastEra ==
    ASSUME NEW f \in 0..MaxTime, f < MaxTime, NEW table, RowsSound(table, f),
           NEW before, DOMAIN before \subseteq 1..f
    PROVE  LiveBefore(table, before, f + 1) \subseteq LastRows(table, before)
<1>1. f + 1 \in 0..MaxTime /\ f < f + 1
  BY TableAssumption
<1>2. LiveBefore(table, before, f + 1) = OpenTable(table, before)
  BY <1>1, OpenTableIs
<1>. QED
  BY <1>2, LastRowsAre DEF OpenTable

LEMMA MonthsAfter ==
    ASSUME NEW now \in 0..MaxTime, NEW f \in 0..now, NEW g \in 0..now, NEW table, NEW before,
           NEW chans, NEW rep, Level3Sound(table, before, f, rep), ChannelsSound(chans, now),
           MonthsReached(table, before, chans, f), NEW c, Piece(chans, c, f, g),
           NEW new \in BOOLEAN, new <=> StartsNew(table, before, c, f),
           NEW after, after \subseteq Rows,
           NEW last, LastRowsKept(table, before, after, last, f, new)
    PROVE  MonthsReached(after, last, chans, g)
<1>0. f \in Nat /\ g \in Nat /\ f < g /\ f \in 0..MaxTime /\ f < MaxTime /\ f <= f + 1 /\ f + 1 <= g
  <2>1. now \in Nat /\ MaxTime \in Nat
    BY TableAssumption
  <2>. QED
    BY <2>1 DEF Piece
<1>1. \A x \in LastRows(after, last) : x.mts \in Nat
  BY RowTimes DEF LastRows
<1>2. ASSUME NEW x \in chans, x.start <= g PROVE x.start \in Nat /\ x.start <= f + 1
  <2>1. x.start \in 1..now /\ EndIs(chans, c)
    BY ChannelEndIs DEF ChannelsSound, Piece
  <2>2. now \in Nat
    BY TableAssumption
  <2>3. x.start \in Nat /\ c.start \in Nat /\ ChannelEnd(c, chans) \in Nat
    <3>1. x.start \in Nat
      BY <2>1, <2>2
    <3>2. c.start \in Times /\ ChannelEnd(c, chans) \in Nat
      BY <2>1 DEF EndIs
    <3>. QED
      BY <3>1, <3>2, TimesAre
  <2>4. c.start < x.start => ChannelEnd(c, chans) < x.start
    BY <2>1 DEF EndIs
  <2>5. ~(c.start < x.start)
    BY <1>0, <1>2, <2>3, <2>4 DEF Piece
  <2>. QED
    BY <1>0, <2>3, <2>5 DEF Piece
\* A row after f is in a later month.
<1>3. ASSUME NEW x \in LastRows(after, last), f < x.mts, NEW t \in Nat, t <= f + 1
      PROVE  Month(t) <= Month(x.mts)
  <2>1. t <= x.mts /\ x.mts \in Int /\ t \in Int
    BY <1>0, <1>1, <1>3
  <2>. QED
    BY <2>1, MonthOrder
<1>4. SUFFICES ASSUME LastRows(after, last) # {}, NEW x \in chans, x.start <= g
               PROVE  \E r \in LastRows(after, last) : Month(x.start) <= Month(r.mts)
  BY DEF MonthsReached
<1>5. CASE \E r \in LastRows(after, last) : f < r.mts
  BY <1>2, <1>3, <1>4, <1>5
<1>6. CASE \A r \in LastRows(after, last) : ~(f < r.mts)
  <2>1. ~new /\ LastRows(table, before) # {}
    BY <1>4, <1>6 DEF LastRowsKept
  <2>2. CASE x.start <= f
    <3>1. PICK y \in LastRows(table, before) : Month(x.start) <= Month(y.mts)
      BY <2>1, <2>2 DEF MonthsReached
    <3>2. PICK r \in LastRows(after, last) : r.mts = y.mts
      BY <2>1 DEF LastRowsKept
    <3>. QED
      BY <3>1, <3>2
  <2>3. CASE ~(x.start <= f)
    <3>1. x.start = f + 1
      BY <1>0, <1>2, <1>4, <2>3
    <3>2. x = c /\ c.start = f + 1
      <4>1. Covers(chans, c, f + 1) /\ Covers(chans, x, f + 1)
        <5>1. EndIs(chans, c) /\ EndIs(chans, x)
          BY ChannelEndIs DEF Piece
        <5>2. f + 1 <= ChannelEnd(c, chans)
          BY <1>0, <5>1 DEF EndIs, Piece
        <5>. QED
          BY <3>1, <5>1, <5>2 DEF EndIs, Covers, Piece
      <4>2. f + 1 \in Nat
        BY <1>0
      <4>3. x = c
        BY <4>1, <4>2, OneCovers DEF Piece
      <4>. QED
        BY <3>1, <4>3
    <3>3. ~StartsEra(LiveBefore(table, before, f + 1), f + 1)
      BY <2>1, <3>2 DEF StartsNew
    <3>4. PICK y \in LiveBefore(table, before, f + 1) : Month(y.mts) = Month(f + 1)
      BY <1>0, <3>3, GoesOn
    <3>5. y \in LastRows(table, before)
      <4>1. RowsSound(table, f) /\ DOMAIN before \subseteq 1..f
        BY DEF Level3Sound, ErasSound
      <4>. QED
        BY <1>0, <4>1, LiveInLastEra
    <3>6. PICK r \in LastRows(after, last) : r.mts = y.mts
      BY <2>1, <3>5 DEF LastRowsKept
    <3>7. Month(x.start) \in Int
      <4>1. f + 1 \in Int /\ f + 1 <= f + 1
        BY <1>0
      <4>. QED
        BY <3>1, <4>1, MonthOrder
    <3>. QED
      BY <3>1, <3>4, <3>6, <3>7
  <2>. QED
    BY <2>2, <2>3
<1>. QED
  BY <1>5, <1>6

-----------------------------------------------------------------------------
(***************************************************************************)
(* A piece leaves everything sound, up to its end.                         *)
(***************************************************************************)
LEMMA StreamLater ==
    ASSUME NEW now \in 0..MaxTime, NEW f \in 0..now, NEW g \in 0..now, f <= g, NEW chans,
           NEW events, NEW rep, StreamSound(events, chans, f, now, rep)
    PROVE  StreamSound(Later(events, g), chans, g, now, rep)
<1>0. f \in Nat /\ g \in Nat /\ now \in Nat
  <2>1. now \in Nat
    BY TableAssumption
  <2>. QED
    BY <2>1
<1> DEFINE later == Later(events, g)
<1>1. \A e : e \in later <=> e \in events /\ g < e.ts
  BY DEF Later
<1>2. ASSUME NEW t \in (g + 1)..now, NEW o PROVE EventsAt(later, t, o) = EventsAt(events, t, o)
  <2>1. g < t
    BY <1>0
  <2>. QED
    BY <1>1, <2>1 DEF EventsAt
<1> HIDE DEF later
<1>3. ASSUME NEW t \in (g + 1)..now, NEW o \in Orders
      PROVE  IF StartsAt(chans, t) THEN ShowsAll(later, rep, t, o) ELSE Continues(later, rep, t, o)
  <2>1. t \in (f + 1)..now
    BY <1>0
  <2>2. IF StartsAt(chans, t) THEN ShowsAll(events, rep, t, o) ELSE Continues(events, rep, t, o)
    BY <2>1 DEF StreamSound
  <2>. QED
    BY <1>2, <2>2 DEF ShowsAll, Continues
<1>4. \A e \in later :
        /\ e.ts \in Nat /\ g < e.ts /\ e.ts <= now
        /\ e.stamp \in Int /\ e.stamp <= e.ts
        /\ e.id \in Orders /\ e.no = Null /\ e.local \in LocalTimes /\ StateOf(e) \in States
        /\ e.channel \in 1..MaxChannels
        /\ \E c \in chans : c.channel = e.channel /\ Covers(chans, c, e.ts)
  BY <1>1 DEF StreamSound
<1>5. \A e, x \in later : e.ts = x.ts /\ e.id = x.id /\ e.local = x.local => e = x
  BY <1>1 DEF StreamSound
<1>. QED
  BY <1>3, <1>4, <1>5 DEF StreamSound, later

\* What a piece makes of the table and the eras.
PieceIs(table, before, events, c, f, g, new, live, evs, taken, after, last) ==
    /\ new <=> StartsNew(table, before, c, f)
    /\ live = LiveOf(table, before, f, new)
    /\ evs = EventsOf(events, live, c, f, new)
    /\ taken = TakenOf(evs, c, f, g)
    /\ after = AfterPiece(table, ErasOf(before, f, new), taken, live)
    /\ last = UpdateEras(ErasOf(before, f, new), Inserted(table, after))

PieceDone(table, before, events, f, g, new, evs, taken, after, last, rep) ==
    /\ Level3Sound(after, last, g, rep)
    /\ evs \ taken = Later(events, g)
    /\ LastRowsKept(table, before, after, last, f, new)

LEMMA PieceLoads ==
    ASSUME NEW now \in 0..MaxTime, NEW f \in 0..now, NEW g \in 0..now, NEW table, NEW before,
           NEW events, NEW chans, NEW from, NEW rep,
           Sound(table, before, events, chans, f, from, now, rep), NEW c, Piece(chans, c, f, g),
           NEW new \in BOOLEAN, NEW live, NEW evs, NEW taken, NEW after, NEW last,
           PieceIs(table, before, events, c, f, g, new, live, evs, taken, after, last)
    PROVE  /\ PieceDone(table, before, events, f, g, new, evs, taken, after, last, rep)
           /\ StampsSound(after, Later(events, g), chans)
<1>0. /\ f \in 0..MaxTime /\ f < MaxTime /\ g \in 0..MaxTime /\ f <= g /\ f < g
      /\ f \in Nat /\ g \in Nat
  <2>1. now \in Nat /\ MaxTime \in Nat
    BY TableAssumption
  <2>. QED
    BY <2>1 DEF Piece
<1>1. /\ new <=> StartsNew(table, before, c, f)
      /\ live = LiveOf(table, before, f, new)
      /\ evs = EventsOf(events, live, c, f, new)
      /\ taken = TakenOf(evs, c, f, g)
      /\ after = AfterPiece(table, ErasOf(before, f, new), taken, live)
      /\ last = UpdateEras(ErasOf(before, f, new), Inserted(table, after))
  BY DEF PieceIs
<1>2. Level3Sound(table, before, f, rep)
  BY DEF Sound
<1>3. /\ RowsSound(table, f) /\ Linked(table) /\ Replays(table, before, f, rep)
      /\ ErasSound(table, before, f) /\ DOMAIN before \subseteq 1..f
  BY <1>2 DEF Level3Sound, ErasSound
<1>4. PieceTaken(table, before, events, evs, taken, c, f, g, rep, new)
  BY <1>1, TakenOfPiece
<1> DEFINE ers == ErasOf(before, f, new)
           base == BaseOf(rep, f, new)
<1>5. LiveFits(table, before, live, ers, rep, f, new)
  BY <1>0, <1>1, <1>2, LiveOfPiece
<1>6. /\ TakenSound(taken, f, g) /\ evs \ taken = Later(events, g)
      /\ DOMAIN ers # {} => AllFollow(taken, base, rep, f, g)
  BY <1>1, <1>4 DEF PieceTaken, Takes
<1>7. /\ LiveSound(table, live) /\ LiveFrom(table, ers, live, f) /\ Started(before, ers, f)
      /\ DOMAIN ers # {} => Starting(live, base)
  BY <1>5 DEF LiveFits
<1> HIDE DEF ers, base
<1>8. after = AfterPiece(table, ers, taken, live) /\ last = UpdateEras(ers, Inserted(table, after))
  BY <1>1 DEF ers
<1>17. OrderKept(table, taken) /\ OfStream(taken, events, c)
  BY <1>1, TakenKept
<1>9. /\ AllCaptured(table, after, f, g)
      /\ \A o \in Orders : OrderCaptured(table, after, taken, live, o, f, g)
  BY <1>0, <1>3, <1>6, <1>7, <1>8, <1>17, PieceCaptured
<1>10. RowsSound(after, g)
  BY <1>0, <1>3, <1>9, RowsAfter
<1>11. Linked(after)
  BY <1>0, <1>3, <1>9, LinkedAfter
<1>12. Replays(after, ers, g, rep)
  BY <1>0, <1>3, <1>6, <1>7, <1>8, <1>17, ReplaysAfter
<1>13. ErasSound(after, last, g) /\ DOMAIN last = DOMAIN ers
  BY <1>0, <1>3, <1>7, <1>8, <1>9, ErasAfter
<1>14. Replays(after, last, g, rep)
  BY <1>12, <1>13, SameEras
<1>15. LastRowsKept(table, before, after, last, f, new)
  <2>1. DOMAIN last = DOMAIN ErasOf(before, f, new)
    BY <1>13 DEF ers
  <2>. QED
    BY <1>0, <1>3, <1>9, <2>1, LastRowsAfter
<1>16. Level3Sound(after, last, g, rep)
  BY <1>10, <1>11, <1>13, <1>14 DEF Level3Sound
<1>18. StampsSound(after, Later(events, g), chans)
  <2>1. LatestSound(taken)
    BY <1>6, <1>17, Latest
  <2>2. live \subseteq table /\ after \subseteq RawRows
    BY <1>7, <1>9 DEF LiveSound, AllCaptured
  <2>3. c \in chans /\ c.start <= g
    <3>1. c \in chans /\ c.start <= f + 1
      BY DEF Piece
    <3>2. c.start \in Nat
      BY <3>1, TableAssumption DEF Sound, ChannelsSound
    <3>. QED
      BY <1>0, <3>1, <3>2
  <2>. QED
    BY <1>9, <1>17, <2>1, <2>2, <2>3, StampsAfter DEF Sound
<1>. QED
  BY <1>6, <1>15, <1>16, <1>18 DEF PieceDone

LEMMA PieceSound ==
    ASSUME NEW now \in 0..MaxTime, NEW f \in 0..now, NEW g \in 0..now, NEW table, NEW before,
           NEW events, NEW chans, NEW from, NEW rep,
           Sound(table, before, events, chans, f, from, now, rep), NEW c, Piece(chans, c, f, g),
           NEW new \in BOOLEAN, NEW live, NEW evs, NEW taken, NEW after, NEW last,
           PieceIs(table, before, events, c, f, g, new, live, evs, taken, after, last)
    PROVE  Sound(after, last, evs \ taken, chans, g, from, now, rep)
<1>0. f \in Nat /\ g \in Nat /\ now \in Nat /\ f <= g
  <2>1. now \in Nat
    BY TableAssumption
  <2>. QED
    BY <2>1 DEF Piece
<1>1. /\ PieceDone(table, before, events, f, g, new, evs, taken, after, last, rep)
      /\ StampsSound(after, Later(events, g), chans)
  BY PieceLoads
<1>2. Level3Sound(after, last, g, rep) /\ evs \ taken = Later(events, g)
  BY <1>1 DEF PieceDone
<1>3. /\ Level3Sound(table, before, f, rep) /\ StreamSound(events, chans, f, now, rep)
      /\ ChannelsSound(chans, now) /\ MonthsReached(table, before, chans, f)
      /\ MonthStartsQuiet(events, from) /\ SessionsShow(chans, f, from, rep)
  BY DEF Sound
<1>4. StreamSound(Later(events, g), chans, g, now, rep)
  BY <1>0, <1>3, StreamLater
<1>5. MonthsReached(after, last, chans, g)
  <2>1. after \subseteq Rows
    BY <1>2 DEF Level3Sound, RowsSound
  <2>2. LastRowsKept(table, before, after, last, f, new)
    BY <1>1 DEF PieceDone
  <2>3. new <=> StartsNew(table, before, c, f)
    BY DEF PieceIs
  <2>. QED
    BY <1>3, <2>1, <2>2, <2>3, MonthsAfter
<1>6. MonthStartsQuiet(Later(events, g), from)
  BY <1>3 DEF MonthStartsQuiet, Later
<1>7. SessionsShow(chans, g, from, rep)
  <2>1. \A c1 \in chans : c1.start \in Nat
    BY <1>0, <1>3 DEF ChannelsSound
  <2>2. \A c1 \in chans : g < c1.start => f < c1.start
    BY <1>0, <2>1
  <2>. QED
    BY <1>3, <2>2 DEF SessionsShow
<1>. QED
  BY <1>1, <1>2, <1>3, <1>4, <1>5, <1>6, <1>7 DEF Sound

-----------------------------------------------------------------------------
(***************************************************************************)
(* The first of the channels left goes on where the load has got to.       *)
(***************************************************************************)
EndOf(chans, c, to) == IF ChannelEnd(c, chans) < to THEN ChannelEnd(c, chans) ELSE to
GoesOnAt(chans, f, from, to) ==
    f < to => \E c \in chans : Covers(chans, c, f + 1) /\ (c.start = f + 1 \/ f = from - 1)
NextPiece(chans, c, f, from, to, now) ==
    LET g == EndOf(chans, c, to)
    IN  /\ Piece(chans, c, f, g) /\ g \in 0..now /\ from - 1 <= g /\ g <= to
        /\ f + 1 = IF c.start > from THEN c.start ELSE from
        /\ c.start \in from..to <=> c.start = f + 1
        /\ Left(chans, f, to) \ {c} = Left(chans, g, to)
        /\ GoesOnAt(chans, g, from, to)
        /\ c.start = from => f + 1 = from

LEMMA ChannelPiece ==
    ASSUME NEW now \in 0..MaxTime, NEW chans, ChannelsSound(chans, now), NEW from \in 1..now,
           NEW to \in Int, from <= to, to <= now, NEW f \in 0..now, from - 1 <= f, f <= to,
           GoesOnAt(chans, f, from, to),
           NEW c \in Left(chans, f, to), \A x \in Left(chans, f, to) : c.start <= x.start
    PROVE  NextPiece(chans, c, f, from, to, now)
<1> DEFINE g == EndOf(chans, c, to)
<1>0. f \in Nat /\ from \in Nat /\ now \in Nat /\ to \in Nat /\ MaxTime \in Nat /\ now <= MaxTime
  <2>1. now \in Nat /\ MaxTime \in Nat
    BY TableAssumption
  <2>. QED
    BY <2>1
<1>1. \A x \in chans : /\ EndIs(chans, x) /\ x.start \in Nat /\ ChannelEnd(x, chans) \in Nat
                       /\ x.start <= ChannelEnd(x, chans)
  <2>1. \A x \in chans : EndIs(chans, x)
    BY ChannelEndIs
  <2>2. \A x \in chans : x.start \in Times
    BY <2>1 DEF EndIs
  <2>. QED
    BY <2>1, <2>2, TimesAre DEF EndIs
<1>2. c \in chans /\ f < to /\ c.start <= to /\ f < ChannelEnd(c, chans)
  BY DEF Left
<1>3. PICK k \in chans : Covers(chans, k, f + 1) /\ (k.start = f + 1 \/ f = from - 1)
  BY <1>2 DEF GoesOnAt
<1>4. k.start <= f + 1 /\ f + 1 <= ChannelEnd(k, chans)
  BY <1>3 DEF Covers
<1>5. k \in Left(chans, f, to)
  BY <1>0, <1>1, <1>2, <1>4 DEF Left
<1>6. c.start <= f + 1
  BY <1>0, <1>1, <1>2, <1>4, <1>5
<1>7. c = k
  <2>1. Covers(chans, c, f + 1) /\ f + 1 \in Nat
    BY <1>0, <1>1, <1>2, <1>6 DEF Covers
  <2>. QED
    BY <1>2, <1>3, <2>1, OneCovers
<1>8. c.start = f + 1 \/ f = from - 1
  BY <1>3, <1>7
<1>9. f + 1 = IF c.start > from THEN c.start ELSE from
  BY <1>0, <1>1, <1>2, <1>6, <1>8
<1>10. c.start \in from..to <=> c.start = f + 1
  BY <1>0, <1>1, <1>2, <1>6, <1>8
<1>11. /\ g \in Nat /\ f < g /\ g <= to /\ g <= ChannelEnd(c, chans) /\ g \in 0..now
       /\ g = to \/ (g = ChannelEnd(c, chans) /\ g < to)
       /\ from - 1 <= g
  BY <1>0, <1>1, <1>2 DEF EndOf
<1>12. Piece(chans, c, f, g)
  BY <1>2, <1>6, <1>11 DEF Piece
<1> HIDE DEF g
<1>13. \A x \in chans : c.start < x.start => ChannelEnd(c, chans) < x.start
  BY <1>1, <1>2 DEF EndIs
<1>14. Left(chans, f, to) \ {c} = Left(chans, g, to)
  <2>1. ASSUME NEW x \in Left(chans, f, to), x # c PROVE x \in Left(chans, g, to)
    <3>1. x \in chans /\ x.start <= to /\ c.start <= x.start
      BY DEF Left
    <3>2. c.start # x.start
      BY <1>2, <2>1, <3>1 DEF ChannelsSound
    <3>3. ChannelEnd(c, chans) < x.start
      BY <1>1, <1>2, <1>13, <3>1, <3>2
    <3>. QED
      BY <1>0, <1>1, <1>2, <1>11, <3>1, <3>3 DEF Left
  <2>2. ASSUME NEW x \in Left(chans, g, to) PROVE x \in Left(chans, f, to) /\ x # c
    <3>1. x \in chans /\ g < to /\ x.start <= to /\ g < ChannelEnd(x, chans)
      BY DEF Left
    <3>2. x # c
      BY <1>0, <1>1, <1>11, <3>1
    <3>. QED
      BY <1>0, <1>1, <1>11, <3>1, <3>2 DEF Left
  <2>. QED
    BY <2>1, <2>2
<1>15. GoesOnAt(chans, g, from, to)
  <2>1. SUFFICES ASSUME g < to
                 PROVE  \E x \in chans : Covers(chans, x, g + 1) /\ (x.start = g + 1 \/ g = from - 1)
    BY DEF GoesOnAt
  <2>2. g = ChannelEnd(c, chans) /\ g # Infinity
    BY <1>0, <1>11, <2>1 DEF Infinity
  <2>3. PICK x \in chans : x.start = g + 1
    BY <1>1, <1>2, <2>2 DEF EndIs
  <2>4. Covers(chans, x, g + 1)
    BY <1>1, <1>11, <2>3 DEF Covers
  <2>. QED
    BY <2>3, <2>4
<1>16. c.start = from => f + 1 = from
  BY <1>0, <1>1, <1>2, <1>9
<1>17. from - 1 <= g
  BY <1>0, <1>11
<1>. QED
  BY <1>9, <1>10, <1>11, <1>12, <1>14, <1>15, <1>16, <1>17 DEF NextPiece, g

-----------------------------------------------------------------------------
(***************************************************************************)
(* A channel is loaded.                                                    *)
(***************************************************************************)
RunningFrom == IF load.from <= load.to THEN load.from ELSE 0
LoadedTo == IF load.to > loaded THEN load.to ELSE loaded
Reached(f) ==
    GotTo(f) /\ Sound(level3, eras, transient, channels, f, RunningFrom, clock, replay)
MonthBegun ==
    IF load.from <= load.to
    THEN \/ MonthEnds(transient, load.to)
         \/ /\ Month(load.from) = Month(load.to)
            /\ HasRowsAt(level3, eras, load.to) \/ \E c \in load.left : c.start = load.from
    ELSE MonthKept(level3, eras, transient, LoadedTo)
SavedSound ==
    /\ Sound(saved.level3, saved.eras, saved.transient, saved.channels, loaded, 0, clock, replay)
    /\ MonthKept(saved.level3, saved.eras, saved.transient, loaded)
LoadTyped ==
    /\ load \in [running : {TRUE}, from : 1..clock, to : Int, left : SUBSET channels]
    /\ load.to <= clock /\ loaded < load.from /\ saved.channels # {}

LEMMA RunningIs == Running <=> /\ LoadTyped /\ SavedSound /\ MonthBegun
                               /\ \E f \in 0..clock : Reached(f)
BY DEF Running, LoadTyped, SavedSound, MonthBegun, Reached, RunningFrom, LoadedTo

\* What CaptureChannel makes of the channel c.
CaptureStart(c) == IF c.start > load.from THEN c.start ELSE load.from
CaptureEnd(c) == IF ChannelEnd(c, channels) < load.to THEN ChannelEnd(c, channels) ELSE load.to
CaptureBegins(c) == c.start \in load.from..load.to
CaptureNew(c) ==
    CaptureBegins(c) /\ StartsEra(LiveBefore(level3, eras, CaptureStart(c)), CaptureStart(c))
CaptureOpen(c) == IF CaptureNew(c) THEN {} ELSE OpenOrders(CaptureStart(c))
CaptureEras(c) ==
    IF CaptureNew(c)
    THEN [e \in DOMAIN eras \union {CaptureStart(c)} |-> IF e \in DOMAIN eras THEN eras[e] ELSE Null]
    ELSE eras
CaptureEvents(c) ==
    LET snapshot == {e \in transient : e.channel = c.channel /\ e.ts = CaptureStart(c)}
    IN  IF CaptureBegins(c) /\ ~CaptureNew(c)
        THEN (transient \ snapshot) \union DiffOrderBooks(CaptureOpen(c), snapshot)
        ELSE transient
CaptureTaken(c) ==
    {e \in CaptureEvents(c) : e.channel = c.channel /\ e.ts \in CaptureStart(c)..CaptureEnd(c)}
CaptureRows(c) == RowsToInsert(LatestOnly(CaptureTaken(c)) \union CaptureOpen(c))
Captures(c) ==
    /\ c \in load.left /\ \A x \in load.left : c.start <= x.start
    /\ transient' = CaptureEvents(c) \ CaptureTaken(c)
    /\ level3' = InsertRows(level3, CaptureEras(c), CaptureRows(c))
    /\ eras' = UpdateEras(CaptureEras(c), Inserted(level3, level3'))
    /\ load' = [load EXCEPT !.left = @ \ {c}]
    /\ UNCHANGED << clock, book, channels, saved, failed, loaded, replay >>

LEMMA CaptureChannelIs ==
    ASSUME CaptureChannel
    PROVE  load.running /\ \E c : Captures(c)
<1>1. PICK c \in load.left :
        /\ \A x \in load.left : c.start <= x.start
        /\ transient' = CaptureEvents(c) \ CaptureTaken(c)
        /\ level3' = InsertRows(level3, CaptureEras(c), CaptureRows(c))
        /\ eras' = UpdateEras(CaptureEras(c), Inserted(level3, level3'))
        /\ load' = [load EXCEPT !.left = @ \ {c}]
  BY DEF CaptureChannel, CaptureRows, CaptureTaken, CaptureEvents, CaptureEras, CaptureOpen,
         CaptureNew, CaptureBegins, CaptureEnd, CaptureStart
<1>2. load.running /\ UNCHANGED << clock, book, channels, saved, failed, loaded, replay >>
  BY DEF CaptureChannel, history
<1>. QED
  BY <1>1, <1>2 DEF Captures

\* The piece that the channel is.
LEMMA CaptureIsPiece ==
    ASSUME NEW c, Captures(c), load.from <= load.to, NEW f \in 0..clock, Reached(f), LoadTyped,
           clock \in 0..MaxTime
    PROVE  /\ NextPiece(channels, c, f, load.from, load.to, clock)
           /\ PieceIs(level3, eras, transient, c, f, EndOf(channels, c, load.to), CaptureNew(c),
                      LiveOf(level3, eras, f, CaptureNew(c)), CaptureEvents(c), CaptureTaken(c),
                      level3', eras')
<1>1. /\ load.from - 1 <= f /\ f <= load.to /\ load.left = Left(channels, f, load.to)
      /\ GoesOnAt(channels, f, load.from, load.to)
      /\ ChannelsSound(channels, clock)
  BY DEF Reached, GotTo, Sound, GoesOnAt
<1>2. /\ load.from \in 1..clock /\ load.to \in Int /\ load.to <= clock
      /\ c \in Left(channels, f, load.to)
      /\ \A x \in Left(channels, f, load.to) : c.start <= x.start
  BY <1>1 DEF LoadTyped, Captures
<1>3. NextPiece(channels, c, f, load.from, load.to, clock)
  BY <1>1, <1>2, ChannelPiece
<1>4. /\ CaptureStart(c) = f + 1 /\ CaptureEnd(c) = EndOf(channels, c, load.to)
      /\ CaptureBegins(c) <=> c.start = f + 1
  BY <1>3 DEF NextPiece, CaptureStart, CaptureEnd, CaptureBegins, EndOf
<1>5. CaptureNew(c) <=> StartsNew(level3, eras, c, f)
  BY <1>4 DEF CaptureNew, StartsNew
<1>6. PICK new \in BOOLEAN : new <=> CaptureNew(c)
  OBVIOUS
<1>7. CaptureNew(c) = new
  BY <1>6 DEF CaptureNew
<1>8. OpenOrders(f + 1) = OpenEvents(LiveBefore(level3, eras, f + 1))
  BY DEF OpenOrders, OpenEvents, OpenEvent
<1>9. CaptureOpen(c) = OpenEvents(LiveOf(level3, eras, f, new))
  <2>1. OpenEvents({}) = {}
    BY DEF OpenEvents
  <2>. QED
    BY <1>4, <1>7, <1>8, <2>1 DEF CaptureOpen, LiveOf
<1>10. CaptureEras(c) = ErasOf(eras, f, new)
  BY <1>4, <1>7 DEF CaptureEras, ErasOf
<1>11. CaptureEvents(c) = EventsOf(transient, LiveOf(level3, eras, f, new), c, f, new)
  BY <1>4, <1>7, <1>9 DEF CaptureEvents, EventsOf, WithDiff, SnapshotOf
<1>12. CaptureTaken(c) = TakenOf(CaptureEvents(c), c, f, EndOf(channels, c, load.to))
  BY <1>4 DEF CaptureTaken, TakenOf
<1>13. CaptureRows(c) = RowsToInsert(AllEvents(CaptureTaken(c), LiveOf(level3, eras, f, new)))
  BY <1>9 DEF CaptureRows, AllEvents
<1>14. /\ level3' = InsertRows(level3, CaptureEras(c), CaptureRows(c))
       /\ eras' = UpdateEras(CaptureEras(c), Inserted(level3, level3'))
  BY DEF Captures
<1>15. /\ level3' = AfterPiece(level3, ErasOf(eras, f, new), CaptureTaken(c),
                               LiveOf(level3, eras, f, new))
       /\ eras' = UpdateEras(ErasOf(eras, f, new), Inserted(level3, level3'))
  BY <1>10, <1>13, <1>14 DEF AfterPiece
<1>. QED
  BY <1>3, <1>5, <1>7, <1>11, <1>12, <1>15 DEF PieceIs

\* The month of a load has its row after its first channel.
LEMMA HasRowsAfter ==
    ASSUME NEW f \in 0..MaxTime, f < MaxTime, NEW table, NEW before, NEW rep,
           Level3Sound(table, before, f, rep), NEW c, NEW new \in BOOLEAN,
           new <=> StartsNew(table, before, c, f), NEW after, after \subseteq Rows,
           NEW last, LastRowsKept(table, before, after, last, f, new),
           NEW from \in Nat, NEW to \in Nat, from <= f + 1, Month(from) = Month(to),
           HasRowsAt(table, before, to) \/ (c.start = from /\ from = f + 1)
    PROVE  HasRowsAt(after, last, to)
<1>0. f \in Nat
  BY TableAssumption
<1>1. SUFFICES ASSUME LastRows(after, last) # {}
               PROVE  \E r \in LastRows(after, last) : Month(to) <= Month(r.mts)
  BY DEF HasRowsAt
<1>2. \A x \in LastRows(after, last) : x.mts \in Nat
  BY RowTimes DEF LastRows
<1>3. ASSUME NEW x \in LastRows(after, last), f < x.mts PROVE Month(to) <= Month(x.mts)
  <2>1. from <= x.mts /\ x.mts \in Int /\ from \in Int
    BY <1>0, <1>2, <1>3
  <2>. QED
    BY <2>1, MonthOrder
<1>4. CASE \A r \in LastRows(after, last) : ~(f < r.mts)
  <2>1. ~new /\ LastRows(table, before) # {}
    BY <1>1, <1>4 DEF LastRowsKept
  <2>2. \E y \in LastRows(table, before) : Month(to) <= Month(y.mts)
    <3>1. CASE HasRowsAt(table, before, to)
      BY <2>1, <3>1 DEF HasRowsAt
    <3>2. CASE c.start = from /\ from = f + 1
      <4>1. ~StartsEra(LiveBefore(table, before, f + 1), f + 1)
        BY <2>1, <3>2 DEF StartsNew
      <4>2. PICK y \in LiveBefore(table, before, f + 1) : Month(y.mts) = Month(f + 1)
        BY <4>1, GoesOn
      <4>3. RowsSound(table, f) /\ DOMAIN before \subseteq 1..f
        BY DEF Level3Sound, ErasSound
      <4>4. y \in LastRows(table, before)
        BY <4>2, <4>3, LiveInLastEra
      <4>5. Month(to) \in Int
        <5>1. to \in Int /\ to <= to
          OBVIOUS
        <5>. QED
          BY <5>1, MonthOrder
      <4>. QED
        BY <3>2, <4>2, <4>4, <4>5
    <3>. QED
      BY <3>1, <3>2
  <2>3. PICK y \in LastRows(table, before) : Month(to) <= Month(y.mts)
    BY <2>2
  <2>4. PICK x \in LastRows(after, last) : x.mts = y.mts
    BY <2>1 DEF LastRowsKept
  <2>. QED
    BY <2>3, <2>4
<1>. QED
  BY <1>3, <1>4

\* Nothing to insert.
LEMMA InsertNothing ==
    ASSUME NEW table, NEW ers
    PROVE  InsertRows(table, ers, {}) = table
<1>0. PICK g : InsertSteps(g, table, ers, {})
  BY InsertsInSteps
<1>1. /\ g[0] = table
      /\ \A t \in Times : g[t] = InsertInstant(g[t - 1], ers, Instant({}, t))
      /\ InsertRows(table, ers, {}) = g[MaxTime]
  BY <1>0 DEF InsertSteps
<1>2. MaxTime \in Nat /\ Times = 1..MaxTime
  BY TableAssumption DEF Times
<1>3. \A x : InsertInstant(x, ers, {}) = x
  BY DEF InsertInstant
<1>4. \A t \in Times : g[t] = g[t - 1]
  <2>1. \A t : Instant({}, t) = {}
    BY DEF Instant
  <2>. QED
    BY <1>1, <1>3, <2>1
<1>5. \A t \in 0..MaxTime : g[t] = table
  <2> DEFINE T == {t \in 0..MaxTime : g[t] # table}
  <2>1. SUFFICES ASSUME T # {} PROVE FALSE
    OBVIOUS
  <2>2. PICK t \in T : \A k \in T : t <= k
    <3>1. T \in SUBSET Nat
      BY <1>2
    <3>. QED
      BY <2>1, <3>1, NatMinimum
  <2>3. t \in 0..MaxTime /\ g[t] # table /\ t # 0
    BY <1>1
  <2>4. t \in Times /\ t - 1 \in 0..MaxTime /\ ~(t <= t - 1)
    BY <1>2, <2>3
  <2>5. g[t - 1] = table
    BY <2>2, <2>4
  <2>. QED
    BY <1>4, <2>3, <2>4, <2>5
<1>6. MaxTime \in 0..MaxTime
  BY <1>2
<1>. QED
  BY <1>1, <1>5, <1>6

LEMMA OpenNothing ==
    ASSUME NEW events, \A e \in events : IsOpen(e)
    PROVE  RowsToInsert(events) = {}
<1>1. \A es, e : IsOpen(e) => ~IsInserted(es, e)
  BY DEF IsOpen, IsInserted
<1>2. \A o : {RowOf({x \in events : x.id = o}, e) :
                e \in {y \in {x \in events : x.id = o} : IsInserted({x \in events : x.id = o}, y)}} = {}
  BY <1>1
<1>. QED
  BY <1>2 DEF RowsToInsert

\* A load whose end is before its start.
LEMMA CaptureNothing ==
    ASSUME NEW c, Captures(c), ~(load.from <= load.to), LoadTyped, clock \in 0..MaxTime,
           NEW f, Reached(f)
    PROVE  level3' = level3 /\ eras' = eras /\ transient' = transient
<1>1. /\ load.from \in Int /\ load.to \in Int /\ load.to < load.from
      /\ c \in channels /\ c.start <= load.to
      /\ ChannelsSound(channels, clock)
  <2>1. clock \in Nat
    BY TableAssumption
  <2>2. load.from \in 1..clock /\ load.to \in Int
    BY DEF LoadTyped
  <2>3. c \in channels /\ c.start <= load.to /\ ChannelsSound(channels, clock)
    BY DEF Captures, Reached, GotTo, Sound
  <2>4. \A a \in 1..clock : a \in Int
    BY <2>1
  <2>. QED
    BY <2>2, <2>3, <2>4
<1>2. EndIs(channels, c)
  BY <1>1, ChannelEndIs
<1>3. c.start \in Int /\ ChannelEnd(c, channels) \in Int
  <2>1. c.start \in Times /\ ChannelEnd(c, channels) \in Nat
    BY <1>2 DEF EndIs
  <2>2. c.start \in Nat
    BY <2>1, TimesAre
  <2>3. \A n \in Nat : n \in Int
    OBVIOUS
  <2>. QED
    BY <2>1, <2>2, <2>3
<1>4. CaptureStart(c) = load.from /\ CaptureEnd(c) \in Int /\ CaptureEnd(c) <= load.to
  BY <1>1, <1>3 DEF CaptureStart, CaptureEnd
<1>5. \A t : t \notin CaptureStart(c)..CaptureEnd(c) /\ t \notin load.from..load.to
  BY <1>1, <1>4
<1>6. ~CaptureNew(c) /\ CaptureEvents(c) = transient
  BY <1>5 DEF CaptureNew, CaptureBegins, CaptureEvents
<1>7. CaptureEras(c) = eras
  BY <1>6 DEF CaptureEras
<1>8. CaptureTaken(c) = {}
  BY <1>5 DEF CaptureTaken
<1>9. CaptureRows(c) = {}
  <2>1. \A e \in CaptureOpen(c) : IsOpen(e)
    BY <1>6 DEF CaptureOpen, OpenOrders, Event, IsOpen
  <2>2. LatestOnly(CaptureTaken(c)) \union CaptureOpen(c) = CaptureOpen(c)
    BY <1>8 DEF LatestOnly
  <2>. QED
    BY <2>1, <2>2, OpenNothing DEF CaptureRows
<1>10. level3' = level3
  BY <1>7, <1>9, InsertNothing DEF Captures
<1>11. Inserted(level3, level3') = {}
  BY <1>10 DEF Inserted
<1>12. eras' = eras
  BY <1>7, <1>11 DEF Captures, UpdateEras
<1>13. transient' = transient
  BY <1>6, <1>8 DEF Captures
<1>. QED
  BY <1>10, <1>12, <1>13

LEMMA CaptureReaches ==
    ASSUME NEW c, Captures(c), load.from <= load.to, LoadTyped, clock \in 0..MaxTime, MonthBegun,
           NEW f \in 0..clock, Reached(f), load.running
    PROVE  MonthBegun' /\ \E g \in 0..clock : Reached(g)'
<1>0. PICK g : g = EndOf(channels, c, load.to)
  OBVIOUS
<1> DEFINE new == CaptureNew(c)
           live == LiveOf(level3, eras, f, new)
           evs == CaptureEvents(c)
           taken == CaptureTaken(c)
<1>1. /\ NextPiece(channels, c, f, load.from, load.to, clock)
      /\ PieceIs(level3, eras, transient, c, f, g, new, live, evs, taken, level3', eras')
  BY <1>0, CaptureIsPiece
<1>2. new \in BOOLEAN
  BY DEF CaptureNew
<1>3. Sound(level3, eras, transient, channels, f, load.from, clock, replay)
  BY DEF Reached, RunningFrom
<1>4. /\ Piece(channels, c, f, g) /\ g \in 0..clock /\ load.from - 1 <= g /\ g <= load.to
      /\ Left(channels, f, load.to) \ {c} = Left(channels, g, load.to)
      /\ GoesOnAt(channels, g, load.from, load.to)
      /\ f + 1 = IF c.start > load.from THEN c.start ELSE load.from
      /\ c.start = load.from => f + 1 = load.from
  BY <1>0, <1>1 DEF NextPiece
<1>5. /\ transient' = evs \ taken
      /\ load' = [load EXCEPT !.left = @ \ {c}]
      /\ UNCHANGED << clock, book, channels, saved, failed, loaded, replay >>
  BY DEF Captures
<1>6. /\ load'.from = load.from /\ load'.to = load.to /\ load'.left = load.left \ {c}
  BY <1>5 DEF LoadTyped
<1> HIDE DEF new, live, evs, taken
<1>7. Sound(level3', eras', transient', channels, g, load.from, clock, replay)
  BY <1>1, <1>2, <1>3, <1>4, <1>5, PieceSound
<1>8. PieceDone(level3, eras, transient, f, g, new, evs, taken, level3', eras', replay)
  BY <1>1, <1>2, <1>3, <1>4, PieceLoads
<1>9. load.left = Left(channels, f, load.to)
  BY DEF Reached, GotTo
<1>10. Reached(g)'
  <2>1. GotTo(g)'
    <3>1. /\ load'.from <= load'.to /\ load'.from - 1 <= g /\ g <= load'.to
          /\ load'.left = Left(channels', g, load'.to)
      BY <1>4, <1>5, <1>6, <1>9
    <3>2. g < load'.to => \E k \in channels' : /\ Covers(channels', k, g + 1)
                                               /\ k.start = g + 1 \/ g = load'.from - 1
      BY <1>4, <1>5, <1>6 DEF GoesOnAt
    <3>. QED
      BY <3>1, <3>2 DEF GotTo
  <2>2. RunningFrom' = load.from
    BY <1>6 DEF RunningFrom
  <2>3. Sound(level3', eras', transient', channels', g, RunningFrom', clock', replay')
    BY <1>5, <1>7, <2>2
  <2>. QED
    BY <2>1, <2>3 DEF Reached
<1>11. /\ load.from \in Nat /\ load.to \in Nat /\ f \in Nat /\ f \in 0..MaxTime /\ f < MaxTime
       /\ g \in Nat /\ load.from <= f + 1
  <2>1. clock \in Nat /\ MaxTime \in Nat
    BY TableAssumption
  <2>2. load.from \in 1..clock /\ load.to \in Int
    BY DEF LoadTyped
  <2>3. f < g
    BY <1>4 DEF Piece
  <2>4. c.start \in Nat
    <3>1. c \in channels /\ ChannelsSound(channels, clock)
      BY <1>3, <1>4 DEF Piece, Sound
    <3>2. c.start \in 1..clock
      BY <3>1 DEF ChannelsSound
    <3>. QED
      BY <2>1, <3>2
  <2>5. f \in Nat /\ f \in 0..MaxTime /\ f < MaxTime /\ g \in Nat
    BY <1>4, <2>1, <2>3
  <2>6. load.from \in Nat /\ load.to \in Nat
    BY <2>1, <2>2
  <2>7. load.from <= f + 1
    BY <1>4, <2>4, <2>5, <2>6
  <2>. QED
    BY <2>5, <2>6, <2>7
<1>12. CASE MonthEnds(transient, load.to)
  <2>1. MonthEnds(transient', load.to)
    <3>1. CASE Month(load.to) < Month(load.to + 1)
      BY <3>1 DEF MonthEnds
    <3>2. ASSUME NEW e \in transient, load.to < e.ts, Month(load.to) < Month(e.ts - Delay)
          PROVE  MonthEnds(transient', load.to)
      <4>1. e.ts \in Nat
        BY <1>3 DEF Sound, StreamSound
      <4>2. g < e.ts
        BY <1>4, <1>11, <3>2, <4>1
      <4>3. e \in transient'
        BY <1>5, <1>8, <4>2 DEF PieceDone, Later
      <4>. QED
        BY <3>2, <4>3 DEF MonthEnds
    <3>. QED
      BY <1>12, <3>1, <3>2 DEF MonthEnds
  <2>2. MonthBegun'
    BY <1>6, <2>1 DEF MonthBegun
  <2>. QED
    BY <1>4, <1>10, <2>2
<1>13. CASE ~MonthEnds(transient, load.to)
  <2>1. /\ Month(load.from) = Month(load.to)
        /\ HasRowsAt(level3, eras, load.to) \/ \E k \in load.left : k.start = load.from
    BY <1>13 DEF MonthBegun
  <2>2. CASE \E k \in load.left \ {c} : k.start = load.from
    <3>1. MonthBegun'
      BY <1>6, <2>1, <2>2 DEF MonthBegun
    <3>. QED
      BY <1>4, <1>10, <3>1
  <2>3. CASE ~ \E k \in load.left \ {c} : k.start = load.from
    <3>1. HasRowsAt(level3, eras, load.to) \/ (c.start = load.from /\ load.from = f + 1)
      BY <1>4, <2>1, <2>3
    <3>2. level3' \subseteq Rows
      BY <1>7 DEF Sound, Level3Sound, RowsSound
    <3>3. LastRowsKept(level3, eras, level3', eras', f, new)
      BY <1>8 DEF PieceDone
    <3>4. new <=> StartsNew(level3, eras, c, f)
      BY <1>1 DEF PieceIs
    <3>5. Level3Sound(level3, eras, f, replay)
      BY <1>3 DEF Sound
    <3>6. HasRowsAt(level3', eras', load.to)
      BY <1>2, <1>11, <2>1, <3>1, <3>2, <3>3, <3>4, <3>5, HasRowsAfter
    <3>7. MonthBegun'
      BY <1>6, <2>1, <3>6 DEF MonthBegun
    <3>. QED
      BY <1>4, <1>10, <3>7
  <2>. QED
    BY <2>2, <2>3
<1>. QED
  BY <1>12, <1>13

LEMMA CaptureKeeps ==
    ASSUME IInv, CaptureChannel
    PROVE  IInv'
<1>1. PICK c : Captures(c)
  BY CaptureChannelIs
<1>2. load.running
  BY CaptureChannelIs
<1>3. HistorySound /\ Running
  BY <1>2 DEF IInv
<1>4. /\ load' = [load EXCEPT !.left = @ \ {c}]
      /\ UNCHANGED << clock, book, channels, saved, failed, loaded, replay >>
  BY <1>1 DEF Captures
<1>5. LoadTyped /\ SavedSound /\ MonthBegun
  BY <1>3, RunningIs
<1>6. PICK f \in 0..clock : Reached(f)
  BY <1>3, RunningIs
<1>7. HistorySound'
  BY <1>3, <1>4 DEF HistorySound
<1>8. LoadTyped'
  BY <1>4, <1>5 DEF LoadTyped
<1>9. SavedSound'
  BY <1>4, <1>5 DEF SavedSound
<1>10. clock \in 0..MaxTime
  BY <1>3 DEF HistorySound
<1>11. MonthBegun' /\ \E g \in 0..clock' : Reached(g)'
  <2>1. CASE load.from <= load.to
    BY <1>1, <1>2, <1>4, <1>5, <1>6, <1>10, <2>1, CaptureReaches
  <2>2. CASE ~(load.from <= load.to)
    <3>1. level3' = level3 /\ eras' = eras /\ transient' = transient
      BY <1>1, <1>5, <1>6, <1>10, <2>2, CaptureNothing
    <3>2. /\ load'.from = load.from /\ load'.to = load.to /\ load'.left = load.left \ {c}
      BY <1>4, <1>5 DEF LoadTyped
    <3>3. LoadedTo' = LoadedTo /\ RunningFrom' = RunningFrom
      BY <1>4, <3>2 DEF LoadedTo, RunningFrom
    <3>4. MonthBegun'
      BY <1>5, <2>2, <3>1, <3>2, <3>3 DEF MonthBegun
    <3>5. GotTo(f)'
      BY <1>4, <1>6, <2>2, <3>2 DEF Reached, GotTo
    <3>6. Sound(level3', eras', transient', channels', f, RunningFrom', clock', replay')
      BY <1>4, <1>6, <3>1, <3>3 DEF Reached
    <3>7. Reached(f)'
      BY <3>5, <3>6 DEF Reached
    <3>. QED
      BY <1>4, <3>4, <3>7
  <2>. QED
    BY <2>1, <2>2
<1>12. Running'
  BY <1>8, <1>9, <1>11 DEF Running, LoadTyped, SavedSound, MonthBegun, Reached, RunningFrom, LoadedTo
<1>13. load'.running
  BY <1>8 DEF LoadTyped
<1>. QED
  BY <1>7, <1>12, <1>13 DEF IInv

-----------------------------------------------------------------------------
(***************************************************************************)
(* A load ends.                                                            *)
(***************************************************************************)
LEMMA EndCommits ==
    ASSUME LoadTyped, MonthBegun, load.left = {}, clock \in 0..MaxTime, loaded \in 0..clock,
           NEW f \in 0..clock, Reached(f)
    PROVE  /\ LoadedTo \in 0..clock
           /\ Sound(level3, eras, transient, channels, LoadedTo, 0, clock, replay)
           /\ MonthKept(level3, eras, transient, LoadedTo)
<1>0. clock \in Nat /\ load.from \in Nat /\ load.to \in Int /\ loaded \in Nat /\ f \in Nat
      /\ loaded < load.from
  <2>1. clock \in Nat
    BY TableAssumption
  <2>2. load.from \in 1..clock /\ load.to \in Int /\ loaded < load.from
    BY DEF LoadTyped
  <2>. QED
    BY <2>1, <2>2
<1>1. Sound(level3, eras, transient, channels, f, RunningFrom, clock, replay)
  BY DEF Reached
<1>2. CASE load.from <= load.to
  <2>1. /\ load.from - 1 <= f /\ f <= load.to
        /\ load.left = Left(channels, f, load.to)
        /\ f < load.to => \E c \in channels : Covers(channels, c, f + 1)
    BY <1>2 DEF Reached, GotTo
  <2>2. ~(f < load.to)
    <3>1. SUFFICES ASSUME f < load.to PROVE FALSE
      OBVIOUS
    <3>2. PICK c \in channels : Covers(channels, c, f + 1)
      BY <2>1, <3>1
    <3>3. EndIs(channels, c)
      BY <1>1, ChannelEndIs DEF Sound
    <3>4. c.start \in Times /\ ChannelEnd(c, channels) \in Nat
      BY <3>3 DEF EndIs
    <3>5. c.start \in Nat
      BY <3>4, TimesAre
    <3>6. c.start <= load.to /\ f < ChannelEnd(c, channels)
      BY <1>0, <3>1, <3>2, <3>4, <3>5 DEF Covers
    <3>7. c \in Left(channels, f, load.to)
      BY <3>1, <3>6 DEF Left
    <3>. QED
      BY <2>1, <3>7
  <2>3. f = load.to /\ LoadedTo = f
    BY <1>0, <1>2, <2>1, <2>2 DEF LoadedTo
  <2>4. Sound(level3, eras, transient, channels, f, load.from, clock, replay)
    BY <1>1, <1>2 DEF RunningFrom
  <2>5. MonthStartsQuiet(transient, 0)
    <3>1. \A e \in transient : e.ts \in Nat /\ f < e.ts
      BY <2>4 DEF Sound, StreamSound
    <3>2. \A e \in transient : e.ts # load.from
      BY <1>0, <1>2, <2>3, <3>1
    <3>. QED
      BY <2>4, <3>2 DEF Sound, MonthStartsQuiet
  <2>6. SessionsShow(channels, f, 0, replay)
    <3>1. \A c \in channels : c.start \in 1..clock
      BY <2>4 DEF Sound, ChannelsSound
    <3>2. \A c \in channels : f < c.start => c.start # load.from
      BY <1>0, <1>2, <2>3, <3>1
    <3>. QED
      BY <2>4, <3>2 DEF Sound, SessionsShow
  <2>7. Sound(level3, eras, transient, channels, f, 0, clock, replay)
    BY <2>4, <2>5, <2>6 DEF Sound
  <2>8. MonthKept(level3, eras, transient, f)
    BY <1>2, <2>3 DEF MonthBegun, MonthKept
  <2>. QED
    BY <2>3, <2>7, <2>8
<1>3. CASE ~(load.from <= load.to)
  <2>1. f = LoadedTo
    BY <1>3 DEF Reached, GotTo, LoadedTo
  <2>. QED
    BY <1>1, <1>3, <2>1 DEF RunningFrom, MonthBegun
<1>. QED
  BY <1>2, <1>3

LEMMA EndKeeps ==
    ASSUME IInv, EndLoad
    PROVE  IInv'
<1>1. HistorySound /\ Running
  BY DEF IInv, EndLoad
<1>2. LoadTyped /\ SavedSound /\ MonthBegun
  BY <1>1, RunningIs
<1>3. PICK f \in 0..clock : Reached(f)
  BY <1>1, RunningIs
<1>4. load' = NoLoad /\ ~load'.running /\ UNCHANGED << clock, book, replay >>
  BY DEF EndLoad, NoLoad, history
<1>5. clock \in 0..MaxTime /\ loaded \in 0..clock
  BY <1>1 DEF HistorySound
<1>6. CASE load.left = {} /\ Consistent(level3)
  <2>1. loaded' = LoadedTo /\ UNCHANGED << channels, transient, level3, eras, failed >>
    BY <1>6 DEF EndLoad, LoadedTo
  <2>2. /\ LoadedTo \in 0..clock
        /\ Sound(level3, eras, transient, channels, LoadedTo, 0, clock, replay)
        /\ MonthKept(level3, eras, transient, LoadedTo)
    BY <1>2, <1>3, <1>5, <1>6, EndCommits
  <2>3. HistorySound'
    BY <1>1, <1>4, <2>1, <2>2 DEF HistorySound
  <2>4. Sound(level3', eras', transient', channels', loaded', 0, clock', replay')
    BY <1>4, <2>1, <2>2
  <2>5. MonthKept(level3', eras', transient', loaded')
    BY <2>1, <2>2
  <2>. QED
    BY <1>4, <2>3, <2>4, <2>5 DEF IInv
<1>7. CASE ~(load.left = {} /\ Consistent(level3))
  <2>1. /\ channels' = saved.channels /\ transient' = saved.transient
        /\ level3' = saved.level3 /\ eras' = saved.eras
        /\ failed' = TRUE /\ loaded' = loaded
    BY <1>7 DEF EndLoad
  <2>2. HistorySound'
    <3>1. channels' # {}
      BY <1>2, <2>1 DEF LoadTyped
    <3>. QED
      BY <1>1, <1>4, <2>1, <3>1 DEF HistorySound
  <2>3. Sound(level3', eras', transient', channels', loaded', 0, clock', replay')
    BY <1>2, <1>4, <2>1 DEF SavedSound
  <2>4. MonthKept(level3', eras', transient', loaded')
    BY <1>2, <2>1 DEF SavedSound
  <2>. QED
    BY <1>4, <2>2, <2>3, <2>4 DEF IInv
<1>. QED
  BY <1>6, <1>7

-----------------------------------------------------------------------------
(***************************************************************************)
(* The capture process goes on.                                            *)
(***************************************************************************)
Agree(rep, rep2, now) == \A t \in 1..now : rep2[t] = rep[t]
ChannelsGrow(chans, chans2, now) ==
    /\ chans \subseteq chans2
    /\ \A c \in chans2 : c \in chans \/ c.start = now + 1
NewEvent(e, chans2, now) ==
    /\ e.ts = now + 1
    /\ e.stamp \in Int /\ e.stamp <= e.ts
    /\ e.id \in Orders /\ e.no = Null /\ e.local \in LocalTimes /\ StateOf(e) \in States
    /\ e.channel \in 1..MaxChannels
    /\ \E c \in chans2 : c.channel = e.channel /\ Covers(chans2, c, e.ts)
EventsGrow(events, added, chans2, now) ==
    /\ \A e \in added : NewEvent(e, chans2, now)
    /\ \A e, x \in added : e.id = x.id /\ e.local = x.local => e = x
Goes(events, chans, rep, t, o) ==
    IF StartsAt(chans, t) THEN ShowsAll(events, rep, t, o) ELSE Continues(events, rep, t, o)

LEMMA StreamGrows ==
    ASSUME NEW now \in 0..MaxTime, now < MaxTime, NEW f \in 0..now, NEW chans, NEW events, NEW rep,
           ChannelsSound(chans, now), StreamSound(events, chans, f, now, rep),
           NEW rep2, Agree(rep, rep2, now),
           NEW chans2, ChannelsGrow(chans, chans2, now), ChannelsSound(chans2, now + 1),
           NEW added, EventsGrow(events, added, chans2, now),
           \A o \in Orders : Goes(added, chans2, rep2, now + 1, o)
    PROVE  StreamSound(events \union added, chans2, f, now + 1, rep2)
<1> DEFINE events2 == events \union added
<1>0. /\ f \in Nat /\ now \in Nat /\ now + 1 \in 0..MaxTime /\ now + 1 \in Nat
      /\ f < now + 1 /\ now + 1 <= MaxTime
  <2>1. now \in Nat /\ MaxTime \in Nat
    BY TableAssumption
  <2>. QED
    BY <2>1
<1>1. \A e \in events : e.ts \in Nat /\ f < e.ts /\ e.ts <= now
  BY DEF StreamSound
<1>2. \A e \in added : e.ts = now + 1
  BY DEF EventsGrow, NewEvent
\* A channel covers what it has covered.
<1>3. ASSUME NEW c \in chans, NEW t \in Nat, t <= now, Covers(chans, c, t)
      PROVE  c \in chans2 /\ Covers(chans2, c, t)
  <2>1. c \in chans2
    BY DEF ChannelsGrow
  <2>2. EndIs(chans, c) /\ EndIs(chans2, c)
    BY <1>0, <2>1, ChannelEndIs
  <2>3. c.start <= t /\ t <= ChannelEnd(c, chans) /\ ChannelEnd(c, chans) \in Nat
        /\ ChannelEnd(c, chans2) \in Nat /\ c.start <= ChannelEnd(c, chans2)
    BY <1>3, <2>2 DEF Covers, EndIs
  <2>4. c.start \in Nat
    BY <2>2, TimesAre DEF EndIs
  <2>5. CASE ChannelEnd(c, chans2) = Infinity
    <3>1. t <= MaxTime
      <4>1. MaxTime \in Nat /\ now <= MaxTime
        BY TableAssumption
      <4>. QED
        BY <1>0, <1>3, <4>1
    <3>2. t <= MaxTime + 1
      BY <1>3, <3>1, TableAssumption
    <3>3. t <= ChannelEnd(c, chans2)
      BY <2>5, <3>2 DEF Infinity
    <3>. QED
      BY <2>1, <2>3, <3>3 DEF Covers
  <2>6. CASE ChannelEnd(c, chans2) # Infinity
    <3>1. PICK x \in chans2 : x.start = ChannelEnd(c, chans2) + 1
      BY <2>2, <2>6 DEF EndIs
    <3>2. c.start < x.start
      BY <2>3, <2>4, <3>1
    <3>3. CASE x \in chans
      <4>1. ChannelEnd(c, chans) < x.start
        BY <2>2, <3>2, <3>3 DEF EndIs
      <4>2. t <= ChannelEnd(c, chans2)
        BY <1>3, <2>3, <3>1, <4>1
      <4>. QED
        BY <2>1, <2>3, <4>2 DEF Covers
    <3>4. CASE x \notin chans
      <4>1. x.start = now + 1
        BY <3>4 DEF ChannelsGrow
      <4>2. t <= ChannelEnd(c, chans2)
        BY <1>0, <1>3, <2>3, <3>1, <4>1
      <4>. QED
        BY <2>1, <2>3, <4>2 DEF Covers
    <3>. QED
      BY <3>3, <3>4
  <2>. QED
    BY <2>5, <2>6
<1>4. ASSUME NEW e \in events
      PROVE  /\ e.ts \in Nat /\ f < e.ts /\ e.ts <= now + 1
             /\ e.stamp \in Int /\ e.stamp <= e.ts
             /\ e.id \in Orders /\ e.no = Null /\ e.local \in LocalTimes /\ StateOf(e) \in States
             /\ e.channel \in 1..MaxChannels
             /\ \E c \in chans2 : c.channel = e.channel /\ Covers(chans2, c, e.ts)
  <2>1. PICK c \in chans : c.channel = e.channel /\ Covers(chans, c, e.ts)
    BY DEF StreamSound
  <2>2. c \in chans2 /\ Covers(chans2, c, e.ts)
    BY <1>1, <1>3, <2>1
  <2>3. e.ts <= now + 1
    BY <1>0, <1>1
  <2>4. /\ e.stamp \in Int /\ e.stamp <= e.ts
        /\ e.id \in Orders /\ e.no = Null /\ e.local \in LocalTimes /\ StateOf(e) \in States
        /\ e.channel \in 1..MaxChannels
    BY DEF StreamSound
  <2>. QED
    BY <1>1, <2>1, <2>2, <2>3, <2>4
<1>5. ASSUME NEW e \in added
      PROVE  /\ e.ts \in Nat /\ f < e.ts /\ e.ts <= now + 1
             /\ e.stamp \in Int /\ e.stamp <= e.ts
             /\ e.id \in Orders /\ e.no = Null /\ e.local \in LocalTimes /\ StateOf(e) \in States
             /\ e.channel \in 1..MaxChannels
             /\ \E c \in chans2 : c.channel = e.channel /\ Covers(chans2, c, e.ts)
  <2>1. NewEvent(e, chans2, now)
    BY DEF EventsGrow
  <2>2. e.ts \in Nat /\ f < e.ts /\ e.ts <= now + 1
    BY <1>0, <1>2
  <2>. QED
    BY <2>1, <2>2 DEF NewEvent
<1>6. ASSUME NEW e \in events2, NEW x \in events2, e.ts = x.ts, e.id = x.id, e.local = x.local
      PROVE  e = x
  <2>1. CASE e \in events /\ x \in events
    BY <1>6, <2>1 DEF StreamSound
  <2>2. CASE e \in added /\ x \in added
    BY <1>6, <2>2 DEF EventsGrow
  <2>3. ~(e \in events /\ x \in added) /\ ~(e \in added /\ x \in events)
    BY <1>0, <1>1, <1>2, <1>6
  <2>. QED
    BY <2>1, <2>2, <2>3
<1>7. ASSUME NEW t \in (f + 1)..now, NEW o \in Orders PROVE Goes(events2, chans2, rep2, t, o)
  <2>1. t \in Nat /\ t <= now /\ t # now + 1 /\ t \in 1..now
    BY <1>0
  <2>2. EventsAt(events2, t, o) = EventsAt(events, t, o)
    BY <1>2, <2>1 DEF EventsAt
  <2>3. StartsAt(chans2, t) <=> StartsAt(chans, t)
    BY <2>1 DEF StartsAt, ChannelsGrow
  <2>4. rep2[t] = rep[t]
    BY <2>1 DEF Agree
  <2>5. BookOf(rep2, t - 1) = BookOf(rep, t - 1)
    <3>1. t - 1 # 0 => t - 1 \in 1..now
      BY <2>1
    <3>. QED
      BY <3>1 DEF Agree, BookOf
  <2>6. IF StartsAt(chans, t) THEN ShowsAll(events, rep, t, o) ELSE Continues(events, rep, t, o)
    BY DEF StreamSound
  <2> HIDE DEF events2
  <2>. QED
    BY <2>2, <2>3, <2>4, <2>5, <2>6 DEF Goes, ShowsAll, Continues
<1>8. ASSUME NEW o \in Orders PROVE Goes(events2, chans2, rep2, now + 1, o)
  <2>1. \A e \in events : e.ts # now + 1
    BY <1>0, <1>1
  <2>2. EventsAt(events2, now + 1, o) = EventsAt(added, now + 1, o)
    BY <2>1 DEF EventsAt
  <2>. QED
    BY <2>2 DEF Goes, ShowsAll, Continues
<1>9. \A t \in (f + 1)..(now + 1) : \A o \in Orders : Goes(events2, chans2, rep2, t, o)
  <2>1. \A t \in (f + 1)..(now + 1) : t = now + 1 \/ t \in (f + 1)..now
    BY <1>0
  <2> HIDE DEF events2
  <2>. QED
    BY <1>7, <1>8, <2>1
<1>. QED
  BY <1>4, <1>5, <1>6, <1>9 DEF StreamSound, Goes

\* What the capture adds is in step with what the loading knows.
AddedKept(table, events, chans, added, now) ==
    /\ \A e \in added :
         \/ e.stamp = now + 1
         \/ /\ \A r \in table : r.id = e.id => r.mts < e.stamp
            /\ \A x \in events : x.id = e.id => x.ts < e.stamp
            /\ \A c \in chans : c.start < e.stamp
            /\ MonthStart(now + 1) < e.stamp
    /\ \A e, x \in added : x.id = e.id /\ x.local < e.local => x.local # Null /\ x.stamp <= e.stamp

LEMMA StampsGrow ==
    ASSUME NEW now \in 0..MaxTime, NEW f \in 0..now, NEW table, RowsSound(table, f),
           NEW chans, NEW events, NEW rep, StreamSound(events, chans, f, now, rep),
           ChannelsSound(chans, now), StampsSound(table, events, chans),
           NEW chans2, ChannelsGrow(chans, chans2, now),
           NEW added, EventsGrow(events, added, chans2, now),
           AddedKept(table, events, chans, added, now)
    PROVE  StampsSound(table, events \union added, chans2)
<1>0. f \in Nat /\ now \in Nat /\ f <= now
  BY TableAssumption
<1>1. \A e \in events : e.ts \in Nat /\ e.ts <= now /\ e.stamp \in Int
  BY DEF StreamSound
<1>2. \A e \in added : e.ts = now + 1 /\ e.stamp \in Int /\ e.stamp <= e.ts
  BY DEF EventsGrow, NewEvent
<1>3. \A r \in table : r.mts \in Nat /\ r.mts <= now
  <2>1. ASSUME NEW r \in table PROVE r.mts \in Nat /\ r.mts <= now
    <3>1. r \in Rows /\ r.mts <= f
      BY DEF RowsSound
    <3>2. r.mts \in Nat
      BY <3>1, RowFields
    <3>. QED
      BY <1>0, <3>1, <3>2
  <2>. QED
    BY <2>1
<1>4. \A c \in chans : c.start \in Nat /\ c.start <= now
  <2>1. \A c \in chans : c.start \in 1..now
    BY DEF ChannelsSound
  <2>. QED
    BY <1>0, <2>1
<1>5. ASSUME NEW e \in added, NEW r \in table, r.id = e.id PROVE r.mts < e.stamp
  BY <1>0, <1>2, <1>3, <1>5 DEF AddedKept
<1>6. ASSUME NEW e \in added, NEW x \in events, x.id = e.id
      PROVE  x.ts < e.stamp /\ x.ts < e.ts
  BY <1>0, <1>1, <1>2, <1>6 DEF AddedKept
<1>7. OrderKept(table, events \union added)
  <2>1. ASSUME NEW e \in events \union added, NEW r \in table, r.id = e.id PROVE r.mts < e.stamp
    BY <1>5, <2>1 DEF StampsSound, OrderKept
  <2>2. ASSUME NEW e \in events \union added, NEW x \in events \union added, x.id = e.id
        PROVE  /\ x.ts < e.ts => x.ts < e.stamp
               /\ x.ts = e.ts /\ x.local < e.local => x.local # Null /\ x.stamp <= e.stamp
    <3>1. CASE e \in events /\ x \in events
      BY <2>2, <3>1 DEF StampsSound, OrderKept
    <3>2. CASE e \in added /\ x \in events
      BY <1>0, <1>1, <1>2, <1>6, <2>2, <3>2
    <3>3. CASE e \in events /\ x \in added
      BY <1>0, <1>1, <1>2, <3>3
    <3>4. CASE e \in added /\ x \in added
      BY <1>0, <1>2, <2>2, <3>4 DEF AddedKept
    <3>. QED
      BY <3>1, <3>2, <3>3, <3>4
  <2>. QED
    BY <2>1, <2>2 DEF OrderKept
<1>8. ASSUME NEW e \in events \union added, NEW c \in chans2, c.start < e.ts
      PROVE  c.start < e.stamp
  <2>1. CASE c \in chans /\ e \in events
    BY <1>8, <2>1 DEF StampsSound
  <2>2. CASE c \in chans /\ e \in added
    BY <1>0, <1>2, <1>4, <2>2 DEF AddedKept
  <2>3. CASE c \notin chans
    <3>1. c.start = now + 1
      BY <2>3 DEF ChannelsGrow
    <3>. QED
      BY <1>0, <1>1, <1>2, <1>8, <3>1
  <2>. QED
    BY <2>1, <2>2, <2>3
<1>9. ASSUME NEW e \in events \union added, MonthStart(e.ts) < e.ts
      PROVE  MonthStart(e.ts) < e.stamp
  <2>1. CASE e \in events
    BY <1>9, <2>1 DEF StampsSound
  <2>2. CASE e \in added
    <3>1. e.ts = now + 1
      BY <1>2, <2>2
    <3>2. e.stamp = now + 1 \/ MonthStart(now + 1) < e.stamp
      BY <2>2 DEF AddedKept
    <3>. QED
      BY <1>9, <3>1, <3>2
  <2>. QED
    BY <2>1, <2>2
<1>. QED
  BY <1>7, <1>8, <1>9 DEF StampsSound

LEMMA SoundGrows ==
    ASSUME NEW now \in 0..MaxTime, now < MaxTime, NEW f \in 0..now, NEW table, NEW ers,
           NEW chans, NEW events, NEW rep, Sound(table, ers, events, chans, f, 0, now, rep),
           NEW rep2, Agree(rep, rep2, now),
           NEW chans2, ChannelsGrow(chans, chans2, now), ChannelsSound(chans2, now + 1),
           NEW added, EventsGrow(events, added, chans2, now),
           \A o \in Orders : Goes(added, chans2, rep2, now + 1, o),
           added # {} => MonthStart(now + 1) # now + 1,
           AddedKept(table, events, chans, added, now),
           \A c \in chans2 : c \notin chans => \E o \in Orders : rep2[now + 1][o] # Absent
    PROVE  Sound(table, ers, events \union added, chans2, f, 0, now + 1, rep2)
<1>0. f \in Nat /\ now \in Nat
  <2>1. now \in Nat
    BY TableAssumption
  <2>. QED
    BY <2>1
<1>1. /\ Level3Sound(table, ers, f, rep) /\ StreamSound(events, chans, f, now, rep)
      /\ ChannelsSound(chans, now) /\ MonthsReached(table, ers, chans, f)
      /\ MonthStartsQuiet(events, 0) /\ SessionsShow(chans, f, 0, rep)
      /\ StampsSound(table, events, chans)
  BY DEF Sound
<1>2. f \in 0..(now + 1)
  BY <1>0
<1>3. Level3Sound(table, ers, f, rep2)
  <2>1. \A t \in 1..f : rep2[t] = rep[t]
    BY <1>0 DEF Agree
  <2>2. Replays(table, ers, f, rep2)
    BY <1>1, <2>1 DEF Level3Sound, Replays
  <2>. QED
    BY <1>1, <2>2 DEF Level3Sound
<1>4. StreamSound(events \union added, chans2, f, now + 1, rep2)
  BY <1>1, StreamGrows
<1>5. MonthsReached(table, ers, chans2, f)
  <2>1. ~(now + 1 <= f)
    BY <1>0
  <2>. QED
    BY <1>1, <2>1 DEF MonthsReached, ChannelsGrow
<1>6. MonthStartsQuiet(events \union added, 0)
  <2>1. \A e \in added : e.ts = now + 1
    BY DEF EventsGrow, NewEvent
  <2>2. \A e \in added : e.ts # MonthStart(e.ts)
    BY <2>1
  <2>. QED
    BY <1>1, <2>2 DEF MonthStartsQuiet
<1>7. SessionsShow(chans2, f, 0, rep2)
  <2>1. SUFFICES ASSUME NEW c \in chans2, f < c.start
                 PROVE  \E o \in Orders : rep2[c.start][o] # Absent
    BY DEF SessionsShow
  <2>2. CASE c \in chans
    <3>1. c.start \in 1..now
      BY <1>1, <2>2 DEF ChannelsSound
    <3>2. c.start # 0
      BY <1>0, <3>1
    <3>3. \E o \in Orders : rep[c.start][o] # Absent
      BY <1>1, <2>1, <2>2, <3>2 DEF SessionsShow
    <3>. QED
      BY <3>1, <3>3 DEF Agree
  <2>3. CASE c \notin chans
    <3>1. c.start = now + 1
      BY <2>3 DEF ChannelsGrow
    <3>. QED
      BY <2>3, <3>1
  <2>. QED
    BY <2>2, <2>3
<1>8. StampsSound(table, events \union added, chans2)
  BY <1>1, StampsGrow DEF Level3Sound
<1>. QED
  BY <1>2, <1>3, <1>4, <1>5, <1>6, <1>7, <1>8 DEF Sound

LEMMA ChannelsLater ==
    ASSUME NEW now \in Nat, NEW chans, ChannelsSound(chans, now)
    PROVE  ChannelsSound(chans, now + 1)
<1>1. 1..now \subseteq 1..(now + 1)
  OBVIOUS
<1>2. [channel : 1..MaxChannels, start : 1..now] \subseteq [channel : 1..MaxChannels, start : 1..(now + 1)]
  BY <1>1
<1>. QED
  BY <1>2 DEF ChannelsSound

IsCurrent(chans, m, t) ==
    /\ m \in chans /\ Covers(chans, m, t)
    /\ \A x \in chans : x.channel <= m.channel /\ x.start <= m.start

LEMMA CurrentChannel ==
    ASSUME NEW now \in 0..MaxTime, now < MaxTime, ChannelsSound(channels, now), channels # {}
    PROVE  \E m : IsCurrent(channels, m, now + 1) /\ m.channel = Channel /\ Channel \in 1..MaxChannels
<1>0. now \in Nat /\ MaxTime \in Nat /\ MaxChannels \in Nat
  BY TableAssumption, LoadingAssumption
<1>1. PICK m \in channels : \A x \in channels : x.start <= m.start /\ x.channel <= m.channel
  BY DEF ChannelsSound
<1>2. \A x \in channels : x.channel \in 1..MaxChannels /\ x.start \in 1..now
  BY DEF ChannelsSound
<1>3. EndIs(channels, m)
  BY ChannelEndIs
<1>4. ChannelEnd(m, channels) = Infinity
  <2>1. SUFFICES ASSUME ChannelEnd(m, channels) # Infinity PROVE FALSE
    OBVIOUS
  <2>2. PICK x \in channels : x.start = ChannelEnd(m, channels) + 1
    BY <1>3, <2>1 DEF EndIs
  <2>3. m.start <= ChannelEnd(m, channels) /\ ChannelEnd(m, channels) \in Nat
    BY <1>3 DEF EndIs
  <2>4. m.start \in Nat /\ x.start <= m.start
    BY <1>1, <1>2
  <2>. QED
    BY <2>2, <2>3, <2>4
<1>5. Covers(channels, m, now + 1)
  <2>1. m.start <= now + 1
    BY <1>0, <1>2
  <2>2. now + 1 <= Infinity
    BY <1>0 DEF Infinity
  <2>. QED
    BY <1>4, <2>1, <2>2 DEF Covers
<1>6. m.channel = Channel
  <2>1. PICK k : k = CHOOSE c \in channels : \A x \in channels : x.channel <= c.channel
    OBVIOUS
  <2>2. k \in channels /\ \A x \in channels : x.channel <= k.channel
    BY <1>1, <2>1
  <2>3. k.channel <= m.channel /\ m.channel <= k.channel
    BY <1>1, <2>2
  <2>4. k.channel \in Nat /\ m.channel \in Nat
    <3>1. k.channel \in 1..MaxChannels /\ m.channel \in 1..MaxChannels
      BY <1>2, <2>2
    <3>. QED
      BY <1>0, <3>1
  <2>5. k.channel = m.channel
    BY <2>3, <2>4
  <2>. QED
    BY <2>1, <2>5 DEF Channel
<1>. QED
  BY <1>1, <1>2, <1>5, <1>6 DEF IsCurrent

CaptureAdds(added) ==
    /\ clock' = clock + 1 /\ book' \in Books /\ replay' = Append(replay, book')
    /\ transient' = transient \union added
    /\ UNCHANGED << level3, eras, load, saved, failed, loaded >>

LEMMA AddsKeep ==
    ASSUME IInv, ~load.running, clock < MaxTime, NEW added, CaptureAdds(added), channels' # {},
           ChannelsGrow(channels, channels', clock), ChannelsSound(channels', clock + 1),
           EventsGrow(transient, added, channels', clock),
           AddedKept(level3, transient, channels, added, clock),
           \A o \in Orders : Goes(added, channels', replay', clock + 1, o),
           added # {} => MonthStart(clock + 1) # clock + 1,
           MonthStart(clock + 1) = clock + 1 => book' = book,
           \A c \in channels' : c \notin channels => \E o \in Orders : book'[o] # Absent
    PROVE  IInv'
<1>1. /\ HistorySound /\ load = NoLoad
      /\ Sound(level3, eras, transient, channels, loaded, 0, clock, replay)
      /\ MonthKept(level3, eras, transient, loaded)
  BY DEF IInv
<1>2. clock \in 0..MaxTime /\ MaxTime \in Nat /\ clock \in Nat /\ clock + 1 \in 0..MaxTime
  <2>1. clock \in 0..MaxTime /\ MaxTime \in Nat
    BY <1>1, TableAssumption DEF HistorySound
  <2>. QED
    BY <2>1
<1>3. replay \in Seq(Books) /\ Len(replay) = clock
  BY <1>1 DEF HistorySound
<1>4. replay' \in Seq(Books) /\ Len(replay') = clock' /\ replay'[clock + 1] = book'
      /\ \A t \in 1..clock : replay'[t] = replay[t]
  <2>1. PICK b \in Books : b = book'
    BY DEF CaptureAdds
  <2>2. replay' = Append(replay, b)
    BY <2>1 DEF CaptureAdds
  <2>3. Append(replay, b) \in Seq(Books) /\ Len(Append(replay, b)) = Len(replay) + 1
        /\ Append(replay, b)[Len(replay) + 1] = b
        /\ \A t \in 1..Len(replay) : Append(replay, b)[t] = replay[t]
    BY <1>3
  <2>4. clock' = clock + 1
    BY DEF CaptureAdds
  <2>. QED
    BY <1>3, <2>1, <2>2, <2>3, <2>4
<1>5. loaded \in 0..clock /\ loaded \in 0..(clock + 1)
  <2>1. loaded \in 0..clock
    BY <1>1 DEF HistorySound
  <2>. QED
    BY <1>2, <2>1
<1>6. HistorySound'
  <2>1. clock' = clock + 1 /\ failed' = failed /\ loaded' = loaded
    BY DEF CaptureAdds
  <2>2. book' = BookOf(replay', clock')
    BY <1>2, <1>4, <2>1 DEF BookOf
  <2>3. ASSUME NEW t \in 1..(clock + 1), t = MonthStart(t)
        PROVE  replay'[t] = BookOf(replay', t - 1)
    <3>1. CASE t = clock + 1
      <4>1. book' = book
        BY <2>3, <3>1
      <4>2. book = BookOf(replay, clock)
        BY <1>1 DEF HistorySound
      <4>3. t - 1 = clock /\ (clock # 0 => clock \in 1..clock)
        BY <1>2, <3>1
      <4>4. BookOf(replay', t - 1) = BookOf(replay, clock)
        BY <1>4, <4>3 DEF BookOf
      <4>. QED
        BY <1>4, <3>1, <4>1, <4>2, <4>4
    <3>2. CASE t # clock + 1
      <4>1. t \in 1..clock /\ (t - 1 # 0 => t - 1 \in 1..clock)
        BY <1>2, <3>2
      <4>2. replay[t] = BookOf(replay, t - 1)
        BY <1>1, <2>3, <4>1 DEF HistorySound
      <4>3. BookOf(replay', t - 1) = BookOf(replay, t - 1)
        BY <1>4, <4>1 DEF BookOf
      <4>. QED
        BY <1>4, <4>1, <4>2, <4>3
    <3>. QED
      BY <3>1, <3>2
  <2>4. failed \in BOOLEAN
    BY <1>1 DEF HistorySound
  <2>5. clock' \in 0..MaxTime /\ loaded' \in 0..clock'
    BY <1>2, <1>5, <2>1
  <2>6. \A t \in 1..clock' : t = MonthStart(t) => replay'[t] = BookOf(replay', t - 1)
    BY <2>1, <2>3
  <2>7. failed' \in BOOLEAN
    BY <2>1, <2>4
  <2> HIDE DEF BookOf, MonthStart
  <2>. QED
    BY <1>4, <2>2, <2>5, <2>6, <2>7 DEF HistorySound
<1>7. Agree(replay, replay', clock)
  BY <1>4 DEF Agree
<1>8. \A c \in channels' : c \notin channels => \E o \in Orders : replay'[clock + 1][o] # Absent
  BY <1>4
<1>9. Sound(level3, eras, transient \union added, channels', loaded, 0, clock + 1, replay')
  BY <1>1, <1>2, <1>5, <1>7, <1>8, SoundGrows
<1>10. /\ level3' = level3 /\ eras' = eras /\ loaded' = loaded /\ load' = load
       /\ clock' = clock + 1 /\ transient' = transient \union added
  BY DEF CaptureAdds
<1>11. MonthKept(level3', eras', transient', loaded')
  BY <1>1, <1>10 DEF MonthKept, MonthEnds
<1>12. Sound(level3', eras', transient', channels', loaded', 0, clock', replay')
  BY <1>9, <1>10
<1>13. load' = NoLoad /\ ~load'.running
  BY <1>1, <1>10 DEF NoLoad
<1>. QED
  BY <1>6, <1>11, <1>12, <1>13 DEF IInv

\* A quiet instant.
LEMMA TickKeeps ==
    ASSUME IInv, Tick
    PROVE  IInv'
<1>1. /\ ~load.running /\ channels # {} /\ clock < MaxTime
      /\ clock' = clock + 1 /\ replay' = Append(replay, book)
      /\ UNCHANGED << book, channels, transient, level3, eras, load, saved, failed, loaded >>
  BY DEF Tick
<1>2. /\ HistorySound
      /\ Sound(level3, eras, transient, channels, loaded, 0, clock, replay)
  BY <1>1 DEF IInv
<1>3. clock \in 0..MaxTime /\ clock \in Nat
  <2>1. clock \in 0..MaxTime /\ MaxTime \in Nat
    BY <1>2, TableAssumption DEF HistorySound
  <2>. QED
    BY <2>1
<1>4. book' \in Books /\ replay \in Seq(Books) /\ Len(replay) = clock /\ book = BookOf(replay, clock)
  <2>1. replay \in Seq(Books) /\ Len(replay) = clock /\ book = BookOf(replay, clock)
    BY <1>2 DEF HistorySound
  <2>2. CASE clock = 0
    BY <1>1, <2>1, <2>2 DEF BookOf, Books
  <2>3. CASE clock # 0
    <3>1. clock \in 1..Len(replay)
      BY <1>3, <2>1, <2>3
    <3>2. replay[clock] \in Books
      BY <2>1, <3>1
    <3>. QED
      BY <1>1, <2>1, <2>3, <3>2 DEF BookOf
  <2>. QED
    BY <2>1, <2>2, <2>3
<1>5. CaptureAdds({})
  BY <1>1, <1>4 DEF CaptureAdds
<1>6. ChannelsGrow(channels, channels', clock) /\ ChannelsSound(channels', clock + 1)
  <2>1. ChannelsSound(channels, clock)
    BY <1>2 DEF Sound
  <2>2. ChannelsSound(channels, clock + 1)
    BY <1>3, <2>1, ChannelsLater
  <2>. QED
    BY <1>1, <2>2 DEF ChannelsGrow
<1>7. EventsGrow(transient, {}, channels', clock)
  BY DEF EventsGrow
<1>8. ASSUME NEW o \in Orders PROVE Goes({}, channels', replay', clock + 1, o)
  <2>1. ~StartsAt(channels', clock + 1)
    <3>1. \A c \in channels : c.start \in 1..clock
      BY <1>2 DEF Sound, ChannelsSound
    <3>2. \A c \in channels : c.start # clock + 1
      BY <1>3, <3>1
    <3>. QED
      BY <1>1, <3>2 DEF StartsAt
  <2>2. replay'[clock + 1] = book /\ (clock # 0 => replay'[clock] = replay[clock])
    <3>1. PICK b \in Books : b = book
      BY <1>1, <1>4
    <3>2. Append(replay, b)[Len(replay) + 1] = b
          /\ \A t \in 1..Len(replay) : Append(replay, b)[t] = replay[t]
      BY <1>4
    <3>3. clock # 0 => clock \in 1..Len(replay)
      BY <1>3, <1>4
    <3>. QED
      BY <1>1, <1>4, <3>1, <3>2, <3>3
  <2>3. (clock + 1) - 1 = clock
    BY <1>3
  <2>4. BookOf(replay', clock) = BookOf(replay, clock)
    BY <2>2 DEF BookOf
  <2>5. Continues({}, replay', clock + 1, o)
    BY <1>4, <2>2, <2>3, <2>4 DEF Continues, EventsAt
  <2>. QED
    BY <2>1, <2>5 DEF Goes
<1>9. \A c \in channels' : c \notin channels => \E o \in Orders : book'[o] # Absent
  BY <1>1
<1>10. \A o \in Orders : Goes({}, channels', replay', clock + 1, o)
  BY <1>8
<1>11. channels' # {} /\ (MonthStart(clock + 1) = clock + 1 => book' = book)
  BY <1>1
<1>12. AddedKept(level3, transient, channels, {}, clock)
  BY DEF AddedKept
<1>. QED
  BY <1>1, <1>5, <1>6, <1>7, <1>9, <1>10, <1>11, <1>12, AddsKeep

EpisodeEvents(changes, stamps, t) ==
    {Event(t, stamps[i], i, changes[i].id, changes[i].state, Channel, Null) : i \in DOMAIN changes}

LEMMA AbsentIs == Absent = [price |-> 0, amount |-> 1]
BY DEF Absent

\* The state of an order, given as the price and the amount of a row or an event.
LEMMA StateFields ==
    ASSUME NEW s \in States
    PROVE  s = [price |-> s.price, amount |-> s.amount]
<1>1. CASE s \in Present
  BY <1>1 DEF Present
<1>2. CASE s = Absent
  BY <1>2 DEF Absent
<1>. QED
  BY <1>1, <1>2 DEF States

LEMMA CapturedEvent ==
    ASSUME NEW t, NEW m, NEW i, NEW o, NEW s \in States, NEW k,
           NEW e, e = Event(t, m, i, o, s, k, Null)
    PROVE  e.ts = t /\ e.stamp = m /\ e.local = i /\ e.id = o /\ e.channel = k /\ e.no = Null /\ StateOf(e) = s
<1>1. /\ e.ts = t /\ e.stamp = m /\ e.local = i /\ e.id = o /\ e.channel = k /\ e.no = Null
      /\ e.price = s.price /\ e.amount = s.amount
  BY DEF Event
<1>. QED
  BY <1>1, StateFields DEF StateOf

LEMMA AdvanceIs ==
    ASSUME HistorySound, MonthStartEvents = FALSE, CanAdvance(clock + 1)
    PROVE  /\ ~load.running /\ clock \in 0..MaxTime /\ clock \in Nat /\ clock < MaxTime
           /\ MonthStart(clock + 1) # clock + 1
<1>1. clock \in 0..MaxTime /\ MaxTime \in Nat
  BY TableAssumption DEF HistorySound
<1>2. ~load.running /\ clock + 1 <= MaxTime /\ clock + 1 # MonthStart(clock + 1)
  BY DEF CanAdvance
<1>. QED
  BY <1>1, <1>2

LEMMA BookIs ==
    ASSUME HistorySound
    PROVE  book \in Books /\ book = BookOf(replay, clock)
<1>1. /\ replay \in Seq(Books) /\ Len(replay) = clock /\ book = BookOf(replay, clock)
      /\ clock \in 0..MaxTime
  BY DEF HistorySound
<1>2. CASE clock = 0
  BY <1>1, <1>2 DEF BookOf, Books
<1>3. CASE clock # 0
  <2>1. clock \in 1..Len(replay)
    BY <1>1, <1>3, TableAssumption
  <2>2. replay[clock] \in Books
    BY <1>1, <2>1
  <2>. QED
    BY <1>1, <1>3, <2>2 DEF BookOf
<1>. QED
  BY <1>2, <1>3

LEMMA BookAppended ==
    ASSUME HistorySound, book' \in Books, replay' = Append(replay, book')
    PROVE  replay'[clock + 1] = book' /\ BookOf(replay', clock) = book
<1>1. /\ replay \in Seq(Books) /\ Len(replay) = clock /\ book = BookOf(replay, clock)
      /\ clock \in 0..MaxTime
  BY DEF HistorySound
<1>2. PICK b \in Books : b = book'
  OBVIOUS
<1>3. Append(replay, b)[Len(replay) + 1] = b
      /\ \A t \in 1..Len(replay) : Append(replay, b)[t] = replay[t]
  BY <1>1
<1>4. clock # 0 => clock \in 1..Len(replay)
  BY <1>1, TableAssumption
<1>5. replay'[clock + 1] = book' /\ (clock # 0 => replay'[clock] = replay[clock])
  BY <1>1, <1>2, <1>3, <1>4
<1>. QED
  BY <1>1, <1>5 DEF BookOf

LEMMA EpisodeKeeps ==
    ASSUME IInv, MonthStartEvents = FALSE, NEW n \in 1..MaxChanges,
           NEW stamps \in Stamps(n, clock + 1), NEW changes \in [1..n -> Changes],
           Episode(changes, stamps), inStep' = Orders
    PROVE  IInv'
<1> DEFINE t == clock + 1
           added == EpisodeEvents(changes, stamps, t)
<1>1. /\ channels # {} /\ CanAdvance(clock + 1)
      /\ clock' = clock + 1 /\ book' = BookAfter(changes) /\ replay' = Append(replay, book')
      /\ transient' = transient \union added
      /\ UNCHANGED << channels, level3, eras, load, saved, failed, loaded >>
      /\ inStep' = {o \in inStep : KeepsStep(o, changes, stamps, t)}
  BY DEF Episode, EpisodeEvents
<1>2. HistorySound
  BY DEF IInv
<1>3. /\ ~load.running /\ clock \in 0..MaxTime /\ clock \in Nat /\ clock < MaxTime
      /\ MonthStart(clock + 1) # clock + 1
  BY <1>1, <1>2, AdvanceIs
<1>4. Sound(level3, eras, transient, channels, loaded, 0, clock, replay)
  BY <1>3 DEF IInv
<1>5. DOMAIN changes = 1..n /\ 1..n \subseteq 1..MaxChanges
      /\ \A i \in 1..n : changes[i].id \in Orders /\ changes[i].state \in States
  <2>1. \A i \in 1..n : changes[i] \in Changes
    OBVIOUS
  <2>2. \A i \in 1..n : changes[i].id \in Orders /\ changes[i].state \in States
    BY <2>1 DEF Changes, States
  <2>3. MaxChanges \in Nat
    BY LoadingAssumption
  <2>. QED
    BY <2>2, <2>3
<1>6. ASSUME NEW o \in Orders
      PROVE  LET own == {i \in DOMAIN changes : changes[i].id = o}
             IN  /\ book'[o] = IF own = {} THEN book[o] ELSE changes[Max(own)].state
                 /\ own # {} => Max(own) \in own /\ \A i \in own : i <= Max(own)
  <2> DEFINE own == {i \in DOMAIN changes : changes[i].id = o}
  <2>1. book'[o] = IF own = {} THEN book[o] ELSE changes[Max(own)].state
    BY <1>1 DEF BookAfter
  <2>2. n \in Nat
    BY LoadingAssumption
  <2>3. own \subseteq 0..n
    BY <1>5, <2>2
  <2>4. own # {} => Max(own) \in own /\ \A i \in own : i <= Max(own)
    BY <2>2, <2>3, MaxIsGreatest
  <2>. QED
    BY <2>1, <2>4
<1>7. book' \in Books
  <2>1. \A o \in Orders : book[o] \in States
    BY <1>2, BookIs DEF Books, States
  <2>2. ASSUME NEW o \in Orders PROVE book'[o] \in States
    BY <1>5, <1>6, <2>1
  <2>3. book' = [o \in Orders |-> book'[o]]
    BY <1>1 DEF BookAfter
  <2>. QED
    BY <2>2, <2>3 DEF Books, States
<1>8. CaptureAdds(added)
  BY <1>1, <1>7 DEF CaptureAdds
<1>9. ChannelsGrow(channels, channels', clock) /\ ChannelsSound(channels', clock + 1)
  <2>1. ChannelsSound(channels, clock + 1)
    BY <1>3, <1>4, ChannelsLater DEF Sound
  <2>. QED
    BY <1>1, <2>1 DEF ChannelsGrow
<1>10. ASSUME NEW e \in added
       PROVE  \E i \in 1..n : /\ e = Event(t, stamps[i], i, changes[i].id, changes[i].state, Channel, Null)
                              /\ e.ts = t /\ e.stamp = stamps[i] /\ e.local = i
                              /\ e.id = changes[i].id
                              /\ e.channel = Channel /\ e.no = Null /\ StateOf(e) = changes[i].state
  <2>1. PICK i \in 1..n : e = Event(t, stamps[i], i, changes[i].id, changes[i].state, Channel, Null)
    BY <1>5 DEF EpisodeEvents
  <2>2. e.ts = t /\ e.stamp = stamps[i] /\ e.local = i /\ e.id = changes[i].id /\ e.channel = Channel /\ e.no = Null
        /\ StateOf(e) = changes[i].state
    BY <1>5, <2>1, CapturedEvent
  <2>. QED
    BY <2>1, <2>2
<1>11. \A i \in 1..n : Event(t, stamps[i], i, changes[i].id, changes[i].state, Channel, Null) \in added
  BY <1>5 DEF EpisodeEvents
<1> HIDE DEF added
<1>17. \A i \in 1..n : stamps[i] \in Int /\ stamps[i] <= t
  <2>1. Lag \in Nat
    BY LoadingAssumption DEF Lag
  <2>2. \A i \in 1..n : stamps[i] \in (t - Lag)..t
    BY DEF Stamps
  <2>. QED
    BY <1>3, <2>1, <2>2
<1>18. AddedKept(level3, transient, channels, added, clock)
  <2>1. ASSUME NEW e \in added
        PROVE  \E i \in 1..n : /\ e.stamp = stamps[i] /\ e.local = i /\ e.id = changes[i].id
                               /\ e.id \in Orders /\ KeepsStep(e.id, changes, stamps, t)
    <3>1. PICK i \in 1..n : e.stamp = stamps[i] /\ e.local = i /\ e.id = changes[i].id
      BY <1>10
    <3>2. e.id \in Orders /\ KeepsStep(e.id, changes, stamps, t)
      BY <1>1, <1>5, <3>1
    <3>. QED
      BY <3>1, <3>2
  <2>2. ASSUME NEW e \in added, e.stamp # t
        PROVE  \A k \in Known(e.id, t) : k < e.stamp
    <3>1. PICK i \in 1..n : /\ e.stamp = stamps[i] /\ e.local = i /\ e.id = changes[i].id
                            /\ KeepsStep(e.id, changes, stamps, t)
      BY <2>1
    <3>. QED
      BY <1>5, <2>2, <3>1 DEF KeepsStep
  <2>3. ASSUME NEW e \in added, e.stamp # clock + 1
        PROVE  /\ \A r \in level3 : r.id = e.id => r.mts < e.stamp
               /\ \A x \in transient : x.id = e.id => x.ts < e.stamp
               /\ \A c \in channels : c.start < e.stamp
               /\ MonthStart(clock + 1) < e.stamp
    BY <2>2, <2>3 DEF Known
  <2>4. ASSUME NEW e \in added, NEW x \in added, x.id = e.id, x.local < e.local
        PROVE  x.local # Null /\ x.stamp <= e.stamp
    <3>1. PICK i \in 1..n : /\ e.stamp = stamps[i] /\ e.local = i /\ e.id = changes[i].id
                            /\ KeepsStep(e.id, changes, stamps, t)
      BY <2>1
    <3>2. PICK j \in 1..n : x.stamp = stamps[j] /\ x.local = j /\ x.id = changes[j].id
      BY <2>1
    <3>3. j # Null
      BY DEF Null
    <3>. QED
      BY <1>5, <2>4, <3>1, <3>2, <3>3 DEF KeepsStep
  <2>. QED
    BY <2>3, <2>4 DEF AddedKept
<1>12. EventsGrow(transient, added, channels', clock)
  <2>1. PICK m : IsCurrent(channels, m, clock + 1) /\ m.channel = Channel
                 /\ Channel \in 1..MaxChannels
    BY <1>1, <1>3, <1>4, CurrentChannel DEF Sound
  <2>2. m \in channels' /\ Covers(channels', m, clock + 1)
    BY <1>1, <2>1 DEF IsCurrent
  <2>3. 1..n \subseteq LocalTimes
    <3>1. MaxChanges \in Nat /\ MaxTime \in Nat
      BY LoadingAssumption, TableAssumption
    <3>2. Null \in Nat
      BY DEF Null
    <3>. QED
      BY <1>5, <3>1, <3>2 DEF LocalTimes
  <2>4. ASSUME NEW e \in added PROVE NewEvent(e, channels', clock)
    <3>1. PICK i \in 1..n : e.ts = t /\ e.stamp = stamps[i] /\ e.local = i /\ e.id = changes[i].id
                            /\ e.channel = Channel /\ e.no = Null /\ StateOf(e) = changes[i].state
      BY <1>10
    <3>2. e.local \in LocalTimes
      BY <2>3, <3>1
    <3>3. e.stamp \in Int /\ e.stamp <= e.ts
      BY <1>17, <3>1
    <3>. QED
      BY <1>5, <2>1, <2>2, <3>1, <3>2, <3>3 DEF NewEvent
  <2>5. ASSUME NEW e \in added, NEW x \in added, e.local = x.local PROVE e = x
    <3>1. PICK i \in 1..n : e = Event(t, stamps[i], i, changes[i].id, changes[i].state, Channel, Null)
                            /\ e.local = i
      BY <1>10
    <3>2. PICK j \in 1..n : x = Event(t, stamps[j], j, changes[j].id, changes[j].state, Channel, Null)
                            /\ x.local = j
      BY <1>10
    <3>. QED
      BY <2>5, <3>1, <3>2
  <2>. QED
    BY <2>4, <2>5 DEF EventsGrow
<1>13. ASSUME NEW o \in Orders PROVE Goes(added, channels', replay', clock + 1, o)
  <2>1. ~StartsAt(channels', clock + 1)
    <3>1. \A c \in channels : c.start \in 1..clock
      BY <1>4 DEF Sound, ChannelsSound
    <3>2. \A c \in channels : c.start # clock + 1
      BY <1>3, <3>1
    <3>. QED
      BY <1>1, <3>2 DEF StartsAt
  <2>2. replay'[clock + 1] = book' /\ BookOf(replay', clock) = book
    BY <1>1, <1>2, <1>7, BookAppended
  <2>3. (clock + 1) - 1 = clock
    BY <1>3
  <2> DEFINE own == {i \in DOMAIN changes : changes[i].id = o}
             here == EventsAt(added, t, o)
  <2>4. ASSUME here = {} PROVE book'[o] = book[o]
    <3>1. ASSUME NEW i \in own PROVE FALSE
      <4>1. PICK e : e = Event(t, stamps[i], i, changes[i].id, changes[i].state, Channel, Null)
        OBVIOUS
      <4>2. e \in added /\ e.ts = t /\ e.id = o
        BY <1>5, <1>11, <4>1, CapturedEvent
      <4>3. e \in here
        BY <4>2 DEF EventsAt
      <4>. QED
        BY <2>4, <4>3
    <3>2. own = {}
      BY <3>1
    <3>. QED
      BY <1>6, <3>2
  <2>5. ASSUME NEW e \in here, \A x \in here : x.local <= e.local PROVE StateOf(e) = book'[o]
    <3>1. e \in added /\ e.id = o
      BY DEF EventsAt
    <3>2. PICK i \in 1..n : e.local = i /\ e.id = changes[i].id /\ StateOf(e) = changes[i].state
      BY <1>10, <3>1
    <3>3. i \in own
      BY <1>5, <3>1, <3>2
    <3>4. PICK k : k = Max(own)
      OBVIOUS
    <3>5. k \in own /\ \A j \in own : j <= k
      BY <1>6, <3>3, <3>4
    <3>6. k <= i
      <4>1. PICK x : x = Event(t, stamps[k], k, changes[k].id, changes[k].state, Channel, Null)
        OBVIOUS
      <4>2. k \in 1..n /\ changes[k].id = o
        BY <1>5, <3>5
      <4>3. x \in added /\ x.ts = t /\ x.id = o /\ x.local = k
        BY <1>5, <1>11, <4>1, <4>2, CapturedEvent
      <4>4. x \in here
        BY <4>3 DEF EventsAt
      <4>. QED
        BY <2>5, <3>2, <4>3, <4>4
    <3>7. i <= k
      BY <3>3, <3>5
    <3>8. k \in Nat /\ i \in Nat
      <4>1. k \in 1..n
        BY <1>5, <3>5
      <4>. QED
        BY <4>1
    <3>9. i = k
      BY <3>6, <3>7, <3>8
    <3>. QED
      BY <1>6, <3>2, <3>3, <3>4, <3>9
  <2> HIDE DEF here
  <2>6. Continues(added, replay', clock + 1, o)
    <3>1. here = EventsAt(added, clock + 1, o)
      BY DEF here
    <3>. QED
      BY <2>2, <2>3, <2>4, <2>5, <3>1 DEF Continues
  <2>. QED
    BY <2>1, <2>6 DEF Goes
<1>14. \A c \in channels' : c \notin channels => \E o \in Orders : book'[o] # Absent
  BY <1>1
<1>15. \A o \in Orders : Goes(added, channels', replay', clock + 1, o)
  BY <1>13
<1>16. channels' # {}
  BY <1>1
<1>. QED
  BY <1>3, <1>8, <1>9, <1>12, <1>14, <1>15, <1>16, <1>18, AddsKeep

SnapshotEvents(snapshot, k, t) ==
    {Event(t, t, 1, o, snapshot[o], k, Null) : o \in {o \in Orders : snapshot[o] # Absent}}

LEMMA SubscribeKeeps ==
    ASSUME IInv, MonthStartEvents = FALSE, NEW snapshot \in Books, Subscribe(snapshot)
    PROVE  IInv'
<1> DEFINE t == clock + 1
           k == IF channels = {} THEN 1 ELSE Channel + 1
           n == [channel |-> k, start |-> t]
           added == SnapshotEvents(snapshot, k, t)
<1>1. /\ k <= MaxChannels /\ CanAdvance(clock + 1) /\ ~IsEmpty(snapshot)
      /\ clock' = clock + 1 /\ book' = snapshot /\ replay' = Append(replay, book')
      /\ channels' = channels \union {n} /\ transient' = transient \union added
      /\ UNCHANGED << level3, eras, load, saved, failed, loaded >>
  BY DEF Subscribe, SnapshotEvents
<1>2. HistorySound
  BY DEF IInv
<1>3. /\ ~load.running /\ clock \in 0..MaxTime /\ clock \in Nat /\ clock < MaxTime
      /\ MonthStart(clock + 1) # clock + 1
  BY <1>1, <1>2, AdvanceIs
<1>4. Sound(level3, eras, transient, channels, loaded, 0, clock, replay)
  BY <1>3 DEF IInv
<1>5. CaptureAdds(added)
  BY <1>1 DEF CaptureAdds
<1>6. \A o \in Orders : snapshot[o] \in States
  BY DEF Books, States
<1>7. \A c \in channels : c.start \in 1..clock /\ c.channel \in 1..MaxChannels
  BY <1>4 DEF Sound, ChannelsSound
<1>8. k \in 1..MaxChannels /\ \A c \in channels : c.channel < k
  <2>1. CASE channels = {}
    BY <1>1, <2>1, LoadingAssumption
  <2>2. CASE channels # {}
    <3>1. PICK m : IsCurrent(channels, m, clock + 1) /\ m.channel = Channel
                   /\ Channel \in 1..MaxChannels
      BY <1>3, <1>4, <2>2, CurrentChannel DEF Sound
    <3>2. \A c \in channels : c.channel <= Channel
      BY <3>1 DEF IsCurrent
    <3>3. k = Channel + 1 /\ MaxChannels \in Nat
      BY <2>2, LoadingAssumption
    <3>4. k \in 1..MaxChannels
      BY <1>1, <3>1, <3>3
    <3>. QED
      BY <1>7, <3>1, <3>2, <3>3, <3>4
  <2>. QED
    BY <2>1, <2>2
<1> HIDE DEF k
<1>9. n.start = clock + 1 /\ n.channel = k /\ n \in channels' /\ n \notin channels
  <2>1. n.start = clock + 1
    OBVIOUS
  <2>2. n \notin channels
    BY <1>3, <1>7, <2>1
  <2>. QED
    BY <1>1, <2>1, <2>2
<1>10. ChannelsGrow(channels, channels', clock) /\ ChannelsSound(channels', clock + 1)
  <2>1. ChannelsSound(channels, clock + 1)
    BY <1>3, <1>4, ChannelsLater DEF Sound
  <2>2. n \in [channel : 1..MaxChannels, start : 1..(clock + 1)]
    <3>1. clock + 1 \in 1..(clock + 1)
      BY <1>3
    <3>. QED
      BY <1>8, <3>1
  <2>3. channels' \subseteq [channel : 1..MaxChannels, start : 1..(clock + 1)]
    BY <1>1, <2>1, <2>2 DEF ChannelsSound
  <2>4. ASSUME NEW c \in channels', NEW x \in channels', c.start = x.start PROVE c = x
    <3>1. CASE c \in channels /\ x \in channels
      BY <2>1, <2>4, <3>1 DEF ChannelsSound
    <3>2. CASE c \notin channels \/ x \notin channels
      <4>1. \A y \in channels : y.start # n.start
        BY <1>3, <1>7, <1>9
      <4>. QED
        BY <1>1, <2>4, <3>2, <4>1
    <3>. QED
      BY <3>1, <3>2
  <2>5. \A x \in channels' : x.start <= n.start /\ x.channel <= n.channel
    <3>1. ASSUME NEW x \in channels PROVE x.start <= clock + 1 /\ x.channel <= k
      <4>1. x.start \in 1..clock /\ x.channel \in 1..MaxChannels /\ x.channel < k
        BY <1>7, <1>8
      <4>2. MaxChannels \in Nat
        BY LoadingAssumption
      <4>. QED
        BY <1>3, <1>8, <4>1, <4>2
    <3>2. n.start <= n.start /\ n.channel <= n.channel
      <4>1. k \in Nat
        BY <1>8, LoadingAssumption
      <4>. QED
        BY <1>3, <1>9, <4>1
    <3>. QED
      BY <1>1, <1>9, <3>1, <3>2
  <2>6. \E c \in channels' : \A x \in channels' : x.start <= c.start /\ x.channel <= c.channel
    BY <1>9, <2>5
  <2>7. ChannelsSound(channels', clock + 1)
    BY <2>3, <2>4, <2>6 DEF ChannelsSound
  <2>. QED
    BY <1>1, <1>9, <2>7 DEF ChannelsGrow
<1>11. Covers(channels', n, clock + 1)
  <2>1. clock + 1 \in 0..MaxTime
    BY <1>3, TableAssumption
  <2>2. EndIs(channels', n)
    BY <1>9, <1>10, <2>1, ChannelEndIs
  <2>. QED
    BY <1>3, <1>9, <2>2 DEF EndIs, Covers
<1>12. ASSUME NEW e \in added
       PROVE  /\ e = Event(t, t, 1, e.id, snapshot[e.id], k, Null)
              /\ e.ts = t /\ e.stamp = t /\ e.local = 1 /\ e.id \in Orders /\ e.channel = k /\ e.no = Null
              /\ StateOf(e) = snapshot[e.id] /\ snapshot[e.id] # Absent
  <2>1. PICK o \in Orders : snapshot[o] # Absent /\ e = Event(t, t, 1, o, snapshot[o], k, Null)
    BY DEF SnapshotEvents
  <2>2. e.ts = t /\ e.stamp = t /\ e.local = 1 /\ e.id = o /\ e.channel = k /\ e.no = Null /\ StateOf(e) = snapshot[o]
    BY <1>6, <2>1, CapturedEvent
  <2>. QED
    BY <2>1, <2>2
<1>13. \A o \in Orders : snapshot[o] # Absent => Event(t, t, 1, o, snapshot[o], k, Null) \in added
  BY DEF SnapshotEvents
<1> HIDE DEF added
<1>14. EventsGrow(transient, added, channels', clock)
  <2>1. 1 \in LocalTimes
    <3>1. MaxChanges \in Nat /\ MaxTime \in Nat
      BY LoadingAssumption, TableAssumption
    <3>. QED
      BY <3>1 DEF LocalTimes
  <2>2. ASSUME NEW e \in added PROVE NewEvent(e, channels', clock)
    <3>1. \E c \in channels' : c.channel = e.channel /\ Covers(channels', c, e.ts)
      BY <1>9, <1>11, <1>12
    <3>2. StateOf(e) \in States
      BY <1>6, <1>12
    <3>3. e.stamp \in Int /\ e.stamp <= e.ts
      BY <1>3, <1>12
    <3>. QED
      BY <1>8, <1>12, <2>1, <3>1, <3>2, <3>3 DEF NewEvent
  <2>3. ASSUME NEW e \in added, NEW x \in added, e.id = x.id PROVE e = x
    BY <1>12, <2>3
  <2>. QED
    BY <2>2, <2>3 DEF EventsGrow
<1>19. AddedKept(level3, transient, channels, added, clock)
  BY <1>12 DEF AddedKept
<1>15. ASSUME NEW o \in Orders PROVE Goes(added, channels', replay', clock + 1, o)
  <2>1. StartsAt(channels', clock + 1)
    BY <1>9 DEF StartsAt
  <2>2. replay'[clock + 1] = snapshot
    BY <1>1, <1>2, BookAppended
  <2> DEFINE here == EventsAt(added, t, o)
  <2>3. ASSUME here = {} PROVE snapshot[o] = Absent
    <3>1. SUFFICES ASSUME snapshot[o] # Absent PROVE FALSE
      OBVIOUS
    <3>2. PICK e : e = Event(t, t, 1, o, snapshot[o], k, Null)
      OBVIOUS
    <3>3. e \in added /\ e.ts = t /\ e.id = o
      BY <1>6, <1>13, <3>1, <3>2, CapturedEvent
    <3>4. e \in here
      BY <3>3 DEF EventsAt
    <3>. QED
      BY <2>3, <3>4
  <2>4. ASSUME NEW e \in here PROVE StateOf(e) = snapshot[o] /\ e.price > 0
    <3>1. e \in added /\ e.id = o
      BY DEF EventsAt
    <3>2. StateOf(e) = snapshot[o] /\ snapshot[o] # Absent
      BY <1>12, <3>1
    <3>3. snapshot[o] \in Present
      BY <1>6, <3>2 DEF States
    <3>4. e.price \in Prices
      BY <3>2, <3>3 DEF StateOf, Present
    <3>5. e.price \in Nat \ {0}
      BY <3>4, TableAssumption
    <3>6. e.price > 0
      BY <3>5
    <3>. QED
      BY <3>2, <3>6
  <2> HIDE DEF here
  <2>5. ShowsAll(added, replay', clock + 1, o)
    <3>1. here = EventsAt(added, clock + 1, o)
      BY DEF here
    <3>. QED
      BY <2>2, <2>3, <2>4, <3>1 DEF ShowsAll
  <2>. QED
    BY <2>1, <2>5 DEF Goes
<1>16. \A c \in channels' : c \notin channels => \E o \in Orders : book'[o] # Absent
  BY <1>1 DEF IsEmpty
<1>17. \A o \in Orders : Goes(added, channels', replay', clock + 1, o)
  BY <1>15
<1>18. channels' # {}
  BY <1>9
<1>. QED
  BY <1>3, <1>5, <1>10, <1>14, <1>16, <1>17, <1>18, <1>19, AddsKeep

-----------------------------------------------------------------------------
(***************************************************************************)
(* A load begins.  The book has not changed between what is loaded and the *)
(* first event.                                                            *)
(***************************************************************************)
Quiet(events, chans, f, g) ==
    /\ \A e \in events : g < e.ts
    /\ \A c \in chans : f < c.start => g < c.start

LEMMA NothingStarts ==
    ASSUME NEW now \in 0..MaxTime, NEW f \in 0..now, NEW g \in 0..now, NEW chans, NEW events,
           NEW rep, ChannelsSound(chans, now), StreamSound(events, chans, f, now, rep),
           SessionsShow(chans, f, 0, rep), \A e \in events : g < e.ts
    PROVE  Quiet(events, chans, f, g)
<1>0. now \in Nat /\ f \in Nat /\ g \in Nat
  <2>1. now \in Nat
    BY TableAssumption
  <2>. QED
    BY <2>1
<1>1. SUFFICES ASSUME NEW c \in chans, f < c.start, ~(g < c.start) PROVE FALSE
  BY DEF Quiet
<1>2. c.start \in 1..now
  BY DEF ChannelsSound
<1>3. c.start \in Nat /\ c.start # 0 /\ c.start <= g
  BY <1>0, <1>1, <1>2
<1>4. PICK o \in Orders : rep[c.start][o] # Absent
  BY <1>1, <1>3 DEF SessionsShow
<1>5. c.start \in (f + 1)..now
  BY <1>0, <1>1, <1>2
<1>6. ShowsAll(events, rep, c.start, o)
  BY <1>5 DEF StreamSound, StartsAt
<1>7. \A e \in events : e.ts # c.start
  <2>1. \A e \in events : e.ts \in Nat
    BY DEF StreamSound
  <2>. QED
    BY <1>0, <1>3, <2>1
<1>8. EventsAt(events, c.start, o) = {}
  BY <1>7 DEF EventsAt
<1>. QED
  BY <1>4, <1>6, <1>8 DEF ShowsAll

LEMMA BookStays ==
    ASSUME NEW now \in 0..MaxTime, NEW f \in 0..now, NEW g \in 0..now, NEW chans, NEW events,
           NEW rep, StreamSound(events, chans, f, now, rep), Quiet(events, chans, f, g),
           NEW o \in Orders
    PROVE  \A t \in f..g : BookOf(rep, t)[o] = BookOf(rep, f)[o]
<1>0. now \in Nat /\ f \in Nat /\ g \in Nat
  <2>1. now \in Nat
    BY TableAssumption
  <2>. QED
    BY <2>1
<1> DEFINE T == {t \in f..g : BookOf(rep, t)[o] # BookOf(rep, f)[o]}
<1>1. SUFFICES ASSUME T # {} PROVE FALSE
  OBVIOUS
<1>2. PICK t \in T : \A k \in T : t <= k
  <2>1. T \in SUBSET Nat
    BY <1>0
  <2>. QED
    BY <1>1, <2>1, NatMinimum
<1>3. t \in f..g /\ t # f /\ BookOf(rep, t)[o] # BookOf(rep, f)[o]
  OBVIOUS
<1>4. t \in Nat /\ t # 0 /\ f < t /\ t <= g /\ t - 1 \in f..g /\ ~(t <= t - 1) /\ t \in (f + 1)..now
  BY <1>0, <1>3
<1>5. BookOf(rep, t - 1)[o] = BookOf(rep, f)[o]
  <2>1. t - 1 \notin T
    BY <1>2, <1>4
  <2> HIDE DEF BookOf
  <2>. QED
    BY <1>4, <2>1
<1>6. ~StartsAt(chans, t)
  <2>1. SUFFICES ASSUME NEW c \in chans, c.start = t PROVE FALSE
    BY DEF StartsAt
  <2>2. g < t
    BY <1>4, <2>1 DEF Quiet
  <2>. QED
    BY <1>0, <1>4, <2>2
<1>7. Continues(events, rep, t, o)
  BY <1>4, <1>6 DEF StreamSound
<1>8. EventsAt(events, t, o) = {}
  <2>1. \A e \in events : e.ts \in Nat /\ g < e.ts
    BY DEF StreamSound, Quiet
  <2>2. \A e \in events : e.ts # t
    BY <1>0, <1>4, <2>1
  <2>. QED
    BY <2>2 DEF EventsAt
<1>9. rep[t][o] = BookOf(rep, t - 1)[o]
  BY <1>7, <1>8 DEF Continues
<1>10. BookOf(rep, t) = rep[t]
  BY <1>4 DEF BookOf
<1> HIDE DEF BookOf
<1>. QED
  BY <1>3, <1>5, <1>9, <1>10

LEMMA QuietReplays ==
    ASSUME NEW now \in 0..MaxTime, NEW f \in 0..now, NEW g \in 0..now, f <= g,
           NEW table, NEW ers, NEW rep, Level3Sound(table, ers, f, rep),
           \A o \in Orders : \A t \in f..g : BookOf(rep, t)[o] = BookOf(rep, f)[o]
    PROVE  Level3Sound(table, ers, g, rep)
<1>0. now \in Nat /\ f \in Nat /\ g \in Nat /\ f \in 0..MaxTime /\ MaxTime \in Nat
  <2>1. now \in Nat /\ MaxTime \in Nat
    BY TableAssumption
  <2>. QED
    BY <2>1
<1>1. RowsSound(table, f) /\ Linked(table) /\ Replays(table, ers, f, rep) /\ ErasSound(table, ers, f)
  BY DEF Level3Sound
<1>2. DOMAIN ers \subseteq 1..f
  BY <1>1 DEF ErasSound
<1>3. RowsSound(table, g)
  <2>1. ASSUME NEW r \in table
        PROVE  /\ r.mts <= g
               /\ r.next \in {Infinity, MinusInfinity} \/ (r.mts < r.next /\ r.next <= g)
    <3>1. r \in Rows /\ r.mts <= f
          /\ (r.next \in {Infinity, MinusInfinity} \/ (r.mts < r.next /\ r.next <= f))
      BY <1>1 DEF RowsSound
    <3>2. r.mts \in Nat /\ r.next \in Int
      BY <3>1, RowTimes
    <3>. QED
      BY <1>0, <3>1, <3>2
  <2>. QED
    BY <1>1, <2>1 DEF RowsSound
<1>4. Replays(table, ers, g, rep)
  <2>1. SUFFICES ASSUME NEW t \in 1..g, ErasUpTo(ers, t) # {} PROVE Shows(table, ers, t, rep[t])
    BY DEF Replays
  <2>2. CASE t <= f
    <3>1. t \in 1..f
      BY <1>0, <2>2
    <3>. QED
      BY <1>1, <2>1, <3>1 DEF Replays
  <2>3. CASE ~(t <= f)
    <3>1. f <= t /\ t \in f..g /\ t \in 0..MaxTime /\ t # 0
      BY <1>0, <2>3
    <3>2. LiveAt(table, ers, t) = OpenTable(table, ers)
      BY <1>0, <1>1, <1>2, <3>1, OpenTableIs
    <3>3. DOMAIN ers # {}
      BY <2>1 DEF ErasUpTo
    <3>4. /\ OpenTable(table, ers) \subseteq table
          /\ \A r, x \in OpenTable(table, ers) : r.id = x.id => r = x
          /\ \A r \in OpenTable(table, ers) : StateOf(r) = BookOf(rep, f)[r.id]
          /\ \A o \in Orders : BookOf(rep, f)[o] # Absent =>
                 \E r \in OpenTable(table, ers) : r.id = o
      BY <1>0, <3>3, OpenTableShown
    <3>5. \A o \in Orders : rep[t][o] = BookOf(rep, f)[o]
      BY <3>1 DEF BookOf
    <3>6. \A r \in OpenTable(table, ers) : r.id \in Orders
      BY <1>1, <3>4 DEF RowsSound, Rows
    <3>. QED
      BY <3>2, <3>4, <3>5, <3>6 DEF Shows
  <2>. QED
    BY <2>2, <2>3
<1>5. ErasSound(table, ers, g)
  <2>1. 1..f \subseteq 1..g
    BY <1>0
  <2>. QED
    BY <1>1, <2>1 DEF ErasSound
<1>. QED
  BY <1>1, <1>3, <1>4, <1>5 DEF Level3Sound

LEMMA QuietStretch ==
    ASSUME NEW now \in 0..MaxTime, NEW f \in 0..now, NEW g \in 0..now, f <= g,
           NEW table, NEW ers, NEW events, NEW chans, NEW rep,
           Sound(table, ers, events, chans, f, 0, now, rep), \A e \in events : g < e.ts
    PROVE  Sound(table, ers, events, chans, g, 0, now, rep) /\ Quiet(events, chans, f, g)
<1>0. now \in Nat /\ f \in Nat /\ g \in Nat
  <2>1. now \in Nat
    BY TableAssumption
  <2>. QED
    BY <2>1
<1>1. /\ Level3Sound(table, ers, f, rep) /\ StreamSound(events, chans, f, now, rep)
      /\ ChannelsSound(chans, now) /\ MonthsReached(table, ers, chans, f)
      /\ MonthStartsQuiet(events, 0) /\ SessionsShow(chans, f, 0, rep)
  BY DEF Sound
<1>2. Quiet(events, chans, f, g)
  BY <1>1, NothingStarts
<1>3. Level3Sound(table, ers, g, rep)
  <2>1. \A o \in Orders : \A t \in f..g : BookOf(rep, t)[o] = BookOf(rep, f)[o]
    BY <1>1, <1>2, BookStays
  <2>. QED
    BY <1>1, <2>1, QuietReplays
<1>4. StreamSound(events, chans, g, now, rep)
  <2>1. StreamSound(Later(events, g), chans, g, now, rep)
    BY <1>1, StreamLater
  <2>2. Later(events, g) = events
    BY DEF Later
  <2>. QED
    BY <2>1, <2>2
<1>5. \A c \in chans : c.start \in Nat
  BY <1>1 DEF ChannelsSound
<1>6. MonthsReached(table, ers, chans, g)
  <2>1. \A c \in chans : c.start <= g => c.start <= f
    BY <1>0, <1>2, <1>5 DEF Quiet
  <2>. QED
    BY <1>1, <2>1 DEF MonthsReached
<1>7. SessionsShow(chans, g, 0, rep)
  <2>1. \A c \in chans : g < c.start => f < c.start
    BY <1>0, <1>5
  <2>. QED
    BY <1>1, <2>1 DEF SessionsShow
<1>. QED
  BY <1>1, <1>2, <1>3, <1>4, <1>6, <1>7 DEF Sound

\* What BeginLoad works out.
BeginFirst == FirstTime(transient)
BeginLast == LastTime(transient) - Delay
BeginCrosses == Month(BeginFirst) # Month(BeginLast)
BeginMonth == ~BeginCrosses /\ MonthBegins(BeginFirst)
BeginFrom == IF BeginMonth THEN MonthStart(BeginFirst) ELSE BeginFirst
BeginUpTo == IF BeginCrosses THEN MonthStart(BeginLast) - 1 ELSE BeginLast
BeginTo == IF BeginFrom + MaxInterval < BeginUpTo THEN BeginFrom + MaxInterval ELSE BeginUpTo
BeginLeft(chans) ==
    {c \in chans : c.start <= BeginTo /\ ChannelEnd(c, chans) >= BeginFrom}

LEMMA BeginLoadIs ==
    ASSUME BeginLoad
    PROVE  /\ ~load.running /\ transient # {}
           /\ channels' = channels \union IF BeginMonth THEN {SnapshotChannel(BeginFrom)} ELSE {}
           /\ transient' = transient \union IF BeginMonth THEN MonthSnapshot(BeginFrom) ELSE {}
           /\ load' = [running |-> TRUE, from |-> BeginFrom, to |-> BeginTo,
                       left |-> BeginLeft(channels')]
           /\ saved' = Tables
           /\ UNCHANGED << clock, book, level3, eras, failed, loaded, replay >>
BY DEF BeginLoad, BeginFirst, BeginLast, BeginCrosses, BeginMonth, BeginFrom, BeginUpTo, BeginTo,
       BeginLeft, history

Extent ==
    /\ BeginFirst \in 1..clock /\ loaded < BeginFirst
    /\ \A e \in transient : e.ts \in Nat /\ BeginFirst <= e.ts
    /\ \E e \in transient : e.ts = BeginFirst
    /\ BeginLast \in Int /\ BeginLast <= clock
    /\ \A e \in transient : e.ts - Delay <= BeginLast
    /\ \E e \in transient : e.ts - Delay = BeginLast /\ BeginLast <= e.ts

LEMMA ExtentOf ==
    ASSUME StreamSound(transient, channels, loaded, clock, replay), transient # {},
           clock \in 0..MaxTime, loaded \in 0..clock
    PROVE  Extent
<1> DEFINE S == {e.ts : e \in transient}
<1>0. clock \in Nat /\ loaded \in Nat /\ Delay \in Nat
  <2>1. clock \in Nat /\ Delay \in Nat
    BY TableAssumption, LoadingAssumption
  <2>. QED
    BY <2>1
<1>1. \A e \in transient : e.ts \in Nat /\ loaded < e.ts /\ e.ts <= clock
  BY DEF StreamSound
<1>2. S # {} /\ S \subseteq 0..clock /\ S \subseteq Nat
  BY <1>0, <1>1
<1>3. PICK a : a = Min(S)
  OBVIOUS
<1>4. a \in S /\ \A y \in S : a <= y
  BY <1>2, <1>3, MinIsLeast
<1>5. PICK b : b = Max(S)
  OBVIOUS
<1>6. b \in S /\ \A y \in S : y <= b
  BY <1>0, <1>2, <1>5, MaxIsGreatest
<1>7. BeginFirst = a /\ BeginLast = b - Delay
  BY <1>3, <1>5 DEF BeginFirst, BeginLast, FirstTime, LastTime
<1>8. PICK x \in transient : x.ts = a
  BY <1>4
<1>9. PICK y \in transient : y.ts = b
  BY <1>6
<1>10. a \in 1..clock /\ loaded < a
  BY <1>0, <1>1, <1>8
<1>11. \A e \in transient : e.ts \in Nat /\ a <= e.ts /\ e.ts <= b
  BY <1>1, <1>4, <1>6
<1>12. b \in Nat /\ b <= clock
  BY <1>1, <1>9
<1>13. \A e \in transient : e.ts - Delay <= b - Delay
  BY <1>0, <1>11, <1>12
<1>14. b - Delay \in Int /\ b - Delay <= clock /\ b - Delay <= b
  BY <1>0, <1>12
<1>. QED
  BY <1>7, <1>8, <1>9, <1>10, <1>11, <1>13, <1>14 DEF Extent

LEMMA HasLastRow ==
    ASSUME NEW f \in Nat, level3 \subseteq Rows, \A r \in level3 : r.mts <= f, NEW t \in Int
    PROVE  /\ LastEraRows = LastRows(level3, eras)
           /\ ~MonthBegins(t) => (LastEraRows # {} => \E r \in LastEraRows : Month(t) = Month(r.mts))
           /\ MonthBegins(t) /\ f <= t =>
                /\ LastEraRows # {}
                /\ \A r \in LastEraRows : Month(r.mts) < Month(t)
<1> DEFINE S == {r.mts : r \in LastEraRows}
<1>1. LastEraRows = LastRows(level3, eras) /\ LastEraRows \subseteq level3
  BY DEF LastEraRows, LastRows
<1>2. \A r \in level3 : r.mts \in Nat /\ r.mts <= f
  BY RowTimes
<1>3. S \subseteq 0..f
  BY <1>1, <1>2
<1>4. PICK m : m = Max(S)
  OBVIOUS
<1>5. S # {} => m \in S /\ \A y \in S : y <= m
  BY <1>3, <1>4, MaxIsGreatest
<1>6. S = {} <=> LastEraRows = {}
  OBVIOUS
<1>7. MonthBegins(t) <=> LastEraRows # {} /\ Month(m) # Month(t)
  BY <1>4 DEF MonthBegins
<1>8. ASSUME MonthBegins(t), f <= t, NEW r \in LastEraRows PROVE Month(r.mts) < Month(t)
  <2>1. r.mts \in S /\ r.mts <= m
    BY <1>5
  <2>2. m \in 0..f
    BY <1>3, <1>5, <2>1
  <2>3. m \in Int /\ m <= t /\ r.mts \in Int
    BY <1>1, <1>2, <1>8, <2>2
  <2>4. Month(r.mts) \in Int /\ Month(m) \in Int /\ Month(t) \in Int
        /\ Month(r.mts) <= Month(m) /\ Month(m) <= Month(t)
    BY <2>1, <2>3, MonthOrder
  <2>. QED
    BY <1>7, <1>8, <2>4
<1>9. ASSUME ~MonthBegins(t), LastEraRows # {} PROVE \E r \in LastEraRows : Month(t) = Month(r.mts)
  <2>1. m \in S /\ Month(m) = Month(t)
    BY <1>5, <1>6, <1>7, <1>9
  <2>. QED
    BY <2>1
<1>. QED
  BY <1>1, <1>7, <1>8, <1>9

MonthStartsAfter ==
    /\ loaded < MonthStart(BeginFirst) /\ MonthStart(BeginFirst) < BeginFirst
    /\ MonthStart(BeginFirst) \in 1..clock /\ MonthStart(BeginFirst) <= BeginLast
    /\ MonthStart(MonthStart(BeginFirst)) = MonthStart(BeginFirst)
    /\ Month(MonthStart(BeginFirst)) = Month(BeginFirst)
    /\ LastRows(level3, eras) # {}

\* A load that makes the snapshot of a month makes it of all of the months before.
LEMMA MonthStartsLater ==
    ASSUME Sound(level3, eras, transient, channels, loaded, 0, clock, replay),
           MonthKept(level3, eras, transient, loaded), Extent, BeginMonth,
           clock \in 0..MaxTime, loaded \in 0..clock
    PROVE  MonthStartsAfter
<1>0. clock \in Nat /\ loaded \in Nat /\ Delay \in Nat
  <2>1. clock \in Nat /\ Delay \in Nat
    BY TableAssumption, LoadingAssumption
  <2>. QED
    BY <2>1
<1> DEFINE first == BeginFirst
           start == MonthStart(BeginFirst)
<1>1. first \in 1..clock /\ loaded < first /\ BeginLast \in Int
  BY DEF Extent
<1>2. first \in Nat /\ first \in Int /\ loaded \in Int
  BY <1>0, <1>1
<1>3. level3 \subseteq Rows /\ \A r \in level3 : r.mts <= loaded
  BY DEF Sound, Level3Sound, RowsSound
<1>4. MonthBegins(first) /\ Month(first) = Month(BeginLast)
  BY DEF BeginMonth, BeginCrosses
<1> HIDE DEF first, start
<1>5. LastRows(level3, eras) # {} /\ \A r \in LastRows(level3, eras) : Month(r.mts) < Month(first)
  <2>1. loaded <= first
    BY <1>1, <1>2
  <2>2. LastEraRows = LastRows(level3, eras)
    BY <1>0, <1>2, <1>3, HasLastRow
  <2>3. LastEraRows # {} /\ \A r \in LastEraRows : Month(r.mts) < Month(first)
    BY <1>0, <1>2, <1>3, <1>4, <2>1, HasLastRow
  <2>. QED
    BY <2>2, <2>3
<1>6. Month(first) \in Int /\ Month(loaded) \in Int
  BY <1>2, MonthOrder
<1>7. Month(loaded) < Month(first)
  <2>1. CASE Month(loaded) < Month(loaded + 1)
    <3>1. loaded + 1 \in Int /\ loaded + 1 <= first
      BY <1>1, <1>2
    <3>2. Month(loaded + 1) \in Int /\ Month(loaded + 1) <= Month(first)
      BY <1>2, <3>1, MonthOrder
    <3>. QED
      BY <1>6, <2>1, <3>2
  <2>2. ASSUME NEW e \in transient, Month(loaded) < Month(e.ts - Delay) PROVE Month(loaded) < Month(first)
    <3>1. e.ts \in Nat /\ e.ts - Delay <= BeginLast
      BY DEF Extent
    <3>2. e.ts - Delay \in Int
      BY <1>0, <3>1
    <3>3. Month(e.ts - Delay) \in Int /\ Month(e.ts - Delay) <= Month(BeginLast)
      BY <1>1, <3>1, <3>2, MonthOrder
    <3>. QED
      BY <1>4, <1>6, <2>2, <3>3
  <2>3. ASSUME NEW r \in LastRows(level3, eras), Month(loaded) <= Month(r.mts)
        PROVE  Month(loaded) < Month(first)
    <3>1. r \in Rows
      BY <1>3 DEF LastRows
    <3>2. r.mts \in Int
      BY <3>1, RowTimes
    <3>3. Month(r.mts) \in Int
      BY <3>2, MonthOrder
    <3>4. Month(r.mts) < Month(first)
      BY <1>5
    <3>. QED
      BY <1>6, <2>3, <3>3, <3>4
  <2>. QED
    BY <1>5, <2>1, <2>2, <2>3 DEF MonthKept, MonthEnds, HasRowsAt
<1>8. start \in Int /\ start <= first /\ Month(start) = Month(first)
  BY <1>2, MonthStarts DEF start, first
<1>9. loaded < start
  <2>1. SUFFICES ASSUME ~(loaded < start) PROVE FALSE
    OBVIOUS
  <2>2. start <= loaded
    BY <1>2, <1>8, <2>1
  <2>3. Month(start) <= Month(loaded)
    BY <1>2, <1>8, <2>2, MonthOrder
  <2>. QED
    BY <1>6, <1>7, <1>8, <2>3
<1>10. start # first
  <2>1. PICK e \in transient : e.ts = first
    BY DEF Extent, first
  <2>2. MonthStartsQuiet(transient, 0)
    BY DEF Sound
  <2>3. MonthStart(first) # first
    BY <1>0, <1>1, <2>1, <2>2 DEF MonthStartsQuiet
  <2>. QED
    BY <2>3 DEF start, first
<1>11. start <= BeginLast
  <2>1. SUFFICES ASSUME ~(start <= BeginLast) PROVE FALSE
    OBVIOUS
  <2>2. BeginLast <= start - 1 /\ start - 1 \in Int
    BY <1>1, <1>8, <2>1
  <2>3. Month(BeginLast) \in Int /\ Month(start - 1) \in Int /\ Month(BeginLast) <= Month(start - 1)
    BY <1>1, <2>2, MonthOrder
  <2>4. Month(start - 1) < Month(first)
    BY <1>2, MonthStarts DEF start, first
  <2>. QED
    BY <1>4, <1>6, <2>3, <2>4
<1>12. start \in 1..clock /\ start < first
  <2>1. first <= clock
    BY <1>0, <1>1
  <2>. QED
    BY <1>0, <1>2, <1>8, <1>9, <1>10, <2>1
<1>13. MonthStart(start) = start
  <2>1. Month(start) = Month(first)
    BY <1>8
  <2>. QED
    BY <2>1 DEF MonthStart, start, first
<1>. QED
  BY <1>5, <1>8, <1>9, <1>11, <1>12, <1>13 DEF MonthStartsAfter, start, first

BeginBounds ==
    /\ BeginFrom \in 1..clock /\ loaded < BeginFrom /\ BeginFrom <= BeginFirst
    /\ BeginTo \in Int /\ BeginTo <= clock
    /\ BeginCrosses => MonthEnds(transient, BeginTo)
    /\ ~BeginCrosses => /\ BeginFrom <= BeginTo => Month(BeginFrom) = Month(BeginTo)
                        /\ BeginMonth \/ HasRowsAt(level3, eras, BeginTo)
    /\ BeginMonth => MonthStartsAfter /\ BeginFrom = MonthStart(BeginFirst) /\ BeginFrom <= BeginTo
    /\ ~BeginMonth => BeginFrom = BeginFirst

LEMMA BeginBounded ==
    ASSUME Sound(level3, eras, transient, channels, loaded, 0, clock, replay),
           MonthKept(level3, eras, transient, loaded), Extent,
           clock \in 0..MaxTime, loaded \in 0..clock
    PROVE  BeginBounds
<1>0. clock \in Nat /\ loaded \in Nat /\ Delay \in Nat /\ MaxInterval \in Nat
  <2>1. clock \in Nat /\ Delay \in Nat /\ MaxInterval \in Nat
    BY TableAssumption, LoadingAssumption
  <2>. QED
    BY <2>1
<1>1. /\ BeginFirst \in 1..clock /\ BeginFirst \in Int /\ loaded < BeginFirst
      /\ BeginLast \in Int /\ BeginLast <= clock
  <2>1. BeginFirst \in 1..clock /\ loaded < BeginFirst /\ BeginLast \in Int /\ BeginLast <= clock
    BY DEF Extent
  <2>. QED
    BY <2>1
<1>2. BeginMonth => MonthStartsAfter
  BY MonthStartsLater
<1>3. BeginFrom \in 1..clock /\ loaded < BeginFrom /\ BeginFrom <= BeginFirst /\ BeginFrom \in Int
  <2>1. CASE BeginMonth
    <3>1. BeginFrom = MonthStart(BeginFirst) /\ MonthStartsAfter
      BY <1>2, <2>1 DEF BeginFrom
    <3>2. BeginFrom \in 1..clock /\ loaded < BeginFrom /\ BeginFrom < BeginFirst
      BY <3>1 DEF MonthStartsAfter
    <3>. QED
      BY <1>1, <3>2
  <2>2. CASE ~BeginMonth
    <3>1. BeginFrom = BeginFirst
      BY <2>2 DEF BeginFrom
    <3>. QED
      BY <1>1, <3>1
  <2>. QED
    BY <2>1, <2>2
<1>4. MonthStart(BeginLast) \in Int /\ MonthStart(BeginLast) <= BeginLast
      /\ Month(BeginLast) \in Int /\ Month(MonthStart(BeginLast) - 1) < Month(BeginLast)
  BY <1>1, MonthStarts
<1>5. BeginUpTo \in Int /\ BeginUpTo <= BeginLast
  <2>1. CASE BeginCrosses
    <3>1. BeginUpTo = MonthStart(BeginLast) - 1
      BY <2>1 DEF BeginUpTo
    <3>. QED
      BY <1>1, <1>4, <3>1
  <2>2. CASE ~BeginCrosses
    <3>1. BeginUpTo = BeginLast
      BY <2>2 DEF BeginUpTo
    <3>. QED
      BY <1>1, <3>1
  <2>. QED
    BY <2>1, <2>2
<1>6. BeginTo \in Int /\ BeginTo <= BeginUpTo /\ BeginTo <= BeginLast /\ BeginTo <= clock
      /\ (BeginTo = BeginUpTo \/ BeginFrom <= BeginTo)
  <2>1. CASE BeginFrom + MaxInterval < BeginUpTo
    <3>1. BeginTo = BeginFrom + MaxInterval
      BY <2>1 DEF BeginTo
    <3>. QED
      BY <1>0, <1>1, <1>3, <1>5, <2>1, <3>1
  <2>2. CASE ~(BeginFrom + MaxInterval < BeginUpTo)
    <3>1. BeginTo = BeginUpTo
      BY <2>2 DEF BeginTo
    <3>. QED
      BY <1>1, <1>5, <3>1
  <2>. QED
    BY <2>1, <2>2
<1>7. ASSUME BeginCrosses PROVE MonthEnds(transient, BeginTo)
  <2>1. BeginTo <= MonthStart(BeginLast) - 1 /\ MonthStart(BeginLast) - 1 \in Int
    BY <1>4, <1>6, <1>7 DEF BeginUpTo
  <2>2. Month(BeginTo) \in Int /\ Month(MonthStart(BeginLast) - 1) \in Int
        /\ Month(BeginTo) <= Month(MonthStart(BeginLast) - 1)
    BY <1>6, <2>1, MonthOrder
  <2>3. Month(BeginTo) < Month(BeginLast)
    BY <1>4, <2>2
  <2>4. PICK e \in transient : e.ts - Delay = BeginLast /\ BeginLast <= e.ts /\ e.ts \in Nat
    BY DEF Extent
  <2>5. BeginTo < e.ts
    BY <1>1, <1>4, <1>6, <2>1, <2>4
  <2>. QED
    BY <2>3, <2>4, <2>5 DEF MonthEnds
<1>8. ASSUME ~BeginCrosses
      PROVE  /\ BeginFrom <= BeginTo => Month(BeginFrom) = Month(BeginTo)
             /\ BeginMonth \/ HasRowsAt(level3, eras, BeginTo)
             /\ BeginMonth => BeginFrom <= BeginTo
  <2>1. Month(BeginFirst) = Month(BeginLast) /\ Month(BeginFirst) \in Int /\ Month(BeginTo) \in Int
        /\ Month(BeginTo) <= Month(BeginLast)
    BY <1>1, <1>6, <1>8, MonthOrder DEF BeginCrosses
  <2>2. Month(BeginFrom) = Month(BeginFirst)
    <3>1. CASE BeginMonth
      BY <1>2, <3>1 DEF BeginFrom, MonthStartsAfter
    <3>2. CASE ~BeginMonth
      BY <3>2 DEF BeginFrom
    <3>. QED
      BY <3>1, <3>2
  <2>3. BeginFrom <= BeginTo => Month(BeginFrom) = Month(BeginTo)
    <3>1. BeginFrom <= BeginTo => Month(BeginFrom) <= Month(BeginTo)
      BY <1>3, <1>6, MonthOrder
    <3>. QED
      BY <2>1, <2>2, <3>1
  <2>4. ASSUME ~BeginMonth PROVE HasRowsAt(level3, eras, BeginTo)
    <3>1. level3 \subseteq Rows /\ \A r \in level3 : r.mts <= loaded
      BY DEF Sound, Level3Sound, RowsSound
    <3>2. ~MonthBegins(BeginFirst)
      BY <1>8, <2>4 DEF BeginMonth
    <3>3. LastEraRows = LastRows(level3, eras)
          /\ (LastEraRows # {} => \E r \in LastEraRows : Month(BeginFirst) = Month(r.mts))
      BY <1>0, <1>1, <3>1, <3>2, HasLastRow
    <3>4. ASSUME NEW r \in LastRows(level3, eras), Month(BeginFirst) = Month(r.mts)
          PROVE  Month(BeginTo) <= Month(r.mts)
      BY <2>1, <3>4
    <3>. QED
      BY <3>3, <3>4 DEF HasRowsAt
  <2>5. ASSUME BeginMonth PROVE BeginFrom <= BeginTo
    <3>1. BeginFrom = MonthStart(BeginFirst) /\ MonthStart(BeginFirst) <= BeginLast
      BY <1>2, <2>5 DEF BeginFrom, MonthStartsAfter
    <3>2. BeginUpTo = BeginLast
      BY <1>8 DEF BeginUpTo
    <3>. QED
      BY <1>1, <1>3, <1>6, <3>1, <3>2
  <2>. QED
    BY <2>3, <2>4, <2>5
<1>9. BeginMonth => ~BeginCrosses /\ BeginFrom = MonthStart(BeginFirst)
  BY DEF BeginMonth, BeginFrom
<1>10. ~BeginMonth => BeginFrom = BeginFirst
  BY DEF BeginFrom
<1>. QED
  BY <1>2, <1>3, <1>6, <1>7, <1>8, <1>9, <1>10 DEF BeginBounds

\* A channel of a snapshot of level3: it splits the one that covers the first event, or
\* starts before it.
SplitAt(chans, k, n, f, from, first, now) ==
    /\ k \in chans /\ Covers(chans, k, first)
    /\ n.channel = k.channel /\ n.start = from
    /\ from \in 1..now /\ f \in Nat /\ f < from /\ from < first /\ first <= now /\ first \in Nat
    /\ \A c \in chans : f < c.start => from < c.start

LEMMA SplitSound ==
    ASSUME NEW now \in 0..MaxTime, NEW chans, ChannelsSound(chans, now), NEW k, NEW n,
           n \in [channel : 1..MaxChannels, start : 1..now],
           NEW f, NEW from, NEW first, SplitAt(chans, k, n, f, from, first, now)
    PROVE  ChannelsSound(chans \union {n}, now) /\ \A c \in chans : c.start # from
<1>0. now \in Nat /\ from \in Nat /\ f \in Nat /\ first \in Nat /\ f < from /\ from < first /\ first <= now
  <2>1. now \in Nat
    BY TableAssumption
  <2>. QED
    BY <2>1 DEF SplitAt
<1>1. \A c \in chans : c.start \in Nat /\ c.start <= now /\ c.channel \in 1..MaxChannels
  <2>1. \A c \in chans : c.start \in 1..now /\ c.channel \in 1..MaxChannels
    BY DEF ChannelsSound
  <2>. QED
    BY <1>0, <2>1
<1>2. \A c \in chans : c.start # from
  BY <1>0, <1>1 DEF SplitAt
<1>3. n.start = from /\ n.channel = k.channel /\ k \in chans /\ Covers(chans, k, first)
  BY DEF SplitAt
<1>4. chans \union {n} \subseteq [channel : 1..MaxChannels, start : 1..now]
  BY DEF ChannelsSound
<1>5. \A c, x \in chans \union {n} : c.start = x.start => c = x
  BY <1>2, <1>3 DEF ChannelsSound
<1>6. PICK m \in chans : \A x \in chans : x.start <= m.start /\ x.channel <= m.channel
  BY <1>3 DEF ChannelsSound
<1>7. CASE from < m.start
  <2>1. n.start <= m.start /\ n.channel <= m.channel
    BY <1>0, <1>1, <1>3, <1>6, <1>7
  <2>. QED
    BY <1>2, <1>4, <1>5, <1>6, <2>1 DEF ChannelsSound
<1>8. CASE ~(from < m.start)
  <2>1. m.start <= from /\ \A x \in chans : x.start <= from
    BY <1>0, <1>1, <1>6, <1>8
  <2>2. Covers(chans, m, first)
    <3>1. EndIs(chans, m)
      BY ChannelEndIs
    <3>2. ChannelEnd(m, chans) = Infinity
      <4>1. SUFFICES ASSUME ChannelEnd(m, chans) # Infinity PROVE FALSE
        OBVIOUS
      <4>2. PICK x \in chans : x.start = ChannelEnd(m, chans) + 1
        BY <3>1, <4>1 DEF EndIs
      <4>3. m.start <= ChannelEnd(m, chans) /\ ChannelEnd(m, chans) \in Nat
        BY <3>1 DEF EndIs
      <4>4. m.start \in Nat /\ x.start <= m.start
        BY <1>1, <1>6
      <4>. QED
        BY <4>2, <4>3, <4>4
    <3>3. first <= MaxTime /\ MaxTime \in Nat
      BY <1>0, TableAssumption
    <3>4. first <= Infinity
      BY <1>0, <3>3 DEF Infinity
    <3>5. m.start <= first
      BY <1>0, <1>1, <2>1
    <3>. QED
      BY <3>2, <3>4, <3>5 DEF Covers
  <2>3. k = m
    BY <1>0, <1>3, <2>2, OneCovers
  <2>4. \A x \in chans \union {n} : x.start <= n.start /\ x.channel <= n.channel
    <3>1. n.channel \in Nat
      <4>1. n.channel \in 1..MaxChannels /\ MaxChannels \in Nat
        BY LoadingAssumption
      <4>. QED
        BY <4>1
    <3>. QED
      BY <1>0, <1>3, <1>6, <2>1, <2>3, <3>1
  <2>. QED
    BY <1>2, <1>4, <1>5, <2>4 DEF ChannelsSound
<1>. QED
  BY <1>7, <1>8

LEMMA SplitCovers ==
    ASSUME NEW now \in 0..MaxTime, NEW chans, ChannelsSound(chans, now), NEW k, NEW n,
           NEW f, NEW from, NEW first, SplitAt(chans, k, n, f, from, first, now),
           NEW chans2, chans2 = chans \union {n}, ChannelsSound(chans2, now),
           NEW c \in chans, NEW t \in Nat, first <= t, t <= now, Covers(chans, c, t)
    PROVE  \E x \in chans2 : x.channel = c.channel /\ Covers(chans2, x, t)
<1>0. now \in Nat /\ from \in Nat /\ f \in Nat /\ first \in Nat /\ f < from /\ from < first
      /\ first <= now /\ MaxTime \in Nat /\ now <= MaxTime
  <2>1. now \in Nat /\ MaxTime \in Nat
    BY TableAssumption
  <2>. QED
    BY <2>1 DEF SplitAt
<1>1. n.start = from /\ n.channel = k.channel /\ k \in chans /\ Covers(chans, k, first)
  BY DEF SplitAt
<1>2. EndIs(chans, c) /\ EndIs(chans2, c) /\ EndIs(chans2, n)
  BY ChannelEndIs
<1>3. \A x \in chans2 : x.start \in Nat
  <2>1. \A x \in chans2 : x.start \in 1..now
    BY DEF ChannelsSound
  <2>. QED
    BY <1>0, <2>1
<1>4. c.start <= t /\ t <= ChannelEnd(c, chans) /\ ChannelEnd(c, chans) \in Nat /\ c.start \in Nat
  BY <1>2, <1>3 DEF Covers, EndIs
<1>5. t <= Infinity
  <2>1. t <= MaxTime
    BY <1>0
  <2>. QED
    BY <1>0, <2>1 DEF Infinity
\* What starts after a channel that has started from x on ends it later.
<1>6. ASSUME NEW x \in chans2, EndIs(chans2, x), x.start <= t, c.start <= x.start, n.start <= x.start
      PROVE  Covers(chans2, x, t)
  <2>1. CASE ChannelEnd(x, chans2) = Infinity
    BY <1>5, <1>6, <2>1 DEF Covers
  <2>2. CASE ChannelEnd(x, chans2) # Infinity
    <3>1. PICK y \in chans2 : y.start = ChannelEnd(x, chans2) + 1
      BY <1>6, <2>2 DEF EndIs
    <3>2. ChannelEnd(x, chans2) \in Nat /\ x.start <= ChannelEnd(x, chans2) /\ x.start \in Nat
      BY <1>3, <1>6 DEF EndIs
    <3>3. x.start < y.start
      BY <3>1, <3>2
    <3>4. y \in chans
      BY <1>0, <1>1, <1>3, <1>6, <3>2, <3>3
    <3>5. c.start < y.start
      BY <1>3, <1>4, <1>6, <3>2, <3>3
    <3>6. ChannelEnd(c, chans) < y.start
      BY <1>2, <3>4, <3>5 DEF EndIs
    <3>7. t <= ChannelEnd(x, chans2)
      BY <1>4, <3>1, <3>2, <3>6
    <3>. QED
      BY <1>6, <3>7 DEF Covers
  <2>. QED
    BY <2>1, <2>2
<1>7. CASE from < c.start
  <2>1. c \in chans2 /\ n.start <= c.start /\ c.start <= c.start
    BY <1>0, <1>1, <1>4, <1>7
  <2>2. Covers(chans2, c, t)
    BY <1>2, <1>4, <1>6, <2>1
  <2>. QED
    BY <2>1, <2>2
<1>8. CASE ~(from < c.start)
  <2>1. c.start <= from /\ n \in chans2 /\ n.start <= t /\ n.start <= n.start
    BY <1>0, <1>1, <1>4, <1>8
  <2>2. Covers(chans2, n, t)
    BY <1>1, <1>2, <1>6, <2>1
  <2>3. Covers(chans, c, first)
    BY <1>0, <1>4, <2>1 DEF Covers
  <2>4. c = k
    BY <1>0, <1>1, <2>3, OneCovers
  <2>. QED
    BY <1>1, <2>1, <2>2, <2>4
<1>. QED
  BY <1>7, <1>8

\* The snapshot of level3 at the first instant of a month shows the book.
SnapshotAt(snapshot, k, from, rep) ==
    /\ \A e \in snapshot :
         /\ e.ts = from /\ e.stamp = from /\ e.local = Null /\ e.no = Null /\ e.channel = k.channel
         /\ e.id \in Orders /\ StateOf(e) \in Present /\ StateOf(e) = rep[from][e.id]
    /\ \A e, x \in snapshot : e.id = x.id => e = x
    /\ \A o \in Orders : rep[from][o] # Absent => \E e \in snapshot : e.id = o

LEMMA SnapshotShows ==
    ASSUME NEW now \in 0..MaxTime, NEW f, NEW from \in 1..now, f = from - 1, NEW table, NEW ers, NEW rep,
           Level3Sound(table, ers, f, rep), DOMAIN ers # {}, rep[from] = BookOf(rep, f), NEW k,
           NEW snapshot,
           snapshot = {Event(from, from, Null, r.id, r, k.channel, Null) : r \in LiveBefore(table, ers, from)}
    PROVE  SnapshotAt(snapshot, k, from, rep)
<1>0. from \in 0..MaxTime /\ f \in 0..MaxTime /\ f < from
  <2>1. now \in Nat /\ MaxTime \in Nat
    BY TableAssumption
  <2>. QED
    BY <2>1
<1>1. RowsSound(table, f) /\ DOMAIN ers \subseteq 1..f
  BY DEF Level3Sound, ErasSound
<1>2. LiveBefore(table, ers, from) = OpenTable(table, ers)
  BY <1>0, <1>1, OpenTableIs
<1>3. /\ OpenTable(table, ers) \subseteq table
      /\ \A r, x \in OpenTable(table, ers) : r.id = x.id => r = x
      /\ \A r \in OpenTable(table, ers) : StateOf(r) = BookOf(rep, f)[r.id]
      /\ \A o \in Orders : BookOf(rep, f)[o] # Absent => \E r \in OpenTable(table, ers) : r.id = o
  BY <1>0, OpenTableShown
<1>4. ASSUME NEW r, NEW e, e = Event(from, from, Null, r.id, r, k.channel, Null)
      PROVE  /\ e.ts = from /\ e.stamp = from /\ e.local = Null /\ e.no = Null /\ e.channel = k.channel
             /\ e.id = r.id /\ StateOf(e) = StateOf(r)
  BY <1>4 DEF Event, StateOf
<1>5. ASSUME NEW e \in snapshot
      PROVE  \E r \in OpenTable(table, ers) :
               /\ e = Event(from, from, Null, r.id, r, k.channel, Null)
               /\ e.ts = from /\ e.stamp = from /\ e.local = Null /\ e.no = Null /\ e.channel = k.channel
               /\ e.id = r.id /\ StateOf(e) = StateOf(r)
  <2>1. PICK r \in OpenTable(table, ers) : e = Event(from, from, Null, r.id, r, k.channel, Null)
    BY <1>2
  <2>. QED
    BY <1>4, <2>1
<1>6. ASSUME NEW e \in snapshot
      PROVE  e.id \in Orders /\ StateOf(e) \in Present /\ StateOf(e) = rep[from][e.id]
  <2>1. PICK r \in OpenTable(table, ers) : e.id = r.id /\ StateOf(e) = StateOf(r)
    BY <1>5
  <2>2. r \in Rows
    BY <1>1, <1>3 DEF RowsSound
  <2>3. r.id \in Orders /\ StateOf(r) \in Present
    BY <2>2 DEF Rows, StateOf, Present
  <2>4. StateOf(r) = rep[from][r.id]
    BY <1>3
  <2>. QED
    BY <2>1, <2>3, <2>4
<1>7. ASSUME NEW e \in snapshot, NEW x \in snapshot, e.id = x.id PROVE e = x
  <2>1. PICK r \in OpenTable(table, ers) :
          e = Event(from, from, Null, r.id, r, k.channel, Null) /\ e.id = r.id
    BY <1>5
  <2>2. PICK y \in OpenTable(table, ers) :
          x = Event(from, from, Null, y.id, y, k.channel, Null) /\ x.id = y.id
    BY <1>5
  <2>3. r = y
    BY <1>3, <1>7, <2>1, <2>2
  <2>. QED
    BY <2>1, <2>2, <2>3
<1>8. ASSUME NEW o \in Orders, rep[from][o] # Absent PROVE \E e \in snapshot : e.id = o
  <2>1. PICK r \in OpenTable(table, ers) : r.id = o
    BY <1>3, <1>8
  <2>2. PICK e : e = Event(from, from, Null, r.id, r, k.channel, Null)
    OBVIOUS
  <2>3. e \in snapshot
    BY <1>2, <2>2
  <2>4. e.id = o
    BY <1>4, <2>1, <2>2
  <2>. QED
    BY <2>3, <2>4
<1>. QED
  BY <1>5, <1>6, <1>7, <1>8 DEF SnapshotAt

LEMMA SplitStream ==
    ASSUME NEW now \in 0..MaxTime, NEW chans, ChannelsSound(chans, now), NEW k, NEW n,
           n \in [channel : 1..MaxChannels, start : 1..now],
           NEW f, NEW from, NEW first, SplitAt(chans, k, n, f, from, first, now),
           NEW chans2, chans2 = chans \union {n},
           NEW events, NEW rep, StreamSound(events, chans, from - 1, now, rep),
           \A e \in events : first <= e.ts,
           NEW snapshot, SnapshotAt(snapshot, k, from, rep)
    PROVE  StreamSound(events \union snapshot, chans2, from - 1, now, rep)
<1> DEFINE events2 == events \union snapshot
<1>0. now \in Nat /\ from \in Nat /\ from \in 1..now /\ first \in Nat /\ from < first
      /\ first <= now /\ MaxTime \in Nat /\ now <= MaxTime
  <2>1. now \in Nat /\ MaxTime \in Nat
    BY TableAssumption
  <2>. QED
    BY <2>1 DEF SplitAt
<1>1. n.start = from /\ n.channel = k.channel
  BY DEF SplitAt
<1>2. ChannelsSound(chans2, now) /\ \A c \in chans : c.start # from
  BY SplitSound
<1>3. \A e \in events : e.ts \in Nat /\ first <= e.ts /\ e.ts <= now
  BY DEF StreamSound
<1>4. ASSUME NEW e \in events
      PROVE  /\ e.ts \in Nat /\ from - 1 < e.ts /\ e.ts <= now
             /\ e.stamp \in Int /\ e.stamp <= e.ts
             /\ e.id \in Orders /\ e.no = Null /\ e.local \in LocalTimes /\ StateOf(e) \in States
             /\ e.channel \in 1..MaxChannels
             /\ \E c \in chans2 : c.channel = e.channel /\ Covers(chans2, c, e.ts)
  <2>1. PICK c \in chans : c.channel = e.channel /\ Covers(chans, c, e.ts)
    BY DEF StreamSound
  <2>2. \E x \in chans2 : x.channel = c.channel /\ Covers(chans2, x, e.ts)
    BY <1>2, <1>3, <2>1, SplitCovers
  <2>3. /\ e.ts \in Nat /\ from - 1 < e.ts /\ e.ts <= now
        /\ e.stamp \in Int /\ e.stamp <= e.ts
        /\ e.id \in Orders /\ e.no = Null /\ e.local \in LocalTimes /\ StateOf(e) \in States
        /\ e.channel \in 1..MaxChannels
    BY DEF StreamSound
  <2>. QED
    BY <2>1, <2>2, <2>3
<1>5. ASSUME NEW e \in snapshot
      PROVE  /\ e.ts \in Nat /\ from - 1 < e.ts /\ e.ts <= now
             /\ e.stamp \in Int /\ e.stamp <= e.ts
             /\ e.id \in Orders /\ e.no = Null /\ e.local \in LocalTimes /\ StateOf(e) \in States
             /\ e.channel \in 1..MaxChannels
             /\ \E c \in chans2 : c.channel = e.channel /\ Covers(chans2, c, e.ts)
  <2>1. /\ e.ts = from /\ e.stamp = from /\ e.local = Null /\ e.no = Null /\ e.channel = k.channel
        /\ e.id \in Orders /\ StateOf(e) \in Present
    BY DEF SnapshotAt
  <2>2. Covers(chans2, n, from)
    <3>1. EndIs(chans2, n)
      BY <1>2, ChannelEndIs
    <3>2. from <= n.start /\ n.start <= from
      BY <1>0, <1>1
    <3>. QED
      BY <1>1, <3>1, <3>2 DEF EndIs, Covers
  <2>3. Null \in LocalTimes
    BY LoadingAssumption DEF LocalTimes, Null
  <2>4. e.ts \in Nat /\ from - 1 < e.ts /\ e.ts <= now /\ e.stamp \in Int /\ e.stamp <= e.ts
    BY <1>0, <2>1
  <2>5. StateOf(e) \in States
    BY <2>1 DEF States
  <2>6. e.channel = n.channel /\ n.channel \in 1..MaxChannels
    BY <1>1, <2>1
  <2>. QED
    BY <2>1, <2>2, <2>3, <2>4, <2>5, <2>6
<1>6. ASSUME NEW e \in events2, NEW x \in events2, e.ts = x.ts, e.id = x.id, e.local = x.local
      PROVE  e = x
  <2>1. CASE e \in events /\ x \in events
    BY <1>6, <2>1 DEF StreamSound
  <2>2. CASE e \in snapshot /\ x \in snapshot
    BY <1>6, <2>2 DEF SnapshotAt
  <2>3. ~(e \in events /\ x \in snapshot) /\ ~(e \in snapshot /\ x \in events)
    <3>1. \A y \in snapshot : y.ts = from
      BY DEF SnapshotAt
    <3>2. \A y \in events : y.ts # from
      BY <1>0, <1>3
    <3>. QED
      BY <1>6, <3>1, <3>2
  <2>. QED
    BY <2>1, <2>2, <2>3
<1>7. ASSUME NEW t \in from..now, NEW o \in Orders PROVE Goes(events2, chans2, rep, t, o)
  <2>1. CASE t = from
    <3>1. StartsAt(chans2, t)
      BY <1>1, <2>1 DEF StartsAt
    <3>2. \A e \in events : e.ts # from
      BY <1>0, <1>3
    <3>3. EventsAt(events2, t, o) = {e \in snapshot : e.id = o}
      BY <2>1, <3>2 DEF EventsAt, SnapshotAt
    <3>4. \A e \in snapshot : e.id = o => StateOf(e) = rep[t][o] /\ StateOf(e) \in Present
      BY <2>1 DEF SnapshotAt
    <3>5. \A e \in snapshot : e.id = o => e.price > 0
      <4>1. \A e \in snapshot : e.id = o => e.price \in Prices
        BY <3>4 DEF StateOf, Present
      <4>2. \A p \in Prices : p > 0
        BY TableAssumption
      <4>. QED
        BY <4>1, <4>2
    <3>6. (\A e \in snapshot : e.id # o) => rep[t][o] = Absent
      BY <2>1 DEF SnapshotAt
    <3> HIDE DEF events2
    <3>7. ShowsAll(events2, rep, t, o)
      BY <3>3, <3>4, <3>5, <3>6 DEF ShowsAll
    <3>. QED
      BY <3>1, <3>7 DEF Goes
  <2>2. CASE t # from
    <3>1. t \in ((from - 1) + 1)..now
      BY <1>0
    <3>2. IF StartsAt(chans, t) THEN ShowsAll(events, rep, t, o) ELSE Continues(events, rep, t, o)
      BY <3>1 DEF StreamSound
    <3>3. StartsAt(chans2, t) <=> StartsAt(chans, t)
      BY <1>1, <2>2 DEF StartsAt
    <3>4. EventsAt(events2, t, o) = EventsAt(events, t, o)
      BY <2>2 DEF EventsAt, SnapshotAt
    <3> HIDE DEF events2
    <3>. QED
      BY <3>2, <3>3, <3>4 DEF Goes, ShowsAll, Continues
  <2>. QED
    BY <2>1, <2>2
<1>8. \A t \in ((from - 1) + 1)..now : t \in from..now
  BY <1>0
<1>. QED
  BY <1>4, <1>5, <1>6, <1>7, <1>8 DEF StreamSound, Goes

LEMMA MonthSnapshotSound ==
    ASSUME HistorySound, Sound(level3, eras, transient, channels, loaded, 0, clock, replay),
           Extent, MonthStartsAfter, NEW from, from = MonthStart(BeginFirst),
           NEW n, n = SnapshotChannel(from),
           NEW chans2, chans2 = channels \union {n},
           NEW events2, events2 = transient \union MonthSnapshot(from)
    PROVE  /\ Sound(level3, eras, events2, chans2, from - 1, from, clock, replay)
           /\ n.start = from
<1>0. /\ clock \in 0..MaxTime /\ clock \in Nat /\ loaded \in 0..clock /\ loaded \in Nat
      /\ from \in 1..clock /\ from \in Nat /\ loaded < from /\ from < BeginFirst
      /\ BeginFirst \in 1..clock /\ BeginFirst \in Nat /\ BeginFirst <= clock
      /\ from - 1 \in 0..clock /\ loaded <= from - 1 /\ from \in 0..clock /\ loaded <= from
      /\ from - 1 < from
  <2>1. clock \in 0..MaxTime /\ clock \in Nat /\ loaded \in 0..clock
    BY TableAssumption DEF HistorySound
  <2>2. from \in 1..clock /\ loaded < from /\ from < BeginFirst /\ BeginFirst \in 1..clock
    BY DEF MonthStartsAfter, Extent
  <2>. QED
    BY <2>1, <2>2
<1>1. \A e \in transient : e.ts \in Nat /\ BeginFirst <= e.ts
  BY DEF Extent
<1>2. \A e \in transient : from < e.ts /\ from - 1 < e.ts
  BY <1>0, <1>1
<1>3. Sound(level3, eras, transient, channels, from - 1, 0, clock, replay)
  BY <1>0, <1>2, QuietStretch
<1>4. Quiet(transient, channels, loaded, from)
  BY <1>0, <1>2, QuietStretch
<1>5. /\ Level3Sound(level3, eras, from - 1, replay) /\ ChannelsSound(channels, clock)
      /\ StreamSound(transient, channels, from - 1, clock, replay)
      /\ MonthsReached(level3, eras, channels, from - 1)
      /\ MonthStartsQuiet(transient, 0) /\ SessionsShow(channels, from - 1, 0, replay)
      /\ StampsSound(level3, transient, channels)
  BY <1>3 DEF Sound
<1>6. PICK e \in transient : e = CHOOSE y \in transient : \A x \in transient : y.ts <= x.ts
  <2>1. PICK y \in transient : y.ts = BeginFirst
    BY DEF Extent
  <2>2. \A x \in transient : y.ts <= x.ts
    BY <1>1, <2>1
  <2>. QED
    BY <2>2
<1>7. \A x \in transient : e.ts <= x.ts
  <2>1. PICK y \in transient : y.ts = BeginFirst
    BY DEF Extent
  <2>2. \A x \in transient : y.ts <= x.ts
    BY <1>1, <2>1
  <2>. QED
    BY <1>6, <2>2
<1>8. e.ts = BeginFirst
  <2>1. PICK y \in transient : y.ts = BeginFirst
    BY DEF Extent
  <2>2. e.ts <= BeginFirst /\ BeginFirst <= e.ts /\ e.ts \in Nat
    BY <1>1, <1>7, <2>1
  <2>. QED
    BY <1>0, <2>2
<1>9. n.channel = e.channel /\ n.start = from /\ n = [channel |-> e.channel, start |-> from]
  BY <1>6 DEF SnapshotChannel
<1>10. PICK k \in channels : k.channel = e.channel /\ Covers(channels, k, BeginFirst)
  BY <1>5, <1>8 DEF StreamSound
<1>11. n \in [channel : 1..MaxChannels, start : 1..clock]
  <2>1. e.channel \in 1..MaxChannels
    BY <1>5 DEF StreamSound
  <2>. QED
    BY <1>0, <1>9, <2>1
<1>12. SplitAt(channels, k, n, loaded, from, BeginFirst, clock)
  BY <1>0, <1>4, <1>9, <1>10 DEF SplitAt, Quiet
<1>13. ChannelsSound(chans2, clock)
  BY <1>0, <1>5, <1>11, <1>12, SplitSound
<1>14. replay[from] = BookOf(replay, from - 1)
  <2>1. from = MonthStart(from)
    BY DEF MonthStartsAfter
  <2>. QED
    BY <1>0, <2>1 DEF HistorySound
<1>15. DOMAIN eras # {}
  BY DEF MonthStartsAfter, LastRows, InEraOf, ErasUpTo
<1>16. SnapshotAt(MonthSnapshot(from), k, from, replay)
  <2>1. SnapshotChannel(from).channel = k.channel
    BY <1>9, <1>10
  <2>2. MonthSnapshot(from) = {Event(from, from, Null, r.id, r, k.channel, Null) :
                                 r \in LiveBefore(level3, eras, from)}
    BY <2>1 DEF MonthSnapshot
  <2>. QED
    BY <1>0, <1>5, <1>14, <1>15, <2>2, SnapshotShows
<1>17. StreamSound(events2, chans2, from - 1, clock, replay)
  BY <1>0, <1>1, <1>5, <1>11, <1>12, <1>16, SplitStream
<1>18. MonthsReached(level3, eras, chans2, from - 1)
  <2>1. ~(n.start <= from - 1)
    BY <1>0, <1>9
  <2>. QED
    BY <1>5, <2>1 DEF MonthsReached
<1>19. MonthStartsQuiet(events2, from)
  <2>1. \A x \in transient : x.ts # 0
    BY <1>0, <1>1
  <2>2. \A x \in MonthSnapshot(from) : x.ts = from
    BY <1>16 DEF SnapshotAt
  <2>. QED
    BY <1>5, <2>1, <2>2 DEF MonthStartsQuiet
<1>20. SessionsShow(chans2, from - 1, from, replay)
  <2>1. \A c \in channels : c.start # 0
    <3>1. \A c \in channels : c.start \in 1..clock
      BY <1>5 DEF ChannelsSound
    <3>. QED
      BY <3>1
  <2>2. n.start = from /\ replay[n.start] = BookOf(replay, n.start - 1)
    BY <1>9, <1>14
  <2>. QED
    BY <1>5, <2>1, <2>2 DEF SessionsShow
<1>21. ASSUME NEW x \in transient PROVE from < x.stamp
  <2>1. BeginFirst <= x.ts /\ x.ts \in Nat /\ x.stamp \in Int
    BY <1>1, <1>5 DEF StreamSound
  <2>2. from <= MonthStart(x.ts) /\ MonthStart(x.ts) <= x.ts /\ MonthStart(x.ts) \in Int
    <3>1. /\ Month(MonthStart(x.ts)) = Month(x.ts) /\ MonthStart(x.ts) <= x.ts
          /\ MonthStart(x.ts) \in Int /\ Month(x.ts) \in Int
      BY <2>1, MonthStarts
    <3>2. Month(from - 1) < Month(BeginFirst) /\ Month(BeginFirst) \in Int
      BY <1>0, MonthStarts
    <3>3. Month(BeginFirst) <= Month(x.ts)
      BY <1>0, <2>1, MonthOrder
    <3>4. MonthStart(x.ts) <= from - 1 =>
            Month(MonthStart(x.ts)) <= Month(from - 1) /\ Month(from - 1) \in Int
      BY <1>0, <3>1, MonthOrder
    <3>. QED
      BY <1>0, <3>1, <3>2, <3>3, <3>4
  <2>3. MonthStart(x.ts) < x.ts
    <3>1. x.ts # 0
      BY <1>0, <2>1
    <3>. QED
      BY <1>5, <2>1, <2>2, <3>1 DEF MonthStartsQuiet
  <2>4. MonthStart(x.ts) < x.stamp
    BY <1>5, <2>3 DEF StampsSound
  <2>. QED
    BY <1>0, <2>1, <2>2, <2>4
<1>22. \A x \in MonthSnapshot(from) : x.ts = from /\ x.stamp = from /\ x.local = Null
  BY <1>16 DEF SnapshotAt
<1>23. StampsSound(level3, events2, chans2)
  <2>1. ASSUME NEW x \in events2, NEW r \in level3, r.id = x.id PROVE r.mts < x.stamp
    <3>1. CASE x \in transient
      BY <1>5, <2>1, <3>1 DEF StampsSound, OrderKept
    <3>2. CASE x \in MonthSnapshot(from)
      <4>1. r \in Rows /\ r.mts <= from - 1
        BY <1>5 DEF Level3Sound, RowsSound
      <4>2. r.mts \in Nat
        BY <4>1, RowTimes
      <4>. QED
        BY <1>0, <1>22, <3>2, <4>1, <4>2
    <3>. QED
      BY <3>1, <3>2
  <2>2. ASSUME NEW x \in events2, NEW y \in events2, y.id = x.id
        PROVE  /\ y.ts < x.ts => y.ts < x.stamp
               /\ y.ts = x.ts /\ y.local < x.local => y.local # Null /\ y.stamp <= x.stamp
    <3>1. CASE x \in transient /\ y \in transient
      BY <1>5, <2>2, <3>1 DEF StampsSound, OrderKept
    <3>2. CASE x \in transient /\ y \in MonthSnapshot(from)
      <4>1. y.ts = from /\ y.local = Null /\ from < x.stamp
        BY <1>21, <1>22, <3>2
      <4>2. x.stamp <= x.ts /\ x.stamp \in Int /\ x.ts \in Nat
        BY <1>5, <3>2 DEF StreamSound
      <4>. QED
        BY <1>0, <4>1, <4>2
    <3>3. CASE x \in MonthSnapshot(from) /\ y \in transient
      BY <1>0, <1>1, <1>2, <1>22, <3>3
    <3>4. CASE x \in MonthSnapshot(from) /\ y \in MonthSnapshot(from)
      BY <1>0, <1>22, <3>4 DEF Null
    <3>. QED
      BY <3>1, <3>2, <3>3, <3>4
  <2>3. ASSUME NEW x \in events2, NEW c \in chans2, c.start < x.ts PROVE c.start < x.stamp
    <3>1. CASE x \in transient /\ c \in channels
      BY <1>5, <2>3, <3>1 DEF StampsSound
    <3>2. CASE x \in transient /\ c = n
      BY <1>9, <1>21, <3>2
    <3>3. CASE x \in MonthSnapshot(from)
      BY <1>22, <2>3, <3>3
    <3>. QED
      BY <3>1, <3>2, <3>3
  <2>4. ASSUME NEW x \in events2, MonthStart(x.ts) < x.ts PROVE MonthStart(x.ts) < x.stamp
    <3>1. CASE x \in transient
      BY <1>5, <2>4, <3>1 DEF StampsSound
    <3>2. CASE x \in MonthSnapshot(from)
      <4>1. x.stamp = x.ts
        BY <1>22, <3>2
      <4>. QED
        BY <2>4, <4>1
    <3>. QED
      BY <3>1, <3>2
  <2>. QED
    BY <2>1, <2>2, <2>3, <2>4 DEF StampsSound, OrderKept
<1>. QED
  BY <1>0, <1>5, <1>9, <1>13, <1>17, <1>18, <1>19, <1>20, <1>23 DEF Sound

LEMMA BeginKeeps ==
    ASSUME IInv, BeginLoad
    PROVE  IInv'
<1>1. /\ ~load.running /\ transient # {}
      /\ channels' = channels \union IF BeginMonth THEN {SnapshotChannel(BeginFrom)} ELSE {}
      /\ transient' = transient \union IF BeginMonth THEN MonthSnapshot(BeginFrom) ELSE {}
      /\ load' = [running |-> TRUE, from |-> BeginFrom, to |-> BeginTo, left |-> BeginLeft(channels')]
      /\ saved' = Tables
      /\ UNCHANGED << clock, book, level3, eras, failed, loaded, replay >>
  BY BeginLoadIs
<1>2. /\ HistorySound
      /\ Sound(level3, eras, transient, channels, loaded, 0, clock, replay)
      /\ MonthKept(level3, eras, transient, loaded)
  BY <1>1 DEF IInv
<1>3. clock \in 0..MaxTime /\ loaded \in 0..clock
  BY <1>2 DEF HistorySound
<1>4. Extent
  BY <1>1, <1>2, <1>3, ExtentOf DEF Sound
<1>5. BeginBounds
  BY <1>2, <1>3, <1>4, BeginBounded
<1>6. /\ clock \in Nat /\ loaded \in Nat /\ BeginFrom \in 1..clock /\ BeginFrom \in Nat
      /\ loaded < BeginFrom /\ BeginFrom <= BeginFirst
      /\ BeginTo \in Int /\ BeginTo <= clock
  <2>1. clock \in Nat
    BY <1>3, TableAssumption
  <2>2. BeginFrom \in 1..clock /\ loaded < BeginFrom /\ BeginFrom <= BeginFirst
        /\ BeginTo \in Int /\ BeginTo <= clock
    BY <1>5 DEF BeginBounds
  <2>. QED
    BY <1>3, <2>1, <2>2
<1>7. /\ load'.running /\ load'.from = BeginFrom /\ load'.to = BeginTo
      /\ load'.left = BeginLeft(channels')
  BY <1>1
<1>8. channels # {}
  <2>1. PICK e \in transient : TRUE
    BY <1>1
  <2>. QED
    BY <1>2, <2>1 DEF Sound, StreamSound
<1>9. /\ saved'.channels = channels /\ saved'.transient = transient
      /\ saved'.level3 = level3 /\ saved'.eras = eras
  BY <1>1 DEF Tables
<1>10. LoadTyped'
  <2>1. BeginLeft(channels') \subseteq channels'
    BY DEF BeginLeft
  <2>2. load' \in [running : {TRUE}, from : 1..clock, to : Int, left : SUBSET channels']
    BY <1>1, <1>6, <2>1
  <2>3. clock' = clock /\ loaded' = loaded
    BY <1>1
  <2>. QED
    BY <1>6, <1>7, <1>8, <1>9, <2>2, <2>3 DEF LoadTyped
<1>11. SavedSound'
  BY <1>1, <1>2, <1>9 DEF SavedSound
<1>12. HistorySound'
  <2>1. channels' # {}
    BY <1>1, <1>8
  <2>. QED
    BY <1>1, <1>2, <2>1 DEF HistorySound
<1>13. \A e \in transient : e.ts \in Nat /\ BeginFirst <= e.ts
  BY <1>4 DEF Extent
<1>14. BeginFirst \in Nat
  BY <1>4 DEF Extent
<1>15. CASE BeginFrom <= BeginTo
  <2>1. PICK f : f = BeginFrom - 1
    OBVIOUS
  <2>2. /\ f \in 0..clock /\ f \in Nat /\ f + 1 = BeginFrom /\ loaded <= f /\ f <= BeginTo
        /\ f < BeginTo /\ BeginFrom - 1 <= f
    BY <1>6, <1>15, <2>1
  <2>3. /\ Sound(level3, eras, transient', channels', f, BeginFrom, clock, replay)
        /\ \E c \in channels' : Covers(channels', c, BeginFrom)
        /\ BeginMonth => \E c \in channels' : c.start = BeginFrom /\ Covers(channels', c, BeginFrom)
    <3>1. CASE BeginMonth
      <4>1. MonthStartsAfter /\ BeginFrom = MonthStart(BeginFirst)
        BY <1>5, <3>1 DEF BeginBounds
      <4>2. PICK n : n = SnapshotChannel(BeginFrom)
        OBVIOUS
      <4>3. channels' = channels \union {n} /\ transient' = transient \union MonthSnapshot(BeginFrom)
        BY <1>1, <3>1, <4>2
      <4>4. /\ Sound(level3, eras, transient', channels', BeginFrom - 1, BeginFrom, clock, replay)
            /\ n.start = BeginFrom
        BY <1>2, <1>4, <4>1, <4>2, <4>3, MonthSnapshotSound
      <4>5. n \in channels' /\ ChannelsSound(channels', clock)
        BY <4>3, <4>4 DEF Sound
      <4>6. EndIs(channels', n)
        BY <1>3, <4>5, ChannelEndIs
      <4>7. Covers(channels', n, BeginFrom)
        BY <1>6, <4>4, <4>6 DEF EndIs, Covers
      <4>. QED
        BY <2>1, <4>4, <4>5, <4>7
    <3>2. CASE ~BeginMonth
      <4>1. channels' = channels /\ transient' = transient /\ BeginFrom = BeginFirst
        BY <1>1, <1>5, <3>2 DEF BeginBounds
      <4>2. \A e \in transient : f < e.ts
        BY <1>13, <1>14, <2>2, <4>1
      <4>3. Sound(level3, eras, transient, channels, f, 0, clock, replay)
        BY <1>2, <1>3, <2>2, <4>2, QuietStretch
      <4>4. MonthStartsQuiet(transient, BeginFrom)
        <5>1. \A e \in transient : e.ts # 0
          BY <1>6, <1>13, <1>14, <4>1
        <5>. QED
          BY <4>3, <5>1 DEF Sound, MonthStartsQuiet
      <4>5. SessionsShow(channels, f, BeginFrom, replay)
        <5>1. \A c \in channels : c.start \in 1..clock
          BY <4>3 DEF Sound, ChannelsSound
        <5>2. \A c \in channels : c.start # 0
          BY <5>1
        <5>. QED
          BY <4>3, <5>2 DEF Sound, SessionsShow
      <4>6. Sound(level3, eras, transient', channels', f, BeginFrom, clock, replay)
        BY <4>1, <4>3, <4>4, <4>5 DEF Sound
      <4>7. PICK e \in transient : e.ts = BeginFirst
        BY <1>4 DEF Extent
      <4>8. \E c \in channels : Covers(channels, c, e.ts)
        BY <4>3 DEF Sound, StreamSound
      <4>. QED
        BY <3>2, <4>1, <4>6, <4>7, <4>8
    <3>. QED
      BY <3>1, <3>2
  <2>4. \A c \in channels' : ChannelEnd(c, channels') \in Nat
    <3>1. ChannelsSound(channels', clock)
      BY <2>3 DEF Sound
    <3>2. \A c \in channels' : EndIs(channels', c)
      BY <1>3, <3>1, ChannelEndIs
    <3>. QED
      BY <3>2 DEF EndIs
  <2>5. BeginLeft(channels') = Left(channels', f, BeginTo)
    <3>1. \A c \in channels' : ChannelEnd(c, channels') >= BeginFrom <=> f < ChannelEnd(c, channels')
      BY <2>2, <2>4
    <3>. QED
      BY <2>2, <3>1 DEF BeginLeft, Left
  <2>6. GotTo(f)'
    BY <1>7, <1>15, <2>1, <2>2, <2>3, <2>5 DEF GotTo
  <2>7. RunningFrom' = BeginFrom
    BY <1>7, <1>15 DEF RunningFrom
  <2>8. Sound(level3', eras', transient', channels', f, RunningFrom', clock', replay')
    BY <1>1, <2>3, <2>7
  <2>9. Reached(f)' /\ f \in 0..clock'
    BY <1>1, <2>2, <2>6, <2>8 DEF Reached
  <2>10. MonthBegun'
    <3>1. CASE BeginCrosses
      <4>1. MonthEnds(transient, BeginTo)
        BY <1>5, <3>1 DEF BeginBounds
      <4>2. MonthEnds(transient', BeginTo)
        BY <1>1, <4>1 DEF MonthEnds
      <4>. QED
        BY <1>7, <1>15, <4>2 DEF MonthBegun
    <3>2. CASE ~BeginCrosses
      <4>1. Month(BeginFrom) = Month(BeginTo) /\ (BeginMonth \/ HasRowsAt(level3, eras, BeginTo))
        BY <1>5, <1>15, <3>2 DEF BeginBounds
      <4>2. ASSUME BeginMonth PROVE \E c \in BeginLeft(channels') : c.start = BeginFrom
        <5>1. PICK c \in channels' : c.start = BeginFrom /\ Covers(channels', c, BeginFrom)
          BY <2>3, <4>2
        <5>2. c.start <= BeginTo /\ BeginFrom <= ChannelEnd(c, channels')
          BY <1>15, <5>1 DEF Covers
        <5>3. ChannelEnd(c, channels') >= BeginFrom
          BY <1>6, <2>4, <5>2
        <5>. QED
          BY <5>1, <5>2, <5>3 DEF BeginLeft
      <4>3. HasRowsAt(level3, eras, BeginTo) \/ \E c \in BeginLeft(channels') : c.start = BeginFrom
        BY <4>1, <4>2
      <4>4. level3' = level3 /\ eras' = eras
        BY <1>1
      <4>. QED
        BY <1>7, <1>15, <4>1, <4>3, <4>4 DEF MonthBegun
    <3>. QED
      BY <3>1, <3>2
  <2>. QED
    BY <1>7, <1>10, <1>11, <1>12, <2>9, <2>10
       DEF IInv, Running, LoadTyped, SavedSound, MonthBegun, Reached, RunningFrom, LoadedTo
<1>16. CASE ~(BeginFrom <= BeginTo)
  <2>1. ~BeginMonth /\ BeginFrom = BeginFirst
    BY <1>5, <1>16 DEF BeginBounds
  <2>2. channels' = channels /\ transient' = transient
    BY <1>1, <2>1
  <2>3. PICK f : f = IF BeginTo > loaded THEN BeginTo ELSE loaded
    OBVIOUS
  <2>4. f \in 0..clock /\ f \in Nat /\ loaded <= f /\ f < BeginFirst
    <3>1. CASE BeginTo > loaded
      <4>1. f = BeginTo /\ BeginTo < BeginFrom
        BY <1>6, <1>16, <2>3, <3>1
      <4>. QED
        BY <1>6, <2>1, <3>1, <4>1
    <3>2. CASE ~(BeginTo > loaded)
      BY <1>3, <1>6, <2>1, <2>3, <3>2
    <3>. QED
      BY <3>1, <3>2
  <2>5. \A e \in transient : f < e.ts
    BY <1>13, <1>14, <2>4
  <2>6. Sound(level3, eras, transient, channels, f, 0, clock, replay)
    BY <1>2, <1>3, <2>4, <2>5, QuietStretch
  <2>7. MonthKept(level3, eras, transient, f)
    <3>1. CASE BeginTo > loaded
      <4>1. f = BeginTo
        BY <2>3, <3>1
      <4>2. MonthEnds(transient, BeginTo) \/ HasRowsAt(level3, eras, BeginTo)
        BY <1>5, <2>1 DEF BeginBounds
      <4>. QED
        BY <4>1, <4>2 DEF MonthKept
    <3>2. CASE ~(BeginTo > loaded)
      BY <1>2, <2>3, <3>2
    <3>. QED
      BY <3>1, <3>2
  <2>8. LoadedTo' = f /\ RunningFrom' = 0
    BY <1>1, <1>7, <1>16, <2>3 DEF LoadedTo, RunningFrom
  <2>9. GotTo(f)'
    <3>1. BeginLeft(channels') \subseteq {c \in channels' : c.start <= BeginTo}
      BY DEF BeginLeft
    <3>2. loaded' = loaded
      BY <1>1
    <3>. QED
      BY <1>7, <1>16, <2>3, <3>1, <3>2 DEF GotTo
  <2>10. Reached(f)' /\ f \in 0..clock'
    <3>1. Sound(level3', eras', transient', channels', f, RunningFrom', clock', replay')
      BY <1>1, <2>2, <2>6, <2>8
    <3>. QED
      BY <1>1, <2>4, <2>9, <3>1 DEF Reached
  <2>11. MonthBegun'
    <3>1. MonthKept(level3', eras', transient', LoadedTo')
      BY <1>1, <2>2, <2>7, <2>8
    <3>. QED
      BY <1>7, <1>16, <3>1 DEF MonthBegun
  <2>. QED
    BY <1>7, <1>10, <1>11, <1>12, <2>10, <2>11
       DEF IInv, Running, LoadTyped, SavedSound, MonthBegun, Reached, RunningFrom, LoadedTo
<1>. QED
  BY <1>15, <1>16

-----------------------------------------------------------------------------
(***************************************************************************)
(* The invariant is inductive.                                             *)
(***************************************************************************)
LEMMA InitKeeps ==
    ASSUME Init
    PROVE  IInv
<1>1. /\ clock = 0 /\ book = [o \in Orders |-> Absent] /\ channels = {} /\ transient = {}
      /\ level3 = {} /\ eras = << >> /\ load = NoLoad /\ failed = FALSE /\ loaded = 0
      /\ replay = << >>
  BY DEF Init
<1>2. HistorySound
  <2>1. clock \in 0..MaxTime /\ loaded \in 0..clock
    BY <1>1, TableAssumption
  <2>2. replay \in Seq(Books) /\ Len(replay) = clock
    BY <1>1
  <2>3. \A t \in 1..clock : t = MonthStart(t) => replay[t] = BookOf(replay, t - 1)
    BY <1>1
  <2>. QED
    BY <1>1, <2>1, <2>2, <2>3 DEF HistorySound, BookOf
<1>3. Sound(level3, eras, transient, channels, loaded, 0, clock, replay)
  <2>1. DOMAIN eras = {}
    BY <1>1
  <2>2. RowsSound({}, 0) /\ Linked({}) /\ Replays({}, eras, 0, replay) /\ ErasSound({}, eras, 0)
    BY <2>1 DEF RowsSound, Linked, Replays, ErasSound
  <2>3. StreamSound({}, {}, 0, 0, replay)
    BY DEF StreamSound
  <2>4. MonthsReached({}, eras, {}, 0)
    BY DEF MonthsReached
  <2>5. 0 \in 0..0
    OBVIOUS
  <2>. QED
    BY <1>1, <2>2, <2>3, <2>4, <2>5
       DEF Sound, Level3Sound, ChannelsSound, MonthStartsQuiet, SessionsShow, StampsSound, OrderKept
<1>4. MonthKept(level3, eras, transient, loaded)
  BY <1>1 DEF MonthKept, HasRowsAt, LastRows
<1>. QED
  BY <1>1, <1>2, <1>3, <1>4 DEF IInv, NoLoad

LEMMA NextKeeps ==
    ASSUME MonthStartEvents = FALSE, inStep' = Orders, IInv, [Next]_vars
    PROVE  IInv'
<1>1. ASSUME NEW n \in 1..MaxChanges, NEW stamps \in Stamps(n, clock + 1),
             NEW changes \in [1..n -> Changes], Episode(changes, stamps)
      PROVE  IInv'
  BY <1>1, EpisodeKeeps
<1>2. ASSUME NEW snapshot \in Books, Subscribe(snapshot) PROVE IInv'
  BY <1>2, SubscribeKeeps
<1>3. CASE Tick
  BY <1>3, TickKeeps
<1>4. CASE BeginLoad
  BY <1>4, BeginKeeps
<1>5. CASE CaptureChannel
  BY <1>5, CaptureKeeps
<1>6. CASE EndLoad
  BY <1>6, EndKeeps
<1>7. CASE UNCHANGED vars
  <2>1. /\ clock' = clock /\ book' = book /\ channels' = channels /\ transient' = transient
        /\ level3' = level3 /\ eras' = eras /\ load' = load /\ saved' = saved
        /\ failed' = failed /\ loaded' = loaded /\ replay' = replay
    BY <1>7 DEF vars, history
  <2>. QED
    BY <2>1 DEF IInv, HistorySound, Running, GotTo
<1>. QED
  BY <1>1, <1>2, <1>3, <1>4, <1>5, <1>6, <1>7 DEF Next

\* An order that is out of step stays so.
LEMMA InStepShrinks ==
    ASSUME [Next]_vars
    PROVE  inStep' \subseteq inStep
<1>1. ASSUME NEW changes, NEW stamps, Episode(changes, stamps) PROVE inStep' \subseteq inStep
  BY <1>1 DEF Episode
<1>2. ASSUME NEW snapshot, Subscribe(snapshot) PROVE inStep' \subseteq inStep
  BY <1>2 DEF Subscribe
<1>3. CASE Tick
  BY <1>3 DEF Tick
<1>4. CASE BeginLoad
  BY <1>4 DEF BeginLoad, history
<1>5. CASE CaptureChannel
  BY <1>5 DEF CaptureChannel, history
<1>6. CASE EndLoad
  BY <1>6 DEF EndLoad, history
<1>7. CASE UNCHANGED vars
  BY <1>7 DEF vars, history
<1>. QED
  BY <1>1, <1>2, <1>3, <1>4, <1>5, <1>6, <1>7 DEF Next

\* level3 is sound up to an instant that the last load has reached.
SoundBeyond(f) ==
    /\ f \in 0..clock /\ loaded <= f
    /\ \E from : Sound(level3, eras, transient, channels, f, from, clock, replay)

LEMMA AlwaysSound ==
    ASSUME IInv
    PROVE  HistorySound /\ \E f \in 0..clock : SoundBeyond(f)
<1>1. HistorySound /\ clock \in Nat /\ loaded \in 0..clock /\ loaded \in Nat
  <2>1. clock \in 0..MaxTime /\ loaded \in 0..clock /\ HistorySound
    BY DEF IInv, HistorySound
  <2>2. clock \in Nat
    BY <2>1, TableAssumption
  <2>. QED
    BY <2>1, <2>2
<1>2. CASE ~load.running
  <2>1. Sound(level3, eras, transient, channels, loaded, 0, clock, replay)
    BY <1>2 DEF IInv
  <2>2. loaded <= loaded
    BY <1>1
  <2>. QED
    BY <1>1, <2>1, <2>2 DEF SoundBeyond
<1>3. CASE load.running
  <2>1. LoadTyped /\ \E f \in 0..clock : Reached(f)
    BY <1>3, RunningIs DEF IInv
  <2>2. PICK f \in 0..clock : Reached(f)
    BY <2>1
  <2>3. loaded <= f
    <3>1. load.from \in 1..clock /\ loaded < load.from /\ load.to \in Int
      BY <2>1 DEF LoadTyped
    <3>2. CASE load.from <= load.to
      <4>1. load.from - 1 <= f
        BY <2>2, <3>2 DEF Reached, GotTo
      <4>. QED
        BY <1>1, <3>1, <4>1
    <3>3. CASE ~(load.from <= load.to)
      <4>1. f = IF load.to > loaded THEN load.to ELSE loaded
        BY <2>2, <3>3 DEF Reached, GotTo
      <4>. QED
        BY <1>1, <3>1, <4>1
    <3>. QED
      BY <3>2, <3>3
  <2>. QED
    BY <1>1, <2>2, <2>3 DEF Reached, SoundBeyond
<1>. QED
  BY <1>2, <1>3

LEMMA TypedWhenSound ==
    ASSUME inStep = Orders, IInv
    PROVE  TypeOK
<1>1. HistorySound
  BY AlwaysSound
<1>2. PICK f \in 0..clock : SoundBeyond(f)
  BY AlwaysSound
<1>3. PICK from : Sound(level3, eras, transient, channels, f, from, clock, replay)
  BY <1>2 DEF SoundBeyond
<1>4. clock \in 0..MaxTime /\ clock \in Nat /\ MaxTime \in Nat /\ f \in Nat /\ f <= clock
      /\ clock <= MaxTime /\ 1..clock \subseteq Times /\ 1..f \subseteq Times
  <2>1. clock \in 0..MaxTime /\ clock \in Nat /\ MaxTime \in Nat
    BY <1>1, TableAssumption DEF HistorySound
  <2>. QED
    BY <2>1 DEF Times
<1>5. book \in Books
  BY <1>1, BookIs
<1>6. channels \subseteq [channel : 1..MaxChannels, start : Times]
  BY <1>3, <1>4 DEF Sound, ChannelsSound
<1>7. \A e \in transient : e.ts \in Times /\ e.id \in Orders /\ e.channel \in 1..MaxChannels
  <2>1. \A e \in transient : /\ e.ts \in Nat /\ f < e.ts /\ e.ts <= clock
                             /\ e.id \in Orders /\ e.channel \in 1..MaxChannels
    BY <1>3 DEF Sound, StreamSound
  <2>2. \A e \in transient : e.ts \in 1..clock
    BY <1>4, <2>1
  <2>. QED
    BY <1>4, <2>1, <2>2
<1>8. level3 \subseteq Rows /\ ErasSound(level3, eras, f)
  BY <1>3 DEF Sound, Level3Sound, RowsSound
<1>9. DOMAIN eras \subseteq Times
  BY <1>4, <1>8 DEF ErasSound
<1>10. ASSUME NEW e \in DOMAIN eras PROVE eras[e] \in Times \union {Null}
  <2>1. CASE RowsOfEra(level3, eras, e) = {}
    BY <1>8, <2>1 DEF ErasSound
  <2>2. CASE RowsOfEra(level3, eras, e) # {}
    <3>1. PICK r \in RowsOfEra(level3, eras, e) : r.mts = eras[e]
      BY <1>8, <2>2 DEF ErasSound
    <3>2. r \in Rows
      BY <1>8 DEF RowsOfEra
    <3>. QED
      BY <3>1, <3>2 DEF Rows
  <2>. QED
    BY <2>1, <2>2
<1>11. failed \in BOOLEAN /\ loaded \in 0..MaxTime /\ Len(replay) = clock
  BY <1>1, <1>4 DEF HistorySound
<1>. QED
  BY <1>4, <1>5, <1>6, <1>7, <1>8, <1>9, <1>10, <1>11 DEF TypeOK

LEMMA ReplayedWhenSound ==
    ASSUME inStep = Orders, IInv
    PROVE  BookReplayed
<1>1. PICK f \in 0..clock : SoundBeyond(f)
  BY AlwaysSound
<1>2. level3 \subseteq Rows /\ Replays(level3, eras, f, replay)
  BY <1>1 DEF SoundBeyond, Sound, Level3Sound, RowsSound
<1>3. loaded \in Nat /\ f \in Nat /\ loaded <= f
  <2>1. clock \in 0..MaxTime /\ loaded \in 0..clock
    BY AlwaysSound DEF HistorySound
  <2>2. clock \in Nat
    BY <2>1, TableAssumption
  <2>. QED
    BY <1>1, <2>1, <2>2 DEF SoundBeyond
<1>4. ASSUME NEW t \in 1..loaded, ErasUpTo(eras, t) # {},
             NEW live, live = LiveAt(level3, eras, t)
      PROVE  /\ \A r, x \in live : r.id = x.id => r = x
             /\ \A o \in Orders :
                  {[price |-> r.price, amount |-> r.amount] : r \in {r \in live : r.id = o}}
                    = {replay[t][o]} \ {Absent}
  <2>1. t \in 1..f
    BY <1>3
  <2>2. Shows(level3, eras, t, replay[t])
    BY <1>2, <1>4, <2>1 DEF Replays
  <2>3. /\ \A r, x \in live : r.id = x.id => r = x
        /\ \A r \in live : StateOf(r) = replay[t][r.id]
        /\ \A o \in Orders : replay[t][o] # Absent => \E r \in live : r.id = o
    BY <1>4, <2>2 DEF Shows
  <2>4. \A r \in live : StateOf(r) # Absent
    <3>1. ASSUME NEW r \in live PROVE StateOf(r) # Absent
      <4>1. r \in Rows
        BY <1>2, <1>4 DEF LiveAt
      <4>2. r.price \in Prices
        BY <4>1 DEF Rows
      <4>3. r.price # 0
        BY <4>2, TableAssumption
      <4>. QED
        BY <4>3 DEF StateOf, Absent
    <3>. QED
      BY <3>1
  <2>5. ASSUME NEW o \in Orders
        PROVE  {StateOf(r) : r \in {r \in live : r.id = o}} = {replay[t][o]} \ {Absent}
    BY <2>3, <2>4
  <2>. QED
    BY <2>3, <2>5 DEF StateOf
<1>5. ASSUME NEW t \in {t \in 1..loaded : ErasUpTo(eras, t) # {}}, NEW o \in inStep,
             NEW live, live = LiveAt(level3, eras, t)
      PROVE  /\ \A r, x \in live : r.id = o /\ x.id = o => r = x
             /\ {[price |-> r.price, amount |-> r.amount] : r \in {r \in live : r.id = o}}
                  = {replay[t][o]} \ {Absent}
  BY <1>4, <1>5
<1>. QED
  BY <1>5 DEF BookReplayed

LEMMA LinkedWhenSound ==
    ASSUME inStep = Orders, IInv
    PROVE  ChainsLinked
<1>1. PICK f \in 0..clock : SoundBeyond(f)
  BY AlwaysSound
<1>2. RowsSound(level3, f) /\ Linked(level3)
  BY <1>1 DEF SoundBeyond, Sound, Level3Sound
<1>3. ASSUME NEW r \in level3, NEW before,
             before = {x \in level3 : x.id = r.id /\ x.next = r.mts /\ x.nextNo = r.no}
      PROVE  IF r.no = 1 THEN before = {} ELSE \E x \in before : x.no = r.no - 1
  <2>1. CASE r.no = 1
    <3>1. \A x \in level3 : x.nextNo # 1
      BY <1>2 DEF RowsSound
    <3>. QED
      BY <1>3, <2>1, <3>1
  <2>2. CASE r.no # 1
    <3>1. PICK x \in level3 : PointsAt(x, r) /\ x.no = r.no - 1
      BY <1>2, <2>2 DEF Linked
    <3>2. x \in before
      BY <1>3, <3>1 DEF PointsAt
    <3>. QED
      BY <2>2, <3>1, <3>2
  <2>. QED
    BY <2>1, <2>2
<1>. QED
  BY <1>3 DEF ChainsLinked

LEMMA ErasWhenSound ==
    ASSUME IInv
    PROVE  ErasUpToDate
<1>1. PICK f \in 0..clock : SoundBeyond(f)
  BY AlwaysSound
<1>2. RowsSound(level3, f) /\ ErasSound(level3, eras, f)
  BY <1>1 DEF SoundBeyond, Sound, Level3Sound
<1>3. f \in Nat
  <2>1. clock \in 0..MaxTime
    BY AlwaysSound DEF HistorySound
  <2>2. clock \in Nat
    BY <2>1, TableAssumption
  <2>. QED
    BY <2>2
<1>4. \A r \in level3 : r.mts \in 0..f
  <2>1. \A r \in level3 : r \in Rows /\ r.mts <= f
    BY <1>2 DEF RowsSound
  <2>2. \A r \in level3 : r.mts \in Nat
    BY <2>1, RowTimes
  <2>. QED
    BY <1>3, <2>1, <2>2
<1>5. ASSUME NEW e \in DOMAIN eras, NEW rows, rows = RowsOfEra(level3, eras, e)
      PROVE  eras[e] = IF rows = {} THEN Null ELSE Max({r.mts : r \in rows})
  <2>1. CASE rows = {}
    BY <1>2, <1>5, <2>1 DEF ErasSound
  <2>2. CASE rows # {}
    <3>1. PICK S : S = {r.mts : r \in rows}
      OBVIOUS
    <3>2. S \in SUBSET (0..f)
      BY <1>4, <1>5, <3>1 DEF RowsOfEra
    <3>3. eras[e] \in S /\ \A y \in S : y <= eras[e]
      BY <1>2, <1>5, <2>2, <3>1 DEF ErasSound
    <3>4. Max(S) = eras[e]
      BY <1>3, <3>2, <3>3, MaxIs
    <3>. QED
      BY <2>2, <3>1, <3>4
  <2>. QED
    BY <2>1, <2>2
<1>. QED
  BY <1>5 DEF ErasUpToDate, RowsOfEra

\* The invariant of the loading holds as long as every order is in step, that is, as long as
\* the events of each are stamped in the order in which they came and after all that the
\* loading knows of it; and when no event falls on the first instant of a month, where it
\* would meet the snapshot that a load makes of the month.
LEMMA LoadingInvariant ==
    ASSUME MonthStartEvents = FALSE
    PROVE  Spec => [](inStep \subseteq Orders /\ (inStep = Orders => IInv))
<1> DEFINE Inv == inStep \subseteq Orders /\ (inStep = Orders => IInv)
<1>1. Init => Inv
  BY InitKeeps DEF Init
<1>2. Inv /\ [Next]_vars => Inv'
  <2>1. SUFFICES ASSUME Inv, [Next]_vars
                 PROVE  inStep' \subseteq Orders /\ (inStep' = Orders => IInv')
    OBVIOUS
  <2>2. inStep' \subseteq inStep
    BY <2>1, InStepShrinks
  <2>3. inStep' \subseteq Orders
    BY <2>1, <2>2
  <2>4. ASSUME inStep' = Orders PROVE IInv'
    <3>1. inStep = Orders
      BY <2>1, <2>2, <2>4
    <3>2. IInv
      BY <2>1, <3>1
    <3>. QED
      BY <2>1, <2>4, <3>2, NextKeeps
  <2>. QED
    BY <2>3, <2>4
<1>. QED
  BY <1>1, <1>2, PTL DEF Spec

\* The tables of the capture and of level3, the eras and the history keep their types while
\* episodes, sessions and the steps of a load follow one another in any order, as long as
\* every order is in step.
THEOREM LoadingTyped ==
    ASSUME MonthStartEvents = FALSE
    PROVE  Spec => [](inStep = Orders => TypeOK)
<1>1. Spec => [](inStep \subseteq Orders /\ (inStep = Orders => IInv))
  BY LoadingInvariant
<1>2. (inStep = Orders => IInv) => (inStep = Orders => TypeOK)
  BY TypedWhenSound
<1>. QED
  BY <1>1, <1>2, PTL

\* Level3 shows, at every loaded instant that has an era, the book the exchange has shown:
\* capture_transient_raw_book_events() neither loses nor invents an order, for any cut of the
\* events into channels, eras, months and loads, as long as every order is in step: no
\* exchange_timestamp of its events goes back behind an earlier event, a row, the start of a
\* channel or that of the month.  Stamps of different orders may go back as they like.
THEOREM BookIsReplayed ==
    ASSUME MonthStartEvents = FALSE
    PROVE  Spec => [](inStep = Orders => BookReplayed)
<1>1. Spec => [](inStep \subseteq Orders /\ (inStep = Orders => IInv))
  BY LoadingInvariant
<1>2. (inStep = Orders => IInv) => (inStep = Orders => BookReplayed)
  BY ReplayedWhenSound
<1>. QED
  BY <1>1, <1>2, PTL

\* The rows of an order are chains, numbered from 1, in which the query that numbers the rows
\* of a load by their exchange_timestamp and the trigger that continues the rows of the loads
\* before it agree, as long as every order is in step.
THEOREM ChainsAreLinked ==
    ASSUME MonthStartEvents = FALSE
    PROVE  Spec => [](inStep = Orders => ChainsLinked)
<1>1. Spec => [](inStep \subseteq Orders /\ (inStep = Orders => IInv))
  BY LoadingInvariant
<1>2. (inStep = Orders => IInv) => (inStep = Orders => ChainsLinked)
  BY LinkedWhenSound
<1>. QED
  BY <1>1, <1>2, PTL

\* level3_eras tells of every era the time of its last row, although the trigger looks at the
\* rows of one INSERT statement only, as long as every order is in step.
THEOREM ErasFollowLevel3 ==
    ASSUME MonthStartEvents = FALSE
    PROVE  Spec => [](inStep = Orders => ErasUpToDate)
<1>1. Spec => [](inStep \subseteq Orders /\ (inStep = Orders => IInv))
  BY LoadingInvariant
<1>2. (inStep = Orders => IInv) => (inStep = Orders => ErasUpToDate)
  BY ErasWhenSound
<1>. QED
  BY <1>1, <1>2, PTL
=============================================================================
