------------------------- MODULE DepthChangesProofs -------------------------
(***************************************************************************)
(* Proofs about DepthChanges, for all tables, queries and batches of the   *)
(* cursor.                                                                 *)
(***************************************************************************)
EXTENDS DepthChanges, TLAPS, FiniteSetTheorems, WellFoundedInduction, NaturalsInduction

Ceiling(f, t) == ((t - 1) \div f + 1) * f

(***************************************************************************)
(* The rows a query reads, the time of the episode of each of them (0 for  *)
(* those of the starting order book), and the order book some rows make:   *)
(* the last of every order, unless it is a deletion.                       *)
(***************************************************************************)
Given(table, q) ==
    LiveBefore(table, Eras, q.start) \union {r \in table : q.start <= r.mts /\ r.mts <= MaxTime}
Time(q, r) == IF r.mts < q.start THEN 0 ELSE Ceiling(q.frequency, r.mts)
BookOf(rows) == {r \in rows : ~Deleted(r) /\ \A x \in rows : x.id = r.id => ~Before(r, x)}

Below(table, q, t) == {r \in Given(table, q) : Time(q, r) < t}
UpTo(table, q, t) == {r \in Given(table, q) : Time(q, r) <= t}
SeenTimes(q, rows) == {Time(q, r) : r \in {r \in rows : q.start <= r.mts}}

ChangeOf(q, before, after, t) ==
    IF q.kind = "depth" THEN DepthChange(before, after, t) ELSE SpreadChange(before, after, t)
ExpectedOf(table, q, t) ==
    ChangeOf(q, BookOf(Below(table, q, t)), BookOf(UpTo(table, q, t)), t)

(***************************************************************************)
(* The rows that are not in the order book yet, those that are, and those  *)
(* of complete episodes.                                                   *)
(***************************************************************************)
Unread == episode \union events_deque \union cursor
Processed == Given(level3, query) \ Unread
Updating == phase \in {"initial", "update"}
Settled == IF Updating THEN Below(level3, query, current_episode) ELSE Processed

-----------------------------------------------------------------------------
(***************************************************************************)
(* The inductive invariant.                                                *)
(***************************************************************************)
Arguments ==
    /\ level3 \in Tables
    /\ query \in [kind : {"depth", "spread"}, start : Starts, frequency : Frequencies]
    /\ phase \in {"first call", "initial", "next", "update", "return", "done"}
    /\ current_episode \in Nat

Idle ==
    /\ cursor = {} /\ events_deque = {} /\ episode = {}
    /\ current_episode = 0
    /\ by_order_id = [s \in Sides |-> {}]
    /\ touched = Untouched
    /\ l2 = {} /\ bid = Empty /\ ask = Empty /\ answer = << >>

\* Rows are read in their order; nothing read late belongs before.
RowsInOrder ==
    /\ Unread \subseteq Given(level3, query)
    /\ Cardinality(events_deque) <= FetchCount
    /\ \A e \in episode : \A u \in events_deque \union cursor : Before(e, u)
    /\ \A e \in events_deque : \A u \in cursor : Before(e, u)
    /\ \A p \in Processed : \A u \in Unread : p.id = u.id => Before(p, u)
    /\ IF phase = "initial"
       THEN /\ events_deque = {}
            /\ \A u \in cursor : query.start <= u.mts
            /\ \A p \in Processed \union episode : p.mts < query.start
       ELSE \A u \in Unread : query.start <= u.mts

\* Episodes are put together whole.
EpisodesWhole ==
    /\ phase \in {"return", "done"} => episode = {}
    /\ phase = "done" => Unread = {}
    /\ phase \in {"initial", "return", "done"} => current_episode = 0
    /\ phase = "next" => (current_episode = 0 <=> episode = {})
    /\ phase \in {"next", "update"} => \A e \in episode : Time(query, e) = current_episode
    /\ phase \in {"next", "return", "done"} =>
         \A p \in Processed : \A u \in Unread : Time(query, p) < Time(query, u)
    /\ phase = "update" =>
         /\ \A p \in Processed : Time(query, p) <= current_episode
         /\ \A u \in events_deque \union cursor : current_episode < Time(query, u)
         /\ \E r \in Given(level3, query) :
              query.start <= r.mts /\ Time(query, r) = current_episode

BookUpToDate ==
    by_order_id = [s \in Sides |-> OfSide(BookOf(Processed), s)]

AtPrice(orders, p) == {r \in orders : r.price = p}

\* A saved volume is that before the episode; no other level has changed.
TouchedSaved ==
    /\ DOMAIN touched = Sides
    /\ ~Updating => touched = Untouched
    /\ Updating => \A s \in Sides :
         LET before == OfSide(BookOf(Settled), s)
         IN  /\ \A p \in DOMAIN touched[s] :
                  /\ p \in Prices
                  /\ touched[s][p].volume = PriceLevelVolume(before, p)
                  /\ phase = "update" => touched[s][p].time = current_episode
             /\ \A p \in Prices \ DOMAIN touched[s] :
                  AtPrice(before, p) = AtPrice(by_order_id[s], p)

DepthUpToDate ==
    IF query.kind = "depth" THEN bid = Empty /\ ask = Empty
    ELSE bid = LevelsOf(BookOf(Settled), "b") /\ ask = LevelsOf(BookOf(Settled), "s")

EarlierIn(q, a, b) ==
    \/ a.time < b.time
    \/ /\ q.kind = "depth" /\ a.time = b.time
       /\ \/ a.side = "b" /\ b.side = "s"
          \/ a.side = b.side /\ a.price < b.price

AnsweredSoFar ==
    /\ answer \in Seq({answer[i] : i \in DOMAIN answer})
    /\ phase # "return" => l2 = {}
    /\ \A i \in DOMAIN answer : \E t \in SeenTimes(query, Settled) :
          answer[i] \in ExpectedOf(level3, query, t)
    /\ \A c \in l2 : \E t \in SeenTimes(query, Settled) : c \in ExpectedOf(level3, query, t)
    /\ \A t \in SeenTimes(query, Settled) : \A c \in ExpectedOf(level3, query, t) :
          c \in l2 \/ \E i \in DOMAIN answer : answer[i] = c
    /\ \A i, j \in DOMAIN answer : i < j => EarlierIn(query, answer[i], answer[j])
    /\ \A i \in DOMAIN answer : \A c \in l2 : EarlierIn(query, answer[i], c)

IInv ==
    /\ Arguments
    /\ phase = "first call" => Idle
    /\ phase # "first call" =>
         /\ RowsInOrder
         /\ EpisodesWhole
         /\ BookUpToDate
         /\ TouchedSaved
         /\ DepthUpToDate
         /\ AnsweredSoFar

-----------------------------------------------------------------------------
(***************************************************************************)
(* A nonempty set of natural numbers has a least element, and if it is     *)
(* bounded a greatest one.                                                 *)
(***************************************************************************)
LEMMA NatMinimum ==
    ASSUME NEW T \in SUBSET Nat, T # {}
    PROVE  \E m \in T : \A k \in T : m <= k
<1> DEFINE R == OpToRel(<, Nat)
<1>1. IsWellFoundedOn(R, Nat)
  BY NatLessThanWellFounded
<1>2. \A x, y \in Nat : x < y => << x, y >> \in R
  BY DEF OpToRel
<1> HIDE DEF R
<1>3. PICK m \in T : \A k \in T : << k, m >> \notin R
  BY <1>1, WFMin
<1>4. \A k \in T : m <= k
  <2>1. TAKE k \in T
  <2>2. m \in Nat /\ k \in Nat
    OBVIOUS
  <2>3. ~(k < m)
    BY <1>2, <1>3, <2>2
  <2>. QED
    BY <2>2, <2>3
<1>. QED
  BY <1>4

LEMMA MaxIsGreatest ==
    ASSUME NEW n \in Nat, NEW S \in SUBSET (0..n), S # {}
    PROVE  /\ Max(S) \in S
           /\ \A y \in S : y <= Max(S)
<1> DEFINE T == {k \in Nat : n - k \in S}
<1>1. PICK s \in S : TRUE
  OBVIOUS
<1>2. n - s \in T
  BY n - (n - s) = s
<1>3. PICK m \in T : \A k \in T : m <= k
  BY <1>2, NatMinimum
<1>4. n - m \in S /\ \A y \in S : n - m >= y
  <2>1. \A y \in S : n - y \in T
    BY \A y \in S : n - (n - y) = y
  <2>. QED
    BY <2>1, <1>3
<1>. QED
  BY <1>4 DEF Max

LEMMA MaxIs ==
    ASSUME NEW n \in Nat, NEW S \in SUBSET (0..n), NEW x \in S, \A y \in S : y <= x
    PROVE  Max(S) = x
<1>1. Max(S) \in S /\ \A y \in S : y <= Max(S)
  <2>1. S # {}
    OBVIOUS
  <2>. QED
    BY <2>1, MaxIsGreatest
<1>2. PICK m : m = Max(S)
  OBVIOUS
<1>3. m \in Nat /\ x \in Nat
  <2>1. \A y \in S : y \in 0..n
    OBVIOUS
  <2>2. \A y \in 0..n : y \in Nat
    OBVIOUS
  <2>3. m \in S
    BY <1>1, <1>2
  <2>. QED
    BY <2>1, <2>2, <2>3
<1>4. m <= x /\ x <= m
  BY <1>1, <1>2
<1>. QED
  BY <1>2, <1>3, <1>4

-----------------------------------------------------------------------------
(***************************************************************************)
(* Volumes, and times of episodes.                                         *)
(***************************************************************************)
\* The empty level has no volume.
LEMMA NoVolume == Volume({}) = 0
<1> DEFINE Step(g) ==
             [s \in SUBSET {} |->
                IF s = {} THEN 0
                ELSE LET x == CHOOSE x \in s : TRUE IN x.amount + g[s \ {x}]]
<1>1. Volume({}) = (CHOOSE g : g = Step(g))[{}]
  BY DEF Volume, MapThenSumSet, MapThenFoldSet
<1>2. [s \in SUBSET {} |-> 0] = Step([s \in SUBSET {} |-> 0])
  OBVIOUS
<1>3. PICK iter : iter = CHOOSE g : g = Step(g)
  OBVIOUS
<1>4. iter = Step(iter)
  <2>. HIDE DEF Step
  <2>. QED
    BY <1>2, <1>3
<1>. QED
  BY <1>1, <1>3, <1>4

LEMMA Multiples ==
    ASSUME NEW f \in Nat \ {0}, NEW a \in Int, NEW b \in Int
    PROVE  a * f < b * f <=> a < b
<1>1. CASE a < b
  <2>1. PICK d \in Nat \ {0} : b = a + d
    <3>1. b - a \in Nat \ {0} /\ b = a + (b - a)
      BY <1>1
    <3>. QED
      BY <3>1
  <2>2. b * f = a * f + d * f /\ d * f > 0 /\ a * f \in Int /\ d * f \in Int
    BY <2>1
  <2>. QED
    BY <1>1, <2>2
<1>2. CASE b < a
  <2>1. PICK d \in Nat \ {0} : a = b + d
    <3>1. a - b \in Nat \ {0} /\ a = b + (a - b)
      BY <1>2
    <3>. QED
      BY <3>1
  <2>2. a * f = b * f + d * f /\ d * f > 0 /\ b * f \in Int /\ d * f \in Int
    BY <2>1
  <2>. QED
    BY <1>2, <2>2
<1>. QED
  BY <1>1, <1>2

LEMMA CeilingBounds ==
    ASSUME NEW f \in Nat \ {0}, NEW t \in Nat \ {0}
    PROVE  /\ Ceiling(f, t) \in Nat \ {0} /\ t <= Ceiling(f, t)
           /\ \E k \in Int : Ceiling(f, t) = (k + 1) * f /\ k * f <= t - 1
<1>1. PICK k : k = (t - 1) \div f
  OBVIOUS
<1>2. PICK x : x = (t - 1) % f
  OBVIOUS
<1>3. k \in Int /\ x \in 0..(f - 1)
  BY <1>1, <1>2
<1>4. t - 1 = k * f + x
  <2>1. t - 1 = f * ((t - 1) \div f) + ((t - 1) % f)
    OBVIOUS
  <2>2. f * k = k * f
    BY <1>3
  <2>. QED
    BY <2>1, <2>2, <1>1, <1>2
<1>5. k * f \in Int /\ (k + 1) * f = k * f + f
  BY <1>3
<1>6. Ceiling(f, t) = (k + 1) * f
  BY <1>1 DEF Ceiling
<1>. QED
  BY <1>3, <1>4, <1>5, <1>6

\* Rounding up to a rounded time is rounding up before it.
LEMMA CeilingUpTo ==
    ASSUME NEW f \in Nat \ {0}, NEW t \in Nat \ {0}, NEW u \in Nat \ {0}
    PROVE  Ceiling(f, t) <= Ceiling(f, u) <=> t <= Ceiling(f, u)
<1>1. PICK k \in Int : Ceiling(f, t) = (k + 1) * f /\ k * f <= t - 1
  BY CeilingBounds
<1>2. PICK j \in Int : Ceiling(f, u) = (j + 1) * f /\ j * f <= u - 1
  BY CeilingBounds
<1>3. /\ Ceiling(f, t) \in Nat /\ t <= Ceiling(f, t) /\ Ceiling(f, u) \in Nat
      /\ k * f \in Int
  BY CeilingBounds, <1>1
<1>4. ASSUME t <= Ceiling(f, u) PROVE Ceiling(f, t) <= Ceiling(f, u)
  <2>1. k * f < (j + 1) * f
    BY <1>1, <1>2, <1>3, <1>4
  <2>2. k < j + 1
    BY <2>1, Multiples
  <2>3. ~((j + 1) * f < (k + 1) * f)
    BY <2>2, Multiples
  <2>. QED
    BY <2>3, <1>1, <1>2, <1>3
<1>. QED
  BY <1>3, <1>4

-----------------------------------------------------------------------------
(***************************************************************************)
(* Rows and their order.                                                   *)
(***************************************************************************)
Queries == [kind : {"depth", "spread"}, start : Starts, frequency : Frequencies]

LEMMA RowTyped ==
    ASSUME NEW r \in Rows
    PROVE  /\ r.mts \in Nat \ {0} /\ r.mts <= MaxTime
           /\ r.id \in Orders /\ r.id \in Int /\ r.no \in Nat /\ r.price \in Prices
           /\ r.next \in Int /\ SideOf[r.id] \in Sides
<1>1. r.mts \in Times /\ r.next \in Times \union {Infinity, MinusInfinity}
  BY DEF Rows
<1>2. \A t \in Times : t \in Nat \ {0} /\ t <= MaxTime
  BY TableAssumption DEF Times
<1>3. Infinity \in Int /\ MinusInfinity \in Int
  BY TableAssumption DEF Infinity, MinusInfinity
<1>4. r.next \in Int
  BY <1>1, <1>2, <1>3
<1>5. r.id \in Orders /\ r.no \in Nat /\ r.price \in Prices
  BY DEF Rows
<1>6. r.id \in Int /\ SideOf[r.id] \in Sides
  BY <1>5, DepthAssumption
<1>. QED
  BY <1>1, <1>2, <1>4, <1>5, <1>6

LEMMA TableTyped ==
    ASSUME NEW table \in Tables
    PROVE  table \subseteq Rows /\ IsFiniteSet(table) /\ PrimaryKey(table) /\ IsTable(table)
BY DepthAssumption DEF IsTable

LEMMA QueryTyped ==
    ASSUME NEW q \in Queries
    PROVE  /\ q.kind \in {"depth", "spread"}
           /\ q.start \in Nat \ {0} /\ q.start <= MaxTime /\ q.frequency \in Nat \ {0}
<1>1. q.start \in Times /\ q.frequency \in Nat \ {0} /\ q.kind \in {"depth", "spread"}
  BY DepthAssumption DEF Queries
<1>2. \A t \in Times : t \in Nat \ {0} /\ t <= MaxTime
  BY TableAssumption DEF Times
<1>. QED
  BY <1>1, <1>2

\* Before is a strict order.
LEMMA BeforeIsStrict ==
    ASSUME NEW a \in Rows, NEW b \in Rows, NEW c \in Rows
    PROVE  /\ ~Before(a, a)
           /\ Before(a, b) => ~Before(b, a)
           /\ Before(a, b) /\ Before(b, c) => Before(a, c)
           /\ Before(a, b) => a.mts <= b.mts
           /\ a.mts < b.mts => Before(a, b)
BY RowTyped DEF Before

\* It is total on a table.
LEMMA BeforeIsTotal ==
    ASSUME NEW table \in Tables, NEW a \in table, NEW b \in table, a # b
    PROVE  Before(a, b) \/ Before(b, a)
<1>1. a \in Rows /\ b \in Rows /\ Key(a) # Key(b)
  BY TableTyped DEF PrimaryKey
<1>2. a.mts # b.mts \/ a.id # b.id \/ a.no # b.no
  BY <1>1 DEF Key
<1>. QED
  BY <1>1, <1>2, RowTyped DEF Before

-----------------------------------------------------------------------------
(***************************************************************************)
(* The order books of the schema are the books of the rows up to a time.   *)
(***************************************************************************)
LEMMA LiveIs ==
    ASSUME NEW table \in SUBSET Rows, NEW t \in Nat \ {0}
    PROVE  /\ LiveBefore(table, Eras, t) = {r \in table : r.mts < t /\ r.next >= t}
           /\ LiveAt(table, Eras, t) = {r \in table : r.mts <= t /\ r.next > t}
<1>1. ErasUpTo(Eras, t) = {1}
  BY DEF ErasUpTo, Eras
<1>2. \A r \in table : InEraOf(Eras, t, r.mts)
  <2>1. \A r \in table : r \in Rows
    OBVIOUS
  <2>2. \A r \in table : 1 <= r.mts
    BY <2>1, RowTyped
  <2>. QED
    BY <1>1, <2>2 DEF InEraOf
<1>. QED
  BY <1>2 DEF LiveBefore, LiveAt

LEMMA LiveIsBook ==
    ASSUME NEW table \in Tables, NEW t \in Nat \ {0}, t <= MaxTime
    PROVE  /\ LiveBefore(table, Eras, t) = BookOf({r \in table : r.mts < t})
           /\ LiveAt(table, Eras, t) = BookOf({r \in table : r.mts <= t})
<1>1. table \in SUBSET Rows /\ IsTable(table)
  BY TableTyped
<1>2. \A r \in table : r \in Rows /\ r.mts \in Nat \ {0} /\ r.next \in Int
  BY <1>1, RowTyped
<1>3. \A r \in table : r.next >= t => ~Deleted(r)
  BY <1>2 DEF Deleted, MinusInfinity
<1>4. ASSUME NEW r \in table, ~Deleted(r), NEW x \in table, x.id = r.id, Before(r, x)
      PROVE  r.next <= x.mts
  <2>1. x \in Later(table, r)
    BY <1>4 DEF Later
  <2>2. PICK y \in Later(table, r) : r.next = y.mts /\ y.mts <= x.mts
    BY <2>1, <1>1, <1>4 DEF IsTable
  <2>. QED
    BY <2>2
<1>5. ASSUME NEW r \in table, ~Deleted(r)
      PROVE  \/ r.next > MaxTime
             \/ \E x \in table : x.id = r.id /\ Before(r, x) /\ r.next = x.mts
  <2>1. CASE r.next = Infinity
    BY <2>1, TableAssumption DEF Infinity
  <2>2. CASE r.next # Infinity
    <3>1. PICK x \in Later(table, r) : r.next = x.mts
      BY <2>2, <1>1, <1>5 DEF IsTable
    <3>. QED
      BY <3>1 DEF Later
  <2>. QED
    BY <2>1, <2>2
<1>6. LiveBefore(table, Eras, t) = BookOf({r \in table : r.mts < t})
  <2>1. ASSUME NEW r \in table, r.mts < t, r.next >= t
        PROVE  \A x \in table : x.mts < t /\ x.id = r.id => ~Before(r, x)
    BY <2>1, <1>2, <1>3, <1>4
  <2>2. ASSUME NEW r \in table, r.mts < t, ~Deleted(r),
               \A x \in table : x.mts < t /\ x.id = r.id => ~Before(r, x)
        PROVE  r.next >= t
    BY <2>2, <1>2, <1>5, TableAssumption
  <2>. QED
    BY <2>1, <2>2, <1>1, <1>3, LiveIs DEF BookOf
<1>7. LiveAt(table, Eras, t) = BookOf({r \in table : r.mts <= t})
  <2>1. ASSUME NEW r \in table, r.mts <= t, r.next > t
        PROVE  \A x \in table : x.mts <= t /\ x.id = r.id => ~Before(r, x)
    BY <2>1, <1>2, <1>3, <1>4
  <2>2. ASSUME NEW r \in table, r.mts <= t, ~Deleted(r),
               \A x \in table : x.mts <= t /\ x.id = r.id => ~Before(r, x)
        PROVE  r.next > t
    BY <2>2, <1>2, <1>5, TableAssumption
  <2>3. \A r \in table : r.next > t => ~Deleted(r)
    BY <1>2, <1>3
  <2>. QED
    BY <2>1, <2>2, <2>3, <1>1, LiveIs DEF BookOf
<1>. QED
  BY <1>6, <1>7

\* What a book has left out does not come back.
LEMMA BookOfBook ==
    ASSUME NEW X, NEW Y, \A x \in X : \A y \in Y : ~Before(y, x)
    PROVE  BookOf(BookOf(X) \union Y) = BookOf(X \union Y)
BY DEF BookOf

-----------------------------------------------------------------------------
(***************************************************************************)
(* The rows of a query and their episodes.                                 *)
(***************************************************************************)
LEMMA GivenTyped ==
    ASSUME NEW table \in Tables, NEW q \in Queries
    PROVE  /\ Given(table, q) \subseteq table
           /\ \A r \in Given(table, q) :
                r \in Rows /\ r.mts \in Nat \ {0} /\ r.mts <= MaxTime
           /\ \A r \in table : q.start <= r.mts => r \in Given(table, q)
<1>1. table \in SUBSET Rows
  BY TableTyped
<1>2. \A r \in table : r \in Rows /\ r.mts \in Nat \ {0} /\ r.mts <= MaxTime
  BY <1>1, RowTyped
<1>3. Given(table, q) \subseteq table
  BY DEF Given, LiveBefore
<1>. QED
  BY <1>2, <1>3 DEF Given

LEMMA TimeTyped ==
    ASSUME NEW q \in Queries, NEW r \in Rows
    PROVE  /\ Time(q, r) \in Nat
           /\ Time(q, r) = 0 <=> r.mts < q.start
           /\ q.start <= r.mts => /\ q.start <= Time(q, r) /\ r.mts <= Time(q, r)
                                  /\ Time(q, r) = Ceiling(q.frequency, r.mts)
<1>1. q.start \in Nat \ {0} /\ q.frequency \in Nat \ {0} /\ r.mts \in Nat \ {0}
  BY QueryTyped, RowTyped
<1>2. Ceiling(q.frequency, r.mts) \in Nat \ {0} /\ r.mts <= Ceiling(q.frequency, r.mts)
  BY <1>1, CeilingBounds
<1>. QED
  BY <1>1, <1>2 DEF Time

\* Rows follow each other in the order of their episodes.
LEMMA TimeMonotone ==
    ASSUME NEW q \in Queries, NEW a \in Rows, NEW b \in Rows, a.mts <= b.mts
    PROVE  Time(q, a) <= Time(q, b)
<1>1. q.start \in Nat \ {0} /\ q.frequency \in Nat \ {0}
      /\ a.mts \in Nat \ {0} /\ b.mts \in Nat \ {0}
  BY QueryTyped, RowTyped
<1>2. /\ Time(q, a) \in Nat /\ Time(q, b) \in Nat /\ (Time(q, a) = 0 <=> a.mts < q.start)
      /\ q.start <= a.mts => Time(q, a) = Ceiling(q.frequency, a.mts)
      /\ q.start <= b.mts => Time(q, b) = Ceiling(q.frequency, b.mts) /\ b.mts <= Time(q, b)
  BY TimeTyped
<1>3. Ceiling(q.frequency, a.mts) <= Ceiling(q.frequency, b.mts)
         <=> a.mts <= Ceiling(q.frequency, b.mts)
  BY <1>1, CeilingUpTo
<1>. QED
  BY <1>1, <1>2, <1>3

LEMMA BookUpTo ==
    ASSUME NEW table \in Tables, NEW q \in Queries,
           NEW e \in Given(table, q), q.start <= e.mts
    PROVE  LET t == Time(q, e)
           IN  BookOf(UpTo(table, q, t))
                 = LiveAt(table, Eras, IF t < MaxTime THEN t ELSE MaxTime)
<1>1. PICK t : t = Time(q, e)
  OBVIOUS
<1>2. PICK T : T = IF t < MaxTime THEN t ELSE MaxTime
  OBVIOUS
<1>3. PICK st : st = q.start
  OBVIOUS
<1>4. /\ st \in Nat \ {0} /\ st <= MaxTime /\ MaxTime \in Nat /\ q.frequency \in Nat \ {0}
      /\ e \in Rows /\ e.mts \in Nat \ {0} /\ t \in Nat /\ st <= t
      /\ t = Ceiling(q.frequency, e.mts)
  BY <1>1, <1>3, QueryTyped, GivenTyped, TimeTyped, TableAssumption
<1>5. T \in Nat \ {0} /\ st <= T /\ T <= MaxTime
  BY <1>2, <1>4
<1>6. \A r \in table : r \in Rows /\ r.mts \in Nat \ {0} /\ r.mts <= MaxTime
  BY TableTyped, RowTyped
<1>7. ASSUME NEW r \in table, st <= r.mts PROVE Time(q, r) <= t <=> r.mts <= T
  <2>1. Time(q, r) = Ceiling(q.frequency, r.mts)
    BY <1>3, <1>6, <1>7, TimeTyped
  <2>2. Time(q, r) <= t <=> r.mts <= t
    BY <2>1, <1>4, <1>6, CeilingUpTo
  <2>. QED
    BY <2>2, <1>2, <1>4, <1>6
<1>8. \A r \in table : r.mts < st => Time(q, r) <= t
  BY <1>3, <1>4, <1>6, TimeTyped
<1> DEFINE X == {r \in table : r.mts < st}
           Y == {r \in table : st <= r.mts /\ r.mts <= T}
<1>9. UpTo(table, q, t) = LiveBefore(table, Eras, st) \union Y
  <2>1. \A r \in LiveBefore(table, Eras, st) : r \in table /\ r.mts < st
    BY DEF LiveBefore
  <2>. QED
    BY <2>1, <1>3, <1>6, <1>7, <1>8 DEF UpTo, Given
<1>10. LiveBefore(table, Eras, st) = BookOf(X)
  BY <1>4, LiveIsBook
<1>11. \A x \in X : \A y \in Y : ~Before(y, x)
  <2>. SUFFICES ASSUME NEW x \in X, NEW y \in Y PROVE ~Before(y, x)
    OBVIOUS
  <2>1. x \in Rows /\ y \in Rows /\ x.mts < y.mts
    BY <1>4, <1>6
  <2>. QED
    BY <2>1, BeforeIsStrict
<1>12. X \union Y = {r \in table : r.mts <= T}
  BY <1>4, <1>5, <1>6
<1>13. BookOf(UpTo(table, q, t)) = BookOf(X \union Y)
  <2>. HIDE DEF X, Y
  <2>. QED
    BY <1>9, <1>10, <1>11, BookOfBook
<1>14. BookOf(UpTo(table, q, t)) = LiveAt(table, Eras, T)
  BY <1>5, <1>12, <1>13, LiveIsBook
<1>. QED
  BY <1>1, <1>2, <1>14

\* Before the first episode the book is the starting one.
LEMMA BookOfStart ==
    ASSUME NEW table \in Tables, NEW q \in Queries
    PROVE  BookOf(LiveBefore(table, Eras, q.start)) = LiveBefore(table, Eras, q.start)
<1> DEFINE X == {r \in table : r.mts < q.start}
<1>1. LiveBefore(table, Eras, q.start) = BookOf(X)
  BY QueryTyped, LiveIsBook
<1>2. BookOf(BookOf(X) \union {}) = BookOf(X \union {})
  <2>. HIDE DEF X
  <2>. QED
    BY BookOfBook
<1>3. BookOf(X) \union {} = BookOf(X) /\ X \union {} = X
  OBVIOUS
<1>. QED
  BY <1>1, <1>2, <1>3

-----------------------------------------------------------------------------
(***************************************************************************)
(* The order book and its price levels.                                    *)
(***************************************************************************)
\* A row that comes after those of its order takes their place.
LEMMA BookWith ==
    ASSUME NEW P \in SUBSET Rows, NEW row \in Rows,
           \A p \in P : p.id = row.id => Before(p, row),
           NEW s \in Sides
    PROVE  OfSide(BookOf(P \union {row}), s)
             = IF SideOf[row.id] = s THEN OrdersWith(OfSide(BookOf(P), s), row)
               ELSE OfSide(BookOf(P), s)
<1>1. ~Before(row, row) /\ \A p \in P : p.id = row.id => Before(p, row) /\ ~Before(row, p)
  BY BeforeIsStrict
<1>2. BookOf(P \union {row})
        = {r \in BookOf(P) : r.id # row.id} \union IF Deleted(row) THEN {} ELSE {row}
  BY <1>1 DEF BookOf
<1>. QED
  BY <1>2 DEF OfSide, OrdersWith, Replaced

LEMMA SameVolume ==
    ASSUME NEW a, NEW b, NEW p, AtPrice(a, p) = AtPrice(b, p)
    PROVE  PriceLevelVolume(a, p) = PriceLevelVolume(b, p)
BY DEF AtPrice, PriceLevelVolume

\* What the saved volumes of a side tell of its orders before.
Saved(saved, before, after) ==
    /\ \A p \in DOMAIN saved : p \in Prices /\ saved[p].volume = PriceLevelVolume(before, p)
    /\ \A p \in Prices \ DOMAIN saved : AtPrice(before, p) = AtPrice(after, p)

ChangesIn(saved, orders, s) ==
    { [time |-> saved[p].time, side |-> s, price |-> p, volume |-> PriceLevelVolume(orders, p)]
      : p \in {p \in DOMAIN saved : PriceLevelVolume(orders, p) # saved[p].volume} }

Differ(before, after) ==
    {p \in Prices : PriceLevelVolume(before, p) # PriceLevelVolume(after, p)}

\* The touched levels that changed are all that changed.
LEMMA ChangedAreTouched ==
    ASSUME NEW saved, NEW before, NEW after, Saved(saved, before, after)
    PROVE  {p \in DOMAIN saved : PriceLevelVolume(after, p) # saved[p].volume}
             = Differ(before, after)
<1>1. \A p \in Prices \ DOMAIN saved : PriceLevelVolume(before, p) = PriceLevelVolume(after, p)
  BY SameVolume DEF Saved
<1>. QED
  BY <1>1 DEF Saved, Differ

LEMMA LevelsUpdated ==
    ASSUME NEW B, NEW A, NEW s, NEW saved, Saved(saved, OfSide(B, s), OfSide(A, s))
    PROVE  UpdateLevels(LevelsOf(B, s), ChangesIn(saved, OfSide(A, s), s)) = LevelsOf(A, s)
<1>1. PICK before, after : before = OfSide(B, s) /\ after = OfSide(A, s)
  OBVIOUS
<1>2. PICK C : C = ChangesIn(saved, after, s)
  OBVIOUS
<1>3. PICK levels : levels = LevelsOf(B, s)
  OBVIOUS
<1>4. /\ \A c \in C : c.price \in Differ(before, after)
                      /\ c.volume = PriceLevelVolume(after, c.price)
      /\ \A p \in Differ(before, after) : \E c \in C : c.price = p
  <2>1. {p \in DOMAIN saved : PriceLevelVolume(after, p) # saved[p].volume}
          = Differ(before, after)
    BY <1>1, ChangedAreTouched
  <2>2. C = { [ time |-> saved[p].time, side |-> s, price |-> p,
                volume |-> PriceLevelVolume(after, p) ] : p \in Differ(before, after) }
    BY <1>2, <2>1 DEF ChangesIn
  <2>3. \A c \in C : c.price \in Differ(before, after)
                    /\ c.volume = PriceLevelVolume(after, c.price)
    BY <2>2
  <2>4. ASSUME NEW p \in Differ(before, after) PROVE \E c \in C : c.price = p
    <3>1. [ time |-> saved[p].time, side |-> s, price |-> p,
            volume |-> PriceLevelVolume(after, p) ] \in C
      BY <2>2
    <3>. QED
      BY <3>1
  <2>. QED
    BY <2>3, <2>4
<1>5. /\ DOMAIN levels = {p \in Prices : PriceLevelVolume(before, p) > 0}
      /\ \A p \in DOMAIN levels : levels[p] = PriceLevelVolume(before, p)
  BY <1>1, <1>3 DEF LevelsOf
<1> DEFINE kept == DOMAIN levels \ {c.price : c \in C}
           new  == {c \in C : c.volume > 0}
           F    == kept \union {c.price : c \in new}
           value(p) == IF p \in kept THEN levels[p] ELSE (CHOOSE c \in new : c.price = p).volume
<1>6. UpdateLevels(levels, C) = [p \in F |-> value(p)]
  BY DEF UpdateLevels
<1>7. \A p : p \in kept <=> p \in DOMAIN levels /\ p \notin Differ(before, after)
  BY <1>4
<1>8. \A p \in Prices \ Differ(before, after) :
         PriceLevelVolume(before, p) = PriceLevelVolume(after, p)
  BY DEF Differ
<1>9. \A p : (\E c \in new : c.price = p)
               <=> p \in Differ(before, after) /\ PriceLevelVolume(after, p) > 0
  BY <1>4
<1>10. F = {p \in Prices : PriceLevelVolume(after, p) > 0}
  <2>1. Differ(before, after) \subseteq Prices
    BY DEF Differ
  <2>2. \A p : p \in F <=> p \in kept \/ \E c \in new : c.price = p
    OBVIOUS
  <2>. HIDE DEF F, kept, new
  <2>. QED
    BY <2>1, <2>2, <1>5, <1>7, <1>8, <1>9
<1>11. ASSUME NEW p \in F PROVE value(p) = PriceLevelVolume(after, p)
  <2>1. CASE p \in kept
    BY <2>1, <1>5, <1>7, <1>8
  <2>2. CASE p \notin kept
    <3>1. PICK c : c = CHOOSE x \in new : x.price = p
      OBVIOUS
    <3>2. c \in new /\ c.price = p
      BY <2>2, <3>1
    <3>. QED
      BY <2>2, <3>1, <3>2, <1>4
  <2>. QED
    BY <2>1, <2>2
<1>12. LevelsOf(A, s) = [p \in F |-> PriceLevelVolume(after, p)]
  <2>1. LevelsOf(A, s) = [p \in {p \in Prices : PriceLevelVolume(after, p) > 0} |->
                            PriceLevelVolume(after, p)]
    BY <1>1 DEF LevelsOf
  <2>. QED
    BY <2>1, <1>10
<1>13. [p \in F |-> value(p)] = [p \in F |-> PriceLevelVolume(after, p)]
  <2>. HIDE DEF F, value
  <2>. QED
    BY <1>11
<1>. QED
  BY <1>1, <1>2, <1>3, <1>6, <1>12, <1>13

\* Nothing is live in an empty book.
LEMMA NoLevels ==
    ASSUME NEW s
    PROVE  LevelsOf(BookOf({}), s) = Empty
<1>1. BookOf({}) = {} /\ OfSide({}, s) = {}
  BY DEF BookOf, OfSide
<1>2. \A p : PriceLevelVolume({}, p) = 0
  <2>1. \A p : {r \in {} : r.price = p} = {}
    OBVIOUS
  <2>. QED
    BY <2>1, NoVolume DEF PriceLevelVolume
<1>3. {p \in Prices : PriceLevelVolume(OfSide(BookOf({}), s), p) > 0} = {}
  BY <1>1, <1>2
<1>4. LevelsOf(BookOf({}), s) = [p \in {} |-> PriceLevelVolume({}, p)]
  BY <1>1, <1>3 DEF LevelsOf
<1>. QED
  BY <1>4 DEF Empty

\* The changes of the two sides are what differs between the books.
LEMMA ChangesAreDepthChange ==
    ASSUME NEW B, NEW A, NEW t, NEW saved,
           \A s \in Sides : Saved(saved[s], OfSide(B, s), OfSide(A, s)),
           \A s \in Sides : \A p \in DOMAIN saved[s] : saved[s][p].time = t
    PROVE  UNION {ChangesIn(saved[s], OfSide(A, s), s) : s \in Sides} = DepthChange(B, A, t)
<1>1. ASSUME NEW s \in Sides
      PROVE  ChangesIn(saved[s], OfSide(A, s), s)
               = { [ time |-> t, side |-> s, price |-> p,
                     volume |-> PriceLevelVolume(OfSide(A, s), p) ]
                   : p \in Differ(OfSide(B, s), OfSide(A, s)) }
  <2>1. {p \in DOMAIN saved[s] : PriceLevelVolume(OfSide(A, s), p) # saved[s][p].volume}
          = Differ(OfSide(B, s), OfSide(A, s))
    BY ChangedAreTouched
  <2>. QED
    BY <2>1 DEF ChangesIn
<1>. QED
  BY <1>1 DEF DepthChange, Differ

-----------------------------------------------------------------------------
(***************************************************************************)
(* The batches of the cursor.                                              *)
(***************************************************************************)
\* The first rows are fetched, FetchCount of them at the most.
LEMMA FetchedFirst ==
    ASSUME NEW table \in Tables, NEW rows \in SUBSET table
    PROVE  /\ Fetched(rows) \subseteq rows
           /\ \A a \in Fetched(rows) : \A b \in rows \ Fetched(rows) : Before(a, b)
           /\ Cardinality(Fetched(rows)) <= FetchCount
<1> DEFINE earlier(x) == {y \in rows : Before(y, x)}
<1>1. IsFiniteSet(rows) /\ \A x \in rows : x \in Rows /\ x \in table
  BY TableTyped, FS_Subset
<1>2. ASSUME NEW x PROVE IsFiniteSet(earlier(x)) /\ Cardinality(earlier(x)) \in Nat
  BY <1>1, FS_Subset, FS_CardinalityType
<1>3. ASSUME NEW a \in rows, NEW b \in rows, Before(a, b)
      PROVE  Cardinality(earlier(a)) + 1 <= Cardinality(earlier(b))
  <2>1. earlier(a) \union {a} \subseteq earlier(b) /\ a \notin earlier(a)
    BY <1>1, <1>3, BeforeIsStrict
  <2>2. Cardinality(earlier(a) \union {a}) = Cardinality(earlier(a)) + 1
    <3>. HIDE DEF earlier
    <3>. QED
      BY <2>1, <1>2, FS_AddElement
  <2>3. Cardinality(earlier(a) \union {a}) <= Cardinality(earlier(b))
    <3>. HIDE DEF earlier
    <3>. QED
      BY <2>1, <1>2, FS_Subset
  <2>. QED
    BY <2>2, <2>3
<1>4. \A x : x \in Fetched(rows) <=> x \in rows /\ Cardinality(earlier(x)) < FetchCount
  BY DEF Fetched
<1>5. ASSUME NEW a \in Fetched(rows), NEW b \in rows \ Fetched(rows) PROVE Before(a, b)
  <2>1. a \in rows /\ a # b
    BY <1>4
  <2>2. ~Before(b, a)
    <3>1. Before(b, a) => Cardinality(earlier(b)) + 1 <= Cardinality(earlier(a))
      BY <2>1, <1>3
    <3>2. /\ Cardinality(earlier(a)) < FetchCount
          /\ ~(Cardinality(earlier(b)) < FetchCount)
      BY <2>1, <1>4
    <3>. HIDE DEF earlier
    <3>. QED
      BY <3>1, <3>2, <1>2, DepthAssumption
  <2>. QED
    BY <2>1, <2>2, <1>1, BeforeIsTotal
<1>6. Cardinality(Fetched(rows)) <= FetchCount
  <2>1. CASE Fetched(rows) = {}
    BY <2>1, FS_EmptySet, DepthAssumption
  <2>2. CASE Fetched(rows) # {}
    <3> DEFINE left == {FetchCount - Cardinality(earlier(x)) : x \in Fetched(rows)}
    <3>1. left \in SUBSET Nat /\ left # {}
      <4>. HIDE DEF earlier
      <4>. QED
        BY <2>2, <1>2, <1>4, DepthAssumption
    <3>2. PICK n \in left : \A k \in left : n <= k
      BY <3>1, NatMinimum
    <3>3. PICK m \in Fetched(rows) : n = FetchCount - Cardinality(earlier(m))
      BY <3>2
    <3>4. ASSUME NEW x \in Fetched(rows), x # m PROVE x \in earlier(m)
      <4>1. FetchCount - Cardinality(earlier(x)) \in left
        BY <3>4
      <4>2. Cardinality(earlier(x)) <= Cardinality(earlier(m))
        <5>. HIDE DEF earlier, left
        <5>. QED
          BY <4>1, <3>2, <3>3, <1>2, DepthAssumption
      <4>3. ~Before(m, x)
        <5>1. m \in rows /\ x \in rows
          BY <1>4
        <5>2. Before(m, x) => Cardinality(earlier(m)) + 1 <= Cardinality(earlier(x))
          BY <5>1, <1>3
        <5>. HIDE DEF earlier
        <5>. QED
          BY <4>2, <5>2, <1>2
      <4>4. x \in rows /\ m \in rows
        BY <1>4
      <4>. QED
        BY <3>4, <4>3, <4>4, <1>1, BeforeIsTotal
    <3>5. Fetched(rows) \subseteq earlier(m) \union {m} /\ m \notin earlier(m)
      BY <3>4, <1>1, <1>4, BeforeIsStrict
    <3>6. Cardinality(Fetched(rows)) <= Cardinality(earlier(m)) + 1
      <4>. HIDE DEF earlier
      <4>1. Cardinality(earlier(m) \union {m}) = Cardinality(earlier(m)) + 1
            /\ IsFiniteSet(earlier(m) \union {m})
        BY <3>5, <1>2, FS_AddElement
      <4>. QED
        BY <4>1, <3>5, FS_Subset
    <3>7. Cardinality(earlier(m)) < FetchCount
      BY <1>4
    <3>8. Cardinality(Fetched(rows)) \in Nat
      <4>1. Fetched(rows) \subseteq rows
        BY <1>4
      <4>. QED
        BY <4>1, <1>1, FS_Subset, FS_CardinalityType
    <3>. HIDE DEF earlier
    <3>. QED
      BY <3>6, <3>7, <3>8, <1>2, DepthAssumption
  <2>. QED
    BY <2>1, <2>2
<1>7. Fetched(rows) \subseteq rows
  BY <1>4
<1>. QED
  BY <1>5, <1>6, <1>7

-----------------------------------------------------------------------------
(***************************************************************************)
(* The invariant holds at the start, and after the first call has opened   *)
(* the cursor.                                                             *)
(***************************************************************************)
LEMMA InitInv == Init => IInv
<1>. SUFFICES ASSUME Init PROVE IInv
  OBVIOUS
<1>1. Arguments
  BY DEF Init, Arguments, Null
<1>2. Idle
  BY DEF Init, Idle, Null
<1>3. phase = "first call"
  BY DEF Init
<1>. QED
  BY <1>1, <1>2, <1>3 DEF IInv

LEMMA ArgumentsTyped ==
    ASSUME Arguments
    PROVE  /\ level3 \in Tables /\ query \in Queries /\ current_episode \in Nat
           /\ \A r \in Given(level3, query) :
                /\ r \in Rows /\ r \in level3 /\ r.mts \in Nat \ {0}
                /\ Time(query, r) \in Nat
                /\ Time(query, r) = 0 <=> r.mts < query.start
           /\ query.start \in Nat \ {0}
<1>1. level3 \in Tables /\ query \in Queries /\ current_episode \in Nat
  BY DEF Arguments, Queries
<1>2. \A r \in Given(level3, query) : r \in Rows /\ r \in level3 /\ r.mts \in Nat \ {0}
  BY <1>1, GivenTyped
<1>. QED
  BY <1>1, <1>2, TimeTyped, QueryTyped

\* What the answer and the depth are told by does not change.
LEMMA AnswerFrame ==
    ASSUME AnsweredSoFar, DepthUpToDate,
           UNCHANGED << level3, query, l2, bid, ask, answer >>,
           Settled' = Settled, phase # "return", phase' # "return"
    PROVE  AnsweredSoFar' /\ DepthUpToDate'
BY DEF AnsweredSoFar, DepthUpToDate

LEMMA FirstCallInv ==
    ASSUME IInv, FirstCall
    PROVE  IInv'
<1>1. /\ Arguments /\ Idle /\ phase' = "initial"
      /\ UNCHANGED << level3, query, events_deque, current_episode, by_order_id, touched,
                      l2, bid, ask, answer >>
      /\ episode' = LiveBefore(level3, Eras, query.start) /\ cursor' = RowsOfQuery
  BY DEF IInv, FirstCall
<1>2. /\ cursor = {} /\ events_deque = {} /\ current_episode = 0
      /\ by_order_id = [s \in Sides |-> {}] /\ touched = Untouched
      /\ l2 = {} /\ bid = Empty /\ ask = Empty /\ answer = << >>
  BY <1>1 DEF Idle
<1>3. Unread' = Given(level3, query)
  BY <1>1, <1>2 DEF Unread, Given, RowsOfQuery
<1>4. Processed' = {}
  BY <1>1, <1>3 DEF Processed
<1>5. Settled' = {}
  <2>1. Below(level3, query, 0) = {}
    BY <1>1, ArgumentsTyped DEF Below
  <2>. QED
    BY <2>1, <1>1, <1>2 DEF Settled, Updating
<1>6. Arguments'
  BY <1>1 DEF Arguments
<1>7. RowsInOrder'
  <2>1. \A r \in cursor' : r \in Given(level3, query) /\ query.start <= r.mts
    BY <1>1 DEF RowsOfQuery, Given
  <2>2. \A r \in episode' : r \in Given(level3, query) /\ r.mts < query.start
    BY <1>1 DEF LiveBefore, Given
  <2>3. \A e \in episode' : \A u \in cursor' : Before(e, u)
    <3>. SUFFICES ASSUME NEW e \in episode', NEW u \in cursor' PROVE Before(e, u)
      OBVIOUS
    <3>1. /\ e \in Rows /\ u \in Rows /\ e.mts \in Nat /\ u.mts \in Nat
          /\ query.start \in Nat /\ e.mts < query.start /\ query.start <= u.mts
      BY <2>1, <2>2, <1>1, ArgumentsTyped
    <3>. QED
      BY <3>1, BeforeIsStrict
  <2>4. Cardinality({}) <= FetchCount
    BY FS_EmptySet, DepthAssumption
  <2>. QED
    BY <2>1, <2>2, <2>3, <2>4, <1>1, <1>2, <1>3, <1>4 DEF RowsInOrder
<1>8. EpisodesWhole'
  BY <1>1, <1>2 DEF EpisodesWhole
<1>9. BookUpToDate' /\ TouchedSaved'
  <2>1. \A s \in Sides : OfSide(BookOf({}), s) = {}
    BY DEF OfSide, BookOf
  <2>2. BookUpToDate'
    BY <2>1, <1>1, <1>2, <1>4 DEF BookUpToDate
  <2>3. \A s \in Sides : DOMAIN touched[s] = {} /\ by_order_id[s] = {}
    BY <1>2 DEF Untouched, Empty
  <2>. QED
    BY <2>1, <2>2, <2>3, <1>1, <1>2, <1>5 DEF TouchedSaved, Updating, Untouched
<1>10. DepthUpToDate'
  BY <1>1, <1>2, <1>5, NoLevels DEF DepthUpToDate
<1>11. AnsweredSoFar'
  <2>1. SeenTimes(query, {}) = {}
    BY DEF SeenTimes
  <2>2. DOMAIN answer = {} /\ answer \in Seq({answer[i] : i \in DOMAIN answer})
    BY <1>2
  <2>. QED
    BY <2>1, <2>2, <1>1, <1>2, <1>5 DEF AnsweredSoFar
<1>. QED
  BY <1>1, <1>6, <1>7, <1>8, <1>9, <1>10, <1>11 DEF IInv

-----------------------------------------------------------------------------
(***************************************************************************)
(* A row updates the order book.                                           *)
(***************************************************************************)
LEMMA UpdateOrderInv ==
    ASSUME IInv, UpdateOrder
    PROVE  IInv'
<1>1. /\ Updating /\ phase \in {"initial", "update"} /\ phase # "first call"
      /\ UNCHANGED << level3, query, phase, cursor, events_deque, current_episode, l2,
                      bid, ask, answer >>
  BY DEF UpdateOrder, Updating
<1>2. /\ Arguments /\ RowsInOrder /\ EpisodesWhole /\ BookUpToDate /\ TouchedSaved
      /\ DepthUpToDate /\ AnsweredSoFar
  BY <1>1 DEF IInv
<1>3. PICK row \in episode :
        /\ InTurn(row)
        /\ touched' = [touched EXCEPT ![SideOf[row.id]] =
              Touch(touched[SideOf[row.id]], by_order_id[SideOf[row.id]], row,
                    TouchedPrices(by_order_id[SideOf[row.id]], row))]
        /\ by_order_id' = [by_order_id EXCEPT ![SideOf[row.id]] =
              OrdersWith(by_order_id[SideOf[row.id]], row)]
        /\ episode' = episode \ {row}
  BY DEF UpdateOrder
<1>4. /\ level3 \in Tables /\ query \in Queries /\ current_episode \in Nat
      /\ Unread \subseteq Given(level3, query)
      /\ \A r \in Given(level3, query) : r \in Rows /\ r \in level3
  BY <1>2, ArgumentsTyped DEF RowsInOrder
<1>5. row \in Unread /\ row \in Given(level3, query) /\ row \in Rows
      /\ SideOf[row.id] \in Sides /\ row.price \in Prices
  <2>1. row \in Unread
    BY <1>3 DEF Unread
  <2>. QED
    BY <2>1, <1>4, RowTyped
<1>6. row \notin events_deque \union cursor
  <2>1. ~Before(row, row)
    BY <1>5, BeforeIsStrict
  <2>. QED
    BY <2>1, <1>2, <1>3 DEF RowsInOrder
<1>7. Unread' = Unread \ {row}
  BY <1>1, <1>3, <1>6 DEF Unread
<1>8. Processed' = Processed \union {row}
  BY <1>1, <1>5, <1>7 DEF Processed
<1>9. Settled' = Settled /\ Updating'
  BY <1>1 DEF Settled, Updating
<1>10. Arguments'
  BY <1>1, <1>2 DEF Arguments
<1>11. \A u \in Unread' : u.id = row.id => Before(row, u)
  <2>. SUFFICES ASSUME NEW u \in Unread', u.id = row.id PROVE Before(row, u)
    OBVIOUS
  <2>1. u \in Unread /\ u # row
    BY <1>7
  <2>2. CASE u \in events_deque \union cursor
    BY <2>2, <1>2, <1>3 DEF RowsInOrder
  <2>3. CASE u \in episode /\ phase = "update"
    BY <2>1, <2>3, <1>3 DEF InTurn, IsFirst
  <2>4. CASE u \in episode /\ phase = "initial"
    <3>1. \A r \in episode : r \in LiveBefore(level3, Eras, query.start)
      <4>1. \A r \in episode : r \in Given(level3, query) /\ r.mts < query.start
        BY <2>4, <1>2 DEF RowsInOrder, Unread
      <4>2. \A r \in Given(level3, query) : r \in level3 /\ r.mts \in Nat
        BY <1>2, ArgumentsTyped
      <4>3. query.start \in Nat
        BY <1>2, ArgumentsTyped
      <4>. QED
        BY <4>1, <4>2, <4>3 DEF Given
    <3>2. u \in LiveBefore(level3, Eras, query.start) /\ row \in LiveBefore(level3, Eras, query.start)
      BY <3>1, <2>4, <1>3
    <3>3. ~Before(row, u) /\ ~Before(u, row)
      <4>1. BookOf(LiveBefore(level3, Eras, query.start)) = LiveBefore(level3, Eras, query.start)
        BY <1>4, BookOfStart
      <4>. QED
        BY <4>1, <3>2 DEF BookOf
    <3>. QED
      BY <3>3, <2>1, <1>4, <1>5, BeforeIsTotal
  <2>. QED
    BY <2>1, <2>2, <2>3, <2>4, <1>1 DEF Unread
<1>12. RowsInOrder'
  <2>1. \A p \in Processed' : \A u \in Unread' : p.id = u.id => Before(p, u)
    BY <1>2, <1>7, <1>8, <1>11 DEF RowsInOrder
  <2>2. Unread' \subseteq Given(level3, query)
    BY <1>4, <1>7
  <2>3. Processed' \union episode' = Processed \union episode
    BY <1>3, <1>8
  <2>4. phase # "initial" => \A u \in Unread' : query.start <= u.mts
    BY <1>2, <1>7 DEF RowsInOrder
  <2>5. \A e \in episode' : \A u \in events_deque \union cursor : Before(e, u)
    BY <1>2, <1>3 DEF RowsInOrder
  <2>6. phase = "initial" => \A p \in Processed' \union episode' : p.mts < query.start
    BY <2>3, <1>2 DEF RowsInOrder
  <2>. QED
    BY <2>1, <2>2, <2>4, <2>5, <2>6, <1>1, <1>2 DEF RowsInOrder
<1>13. EpisodesWhole'
  <2>1. phase = "update" => Time(query, row) <= current_episode
    <3>1. phase = "update" => Time(query, row) = current_episode
      BY <1>2, <1>3 DEF EpisodesWhole
    <3>. QED
      BY <3>1, <1>4
  <2>. QED
    BY <2>1, <1>1, <1>2, <1>3, <1>8 DEF EpisodesWhole
<1>14. Processed \in SUBSET Rows /\ \A p \in Processed : p.id = row.id => Before(p, row)
  BY <1>2, <1>4, <1>5 DEF Processed, RowsInOrder
<1>15. BookUpToDate'
  <2>1. \A s \in Sides : OfSide(BookOf(Processed \union {row}), s)
                           = IF SideOf[row.id] = s THEN OrdersWith(OfSide(BookOf(Processed), s), row)
                             ELSE OfSide(BookOf(Processed), s)
    BY <1>5, <1>14, BookWith
  <2>2. by_order_id = [s \in Sides |-> OfSide(BookOf(Processed), s)]
    BY <1>2 DEF BookUpToDate
  <2>3. by_order_id' = [s \in Sides |-> OfSide(BookOf(Processed \union {row}), s)]
    BY <2>1, <2>2, <1>3, <1>5
  <2>. QED
    BY <2>3, <1>8 DEF BookUpToDate
<1>16. TouchedSaved'
  <2>. PICK s0 : s0 = SideOf[row.id]
    OBVIOUS
  <2>1. DOMAIN by_order_id = Sides /\ DOMAIN touched = Sides /\ DOMAIN touched' = Sides
    BY <1>2, <1>3 DEF BookUpToDate, TouchedSaved
  <2>2. \A s \in Sides \ {s0} : touched'[s] = touched[s] /\ by_order_id'[s] = by_order_id[s]
    BY <2>1, <1>3
  <2>3. PICK levels, orders : levels = touched[s0] /\ orders = by_order_id[s0]
    OBVIOUS
  <2>4. PICK prices : prices = TouchedPrices(orders, row)
    OBVIOUS
  <2>5. by_order_id'[s0] = OrdersWith(orders, row)
        /\ touched'[s0] = Touch(levels, orders, row, prices)
    BY <2>1, <2>3, <2>4, <1>3, <1>5
  <2>6. PICK before : before = OfSide(BookOf(Settled), s0)
    OBVIOUS
  <2>7. /\ \A p \in DOMAIN levels : /\ p \in Prices
                                    /\ levels[p].volume = PriceLevelVolume(before, p)
                                    /\ phase = "update" => levels[p].time = current_episode
        /\ \A p \in Prices \ DOMAIN levels : AtPrice(before, p) = AtPrice(orders, p)
    BY <2>3, <2>6, <1>1, <1>2, <1>5 DEF TouchedSaved
  <2>8. \A p \in prices : p \in Prices
    <3>1. \A r \in orders : r.price \in Prices
      <4>1. orders = OfSide(BookOf(Processed), s0)
        BY <2>3, <1>2, <1>5 DEF BookUpToDate
      <4>2. \A r \in orders : r \in Rows
        BY <4>1, <1>14 DEF OfSide, BookOf
      <4>. QED
        BY <4>2, RowTyped
    <3>. QED
      BY <3>1, <2>4, <1>5 DEF TouchedPrices, Replaced
  <2>9. phase = "update" => TimeOf(row) = current_episode
    <3>1. phase = "update" => Time(query, row) = current_episode /\ query.start <= row.mts
      BY <1>2, <1>3, <1>5 DEF EpisodesWhole, RowsInOrder
    <3>2. query.start <= row.mts => Time(query, row) = Ceiling(query.frequency, row.mts)
      BY <1>4, <1>5, TimeTyped
    <3>. QED
      BY <3>1, <3>2 DEF TimeOf, DateCeiling, Ceiling
  <2>10. DOMAIN touched'[s0] = DOMAIN levels \union prices
    BY <2>5 DEF Touch
  <2>11. ASSUME NEW p \in DOMAIN touched'[s0]
         PROVE  /\ p \in Prices
                /\ touched'[s0][p].volume = PriceLevelVolume(before, p)
                /\ phase = "update" => touched'[s0][p].time = current_episode
    <3>1. CASE p \in DOMAIN levels
      <4>1. touched'[s0][p] = levels[p]
        BY <3>1, <2>5 DEF Touch
      <4>. QED
        BY <3>1, <4>1, <2>7
    <3>2. CASE p \notin DOMAIN levels
      <4>1. p \in Prices
        BY <3>2, <2>8, <2>10
      <4>2. touched'[s0][p] = [ time |-> IF phase = "initial" THEN row.mts ELSE TimeOf(row),
                                volume |-> PriceLevelVolume(orders, p) ]
        BY <3>2, <2>5, <2>10 DEF Touch
      <4>3. PriceLevelVolume(orders, p) = PriceLevelVolume(before, p)
        BY <4>1, <3>2, <2>7, SameVolume
      <4>4. phase = "update" => phase # "initial"
        OBVIOUS
      <4>. QED
        BY <4>1, <4>2, <4>3, <4>4, <2>9
    <3>. QED
      BY <3>1, <3>2
  <2>12. ASSUME NEW p \in Prices \ DOMAIN touched'[s0]
         PROVE  AtPrice(before, p) = AtPrice(by_order_id'[s0], p)
    <3>1. AtPrice(before, p) = AtPrice(orders, p) /\ p \notin prices
      BY <2>7, <2>10
    <3>2. p # row.price /\ \A r \in orders : r.id = row.id => r.price # p
      BY <3>1, <2>4 DEF TouchedPrices, Replaced
    <3>3. AtPrice(OrdersWith(orders, row), p) = AtPrice(orders, p)
      BY <3>2 DEF AtPrice, OrdersWith, Replaced
    <3>. QED
      BY <3>1, <3>3, <2>5
  <2>13. ASSUME NEW s \in Sides \ {s0}
         PROVE  LET bef == OfSide(BookOf(Settled), s)
                IN  /\ \A p \in DOMAIN touched'[s] :
                         /\ p \in Prices
                         /\ touched'[s][p].volume = PriceLevelVolume(bef, p)
                         /\ phase = "update" => touched'[s][p].time = current_episode
                    /\ \A p \in Prices \ DOMAIN touched'[s] :
                         AtPrice(bef, p) = AtPrice(by_order_id'[s], p)
    <3>1. touched'[s] = touched[s] /\ by_order_id'[s] = by_order_id[s] /\ s \in Sides
      BY <2>2
    <3>2. PICK bef : bef = OfSide(BookOf(Settled), s)
      OBVIOUS
    <3>3. /\ \A p \in DOMAIN touched[s] :
               /\ p \in Prices
               /\ touched[s][p].volume = PriceLevelVolume(bef, p)
               /\ phase = "update" => touched[s][p].time = current_episode
          /\ \A p \in Prices \ DOMAIN touched[s] :
               AtPrice(bef, p) = AtPrice(by_order_id[s], p)
      BY <3>1, <3>2, <1>1, <1>2 DEF TouchedSaved
    <3>. QED
      BY <3>1, <3>2, <3>3
  <2>. QED
    BY <2>1, <2>6, <2>11, <2>12, <2>13, <1>1, <1>9 DEF TouchedSaved
<1>17. AnsweredSoFar' /\ DepthUpToDate'
  BY <1>1, <1>2, <1>9, AnswerFrame
<1>. QED
  BY <1>1, <1>10, <1>12, <1>13, <1>15, <1>16, <1>17 DEF IInv

-----------------------------------------------------------------------------
(***************************************************************************)
(* The touched levels give the changes and the depth.                      *)
(***************************************************************************)
LEMMA SavedSides ==
    ASSUME BookUpToDate, TouchedSaved, Updating
    PROVE  \A s \in Sides :
             /\ Saved(touched[s], OfSide(BookOf(Settled), s), OfSide(BookOf(Processed), s))
             /\ ChangesOf(s) = ChangesIn(touched[s], OfSide(BookOf(Processed), s), s)
             /\ phase = "update" => \A p \in DOMAIN touched[s] : touched[s][p].time = current_episode
<1>. SUFFICES ASSUME NEW s \in Sides
              PROVE
             /\ Saved(touched[s], OfSide(BookOf(Settled), s), OfSide(BookOf(Processed), s))
             /\ ChangesOf(s) = ChangesIn(touched[s], OfSide(BookOf(Processed), s), s)
             /\ phase = "update" => \A p \in DOMAIN touched[s] : touched[s][p].time = current_episode
  OBVIOUS
<1>1. by_order_id[s] = OfSide(BookOf(Processed), s)
  BY DEF BookUpToDate
<1>2. PICK before : before = OfSide(BookOf(Settled), s)
  OBVIOUS
<1>3. /\ \A p \in DOMAIN touched[s] :
           /\ p \in Prices
           /\ touched[s][p].volume = PriceLevelVolume(before, p)
           /\ phase = "update" => touched[s][p].time = current_episode
      /\ \A p \in Prices \ DOMAIN touched[s] :
           AtPrice(before, p) = AtPrice(by_order_id[s], p)
  BY <1>2 DEF TouchedSaved
<1>4. Saved(touched[s], before, by_order_id[s])
  BY <1>3 DEF Saved
<1>5. ChangesOf(s) = ChangesIn(touched[s], by_order_id[s], s)
  BY DEF ChangesOf, ChangesIn
<1>. QED
  BY <1>1, <1>2, <1>3, <1>4, <1>5

LEMMA DepthFollows ==
    ASSUME BookUpToDate, TouchedSaved, DepthUpToDate, Updating, query.kind # "depth"
    PROVE  /\ UpdateLevels(bid, ChangesOf("b")) = LevelsOf(BookOf(Processed), "b")
           /\ UpdateLevels(ask, ChangesOf("s")) = LevelsOf(BookOf(Processed), "s")
<1>1. "b" \in Sides /\ "s" \in Sides
  BY DEF Sides
<1>2. bid = LevelsOf(BookOf(Settled), "b") /\ ask = LevelsOf(BookOf(Settled), "s")
  BY DEF DepthUpToDate
<1>. QED
  BY <1>1, <1>2, SavedSides, LevelsUpdated

LEMMA StartingDepthInv ==
    ASSUME IInv, StartingDepth
    PROVE  IInv'
<1>1. /\ phase = "initial" /\ episode = {} /\ phase' = "next" /\ touched' = Untouched
      /\ UNCHANGED << level3, query, cursor, events_deque, current_episode, episode,
                      by_order_id, l2, answer >>
      /\ IF query.kind = "depth" THEN UNCHANGED << bid, ask >>
         ELSE /\ bid' = UpdateLevels(bid, ChangesOf("b"))
              /\ ask' = UpdateLevels(ask, ChangesOf("s"))
  BY DEF StartingDepth
<1>2. /\ Arguments /\ RowsInOrder /\ EpisodesWhole /\ BookUpToDate /\ TouchedSaved
      /\ DepthUpToDate /\ AnsweredSoFar /\ Updating
  BY <1>1 DEF IInv, Updating
<1>3. Unread' = Unread /\ Processed' = Processed /\ ~Updating'
  BY <1>1 DEF Unread, Processed, Updating
<1>4. /\ level3 \in Tables /\ query \in Queries /\ query.start \in Nat
      /\ \A r \in Given(level3, query) : /\ r.mts \in Nat /\ Time(query, r) \in Nat
                                         /\ Time(query, r) = 0 <=> r.mts < query.start
      /\ Processed \subseteq Given(level3, query) /\ Unread \subseteq Given(level3, query)
  BY <1>2, ArgumentsTyped DEF Processed, RowsInOrder
<1>5. /\ events_deque = {} /\ Unread = cursor
      /\ \A u \in cursor : query.start <= u.mts
      /\ \A p \in Processed : p.mts < query.start
  BY <1>1, <1>2 DEF RowsInOrder, Unread
<1>6. current_episode = 0
  BY <1>1, <1>2 DEF EpisodesWhole
<1>7. Settled = {} /\ Settled' = Processed
  <2>1. Below(level3, query, 0) = {}
    BY <1>4 DEF Below
  <2>. QED
    BY <2>1, <1>1, <1>2, <1>3, <1>6 DEF Settled
<1>8. SeenTimes(query, {}) = {} /\ SeenTimes(query, Processed) = {}
  <2>1. \A p \in Processed : ~(query.start <= p.mts)
    BY <1>4, <1>5
  <2>. QED
    BY <2>1 DEF SeenTimes
<1>9. Arguments'
  BY <1>1, <1>2 DEF Arguments
<1>10. RowsInOrder'
  BY <1>1, <1>2, <1>3, <1>5 DEF RowsInOrder
<1>11. EpisodesWhole'
  <2>1. \A p \in Processed : \A u \in Unread : Time(query, p) < Time(query, u)
    <3>. SUFFICES ASSUME NEW p \in Processed, NEW u \in Unread
                  PROVE  Time(query, p) < Time(query, u)
      OBVIOUS
    <3>1. p \in Given(level3, query) /\ u \in Given(level3, query)
      BY <1>4
    <3>2. Time(query, p) = 0 /\ Time(query, u) # 0 /\ Time(query, u) \in Nat
      BY <3>1, <1>4, <1>5
    <3>. QED
      BY <3>2
  <2>. QED
    BY <2>1, <1>1, <1>3, <1>6 DEF EpisodesWhole
<1>12. BookUpToDate'
  BY <1>1, <1>2, <1>3 DEF BookUpToDate
<1>13. TouchedSaved'
  BY <1>1, <1>3 DEF TouchedSaved, Untouched
<1>14. DepthUpToDate'
  <2>1. CASE query.kind = "depth"
    BY <2>1, <1>1, <1>2 DEF DepthUpToDate
  <2>2. CASE query.kind # "depth"
    BY <2>2, <1>1, <1>2, <1>7, DepthFollows DEF DepthUpToDate
  <2>. QED
    BY <2>1, <2>2
<1>15. AnsweredSoFar'
  BY <1>1, <1>2, <1>7, <1>8 DEF AnsweredSoFar
<1>. QED
  BY <1>1, <1>9, <1>10, <1>11, <1>12, <1>13, <1>14, <1>15 DEF IInv

-----------------------------------------------------------------------------
(***************************************************************************)
(* The rows of an episode are fetched and taken.                           *)
(***************************************************************************)
LEMMA FetchInv ==
    ASSUME IInv, Fetch
    PROVE  IInv'
<1>1. /\ phase = "next" /\ events_deque = {} /\ phase' = phase
      /\ events_deque' = Fetched(cursor) /\ cursor' = cursor \ Fetched(cursor)
      /\ UNCHANGED << level3, query, phase, current_episode, episode, by_order_id, touched,
                      l2, bid, ask, answer >>
  BY DEF Fetch
<1>2. /\ Arguments /\ RowsInOrder /\ EpisodesWhole /\ BookUpToDate /\ TouchedSaved
      /\ DepthUpToDate /\ AnsweredSoFar
  BY <1>1 DEF IInv
<1>3. /\ Fetched(cursor) \subseteq cursor
      /\ \A a \in Fetched(cursor) : \A b \in cursor \ Fetched(cursor) : Before(a, b)
      /\ Cardinality(Fetched(cursor)) <= FetchCount
  <2>1. level3 \in Tables /\ cursor \in SUBSET level3
    BY <1>2, ArgumentsTyped DEF RowsInOrder, Unread
  <2>. QED
    BY <2>1, FetchedFirst
<1>4. events_deque' \union cursor' = events_deque \union cursor
  BY <1>1, <1>3
<1>5. Unread' = Unread /\ Processed' = Processed /\ Settled' = Settled
      /\ (Updating <=> Updating') /\ ~Updating
  BY <1>1, <1>4 DEF Unread, Processed, Settled, Updating
<1>6. Arguments'
  BY <1>1, <1>2 DEF Arguments
<1>7. RowsInOrder'
  BY <1>1, <1>2, <1>3, <1>4, <1>5 DEF RowsInOrder
<1>8. EpisodesWhole'
  BY <1>1, <1>2, <1>4, <1>5 DEF EpisodesWhole
<1>9. BookUpToDate' /\ TouchedSaved'
  BY <1>1, <1>2, <1>5 DEF BookUpToDate, TouchedSaved
<1>10. AnsweredSoFar' /\ DepthUpToDate'
  BY <1>1, <1>2, <1>5, AnswerFrame
<1>. QED
  BY <1>1, <1>6, <1>7, <1>8, <1>9, <1>10 DEF IInv

LEMMA TakeInv ==
    ASSUME IInv, Take
    PROVE  IInv'
<1>1. /\ phase = "next" /\ phase' = phase
      /\ UNCHANGED << level3, query, phase, cursor, by_order_id, touched, l2, bid, ask, answer >>
  BY DEF Take
<1>2. /\ Arguments /\ RowsInOrder /\ EpisodesWhole /\ BookUpToDate /\ TouchedSaved
      /\ DepthUpToDate /\ AnsweredSoFar
  BY <1>1 DEF IInv
<1>3. PICK row \in events_deque :
         /\ IsFirst(row, events_deque)
         /\ BelongsTo(row)
         /\ current_episode' = TimeOf(row)
         /\ episode' = episode \union {row}
         /\ events_deque' = events_deque \ {row}
  BY DEF Take
<1>4. /\ level3 \in Tables /\ query \in Queries
      /\ row \in Given(level3, query) /\ row \in Rows /\ query.start <= row.mts
      /\ query.start \in Nat \ {0} /\ row.mts \in Nat
  BY <1>1, <1>2, <1>3, ArgumentsTyped DEF RowsInOrder, Unread
<1>5. TimeOf(row) = Time(query, row) /\ TimeOf(row) \in Nat \ {0}
  <2>1. Time(query, row) \in Nat /\ (Time(query, row) = 0 <=> row.mts < query.start)
    BY <1>4, TimeTyped
  <2>2. Time(query, row) = Ceiling(query.frequency, row.mts)
    BY <1>4, TimeTyped
  <2>3. Time(query, row) # 0
    BY <2>1, <1>4
  <2>. QED
    BY <2>1, <2>2, <2>3 DEF TimeOf, DateCeiling, Ceiling
<1>6. Unread' = Unread /\ Processed' = Processed /\ Settled' = Settled
      /\ (Updating <=> Updating') /\ ~Updating
  BY <1>1, <1>3 DEF Unread, Processed, Settled, Updating
<1>7. Arguments'
  BY <1>1, <1>2, <1>3, <1>5 DEF Arguments
<1>8. RowsInOrder'
  <2>1. Cardinality(events_deque') <= FetchCount
    <3>1. events_deque \in SUBSET level3
      BY <1>2, ArgumentsTyped DEF RowsInOrder, Unread
    <3>2. IsFiniteSet(events_deque)
      BY <3>1, <1>4, TableTyped, FS_Subset
    <3>3. /\ Cardinality(events_deque') <= Cardinality(events_deque)
          /\ Cardinality(events_deque') \in Nat /\ Cardinality(events_deque) \in Nat
      BY <3>2, <1>3, FS_Subset, FS_CardinalityType
    <3>. QED
      BY <3>3, <1>2, DepthAssumption DEF RowsInOrder
  <2>2. \A e \in episode' : \A u \in events_deque' \union cursor : Before(e, u)
    BY <1>2, <1>3 DEF RowsInOrder, IsFirst
  <2>3. \A e \in events_deque' : \A u \in cursor : Before(e, u)
    BY <1>2, <1>3 DEF RowsInOrder
  <2>. QED
    BY <2>1, <2>2, <2>3, <1>1, <1>2, <1>6 DEF RowsInOrder
<1>9. EpisodesWhole'
  <2>1. \A e \in episode' : Time(query, e) = current_episode'
    <3>1. CASE episode = {}
      BY <3>1, <1>3, <1>5
    <3>2. CASE episode # {}
      <4>1. current_episode # 0
        BY <3>2, <1>1, <1>2 DEF EpisodesWhole
      <4>2. current_episode = TimeOf(row)
        BY <4>1, <1>3 DEF BelongsTo, Null
      <4>. QED
        BY <4>2, <1>1, <1>2, <1>3, <1>5 DEF EpisodesWhole
    <3>. QED
      BY <3>1, <3>2
  <2>2. episode' # {} /\ current_episode' # 0
    BY <1>3, <1>5
  <2>. QED
    BY <2>1, <2>2, <1>1, <1>2, <1>6 DEF EpisodesWhole
<1>10. BookUpToDate' /\ TouchedSaved'
  BY <1>1, <1>2, <1>6 DEF BookUpToDate, TouchedSaved
<1>11. AnsweredSoFar' /\ DepthUpToDate'
  BY <1>1, <1>2, <1>6, AnswerFrame
<1>. QED
  BY <1>1, <1>7, <1>8, <1>9, <1>10, <1>11 DEF IInv

\* The rows of an episode are all there when it is complete.
LEMMA CompleteInv ==
    ASSUME IInv, Complete
    PROVE  IInv'
<1>1. /\ phase = "next" /\ phase' = "update" /\ episode # {}
      /\ AnotherFollows \/ (events_deque = {} /\ cursor = {})
      /\ UNCHANGED << level3, query, cursor, events_deque, current_episode, episode,
                      by_order_id, touched, l2, bid, ask, answer >>
  BY DEF Complete
<1>2. /\ Arguments /\ RowsInOrder /\ EpisodesWhole /\ BookUpToDate /\ TouchedSaved
      /\ DepthUpToDate /\ AnsweredSoFar
  BY <1>1 DEF IInv
<1>3. /\ level3 \in Tables /\ query \in Queries /\ current_episode \in Nat
      /\ \A r \in Given(level3, query) : r \in Rows /\ Time(query, r) \in Nat
      /\ Unread \subseteq Given(level3, query) /\ Processed \subseteq Given(level3, query)
      /\ \A u \in Unread : query.start <= u.mts
  BY <1>1, <1>2, ArgumentsTyped DEF RowsInOrder, Processed
<1>4. PICK e \in episode : TRUE
  BY <1>1
<1>5. e \in Unread /\ Time(query, e) = current_episode
  BY <1>1, <1>2, <1>4 DEF EpisodesWhole, Unread
<1>6. \A a, b \in Given(level3, query) : Before(a, b) => Time(query, a) <= Time(query, b)
  <2>. SUFFICES ASSUME NEW a \in Given(level3, query), NEW b \in Given(level3, query), Before(a, b)
                PROVE  Time(query, a) <= Time(query, b)
    OBVIOUS
  <2>1. a \in Rows /\ b \in Rows /\ a.mts <= b.mts
    BY <1>3, BeforeIsStrict
  <2>. QED
    BY <2>1, <1>3, TimeMonotone
<1>7. \A u \in events_deque \union cursor : current_episode < Time(query, u)
  <2>1. CASE events_deque = {} /\ cursor = {}
    BY <2>1
  <2>2. CASE AnotherFollows
    <3>1. PICK row \in events_deque : IsFirst(row, events_deque) /\ ~BelongsTo(row)
      BY <2>2 DEF AnotherFollows
    <3>2. row \in Unread /\ row \in Given(level3, query) /\ query.start <= row.mts
      BY <3>1, <1>3 DEF Unread
    <3>3. TimeOf(row) = Time(query, row)
      <4>1. Time(query, row) = Ceiling(query.frequency, row.mts)
        BY <3>2, <1>3, TimeTyped
      <4>. QED
        BY <4>1 DEF TimeOf, DateCeiling, Ceiling
    <3>4. Time(query, row) # current_episode
      BY <3>1, <3>3 DEF BelongsTo
    <3>5. Time(query, e) <= Time(query, row)
      <4>1. Before(e, row)
        BY <3>1, <1>2, <1>4 DEF RowsInOrder
      <4>. QED
        BY <4>1, <3>2, <1>3, <1>5, <1>6
    <3>6. current_episode < Time(query, row)
      BY <3>2, <3>4, <3>5, <1>3, <1>5
    <3>7. ASSUME NEW u \in events_deque \union cursor, u # row
          PROVE  Time(query, row) <= Time(query, u)
      <4>1. Before(row, u)
        BY <3>1, <3>7, <1>2 DEF IsFirst, RowsInOrder
      <4>2. u \in Given(level3, query)
        BY <1>3 DEF Unread
      <4>. QED
        BY <4>1, <4>2, <3>2, <1>6
    <3>. QED
      <4>. SUFFICES ASSUME NEW u \in events_deque \union cursor
                    PROVE  current_episode < Time(query, u)
        OBVIOUS
      <4>1. u \in Given(level3, query)
        BY <1>3 DEF Unread
      <4>2. Time(query, u) \in Nat /\ Time(query, row) \in Nat
        BY <4>1, <3>2, <1>3
      <4>3. CASE u = row
        BY <4>3, <3>6
      <4>4. CASE u # row
        BY <4>2, <4>4, <3>6, <3>7, <1>3
      <4>. QED
        BY <4>3, <4>4
  <2>. QED
    BY <2>1, <2>2, <1>1
<1>8. \A p \in Processed : Time(query, p) < current_episode
  BY <1>1, <1>2, <1>5 DEF EpisodesWhole
<1>9. \A u \in Unread : current_episode <= Time(query, u)
  <2>1. \A u \in episode : Time(query, u) = current_episode
    BY <1>1, <1>2 DEF EpisodesWhole
  <2>. QED
    BY <2>1, <1>3, <1>7 DEF Unread
<1>10. Processed = Below(level3, query, current_episode)
  BY <1>3, <1>8, <1>9 DEF Below, Processed
<1>11. Unread' = Unread /\ Processed' = Processed /\ Settled' = Settled
       /\ Settled = Processed /\ Updating' /\ ~Updating
  BY <1>1, <1>10 DEF Unread, Processed, Settled, Updating
<1>12. Arguments'
  BY <1>1, <1>2 DEF Arguments
<1>13. RowsInOrder'
  BY <1>1, <1>2, <1>11 DEF RowsInOrder
<1>14. EpisodesWhole'
  <2>1. e \in Given(level3, query) /\ query.start <= e.mts
    BY <1>3, <1>5
  <2>2. \A p \in Processed : Time(query, p) <= current_episode
    BY <1>3, <1>8
  <2>. QED
    BY <2>1, <2>2, <1>1, <1>2, <1>5, <1>7, <1>11 DEF EpisodesWhole
<1>15. BookUpToDate'
  BY <1>1, <1>2, <1>11 DEF BookUpToDate
<1>16. TouchedSaved'
  <2>1. touched = Untouched
    BY <1>2, <1>11 DEF TouchedSaved
  <2>2. \A s \in Sides : DOMAIN touched[s] = {} /\ by_order_id[s] = OfSide(BookOf(Processed), s)
    BY <2>1, <1>2 DEF Untouched, Empty, BookUpToDate
  <2>3. DOMAIN touched = Sides
    BY <2>1 DEF Untouched
  <2>. QED
    BY <2>2, <2>3, <1>1, <1>11 DEF TouchedSaved
<1>17. AnsweredSoFar' /\ DepthUpToDate'
  BY <1>1, <1>2, <1>11, AnswerFrame
<1>. QED
  BY <1>1, <1>12, <1>13, <1>14, <1>15, <1>16, <1>17 DEF IInv

LEMMA NoMoreDataInv ==
    ASSUME IInv, NoMoreData
    PROVE  IInv'
<1>1. /\ phase = "next" /\ phase' = "done"
      /\ episode = {} /\ events_deque = {} /\ cursor = {}
      /\ UNCHANGED << level3, query, cursor, events_deque, current_episode, episode,
                      by_order_id, touched, l2, bid, ask, answer >>
  BY DEF NoMoreData
<1>2. /\ Arguments /\ RowsInOrder /\ EpisodesWhole /\ BookUpToDate /\ TouchedSaved
      /\ DepthUpToDate /\ AnsweredSoFar
  BY <1>1 DEF IInv
<1>3. Unread = {} /\ Unread' = Unread /\ Processed' = Processed /\ Settled' = Settled
      /\ ~Updating' /\ ~Updating
  BY <1>1 DEF Unread, Processed, Settled, Updating
<1>4. Arguments'
  BY <1>1, <1>2 DEF Arguments
<1>5. RowsInOrder' /\ EpisodesWhole'
  BY <1>1, <1>2, <1>3 DEF RowsInOrder, EpisodesWhole
<1>6. BookUpToDate' /\ TouchedSaved'
  BY <1>1, <1>2, <1>3 DEF BookUpToDate, TouchedSaved
<1>7. AnsweredSoFar' /\ DepthUpToDate'
  BY <1>1, <1>2, <1>3, AnswerFrame
<1>. QED
  BY <1>1, <1>4, <1>5, <1>6, <1>7 DEF IInv

-----------------------------------------------------------------------------
(***************************************************************************)
(* An episode has been processed: its changes are the expected ones.       *)
(***************************************************************************)
LEMMA ExpectedTime ==
    ASSUME NEW table, NEW q, NEW t, NEW x \in ExpectedOf(table, q, t)
    PROVE  x.time = t
BY DEF ExpectedOf, ChangeOf, DepthChange, SpreadChange

LEMMA EpisodeProcessed ==
    ASSUME IInv, phase = "update", episode = {}
    PROVE  /\ Settled = Below(level3, query, current_episode)
           /\ Processed = UpTo(level3, query, current_episode)
           /\ SeenTimes(query, Processed) = SeenTimes(query, Settled) \union {current_episode}
           /\ \A t \in SeenTimes(query, Settled) : t \in Nat /\ t < current_episode
           /\ \A p \in Processed : \A u \in Unread : Time(query, p) < Time(query, u)
<1>1. Arguments /\ RowsInOrder /\ EpisodesWhole
  BY DEF IInv
<1>2. /\ current_episode \in Nat
      /\ \A r \in Given(level3, query) : Time(query, r) \in Nat
      /\ Unread \subseteq Given(level3, query) /\ Processed \subseteq Given(level3, query)
      /\ Unread = events_deque \union cursor
  BY <1>1, ArgumentsTyped DEF RowsInOrder, Processed, Unread
<1>3. /\ \A p \in Processed : Time(query, p) <= current_episode
      /\ \A u \in Unread : current_episode < Time(query, u)
  BY <1>1, <1>2 DEF EpisodesWhole
<1>4. PICK e \in Given(level3, query) :
         query.start <= e.mts /\ Time(query, e) = current_episode
  BY <1>1 DEF EpisodesWhole
<1>5. Settled = Below(level3, query, current_episode)
  BY DEF Settled, Updating
<1>6. Processed = UpTo(level3, query, current_episode)
  BY <1>2, <1>3 DEF UpTo, Processed
<1>7. SeenTimes(query, Processed) = SeenTimes(query, Settled) \union {current_episode}
  <2>1. \A r \in Given(level3, query) :
           r \in Processed <=> r \in Settled \/ Time(query, r) = current_episode
    BY <1>2, <1>5, <1>6 DEF UpTo, Below
  <2>2. Settled \subseteq Given(level3, query)
    BY <1>5 DEF Below
  <2>3. ASSUME NEW t PROVE t \in SeenTimes(query, Processed)
                             <=> t \in SeenTimes(query, Settled) \/ t = current_episode
    <3>1. t \in SeenTimes(query, Processed)
            <=> \E r \in Processed : query.start <= r.mts /\ Time(query, r) = t
      BY DEF SeenTimes
    <3>2. t \in SeenTimes(query, Settled)
            <=> \E r \in Settled : query.start <= r.mts /\ Time(query, r) = t
      BY DEF SeenTimes
    <3>. QED
      BY <3>1, <3>2, <2>1, <2>2, <1>2, <1>4
  <2>. QED
    BY <2>3
<1>8. \A t \in SeenTimes(query, Settled) : t \in Nat /\ t < current_episode
  BY <1>2, <1>5 DEF SeenTimes, Below
<1>9. \A p \in Processed : \A u \in Unread : Time(query, p) < Time(query, u)
  BY <1>2, <1>3
<1>. QED
  BY <1>5, <1>6, <1>7, <1>8, <1>9

LEMMA UpdateForDepthInv ==
    ASSUME IInv, UpdateForDepth
    PROVE  IInv'
<1>1. /\ phase = "update" /\ episode = {} /\ query.kind = "depth"
      /\ l2' = Changes /\ touched' = Untouched /\ current_episode' = 0
      /\ phase' = IF Changes = {} THEN "next" ELSE "return"
      /\ UNCHANGED << level3, query, cursor, events_deque, episode, by_order_id, bid, ask,
                      answer >>
  BY DEF UpdateForDepth, Null
<1>2. /\ Arguments /\ RowsInOrder /\ EpisodesWhole /\ BookUpToDate /\ TouchedSaved
      /\ DepthUpToDate /\ AnsweredSoFar /\ Updating
  BY <1>1 DEF IInv, Updating
<1>3. Unread' = Unread /\ Processed' = Processed /\ Settled' = Processed /\ ~Updating'
  BY <1>1 DEF Unread, Processed, Settled, Updating
<1>4. PICK times : times = SeenTimes(query, Settled)
  OBVIOUS
<1>5. /\ SeenTimes(query, Processed) = times \union {current_episode}
      /\ \A t \in times : t \in Nat /\ t < current_episode
      /\ \A p \in Processed : \A u \in Unread : Time(query, p) < Time(query, u)
  BY <1>1, <1>4, EpisodeProcessed
<1>6. Changes = ExpectedOf(level3, query, current_episode)
  <2>1. Changes = UNION {ChangesIn(touched[s], OfSide(BookOf(Processed), s), s) : s \in Sides}
    BY <1>2, SavedSides DEF Changes
  <2>2. Changes = DepthChange(BookOf(Settled), BookOf(Processed), current_episode)
    BY <2>1, <1>1, <1>2, SavedSides, ChangesAreDepthChange
  <2>. QED
    BY <2>2, <1>1, EpisodeProcessed DEF ExpectedOf, ChangeOf
<1>7. Arguments'
  BY <1>1, <1>2 DEF Arguments
<1>8. RowsInOrder'
  BY <1>1, <1>2, <1>3 DEF RowsInOrder
<1>9. EpisodesWhole'
  BY <1>1, <1>3, <1>5 DEF EpisodesWhole
<1>10. BookUpToDate' /\ TouchedSaved' /\ DepthUpToDate'
  BY <1>1, <1>2, <1>3 DEF BookUpToDate, TouchedSaved, DepthUpToDate, Untouched
<1>11. AnsweredSoFar'
  <2>1. l2 = {}
    BY <1>1, <1>2 DEF AnsweredSoFar
  <2>2. \A i \in DOMAIN answer : \E t \in times : answer[i] \in ExpectedOf(level3, query, t)
    BY <1>2, <1>4 DEF AnsweredSoFar
  <2>3. \A t \in times : \A c \in ExpectedOf(level3, query, t) :
           \E i \in DOMAIN answer : answer[i] = c
    BY <2>1, <1>2, <1>4 DEF AnsweredSoFar
  <2>4. \A i \in DOMAIN answer : \A c \in Changes : EarlierIn(query, answer[i], c)
    <3>. SUFFICES ASSUME NEW i \in DOMAIN answer, NEW c \in Changes
                  PROVE  EarlierIn(query, answer[i], c)
      OBVIOUS
    <3>1. PICK t \in times : answer[i] \in ExpectedOf(level3, query, t)
      BY <2>2
    <3>2. answer[i].time = t /\ c.time = current_episode
      BY <3>1, <1>6, ExpectedTime
    <3>3. t < current_episode
      BY <1>5
    <3>. QED
      BY <3>2, <3>3 DEF EarlierIn
  <2>5. phase' # "return" => l2' = {}
    BY <1>1
  <2>. QED
    BY <2>2, <2>3, <2>4, <2>5, <1>1, <1>2, <1>3, <1>5, <1>6 DEF AnsweredSoFar
<1>. QED
  BY <1>1, <1>7, <1>8, <1>9, <1>10, <1>11 DEF IInv

-----------------------------------------------------------------------------
(***************************************************************************)
(* What is returned.                                                       *)
(***************************************************************************)
\* A sequence and its entries, with one more.
LEMMA Appended ==
    ASSUME NEW seq, NEW x, seq \in Seq({seq[i] : i \in DOMAIN seq})
    PROVE  LET new == Append(seq, x)
           IN  /\ new \in Seq({new[i] : i \in DOMAIN new})
               /\ Len(seq) \in Nat /\ DOMAIN seq = 1..Len(seq)
               /\ DOMAIN new = 1..(Len(seq) + 1)
               /\ \A i \in DOMAIN seq : new[i] = seq[i]
               /\ new[Len(seq) + 1] = x
               /\ \A i \in DOMAIN new : i \in DOMAIN seq \/ i = Len(seq) + 1
<1> DEFINE S == {seq[i] : i \in DOMAIN seq}
<1>1. seq \in Seq(S \union {x})
  <2>1. seq \in Seq(S)
    OBVIOUS
  <2>. HIDE DEF S
  <2>. QED
    BY <2>1
<1>2. PICK new : new = Append(seq, x)
  OBVIOUS
<1>3. /\ new \in Seq(S \union {x}) /\ Len(seq) \in Nat /\ DOMAIN seq = 1..Len(seq)
      /\ DOMAIN new = 1..(Len(seq) + 1)
      /\ \A i \in DOMAIN seq : new[i] = seq[i]
      /\ new[Len(seq) + 1] = x
  <2>. HIDE DEF S
  <2>. QED
    BY <1>1, <1>2
<1>4. \A i \in DOMAIN new : i \in DOMAIN seq \/ i = Len(seq) + 1
  BY <1>3
<1>5. Len(new) \in Nat /\ DOMAIN new = 1..Len(new)
  <2>. HIDE DEF S
  <2>. QED
    BY <1>3
<1>6. new \in [1..Len(new) -> {new[i] : i \in DOMAIN new}]
  <2>. HIDE DEF S
  <2>. QED
    BY <1>3, <1>5
<1>7. new \in Seq({new[i] : i \in DOMAIN new})
  BY <1>5, <1>6
<1>. QED
  BY <1>2, <1>3, <1>4, <1>7

LEMMA ReturnChangeInv ==
    ASSUME IInv, ReturnChange
    PROVE  IInv'
<1>1. /\ phase = "return"
      /\ UNCHANGED << level3, query, cursor, events_deque, current_episode, episode,
                      by_order_id, touched, bid, ask >>
  BY DEF ReturnChange
<1>2. /\ Arguments /\ RowsInOrder /\ EpisodesWhole /\ BookUpToDate /\ TouchedSaved
      /\ DepthUpToDate /\ AnsweredSoFar
  BY <1>1 DEF IInv
<1>3. PICK change \in l2 :
         /\ \A c \in l2 \ {change} : Earlier(change, c)
         /\ answer' = Append(answer, change)
         /\ l2' = l2 \ {change}
         /\ phase' = IF l2 = {change} THEN "next" ELSE "return"
  BY DEF ReturnChange
<1>4. Unread' = Unread /\ Processed' = Processed /\ Settled' = Settled /\ ~Updating /\ ~Updating'
  BY <1>1, <1>3 DEF Unread, Processed, Settled, Updating
<1>5. Arguments'
  BY <1>1, <1>2, <1>3 DEF Arguments
<1>6. RowsInOrder'
  BY <1>1, <1>2, <1>3, <1>4 DEF RowsInOrder
<1>7. EpisodesWhole'
  BY <1>1, <1>2, <1>3, <1>4 DEF EpisodesWhole
<1>8. BookUpToDate' /\ TouchedSaved' /\ DepthUpToDate'
  BY <1>1, <1>2, <1>3, <1>4 DEF BookUpToDate, TouchedSaved, DepthUpToDate
<1>9. AnsweredSoFar'
  <2>1. PICK times : times = SeenTimes(query, Settled)
    OBVIOUS
  <2>2. PICK expected : expected = [t \in times |-> ExpectedOf(level3, query, t)]
    OBVIOUS
  <2>3. /\ answer \in Seq({answer[i] : i \in DOMAIN answer})
        /\ \A i \in DOMAIN answer : \E t \in times : answer[i] \in expected[t]
        /\ \A c \in l2 : \E t \in times : c \in expected[t]
        /\ \A t \in times : \A c \in expected[t] :
              c \in l2 \/ \E i \in DOMAIN answer : answer[i] = c
        /\ \A i, j \in DOMAIN answer : i < j => EarlierIn(query, answer[i], answer[j])
        /\ \A i \in DOMAIN answer : \A c \in l2 : EarlierIn(query, answer[i], c)
    BY <2>1, <2>2, <1>2 DEF AnsweredSoFar
  <2>4. PICK n : n = Len(answer) + 1
    OBVIOUS
  <2>5. /\ answer' \in Seq({answer'[i] : i \in DOMAIN answer'})
        /\ n \in Nat \ {0} /\ DOMAIN answer = 1..(n - 1) /\ DOMAIN answer' = 1..n
        /\ \A i \in DOMAIN answer : answer'[i] = answer[i]
        /\ answer'[n] = change
        /\ \A i \in DOMAIN answer' : i \in DOMAIN answer \/ i = n
    BY <2>3, <2>4, <1>3, Appended
  <2>6. \A c \in l2' : EarlierIn(query, change, c)
    BY <1>3 DEF Earlier, EarlierIn
  <2>7. phase' # "return" => l2' = {}
    BY <1>3
  <2>8. \A i \in DOMAIN answer' : \E t \in times : answer'[i] \in expected[t]
    BY <2>3, <2>5, <1>3
  <2>9. \A t \in times : \A c \in expected[t] :
              c \in l2' \/ \E i \in DOMAIN answer' : answer'[i] = c
    <3>. SUFFICES ASSUME NEW t \in times, NEW c \in expected[t], c \notin l2'
                  PROVE  \E i \in DOMAIN answer' : answer'[i] = c
      OBVIOUS
    <3>1. CASE c = change
      BY <3>1, <2>5
    <3>2. CASE c # change
      <4>1. PICK i \in DOMAIN answer : answer[i] = c
        BY <3>2, <2>3, <1>3
      <4>. QED
        BY <4>1, <2>5
    <3>. QED
      BY <3>1, <3>2
  <2>10. \A i, j \in DOMAIN answer' : i < j => EarlierIn(query, answer'[i], answer'[j])
    <3>. SUFFICES ASSUME NEW i \in DOMAIN answer', NEW j \in DOMAIN answer', i < j
                  PROVE  EarlierIn(query, answer'[i], answer'[j])
      OBVIOUS
    <3>1. i \in DOMAIN answer /\ answer'[i] = answer[i]
      BY <2>5
    <3>2. CASE j \in DOMAIN answer
      BY <3>1, <3>2, <2>3, <2>5
    <3>3. CASE j = n
      BY <3>1, <3>3, <2>3, <2>5, <1>3
    <3>. QED
      BY <3>2, <3>3, <2>5
  <2>11. \A i \in DOMAIN answer' : \A c \in l2' : EarlierIn(query, answer'[i], c)
    BY <2>3, <2>5, <2>6, <1>3
  <2>12. \A c \in l2' : \E t \in times : c \in expected[t]
    BY <2>3, <1>3
  <2>. QED
    BY <2>1, <2>2, <2>5, <2>7, <2>8, <2>9, <2>10, <2>11, <2>12, <1>1, <1>4 DEF AnsweredSoFar
<1>10. phase' # "first call"
  BY <1>3
<1>. QED
  BY <1>5, <1>6, <1>7, <1>8, <1>9, <1>10 DEF IInv

LEMMA UpdateForSpreadInv ==
    ASSUME IInv, UpdateForSpread
    PROVE  IInv'
<1>1. /\ phase = "update" /\ episode = {} /\ query.kind = "spread" /\ query.kind # "depth"
      /\ bid' = UpdateLevels(bid, ChangesOf("b"))
      /\ ask' = UpdateLevels(ask, ChangesOf("s"))
      /\ touched' = Untouched /\ current_episode' = 0 /\ phase' = "next"
      /\ UNCHANGED << level3, query, cursor, events_deque, episode, by_order_id, l2 >>
  BY DEF UpdateForSpread, Null
<1>2. /\ Arguments /\ RowsInOrder /\ EpisodesWhole /\ BookUpToDate /\ TouchedSaved
      /\ DepthUpToDate /\ AnsweredSoFar /\ Updating
  BY <1>1 DEF IInv, Updating
<1>3. Unread' = Unread /\ Processed' = Processed /\ Settled' = Processed /\ ~Updating'
  BY <1>1 DEF Unread, Processed, Settled, Updating
<1>4. PICK times : times = SeenTimes(query, Settled)
  OBVIOUS
<1>5. PICK t0 : t0 = current_episode
  OBVIOUS
<1>6. /\ SeenTimes(query, Processed) = times \union {t0}
      /\ \A t \in times : t \in Nat /\ t < t0
      /\ \A p \in Processed : \A u \in Unread : Time(query, p) < Time(query, u)
  BY <1>1, <1>4, <1>5, EpisodeProcessed
<1>7. PICK before, after : before = BookOf(Settled) /\ after = BookOf(Processed)
  OBVIOUS
<1>8. ExpectedOf(level3, query, t0) = SpreadChange(before, after, t0)
  BY <1>1, <1>5, <1>7, EpisodeProcessed DEF ExpectedOf, ChangeOf
<1>9. /\ bid = LevelsOf(before, "b") /\ ask = LevelsOf(before, "s")
      /\ bid' = LevelsOf(after, "b") /\ ask' = LevelsOf(after, "s")
  <2>1. bid = LevelsOf(before, "b") /\ ask = LevelsOf(before, "s")
    BY <1>1, <1>2, <1>7 DEF DepthUpToDate
  <2>. QED
    BY <2>1, <1>1, <1>2, <1>7, DepthFollows
<1>10. SpreadOf(bid, ask) = SpreadAfter(before) /\ SpreadOf(bid', ask') = SpreadAfter(after)
  BY <1>9 DEF SpreadAfter
<1>11. Changes = DepthChange(before, after, t0)
  <2>1. Changes = UNION {ChangesIn(touched[s], OfSide(BookOf(Processed), s), s) : s \in Sides}
    BY <1>2, SavedSides DEF Changes
  <2>. QED
    BY <2>1, <1>1, <1>2, <1>5, <1>7, SavedSides, ChangesAreDepthChange
<1>12. Changes = {} => SpreadOf(bid', ask') = SpreadOf(bid, ask)
  <2>. SUFFICES ASSUME Changes = {} PROVE SpreadOf(bid', ask') = SpreadOf(bid, ask)
    OBVIOUS
  <2>1. "b" \in Sides /\ "s" \in Sides
    BY DEF Sides
  <2>2. ChangesOf("b") = {} /\ ChangesOf("s") = {}
    BY <2>1 DEF Changes
  <2>3. \A s \in Sides : UpdateLevels(LevelsOf(before, s), {}) = LevelsOf(before, s)
    BY DEF UpdateLevels, LevelsOf
  <2>4. bid' = bid /\ ask' = ask
    BY <2>1, <2>2, <2>3, <1>1, <1>9
  <2>. QED
    BY <2>4
<1>13. Changes # {} => (CHOOSE c \in Changes : TRUE).time = t0
  <2>1. \A c \in Changes : c.time = t0
    BY <1>11 DEF DepthChange
  <2>. QED
    BY <2>1
<1>14. \/ answer' = answer /\ ExpectedOf(level3, query, t0) = {}
       \/ \E x : answer' = Append(answer, x) /\ ExpectedOf(level3, query, t0) = {x}
  <2>1. answer' = IF Changes = {} \/ SpreadOf(bid', ask') = SpreadOf(bid, ask)
                  THEN answer
                  ELSE Append(answer, [ time |-> (CHOOSE c \in Changes : TRUE).time,
                                        spread |-> SpreadOf(bid', ask') ])
    BY DEF UpdateForSpread
  <2>2. CASE SpreadAfter(before) = SpreadAfter(after)
    BY <2>1, <2>2, <1>8, <1>10 DEF SpreadChange
  <2>3. CASE SpreadAfter(before) # SpreadAfter(after)
    <3>1. answer' = Append(answer, [time |-> t0, spread |-> SpreadAfter(after)])
      BY <2>1, <2>3, <1>10, <1>12, <1>13
    <3>. QED
      BY <3>1, <2>3, <1>8 DEF SpreadChange
  <2>. QED
    BY <2>2, <2>3
<1>15. Arguments'
  BY <1>1, <1>2 DEF Arguments
<1>16. RowsInOrder'
  BY <1>1, <1>2, <1>3 DEF RowsInOrder
<1>17. EpisodesWhole'
  BY <1>1, <1>3, <1>6 DEF EpisodesWhole
<1>18. BookUpToDate' /\ TouchedSaved'
  BY <1>1, <1>2, <1>3 DEF BookUpToDate, TouchedSaved, Untouched
<1>19. DepthUpToDate'
  BY <1>1, <1>3, <1>7, <1>9 DEF DepthUpToDate
<1>20. AnsweredSoFar'
  <2>1. l2 = {} /\ l2' = {}
    BY <1>1, <1>2 DEF AnsweredSoFar
  <2>2. PICK expected : expected = [t \in times \union {t0} |-> ExpectedOf(level3, query, t)]
    OBVIOUS
  <2>3. /\ answer \in Seq({answer[i] : i \in DOMAIN answer})
        /\ \A i \in DOMAIN answer : \E t \in times : answer[i] \in expected[t]
        /\ \A t \in times : \A c \in expected[t] : \E i \in DOMAIN answer : answer[i] = c
        /\ \A i, j \in DOMAIN answer : i < j => EarlierIn(query, answer[i], answer[j])
    BY <2>1, <2>2, <1>2, <1>4 DEF AnsweredSoFar
  <2>4. /\ answer' \in Seq({answer'[i] : i \in DOMAIN answer'})
        /\ \A i \in DOMAIN answer' : \E t \in times \union {t0} : answer'[i] \in expected[t]
        /\ \A t \in times \union {t0} : \A c \in expected[t] :
              \E i \in DOMAIN answer' : answer'[i] = c
        /\ \A i, j \in DOMAIN answer' : i < j => EarlierIn(query, answer'[i], answer'[j])
    <3>1. CASE answer' = answer /\ ExpectedOf(level3, query, t0) = {}
      BY <3>1, <2>2, <2>3
    <3>2. ASSUME NEW x, answer' = Append(answer, x), ExpectedOf(level3, query, t0) = {x}
          PROVE  <2>4!:
      <4>1. PICK n : n = Len(answer) + 1
        OBVIOUS
      <4>2. /\ answer' \in Seq({answer'[i] : i \in DOMAIN answer'})
            /\ n \in Nat \ {0} /\ DOMAIN answer = 1..(n - 1) /\ DOMAIN answer' = 1..n
            /\ \A i \in DOMAIN answer : answer'[i] = answer[i]
            /\ answer'[n] = x
            /\ \A i \in DOMAIN answer' : i \in DOMAIN answer \/ i = n
        BY <4>1, <2>3, <3>2, Appended
      <4>3. expected[t0] = {x}
        BY <3>2, <2>2
      <4>4. \A i \in DOMAIN answer' : \E t \in times \union {t0} : answer'[i] \in expected[t]
        BY <4>2, <4>3, <2>3
      <4>5. \A t \in times \union {t0} : \A c \in expected[t] :
              \E i \in DOMAIN answer' : answer'[i] = c
        <5>1. n \in DOMAIN answer'
          BY <4>2
        <5>2. \A i \in DOMAIN answer : i \in DOMAIN answer'
          BY <4>2
        <5>. QED
          BY <5>1, <5>2, <4>2, <4>3, <2>3
      <4>6. \A i, j \in DOMAIN answer' : i < j => EarlierIn(query, answer'[i], answer'[j])
        <5>. SUFFICES ASSUME NEW i \in DOMAIN answer', NEW j \in DOMAIN answer', i < j
                      PROVE  EarlierIn(query, answer'[i], answer'[j])
          OBVIOUS
        <5>1. i \in DOMAIN answer /\ answer'[i] = answer[i]
          BY <4>2
        <5>2. CASE j \in DOMAIN answer
          BY <5>1, <5>2, <2>3, <4>2
        <5>3. CASE j = n
          <6>1. PICK t \in times : answer[i] \in ExpectedOf(level3, query, t)
            BY <5>1, <2>2, <2>3
          <6>2. x \in ExpectedOf(level3, query, t0)
            BY <3>2
          <6>3. answer[i].time = t /\ x.time = t0
            BY <6>1, <6>2, ExpectedTime
          <6>4. t < t0
            BY <6>1, <1>6
          <6>. QED
            BY <5>1, <5>3, <6>3, <6>4, <4>2 DEF EarlierIn
        <5>. QED
          BY <5>2, <5>3, <4>2
      <4>. QED
        BY <4>2, <4>4, <4>5, <4>6
    <3>. QED
      BY <3>1, <3>2, <1>14
  <2>. QED
    BY <2>1, <2>2, <2>4, <1>1, <1>3, <1>6 DEF AnsweredSoFar
<1>. QED
  BY <1>1, <1>15, <1>16, <1>17, <1>18, <1>19, <1>20 DEF IInv

LEMMA NextInv ==
    ASSUME IInv, [Next]_vars
    PROVE  IInv'
<1>1. CASE UNCHANGED vars
  <2>1. UNCHANGED << level3, query, phase, cursor, events_deque, current_episode, episode,
                     by_order_id, touched, l2, bid, ask, answer >>
    BY <1>1 DEF vars
  <2>2. /\ Unread' = Unread /\ Processed' = Processed /\ Settled' = Settled
        /\ Updating' = Updating
    BY <2>1 DEF Unread, Processed, Settled, Updating
  <2>3. Arguments'
    BY <2>1 DEF IInv, Arguments
  <2>4. phase = "first call" => Idle'
    BY <2>1 DEF IInv, Idle
  <2>5. ASSUME phase # "first call"
        PROVE  RowsInOrder' /\ EpisodesWhole' /\ BookUpToDate' /\ TouchedSaved'
               /\ DepthUpToDate' /\ AnsweredSoFar'
    <3>1. /\ RowsInOrder /\ EpisodesWhole /\ BookUpToDate /\ TouchedSaved
          /\ DepthUpToDate /\ AnsweredSoFar
      BY <2>5 DEF IInv
    <3>2. RowsInOrder' /\ EpisodesWhole'
      BY <3>1, <2>1, <2>2 DEF RowsInOrder, EpisodesWhole
    <3>3. BookUpToDate' /\ TouchedSaved'
      BY <3>1, <2>1, <2>2 DEF BookUpToDate, TouchedSaved
    <3>4. DepthUpToDate' /\ AnsweredSoFar'
      BY <3>1, <2>1, <2>2 DEF DepthUpToDate, AnsweredSoFar
    <3>. QED
      BY <3>2, <3>3, <3>4
  <2>. QED
    BY <2>1, <2>3, <2>4, <2>5 DEF IInv
<1>2. CASE Next
  BY <1>1, <1>2, FirstCallInv, UpdateOrderInv, StartingDepthInv, FetchInv, TakeInv,
     CompleteInv, NoMoreDataInv, UpdateForDepthInv, ReturnChangeInv, UpdateForSpreadInv
     DEF Next, Done
<1>. QED
  BY <1>1, <1>2

LEMMA Inductive == Spec => []IInv
<1>1. Init => IInv
  BY InitInv
<1>2. IInv /\ [Next]_vars => IInv'
  BY NextInv
<1>. QED
  BY <1>1, <1>2, PTL DEF Spec

-----------------------------------------------------------------------------
(***************************************************************************)
(* The books of the reference are those of the rows.                       *)
(***************************************************************************)
LEMMA TimeBounded ==
    ASSUME NEW q \in Queries, NEW r \in Rows
    PROVE  Time(q, r) \in 0..(MaxTime + q.frequency)
<1>1. q.start \in Nat \ {0} /\ q.frequency \in Nat \ {0} /\ r.mts \in Nat \ {0}
      /\ r.mts <= MaxTime /\ MaxTime \in Nat
  BY QueryTyped, RowTyped, TableAssumption
<1>2. PICK k \in Int : Ceiling(q.frequency, r.mts) = (k + 1) * q.frequency
                       /\ k * q.frequency <= r.mts - 1
  BY <1>1, CeilingBounds
<1>3. (k + 1) * q.frequency = k * q.frequency + q.frequency /\ k * q.frequency \in Int
  BY <1>1
<1>4. Ceiling(q.frequency, r.mts) \in Nat
  BY <1>1, CeilingBounds
<1>5. Ceiling(q.frequency, r.mts) <= MaxTime + q.frequency
  BY <1>1, <1>2, <1>3
<1>. QED
  BY <1>1, <1>4, <1>5 DEF Time

LEMMA EpisodesAreTimes ==
    ASSUME Arguments
    PROVE  Episodes = SeenTimes(query, Given(level3, query))
<1>1. \A r : r \in RowsOfQuery <=> r \in Given(level3, query) /\ query.start <= r.mts
  <2>1. \A r \in Given(level3, query) : r \in level3 /\ r \in Rows /\ r.mts <= MaxTime
    BY ArgumentsTyped, GivenTyped
  <2>2. \A r \in RowsOfQuery : r \in Given(level3, query)
    BY DEF RowsOfQuery, Given
  <2>. QED
    BY <2>1, <2>2 DEF RowsOfQuery
<1>2. \A r \in RowsOfQuery : TimeOf(r) = Time(query, r)
  <2>. SUFFICES ASSUME NEW r \in RowsOfQuery PROVE TimeOf(r) = Time(query, r)
    OBVIOUS
  <2>1. Time(query, r) = Ceiling(query.frequency, r.mts)
    BY <1>1, ArgumentsTyped, TimeTyped
  <2>. QED
    BY <2>1 DEF TimeOf, DateCeiling, Ceiling
<1>. QED
  BY <1>1, <1>2 DEF Episodes, SeenTimes

\* Rows that come before all others, in whole episodes, make the book of the
\* schema after their episodes.
LEMMA LiveAfterRows ==
    ASSUME Arguments, NEW rows \in SUBSET Given(level3, query),
           \A p \in rows : \A u \in Given(level3, query) \ rows : Time(query, p) < Time(query, u),
           \A u \in Given(level3, query) : u.mts < query.start => u \in rows
    PROVE  LiveAfter(SeenTimes(query, rows)) = BookOf(rows)
<1>1. /\ level3 \in Tables /\ query \in Queries
      /\ \A r \in Given(level3, query) :
                /\ r \in Rows /\ r.mts \in Nat \ {0}
                /\ Time(query, r) \in Nat
                /\ Time(query, r) = 0 <=> r.mts < query.start
      /\ query.start \in Nat \ {0}
  BY ArgumentsTyped
<1>2. PICK times : times = SeenTimes(query, rows)
  OBVIOUS
<1>3. \A t : t \in times <=> \E r \in rows : query.start <= r.mts /\ Time(query, r) = t
  BY <1>2 DEF SeenTimes
<1>4. CASE times = {}
  <2>1. \A r \in rows : r.mts < query.start
    BY <1>1, <1>3, <1>4
  <2>2. rows = LiveBefore(level3, Eras, query.start)
    <3>1. \A r \in LiveBefore(level3, Eras, query.start) : r.mts < query.start
      BY DEF LiveBefore
    <3>2. \A r \in Given(level3, query) :
             r.mts < query.start => r \in LiveBefore(level3, Eras, query.start)
      BY <1>1 DEF Given
    <3>3. LiveBefore(level3, Eras, query.start) \subseteq Given(level3, query)
      BY DEF Given
    <3>. QED
      BY <2>1, <3>1, <3>2, <3>3
  <2>. QED
    BY <2>2, <1>1, <1>2, <1>4, BookOfStart DEF LiveAfter
<1>5. CASE times # {}
  <2>1. times \in SUBSET (0..(MaxTime + query.frequency))
    BY <1>1, <1>3, TimeBounded
  <2>2. MaxTime + query.frequency \in Nat
    BY <1>1, QueryTyped, TableAssumption
  <2>3. Max(times) \in times /\ \A y \in times : y <= Max(times)
    BY <2>1, <2>2, <1>5, MaxIsGreatest
  <2>4. PICK m : m = Max(times)
    OBVIOUS
  <2>5. PICK e \in rows : query.start <= e.mts /\ Time(query, e) = m
    BY <2>3, <2>4, <1>3
  <2>6. rows = UpTo(level3, query, m)
    <3>1. ASSUME NEW r \in rows PROVE Time(query, r) <= m
      <4>1. CASE r.mts < query.start
        <5>1. Time(query, r) = 0 /\ m \in Nat
          BY <4>1, <2>5, <1>1
        <5>. QED
          BY <5>1
      <4>2. CASE ~(r.mts < query.start)
        <5>1. query.start <= r.mts
          BY <4>2, <1>1
        <5>. QED
          BY <5>1, <2>3, <2>4, <1>3
      <4>. QED
        BY <4>1, <4>2
    <3>2. ASSUME NEW u \in Given(level3, query), u \notin rows PROVE ~(Time(query, u) <= m)
      <4>1. m < Time(query, u) /\ m \in Nat /\ Time(query, u) \in Nat
        BY <3>2, <2>5, <1>1
      <4>. QED
        BY <4>1
    <3>. QED
      BY <3>1, <3>2 DEF UpTo
  <2>7. BookOf(UpTo(level3, query, m)) = LiveAt(level3, Eras, IF m < MaxTime THEN m ELSE MaxTime)
    <3>1. e \in Given(level3, query) /\ m = Time(query, e)
      BY <2>5
    <3>. QED
      BY <3>1, <2>5, <1>1, BookUpTo
  <2>. QED
    BY <2>4, <2>6, <2>7, <1>2, <1>5 DEF LiveAfter
<1>. QED
  BY <1>4, <1>5

LEMMA ExpectedIs ==
    ASSUME Arguments, NEW t \in Episodes
    PROVE  ExpectedAt(t) = ExpectedOf(level3, query, t)
<1>1. /\ level3 \in Tables /\ query \in Queries
      /\ \A r \in Given(level3, query) :
                /\ r.mts \in Nat \ {0} /\ Time(query, r) \in Nat
                /\ Time(query, r) = 0 <=> r.mts < query.start
      /\ query.start \in Nat \ {0}
  BY ArgumentsTyped
<1>2. \A x : x \in Episodes
               <=> \E r \in Given(level3, query) : query.start <= r.mts /\ Time(query, r) = x
  BY EpisodesAreTimes DEF SeenTimes
<1>3. t \in Nat \ {0}
  BY <1>1, <1>2
<1>4. LiveAfter(EpisodesBefore(t)) = BookOf(Below(level3, query, t))
  <2>1. \A p \in Below(level3, query, t) : \A u \in Given(level3, query) \ Below(level3, query, t) :
           Time(query, p) < Time(query, u)
    BY <1>1, <1>3 DEF Below
  <2>2. \A u \in Given(level3, query) : u.mts < query.start => u \in Below(level3, query, t)
    BY <1>1, <1>3 DEF Below
  <2>3. Below(level3, query, t) \in SUBSET Given(level3, query)
    BY DEF Below
  <2>4. SeenTimes(query, Below(level3, query, t)) = EpisodesBefore(t)
    <3>1. \A x : x \in SeenTimes(query, Below(level3, query, t))
                   <=> \E r \in Given(level3, query) :
                          Time(query, r) < t /\ query.start <= r.mts /\ Time(query, r) = x
      BY DEF SeenTimes, Below
    <3>2. \A x : x \in EpisodesBefore(t) <=> x \in Episodes /\ x < t
      BY DEF EpisodesBefore
    <3>. QED
      BY <3>1, <3>2, <1>2
  <2>. QED
    BY <2>1, <2>2, <2>3, <2>4, LiveAfterRows
<1>5. LiveAfter(EpisodesUpTo(t)) = BookOf(UpTo(level3, query, t))
  <2>1. \A p \in UpTo(level3, query, t) : \A u \in Given(level3, query) \ UpTo(level3, query, t) :
           Time(query, p) < Time(query, u)
    BY <1>1, <1>3 DEF UpTo
  <2>2. \A u \in Given(level3, query) : u.mts < query.start => u \in UpTo(level3, query, t)
    BY <1>1, <1>3 DEF UpTo
  <2>3. UpTo(level3, query, t) \in SUBSET Given(level3, query)
    BY DEF UpTo
  <2>4. SeenTimes(query, UpTo(level3, query, t)) = EpisodesUpTo(t)
    <3>1. \A x : x \in SeenTimes(query, UpTo(level3, query, t))
                   <=> \E r \in Given(level3, query) :
                          Time(query, r) <= t /\ query.start <= r.mts /\ Time(query, r) = x
      BY DEF SeenTimes, UpTo
    <3>2. \A x : x \in EpisodesUpTo(t) <=> x \in Episodes /\ x <= t
      BY DEF EpisodesUpTo
    <3>. QED
      BY <3>1, <3>2, <1>2
  <2>. QED
    BY <2>1, <2>2, <2>3, <2>4, LiveAfterRows
<1>. QED
  BY <1>4, <1>5 DEF ExpectedAt, ExpectedOf, ChangeOf

-----------------------------------------------------------------------------
(***************************************************************************)
(* The theorems.                                                           *)
(***************************************************************************)
LEMMA InvTyped ==
    ASSUME IInv
    PROVE  TypeOK
<1>1. /\ Arguments
      /\ level3 \in Tables /\ query \in Queries /\ current_episode \in Nat
      /\ \A r \in Given(level3, query) : r \in Rows /\ r \in level3
      /\ level3 \subseteq Rows /\ IsTable(level3)
  BY ArgumentsTyped, TableTyped DEF IInv
<1>2. CASE phase = "first call"
  <2>1. Idle
    BY <1>2 DEF IInv
  <2>2. Cardinality(events_deque) <= FetchCount
    BY <2>1, FS_EmptySet, DepthAssumption DEF Idle
  <2>3. \A s \in Sides : by_order_id[s] = {} /\ DOMAIN touched[s] = {}
    BY <2>1 DEF Idle, Untouched, Empty
  <2>4. DOMAIN bid = {} /\ DOMAIN ask = {} /\ cursor = {} /\ events_deque = {} /\ episode = {}
    BY <2>1 DEF Idle, Empty
  <2>. QED
    BY <2>2, <2>3, <2>4, <1>1 DEF TypeOK, Arguments
<1>3. CASE phase # "first call"
  <2>1. /\ RowsInOrder /\ EpisodesWhole /\ BookUpToDate /\ TouchedSaved
        /\ DepthUpToDate /\ AnsweredSoFar
    BY <1>3 DEF IInv
  <2>2. cursor \union events_deque \union episode \subseteq level3
    BY <2>1, <1>1 DEF RowsInOrder, Unread
  <2>3. Processed \subseteq level3
    BY <1>1 DEF Processed
  <2>4. ASSUME NEW s \in Sides
        PROVE  /\ by_order_id[s] \subseteq {r \in level3 : SideOf[r.id] = s}
               /\ \A a, b \in by_order_id[s] : a.id = b.id => a = b
               /\ DOMAIN touched[s] \subseteq Prices
    <3>1. by_order_id[s] = OfSide(BookOf(Processed), s)
      BY <2>1 DEF BookUpToDate
    <3>2. by_order_id[s] \subseteq {r \in level3 : SideOf[r.id] = s}
      BY <3>1, <2>3 DEF OfSide, BookOf
    <3>3. ASSUME NEW a \in by_order_id[s], NEW b \in by_order_id[s], a.id = b.id
          PROVE  a = b
      <4>1. ~Before(a, b) /\ ~Before(b, a) /\ a \in level3 /\ b \in level3
        BY <3>1, <3>2, <3>3 DEF OfSide, BookOf
      <4>. QED
        BY <4>1, <1>1, BeforeIsTotal
    <3>4. DOMAIN touched[s] \subseteq Prices
      <4>1. CASE Updating
        BY <4>1, <2>1 DEF TouchedSaved
      <4>2. CASE ~Updating
        <5>1. DOMAIN touched[s] = {}
          BY <4>2, <2>1 DEF TouchedSaved, Untouched, Empty
        <5>. QED
          BY <5>1
      <4>. QED
        BY <4>1, <4>2
    <3>. QED
      BY <3>2, <3>3, <3>4
  <2>5. \A levels \in {bid, ask} : \A p \in DOMAIN levels : p \in Prices /\ levels[p] > 0
    <3>1. \A s : \A p \in DOMAIN LevelsOf(BookOf(Settled), s) :
             p \in Prices /\ LevelsOf(BookOf(Settled), s)[p] > 0
      BY DEF LevelsOf
    <3>2. CASE query.kind = "depth"
      <4>1. DOMAIN bid = {} /\ DOMAIN ask = {}
        BY <3>2, <2>1 DEF DepthUpToDate, Empty
      <4>. QED
        BY <4>1
    <3>3. CASE query.kind # "depth"
      <4>1. bid = LevelsOf(BookOf(Settled), "b") /\ ask = LevelsOf(BookOf(Settled), "s")
        BY <3>3, <2>1 DEF DepthUpToDate
      <4>. QED
        BY <4>1, <3>1
    <3>. QED
      BY <3>2, <3>3
  <2>. QED
    BY <2>1, <2>2, <2>4, <2>5, <1>1 DEF TypeOK, Arguments, RowsInOrder
<1>. QED
  BY <1>2, <1>3

LEMMA InvBookIsLive ==
    ASSUME IInv
    PROVE  BookIsLive
<1>. SUFFICES ASSUME phase \in {"next", "return", "done"}, episode = {}
              PROVE  LET read == {t \in Episodes : \A r \in events_deque \union cursor : t < TimeOf(r)}
                     IN  \A s \in Sides : by_order_id[s] = OfSide(LiveAfter(read), s)
  BY DEF BookIsLive
<1>1. /\ Arguments /\ RowsInOrder /\ EpisodesWhole /\ BookUpToDate
      /\ phase # "initial" /\ Unread = events_deque \union cursor
  BY DEF IInv, Unread
<1>2. /\ level3 \in Tables /\ query \in Queries /\ query.start \in Nat \ {0}
      /\ \A r \in Given(level3, query) :
                /\ r \in Rows /\ r.mts \in Nat \ {0} /\ Time(query, r) \in Nat
                /\ Time(query, r) = 0 <=> r.mts < query.start
      /\ Unread \subseteq Given(level3, query)
      /\ Processed \subseteq Given(level3, query)
      /\ Given(level3, query) \ Processed = Unread
  BY <1>1, ArgumentsTyped DEF RowsInOrder, Processed
<1>3. \A p \in Processed : \A u \in Unread : Time(query, p) < Time(query, u)
  BY <1>1 DEF EpisodesWhole
<1>4. \A u \in Unread : query.start <= u.mts
  BY <1>1 DEF RowsInOrder
<1>5. \A u \in Unread : TimeOf(u) = Time(query, u)
  <2>. SUFFICES ASSUME NEW u \in Unread PROVE TimeOf(u) = Time(query, u)
    OBVIOUS
  <2>1. Time(query, u) = Ceiling(query.frequency, u.mts)
    BY <1>2, <1>4, TimeTyped
  <2>. QED
    BY <2>1 DEF TimeOf, DateCeiling, Ceiling
<1>6. PICK read : read = {t \in Episodes : \A r \in events_deque \union cursor : t < TimeOf(r)}
  OBVIOUS
<1>7. read = SeenTimes(query, Processed)
  <2>1. \A x : x \in Episodes
               <=> \E r \in Given(level3, query) : query.start <= r.mts /\ Time(query, r) = x
    BY <1>1, EpisodesAreTimes DEF SeenTimes
  <2>2. \A x : x \in read <=> x \in Episodes /\ \A u \in Unread : x < Time(query, u)
    BY <1>1, <1>5, <1>6
  <2>3. \A x : x \in SeenTimes(query, Processed)
                 <=> \E r \in Processed : query.start <= r.mts /\ Time(query, r) = x
    BY DEF SeenTimes
  <2>4. ASSUME NEW x \in read PROVE x \in SeenTimes(query, Processed)
    <3>1. PICK r \in Given(level3, query) : query.start <= r.mts /\ Time(query, r) = x
      BY <2>1, <2>2
    <3>2. r \notin Unread
      <4>1. r \in Unread => Time(query, r) < Time(query, r)
        BY <2>2, <3>1
      <4>. QED
        BY <4>1, <1>2
    <3>. QED
      BY <3>1, <3>2, <2>3, <1>2
  <2>5. ASSUME NEW x \in SeenTimes(query, Processed) PROVE x \in read
    BY <2>1, <2>2, <2>3, <1>2, <1>3
  <2>. QED
    BY <2>4, <2>5
<1>8. LiveAfter(read) = BookOf(Processed)
  <2>1. \A u \in Given(level3, query) : u.mts < query.start => u \in Processed
    BY <1>2, <1>4
  <2>. QED
    BY <2>1, <1>1, <1>2, <1>3, <1>7, LiveAfterRows
<1>. QED
  BY <1>1, <1>6, <1>8 DEF BookUpToDate

LEMMA InvAnswerExact ==
    ASSUME IInv
    PROVE  AnswerExact
<1>1. CASE phase = "first call"
  <2>1. answer = << >>
    BY <1>1 DEF IInv, Idle
  <2>2. DOMAIN answer = {}
    BY <2>1
  <2>. QED
    BY <2>2, <1>1 DEF AnswerExact
<1>2. CASE phase # "first call"
  <2>1. Arguments /\ RowsInOrder /\ EpisodesWhole /\ AnsweredSoFar
    BY <1>2 DEF IInv
  <2>2. /\ current_episode \in Nat
        /\ \A r \in Given(level3, query) : Time(query, r) \in Nat
        /\ Unread \subseteq Given(level3, query)
        /\ \A r \in Given(level3, query) : r \in Processed <=> r \notin Unread
    BY <2>1, ArgumentsTyped DEF RowsInOrder, Processed
  <2>3. PICK times : times = SeenTimes(query, Settled)
    OBVIOUS
  <2>4. \A x : x \in Episodes
               <=> \E r \in Given(level3, query) : query.start <= r.mts /\ Time(query, r) = x
    BY <2>1, EpisodesAreTimes DEF SeenTimes
  <2>5. \A x : x \in times <=> \E r \in Settled : query.start <= r.mts /\ Time(query, r) = x
    BY <2>3 DEF SeenTimes
  <2>6. Settled \subseteq Given(level3, query)
    BY DEF Settled, Below, Processed
  <2>7. times \subseteq Episodes
    BY <2>4, <2>5, <2>6
  <2>8. \A t \in Episodes : ExpectedAt(t) = ExpectedOf(level3, query, t)
    BY <2>1, ExpectedIs
  <2>9. \A p \in Settled : \A u \in Given(level3, query) \ Settled :
           Time(query, p) < Time(query, u)
    <3>1. CASE Updating
      BY <3>1, <2>2 DEF Settled, Below
    <3>2. CASE ~Updating
      <4>1. phase \in {"next", "return", "done"} /\ Settled = Processed
        BY <3>2, <1>2, <2>1 DEF Settled, Updating, Arguments
      <4>. QED
        BY <4>1, <2>1, <2>2 DEF EpisodesWhole
    <3>. QED
      BY <3>1, <3>2
  <2>10. \A t \in times : \A x \in Episodes \ times : t < x
    BY <2>4, <2>5, <2>6, <2>9
  <2>11. \A i \in DOMAIN answer :
            \E t \in times : answer[i] \in ExpectedOf(level3, query, t) /\ answer[i].time = t
    BY <2>1, <2>3, ExpectedTime DEF AnsweredSoFar
  <2>12. \A i, j \in DOMAIN answer : i < j => Earlier(answer[i], answer[j])
    BY <2>1 DEF AnsweredSoFar, EarlierIn, Earlier
  <2>13. \A i \in DOMAIN answer : answer[i] \in ExpectedAnswer
    BY <2>7, <2>8, <2>11 DEF ExpectedAnswer
  <2>14. ASSUME NEW row \in ExpectedAnswer, ~\E i \in DOMAIN answer : answer[i] = row
         PROVE  phase # "done" /\ \A i \in DOMAIN answer : Earlier(answer[i], row)
    <3>1. PICK x \in Episodes : row \in ExpectedOf(level3, query, x)
      BY <2>8 DEF ExpectedAnswer
    <3>2. CASE x \in times
      <4>1. row \in l2
        BY <3>1, <3>2, <2>1, <2>3, <2>14 DEF AnsweredSoFar
      <4>2. phase = "return"
        BY <4>1, <2>1 DEF AnsweredSoFar
      <4>. QED
        BY <4>1, <4>2, <2>1 DEF AnsweredSoFar, EarlierIn, Earlier
    <3>3. CASE x \notin times
      <4>1. row.time = x
        BY <3>1, ExpectedTime
      <4>2. \A i \in DOMAIN answer : answer[i].time < x
        BY <3>3, <2>10, <2>11
      <4>3. phase # "done"
        <5>1. phase = "done" => Settled = Given(level3, query)
          BY <2>1, <2>2 DEF Settled, Updating, EpisodesWhole, Processed
        <5>. QED
          BY <5>1, <3>3, <2>4, <2>5
      <4>. QED
        BY <4>1, <4>2, <4>3 DEF Earlier
    <3>. QED
      BY <3>2, <3>3
  <2>. QED
    BY <2>12, <2>13, <2>14 DEF AnswerExact
<1>. QED
  BY <1>1, <1>2

(***************************************************************************)
(* The types, for all tables: in particular no more rows than one batch    *)
(* wait in the deque, an order is in the book once, and no empty level     *)
(* stays in the depth.                                                     *)
(***************************************************************************)
THEOREM DepthTyped == Spec => []TypeOK
<1>1. IInv => TypeOK
  BY InvTyped
<1>. QED
  BY <1>1, Inductive, PTL

(***************************************************************************)
(* Whatever the batches and the frequency, the book that is kept up to     *)
(* date row by row (order_book.cpp) is order_book() of the schema after    *)
(* every episode.                                                          *)
(***************************************************************************)
THEOREM BookFollowsSchema == Spec => []BookIsLive
<1>1. IInv => BookIsLive
  BY InvBookIsLive
<1>. QED
  BY <1>1, Inductive, PTL

(***************************************************************************)
(* depth_change_by_episode() and spread_by_episode() return the changes    *)
(* between the schema's books, all of them, in order, and nothing else.    *)
(***************************************************************************)
THEOREM ChangesExact == Spec => []AnswerExact
<1>1. IInv => AnswerExact
  BY InvAnswerExact
<1>. QED
  BY <1>1, Inductive, PTL
=============================================================================
