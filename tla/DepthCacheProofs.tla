--------------------------- MODULE DepthCacheProofs ---------------------------
(***************************************************************************)
(* Proofs about DepthCache: its invariants hold for any history of any     *)
(* number of instants, levels and eras, and for all requests.              *)
(*                                                                         *)
(* First what the queries return: sound and complete changes of a history  *)
(* of which any part is loaded.  Then the inductive invariant, which says  *)
(* so of the cache, of the entry being made and of the answer, one lemma   *)
(* per action, and at last that such an answer replays the order book.     *)
(***************************************************************************)
EXTENDS DepthCache, WellFoundedInduction, TLAPS

(***************************************************************************)
(* A nonempty set of natural numbers that is bounded has a greatest        *)
(* element, and Max is it.                                                 *)
(***************************************************************************)
LEMMA NatMinimum ==
    ASSUME NEW T \in SUBSET Nat, T # {}
    PROVE  \E m \in T : \A k \in T : m <= k
<1> DEFINE R == OpToRel(<, Nat)
<1>1. IsWellFoundedOn(R, Nat)
  BY NatLessThanWellFounded
<1>2. \A x, y \in Nat : x < y => << x, y >> \in R
  BY DEF OpToRel
<1> HIDE DEF R
<1>3. PICK m \in T : \A k \in T : << k, m >> \notin R
  BY <1>1, WFMin
<1>4. \A k \in T : m <= k
  <2>1. TAKE k \in T
  <2>2. m \in Nat /\ k \in Nat
    OBVIOUS
  <2>3. ~(k < m)
    BY <1>2, <1>3, <2>2
  <2>. QED
    BY <2>2, <2>3
<1>. QED
  BY <1>4

LEMMA MaxIsGreatest ==
    ASSUME NEW n \in Nat, NEW S \in SUBSET (0..n), S # {}
    PROVE  /\ Max(S) \in S
           /\ \A y \in S : y <= Max(S)
<1> DEFINE T == {k \in Nat : n - k \in S}
<1>1. PICK s \in S : TRUE
  OBVIOUS
<1>2. n - s \in T
  BY n - (n - s) = s
<1>3. PICK m \in T : \A k \in T : m <= k
  BY <1>2, NatMinimum
<1>4. n - m \in S /\ \A y \in S : n - m >= y
  <2>1. \A y \in S : n - y \in T
    BY \A y \in S : n - (n - y) = y
  <2>. QED
    BY <2>1, <1>3
<1>. QED
  BY <1>4 DEF Max

LEMMA MaxIs ==
    ASSUME NEW n \in Nat, NEW S \in SUBSET (0..n), NEW x \in S, \A y \in S : y <= x
    PROVE  Max(S) = x
<1>1. Max(S) \in S /\ \A y \in S : y <= Max(S)
  <2>1. S # {}
    OBVIOUS
  <2>. QED
    BY <2>1, MaxIsGreatest
<1>2. PICK m : m = Max(S)
  OBVIOUS
<1>3. m \in Nat /\ x \in Nat
  <2>1. \A y \in S : y \in 0..n
    OBVIOUS
  <2>2. \A y \in 0..n : y \in Nat
    OBVIOUS
  <2>3. m \in S
    BY <1>1, <1>2
  <2>. QED
    BY <2>1, <2>2, <2>3
<1>4. m <= x /\ x <= m
  BY <1>1, <1>2
<1>. QED
  BY <1>2, <1>3, <1>4

(***************************************************************************)
(* Rounding to seconds.                                                    *)
(***************************************************************************)
LEMMA Remainder ==
    ASSUME NEW t \in Nat
    PROVE  /\ t % Second \in 0..(Second - 1)
           /\ t \div Second \in Nat
           /\ t = Second * (t \div Second) + (t % Second)
BY CacheAssumption

LEMMA Rounding ==
    ASSUME NEW t \in Nat
    PROVE  /\ FloorDate(t) \in Nat /\ FloorDate(t) <= t
           /\ CeilingDate(t) \in Nat /\ t <= CeilingDate(t)
           /\ FloorDate(FloorDate(t)) = FloorDate(t)
<1>1. FloorDate(t) \in Int /\ FloorDate(t) <= t
  BY Remainder, CacheAssumption DEF FloorDate
<1>2. FloorDate(t) = Second * (t \div Second)
  BY Remainder, CacheAssumption DEF FloorDate
<1>3. FloorDate(t) \in Nat
  BY Remainder, CacheAssumption, <1>2
<1>4. FloorDate(t) % Second = 0
  BY Remainder, CacheAssumption, <1>2
<1>5. CeilingDate(t) \in Nat /\ t <= CeilingDate(t)
  <2>1. t + Second - 1 \in Nat
    BY CacheAssumption
  <2>2. CeilingDate(t) = (t + Second - 1) - ((t + Second - 1) % Second)
    BY DEF CeilingDate, FloorDate
  <2>. QED
    BY <2>1, <2>2, CacheAssumption, Remainder
<1>. QED
  BY <1>1, <1>3, <1>4, <1>5 DEF FloorDate

LEMMA FloorMonotone ==
    ASSUME NEW t \in Nat, NEW u \in Nat, t <= u
    PROVE  FloorDate(t) <= FloorDate(u)
<1> DEFINE a == t \div Second
           b == u \div Second
<1>1. /\ a \in Nat /\ t = Second * a + (t % Second)
      /\ t % Second \in 0..(Second - 1)
      /\ b \in Nat /\ u = Second * b + (u % Second)
      /\ u % Second \in 0..(Second - 1)
  BY Remainder
<1>2. FloorDate(t) = Second * a /\ FloorDate(u) = Second * b
  BY Remainder, CacheAssumption DEF FloorDate
<1> HIDE DEF a, b
<1>3. a <= b
  <2>1. SUFFICES ASSUME a >= b + 1 PROVE FALSE
    BY <1>1
  <2>2. Second * a >= Second * (b + 1)
    BY <1>1, <2>1, CacheAssumption
  <2>3. Second * (b + 1) = Second * b + Second
    BY <1>1, CacheAssumption
  <2>. QED
    BY <1>1, <2>2, <2>3, CacheAssumption
<1>. QED
  BY <1>1, <1>2, <1>3, CacheAssumption

LEMMA CeilingMonotone ==
    ASSUME NEW t \in Nat, NEW u \in Nat, t <= u
    PROVE  CeilingDate(t) <= CeilingDate(u)
BY FloorMonotone, CacheAssumption DEF CeilingDate

\* Whole seconds.
LEMMA SecondsRounded ==
    /\ Seconds \subseteq Nat
    /\ \A t \in Seconds : FloorDate(t) = t
    /\ \A t \in Nat : t <= CeilingDate(MaxTime) => FloorDate(t) \in Seconds
    /\ \A t \in Nat : t <= MaxTime => CeilingDate(t) \in Seconds
<1>1. CeilingDate(MaxTime) \in Nat
  BY Rounding, CacheAssumption
<1>2. Seconds \subseteq Nat /\ \A t \in Seconds : FloorDate(t) = t
  BY <1>1 DEF Seconds
<1>3. \A t \in Nat : t <= CeilingDate(MaxTime) => FloorDate(t) \in Seconds
  BY <1>1, Rounding DEF Seconds
<1>4. ASSUME NEW t \in Nat, t <= MaxTime
      PROVE  CeilingDate(t) \in Seconds
  <2>1. CeilingDate(t) <= CeilingDate(MaxTime) /\ CeilingDate(t) \in Nat
    BY <1>4, CeilingMonotone, Rounding, CacheAssumption
  <2>2. t + Second - 1 \in Nat
    BY CacheAssumption
  <2>3. FloorDate(CeilingDate(t)) = CeilingDate(t)
    BY <2>2, Rounding DEF CeilingDate
  <2>. QED
    BY <1>1, <2>1, <2>3 DEF Seconds
<1>. QED
  BY <1>2, <1>3, <1>4

-----------------------------------------------------------------------------
(***************************************************************************)
(* Histories.  What is loaded of a history is a history again, so that the *)
(* queries are reasoned about on histories only.                           *)
(***************************************************************************)
LEMMA HistoryTyped ==
    ASSUME NEW db, IsHistory(db)
    PROVE  /\ Times(db) \in SUBSET (0..MaxTime)
           /\ db.eras \in SUBSET (0..MaxTime)
           /\ \A x \in Times(db) : db.episodes[x] \in Books
BY CacheAssumption DEF IsHistory

LEMMA LoadedIsHistory ==
    ASSUME NEW n \in Nat, IsHistory(history)
    PROVE  IsHistory(DatabaseUpTo(n))
<1> DEFINE db == DatabaseUpTo(n)
<1>1. Times(history) \subseteq Nat
  BY HistoryTyped
<1>2. /\ Times(db) = {x \in Times(history) : x <= n}
      /\ db.eras = {e \in history.eras : e <= n}
      /\ \A x \in Times(db) : db.episodes[x] = history.episodes[x]
  BY DEF DatabaseUpTo, Times
<1>3. db.episodes \in [Times(db) -> Books]
  BY <1>2 DEF IsHistory, DatabaseUpTo, Times
<1> HIDE DEF db
<1>4. \A x \in Times(db) : x \in db.eras \/ x - 1 \in Times(db)
  BY <1>1, <1>2 DEF IsHistory
<1>5. \A era \in db.eras : era - 1 \notin Times(db)
  BY <1>2 DEF IsHistory
<1>6. Times(db) \subseteq 0..(MaxTime - 1) /\ db.eras \subseteq Times(db)
  BY <1>2 DEF IsHistory
<1>7. IsHistory(db)
  BY <1>3, <1>4, <1>5, <1>6 DEF IsHistory
<1>. QED
  BY <1>7 DEF db

LEMMA LoadedOf ==
    ASSUME NEW n \in Nat
    PROVE  /\ Times(DatabaseUpTo(n)) = {x \in Times(history) : x <= n}
           /\ DatabaseUpTo(n).eras = {e \in history.eras : e <= n}
           /\ \A x \in Times(DatabaseUpTo(n)) :
                 DatabaseUpTo(n).episodes[x] = history.episodes[x]
BY DEF DatabaseUpTo, Times

\* The last era that has begun.
LEMMA EraOfIsLast ==
    ASSUME NEW db, IsHistory(db), NEW t \in Nat, ErasUpTo(db, t) # {}
    PROVE  /\ EraOf(db, t) \in db.eras
           /\ EraOf(db, t) <= t
           /\ \A e \in db.eras : e <= t => e <= EraOf(db, t)
<1>1. ErasUpTo(db, t) \in SUBSET (0..MaxTime)
  BY HistoryTyped DEF ErasUpTo
<1>2. /\ EraOf(db, t) \in ErasUpTo(db, t)
      /\ \A e \in ErasUpTo(db, t) : e <= EraOf(db, t)
  BY <1>1, MaxIsGreatest, CacheAssumption DEF EraOf
<1>. QED
  BY <1>2 DEF ErasUpTo

LEMMA EraOfIs ==
    ASSUME NEW db, IsHistory(db), NEW t \in Nat, NEW era \in db.eras,
           era <= t, \A e \in NextEras(db, era) : t < e
    PROVE  ErasUpTo(db, t) # {} /\ EraOf(db, t) = era
<1>1. ErasUpTo(db, t) # {}
  BY DEF ErasUpTo
<1>2. \A e \in db.eras : e \in Nat
  BY HistoryTyped
<1>. QED
  BY <1>1, <1>2, EraOfIsLast DEF NextEras

\* Between the begin of an era and an episode in it, every instant has one.
LEMMA EraWithoutGaps ==
    ASSUME NEW db, IsHistory(db), NEW x \in Times(db)
    PROVE  /\ ErasUpTo(db, x) # {}
           /\ EraOf(db, x)..x \subseteq Times(db)
<1>1. x \in Nat /\ Times(db) \subseteq Nat
  BY HistoryTyped
<1> DEFINE T == {y \in Nat : y <= x /\ y..x \subseteq Times(db)}
<1>2. x \in T
  BY <1>1
<1>3. PICK m \in T : \A k \in T : m <= k
  BY <1>2, NatMinimum
<1>4. m \in Nat /\ m <= x /\ m..x \subseteq Times(db) /\ m \in Times(db)
  BY <1>1, <1>3
<1>5. m \in db.eras
  <2>1. SUFFICES ASSUME m - 1 \in Times(db) PROVE FALSE
    BY <1>4 DEF IsHistory
  <2>2. m - 1 \in Nat /\ (m - 1)..x \subseteq Times(db)
    BY <1>1, <1>4, <2>1
  <2>3. m - 1 \in T
    BY <1>4, <2>2
  <2>. QED
    BY <1>3, <1>4, <2>3
<1>6. ErasUpTo(db, x) # {}
  BY <1>4, <1>5 DEF ErasUpTo
<1>7. EraOf(db, x) \in Nat /\ m <= EraOf(db, x)
  BY <1>1, <1>4, <1>5, <1>6, EraOfIsLast, HistoryTyped
<1>. QED
  BY <1>1, <1>4, <1>6, <1>7

LEMMA LastEpisodeIs ==
    ASSUME NEW db, IsHistory(db), NEW era \in db.eras
    PROVE  /\ LastEpisode(db, era) \in Times(db)
           /\ era <= LastEpisode(db, era)
           /\ \A e \in NextEras(db, era) : LastEpisode(db, era) < e
           /\ \A x \in Times(db) :
                 era <= x /\ (\A e \in NextEras(db, era) : x < e) => x <= LastEpisode(db, era)
<1> DEFINE T == {x \in Times(db) : x >= era /\ \A e \in NextEras(db, era) : x < e}
<1>1. era \in T
  <2>1. era \in Times(db) /\ era \in Nat
    BY HistoryTyped DEF IsHistory
  <2>2. \A e \in NextEras(db, era) : era < e
    BY <2>1, HistoryTyped DEF NextEras
  <2>. QED
    BY <2>1, <2>2
<1>2. T \in SUBSET (0..MaxTime)
  BY HistoryTyped
<1>3. LastEpisode(db, era) = Max(T)
  BY DEF LastEpisode
<1> HIDE DEF T
<1>4. Max(T) \in T /\ \A x \in T : x <= Max(T)
  BY <1>1, <1>2, MaxIsGreatest, CacheAssumption
<1> USE DEF T
<1>. QED
  BY <1>3, <1>4

\* The instants of an era.
LEMMA WithinEra ==
    ASSUME NEW db, IsHistory(db), NEW era \in db.eras
    PROVE  /\ era \in Nat /\ LastEpisode(db, era) \in Nat
           /\ era..LastEpisode(db, era) \subseteq Times(db)
           /\ \A t \in era..LastEpisode(db, era) :
                 /\ ErasUpTo(db, t) # {} /\ EraOf(db, t) = era
                 /\ t \in db.eras => t = era
<1> DEFINE last == LastEpisode(db, era)
<1>1. era \in Nat /\ last \in Nat
  BY HistoryTyped, LastEpisodeIs
<1>2. /\ last \in Times(db)
      /\ \A e \in NextEras(db, era) : last < e
  BY LastEpisodeIs
<1> HIDE DEF last
<1>3. ASSUME NEW t \in era..last
      PROVE  /\ ErasUpTo(db, t) # {} /\ EraOf(db, t) = era
             /\ t \in db.eras => t = era
  <2>1. \A e \in NextEras(db, era) : t < e
    BY <1>1, <1>2, HistoryTyped DEF NextEras
  <2>2. t \in Nat /\ era <= t
    BY <1>1
  <2>3. t \in db.eras => t = era
    BY <1>1, <2>1, <2>2 DEF NextEras
  <2>. QED
    BY <2>1, <2>2, <2>3, EraOfIs
<1>4. era..last \subseteq Times(db)
  <2>1. EraOf(db, last) = era
    BY <1>1, <1>2, <1>3, LastEpisodeIs DEF last
  <2>. QED
    BY <1>2, <2>1, EraWithoutGaps
<1>. QED
  BY <1>1, <1>3, <1>4 DEF last

\* An instant that has an episode, and so has the next, is not its era's last.
LEMMA FollowedInEra ==
    ASSUME NEW db, IsHistory(db), NEW x \in Times(db), x + 1 \in Times(db)
    PROVE  /\ ErasUpTo(db, x) # {}
           /\ EraOf(db, x) \in db.eras
           /\ EraOf(db, x) <= x
           /\ x + 1 <= LastEpisode(db, EraOf(db, x))
<1>1. x \in Nat /\ \A e \in db.eras : e \in Nat
  BY HistoryTyped
<1>2. ErasUpTo(db, x) # {}
  BY EraWithoutGaps
<1>3. PICK era : era = EraOf(db, x)
  OBVIOUS
<1>4. /\ era \in db.eras /\ era <= x
      /\ \A e \in db.eras : e <= x => e <= era
  BY <1>1, <1>2, <1>3, EraOfIsLast
<1>5. x + 1 \notin db.eras
  <2>1. (x + 1) - 1 = x
    BY <1>1
  <2>. QED
    BY <2>1 DEF IsHistory
<1>6. \A e \in NextEras(db, era) : x + 1 < e
  BY <1>1, <1>4, <1>5 DEF NextEras
<1>7. x + 1 <= LastEpisode(db, era)
  BY <1>1, <1>4, <1>6, LastEpisodeIs
<1>. QED
  BY <1>2, <1>3, <1>4, <1>7

-----------------------------------------------------------------------------
(***************************************************************************)
(* The order book.  Before an episode it is what the episode before it in  *)
(* the same era has left.                                                  *)
(***************************************************************************)
Prior(db, x) == IF x \in db.eras THEN EmptyBook ELSE db.episodes[x - 1]
Made(db, x) == DepthChange(Prior(db, x), db.episodes[x], x)

LEMMA BookBefore ==
    ASSUME NEW db, IsHistory(db), NEW x \in Times(db)
    PROVE  OrderBook(db, x, TRUE) = Prior(db, x)
<1> DEFINE era == EraOf(db, x)
           shown == {y \in Times(db) : y \in era..x /\ y < x}
<1>1. x \in Nat /\ Times(db) \subseteq Nat
  BY HistoryTyped
<1>2. ErasUpTo(db, x) # {} /\ era..x \subseteq Times(db)
  BY EraWithoutGaps
<1>3. era \in db.eras /\ era \in Nat /\ era <= x /\ \A e \in db.eras : e <= x => e <= era
  BY <1>1, <1>2, EraOfIsLast, HistoryTyped
<1>4. OrderBook(db, x, TRUE) = IF shown = {} THEN EmptyBook ELSE db.episodes[Max(shown)]
  <2>1. shown = {y \in Times(db) : y \in era..x /\ (TRUE => y < x)}
    OBVIOUS
  <2>. QED
    BY <1>2, <2>1 DEF OrderBook, EraOf
<1> HIDE DEF era
<1>5. CASE x \in db.eras
  <2>1. era = x
    BY <1>1, <1>3, <1>5
  <2>2. shown = {}
    BY <1>1, <2>1
  <2>. QED
    BY <1>4, <1>5, <2>2 DEF Prior
<1>6. CASE x \notin db.eras
  <2>1. era <= x - 1 /\ x - 1 \in era..x
    BY <1>1, <1>3, <1>6
  <2>2. x - 1 \in shown /\ \A y \in shown : y <= x - 1
    BY <1>1, <1>2, <1>3, <2>1
  <2>3. shown \in SUBSET (0..x)
    BY <1>1
  <2> HIDE DEF shown
  <2>4. Max(shown) = x - 1
    BY <1>1, <2>2, <2>3, MaxIs
  <2>. QED
    BY <1>4, <1>6, <2>2, <2>4 DEF Prior
<1>. QED
  BY <1>5, <1>6

LEMMA BookAfter ==
    ASSUME NEW db, IsHistory(db), NEW x \in Times(db)
    PROVE  OrderBook(db, x, FALSE) = db.episodes[x]
<1> DEFINE era == EraOf(db, x)
           shown == {y \in Times(db) : y \in era..x}
<1>1. x \in Nat /\ Times(db) \subseteq Nat
  BY HistoryTyped
<1>2. ErasUpTo(db, x) # {}
  BY EraWithoutGaps
<1>3. era \in Nat /\ era <= x
  BY <1>1, <1>2, EraOfIsLast, HistoryTyped
<1>4. OrderBook(db, x, FALSE) = IF shown = {} THEN EmptyBook ELSE db.episodes[Max(shown)]
  <2>1. shown = {y \in Times(db) : y \in era..x /\ (FALSE => y < x)}
    OBVIOUS
  <2>. QED
    BY <1>2, <2>1 DEF OrderBook, EraOf
<1> HIDE DEF era
<1>5. x \in shown /\ shown \in SUBSET (0..x) /\ \A y \in shown : y <= x
  BY <1>1, <1>3
<1> HIDE DEF shown
<1>6. Max(shown) = x
  BY <1>1, <1>5, MaxIs
<1>. QED
  BY <1>4, <1>5, <1>6

LEMMA BooksTyped ==
    ASSUME NEW db, IsHistory(db), NEW x \in Times(db)
    PROVE  db.episodes[x] \in [Levels -> Volumes] /\ Prior(db, x) \in [Levels -> Volumes]
<1>1. EmptyBook \in [Levels -> Volumes]
  BY VolumesAssumption DEF EmptyBook
<1>2. x \notin db.eras => x - 1 \in Times(db)
  BY DEF IsHistory
<1>. QED
  BY <1>1, <1>2, HistoryTyped DEF Prior, Books

LEMMA MadeIs ==
    ASSUME NEW db, IsHistory(db), NEW x \in Times(db)
    PROVE  \A c : c \in Made(db, x) <=>
              /\ c = Change(x, c.level, c.volume)
              /\ c.level \in Levels
              /\ c.volume = db.episodes[x][c.level]
              /\ Prior(db, x)[c.level] # db.episodes[x][c.level]
BY DEF Made, DepthChange, Change

-----------------------------------------------------------------------------
(***************************************************************************)
(* The pieces of a query.  Within an era the changes do not depend on      *)
(* where the piece begins: each episode's are those to the book before it. *)
(***************************************************************************)
LEMMA MinIsLeast ==
    ASSUME NEW S \in SUBSET Nat, S # {}
    PROVE  Min(S) \in S /\ \A y \in S : Min(S) <= y
BY NatMinimum DEF Min

LEMMA ByEpisode ==
    ASSUME NEW db, IsHistory(db), NEW era \in db.eras,
           NEW start \in Nat, NEW end \in Nat,
           era <= start, start <= end, end <= LastEpisode(db, era)
    PROVE  \A c : c \in DepthChangeByEpisode(db, start, end) <=>
                     \E x \in start..end : x \in Times(db) /\ c \in Made(db, x)
<1> DEFINE earlier(x) == {y \in Times(db) : y \in start..(x - 1)}
           before(x) == IF earlier(x) = {} THEN OrderBook(db, start, TRUE)
                        ELSE db.episodes[Max(earlier(x))]
<1>1. /\ era \in Nat /\ LastEpisode(db, era) \in Nat
      /\ \A t \in start..end : t \in Times(db) /\ (t \in db.eras => t = era)
  BY WithinEra
<1>2. ASSUME NEW x \in start..end
      PROVE  before(x) = Prior(db, x)
  <2>1. x \in Nat /\ start <= x /\ x \in Times(db)
    BY <1>1
  <2>2. CASE x = start
    <3>1. earlier(x) = {}
      BY <2>2
    <3>. QED
      BY <1>1, <2>1, <2>2, <3>1, BookBefore
  <2>3. CASE x # start
    <3>1. x - 1 \in start..end /\ x - 1 \in Nat /\ x # era
      BY <1>1, <2>1, <2>3
    <3>2. x - 1 \in earlier(x) /\ \A y \in earlier(x) : y <= x - 1
      BY <1>1, <2>1, <3>1
    <3>3. earlier(x) \in SUBSET (0..(x - 1))
      <4>1. \A y \in start..(x - 1) : y \in 0..(x - 1)
        BY <2>1
      <4>. QED
        BY <4>1
    <3>4. PICK S : S = earlier(x)
      OBVIOUS
    <3>5. Max(S) = x - 1
      BY <3>1, <3>2, <3>3, <3>4, MaxIs
    <3>6. x \notin db.eras
      BY <1>1, <3>1
    <3>7. before(x) = db.episodes[x - 1]
      BY <3>2, <3>4, <3>5
    <3>. QED
      BY <3>6, <3>7 DEF Prior
  <2>. QED
    BY <2>2, <2>3
<1>3. DepthChangeByEpisode(db, start, end) =
        UNION {DepthChange(before(x), db.episodes[x], x) : x \in {x \in Times(db) : x \in start..end}}
  BY DEF DepthChangeByEpisode
<1> HIDE DEF before
<1>4. \A c : c \in DepthChangeByEpisode(db, start, end) <=>
               \E x \in Times(db) : x \in start..end /\ c \in DepthChange(before(x), db.episodes[x], x)
  BY <1>3
<1>. QED
  BY <1>2, <1>4 DEF Made

PartOfEra(db, era, start, end) ==
    [ start |-> Max({era, start}),
      end   |-> Min({LastEpisode(db, era), end} \union NextEras(db, era)) ]

LEMMA PartsAre ==
    ASSUME NEW db, NEW start, NEW end
    PROVE  \A p : p \in PeriodsWithinEras(db, start, end) <=>
              \E era \in db.eras :
                 /\ start <= LastEpisode(db, era) /\ end >= era
                 /\ p = PartOfEra(db, era, start, end)
                 /\ p.end > p.start
<1>. QED
  BY DEF PeriodsWithinEras, PartOfEra

LEMMA PartBounds ==
    ASSUME NEW db, IsHistory(db), NEW start \in Nat, NEW end \in Nat, NEW era \in db.eras
    PROVE  LET p == PartOfEra(db, era, start, end)
           IN  /\ p.start \in Nat /\ p.end \in Nat
               /\ p.start = (IF era <= start THEN start ELSE era)
               /\ p.end = (IF LastEpisode(db, era) <= end THEN LastEpisode(db, era) ELSE end)
<1> DEFINE last == LastEpisode(db, era)
           T == {last, end} \union NextEras(db, era)
<1>1. era \in Nat /\ last \in Nat /\ \A e \in NextEras(db, era) : last < e
  BY WithinEra, LastEpisodeIs
<1>2. NextEras(db, era) \subseteq Nat
  BY HistoryTyped DEF NextEras
<1> HIDE DEF last
<1>3. PICK least : least = IF last <= end THEN last ELSE end
  OBVIOUS
<1>4. T \in SUBSET Nat /\ least \in T /\ \A y \in T : least <= y
  BY <1>1, <1>2, <1>3
<1>5. Min(T) = least
  <2> HIDE DEF T
  <2>1. Min(T) \in T /\ \A y \in T : Min(T) <= y
    BY <1>4, MinIsLeast
  <2>2. PICK m : m = Min(T)
    OBVIOUS
  <2>3. m \in Nat /\ least \in Nat /\ m <= least /\ least <= m
    BY <1>4, <2>1, <2>2
  <2>. QED
    BY <2>2, <2>3
<1>6. Max({era, start}) = IF era <= start THEN start ELSE era
  <2>1. PICK most : most = IF era <= start THEN start ELSE era
    OBVIOUS
  <2>2. PICK S : S = {era, start}
    OBVIOUS
  <2>3. S \in SUBSET (0..most) /\ most \in Nat /\ most \in S /\ \A y \in S : y <= most
    BY <1>1, <2>1, <2>2
  <2>. QED
    BY <2>1, <2>2, <2>3, MaxIs
<1>. QED
  BY <1>1, <1>3, <1>5, <1>6 DEF PartOfEra, last

LEMMA PartWithinEra ==
    ASSUME NEW db, IsHistory(db), NEW start \in Nat, NEW end \in Nat,
           NEW p \in PeriodsWithinEras(db, start, end)
    PROVE  \E era \in db.eras :
              /\ p.start \in Nat /\ p.end \in Nat /\ p.start < p.end
              /\ era \in Nat /\ era <= p.start /\ start <= p.start
              /\ p.end <= end /\ p.end <= LastEpisode(db, era)
              /\ p.start = start \/ p.start = era
<1>1. PICK era \in db.eras : p = PartOfEra(db, era, start, end) /\ p.end > p.start
  BY PartsAre
<1>2. era \in Nat /\ LastEpisode(db, era) \in Nat
  BY WithinEra
<1>3. /\ p.start \in Nat /\ p.end \in Nat
      /\ p.start = (IF era <= start THEN start ELSE era)
      /\ p.end = (IF LastEpisode(db, era) <= end THEN LastEpisode(db, era) ELSE end)
  BY <1>1, PartBounds
<1>. QED
  BY <1>1, <1>2, <1>3

LEMMA PartOfEpisode ==
    ASSUME NEW db, IsHistory(db), NEW start \in Nat, NEW end \in Nat,
           NEW x \in Times(db), x + 1 \in Times(db), start <= x, x < end
    PROVE  \E p \in PeriodsWithinEras(db, start, end) : p.start <= x /\ x <= p.end
<1>1. x \in Nat
  BY HistoryTyped
<1>2. PICK era \in db.eras : era <= x /\ x + 1 <= LastEpisode(db, era)
  BY FollowedInEra
<1>3. era \in Nat /\ LastEpisode(db, era) \in Nat
  BY WithinEra
<1>4. PICK p : p = PartOfEra(db, era, start, end)
  OBVIOUS
<1>5. /\ p.start \in Nat /\ p.end \in Nat
      /\ p.start = (IF era <= start THEN start ELSE era)
      /\ p.end = (IF LastEpisode(db, era) <= end THEN LastEpisode(db, era) ELSE end)
  BY <1>4, PartBounds
<1>6. p.start <= x /\ x < p.end /\ start <= LastEpisode(db, era) /\ end >= era
  BY <1>1, <1>2, <1>3, <1>5
<1>7. p \in PeriodsWithinEras(db, start, end)
  BY <1>1, <1>4, <1>5, <1>6, PartsAre
<1>. QED
  BY <1>1, <1>5, <1>6, <1>7

(***************************************************************************)
(* What a query of changes returns: changes of the episodes in its period, *)
(* all of those that have a next episode in their era, and besides them    *)
(* only levels closed an instant before an era begins.                     *)
(***************************************************************************)
Closes(db, c) ==
    /\ c = Change(c.time, c.level, 0)
    /\ c.time \in Nat
    /\ c.level \in Levels
    /\ c.time + 1 \in db.eras

LEMMA ClosingBook ==
    ASSUME NEW db, IsHistory(db), NEW start \in Nat, NEW end \in Nat,
           NEW p \in PeriodsWithinEras(db, start, end),
           Before(PeriodsWithinEras(db, start, end), p) # {},
           NEW book, NEW c \in DepthChange(book, OrderBook(db, p.start, TRUE), p.start - 1)
    PROVE  Closes(db, c) /\ start <= c.time /\ c.time < end
<1>1. PICK q \in PeriodsWithinEras(db, start, end) : q.start < p.start
  BY DEF Before
<1>2. q.start \in Nat /\ start <= q.start
  BY PartWithinEra
<1>3. /\ p.start \in Nat /\ p.end \in Nat /\ p.start < p.end /\ p.end <= end
      /\ p.start = start \/ p.start \in db.eras
  BY PartWithinEra
<1>4. p.start \in db.eras /\ start <= p.start - 1
  BY <1>1, <1>2, <1>3
<1>5. OrderBook(db, p.start, TRUE) = EmptyBook
  <2>1. p.start \in Times(db)
    BY <1>4 DEF IsHistory
  <2>. QED
    BY <1>4, <2>1, BookBefore DEF Prior
<1>6. /\ c = Change(p.start - 1, c.level, 0)
      /\ c.level \in Levels /\ c.time = p.start - 1
  <2>1. PICK l \in Levels : c = Change(p.start - 1, l, OrderBook(db, p.start, TRUE)[l])
    BY DEF DepthChange
  <2>2. c = Change(p.start - 1, l, 0)
    BY <1>5, <2>1 DEF EmptyBook
  <2>. QED
    BY <2>2 DEF Change
<1>. QED
  BY <1>3, <1>4, <1>6 DEF Closes

LEMMA DepthSound ==
    ASSUME NEW db, IsHistory(db), NEW start \in Nat, NEW end \in Nat,
           NEW c \in Depth(db, start, end)
    PROVE  /\ start <= c.time /\ c.time < end
           /\ \/ c.time \in Times(db) /\ c \in Made(db, c.time)
              \/ Closes(db, c)
<1> DEFINE periods == PeriodsWithinEras(db, start, end)
<1>1. c \in Level2Continuous(db, start, end) /\ c.time < end
  BY DEF Depth
<1>2. CASE \E p \in periods : c \in DepthChangeByEpisode(db, p.start, p.end)
  <2>1. PICK p \in periods : c \in DepthChangeByEpisode(db, p.start, p.end)
    BY <1>2
  <2>2. PICK era \in db.eras :
              /\ p.start \in Nat /\ p.end \in Nat /\ p.start < p.end
              /\ era <= p.start /\ start <= p.start
              /\ p.end <= LastEpisode(db, era)
    BY PartWithinEra
  <2>3. PICK x \in p.start..p.end : x \in Times(db) /\ c \in Made(db, x)
    BY <2>1, <2>2, ByEpisode
  <2>4. c.time = x
    BY <2>3, MadeIs DEF Change
  <2>. QED
    BY <1>1, <2>2, <2>3, <2>4
<1>3. CASE c \in StartingDepthChange(db, periods)
  <2>1. PICK p \in periods :
              /\ Before(periods, p) # {}
              /\ c \in DepthChange(OrderBook(db, PreviousEnd(periods, p), FALSE),
                                   OrderBook(db, p.start, TRUE), p.start - 1)
    BY <1>3 DEF StartingDepthChange
  <2>. QED
    BY <2>1, ClosingBook
<1>. QED
  BY <1>1, <1>2, <1>3 DEF Level2Continuous

LEMMA DepthComplete ==
    ASSUME NEW db, IsHistory(db), NEW start \in Nat, NEW end \in Nat,
           NEW x \in Times(db), x + 1 \in Times(db), start <= x, x < end
    PROVE  Made(db, x) \subseteq Depth(db, start, end)
<1> SUFFICES ASSUME NEW c \in Made(db, x)
             PROVE  c \in Depth(db, start, end)
  OBVIOUS
<1>1. PICK p \in PeriodsWithinEras(db, start, end) : p.start <= x /\ x <= p.end
  BY PartOfEpisode
<1>2. PICK era \in db.eras :
            /\ p.start \in Nat /\ p.end \in Nat /\ p.start < p.end
            /\ era <= p.start
            /\ p.end <= LastEpisode(db, era)
  BY PartWithinEra
<1>3. x \in Nat /\ x \in p.start..p.end
  BY <1>1, <1>2, HistoryTyped
<1>4. c \in DepthChangeByEpisode(db, p.start, p.end)
  BY <1>2, <1>3, ByEpisode
<1>5. c.time = x
  BY MadeIs DEF Change
<1>. QED
  BY <1>4, <1>5 DEF Depth, Level2Continuous

\* The depth at the start of a request: the levels of the book before it.
LEMMA StartingDepthSound ==
    ASSUME NEW db, IsHistory(db), NEW start \in Nat, NEW c \in StartingDepth(db, start)
    PROVE  /\ c = Change(start, c.level, OrderBook(db, start, TRUE)[c.level])
           /\ c.level \in Levels
           /\ start \in Times(db)
<1>1. PICK p \in PeriodsWithinEras(db, start, start + 1) :
          /\ c.level \in Levels
          /\ c = Change(p.start, c.level, OrderBook(db, p.start, TRUE)[c.level])
  <2> DEFINE opening(p) == {Change(p.start, l, OrderBook(db, p.start, TRUE)[l])
                             : l \in {l \in Levels : OrderBook(db, p.start, TRUE)[l] > 0}}
  <2>1. PICK p \in PeriodsWithinEras(db, start, start + 1) : c \in opening(p)
    BY DEF StartingDepth
  <2>2. PICK l \in Levels : c = Change(p.start, l, OrderBook(db, p.start, TRUE)[l])
    BY <2>1
  <2>3. c.level = l
    BY <2>2 DEF Change
  <2>. QED
    BY <2>2, <2>3
<1>2. PICK era \in db.eras :
            /\ p.start \in Nat /\ p.end \in Nat /\ p.start < p.end
            /\ era \in Nat /\ era <= p.start /\ start <= p.start
            /\ p.end <= start + 1 /\ p.end <= LastEpisode(db, era)
  <2>1. start + 1 \in Nat
    OBVIOUS
  <2>. QED
    BY <2>1, PartWithinEra
<1>3. p.start = start
  BY <1>2
<1>4. start \in era..LastEpisode(db, era)
  BY <1>2, <1>3, WithinEra
<1>. QED
  BY <1>1, <1>3, <1>4, WithinEra

LEMMA StartingDepthComplete ==
    ASSUME NEW db, IsHistory(db), NEW start \in Times(db), start + 1 \in Times(db),
           NEW l \in Levels, OrderBook(db, start, TRUE)[l] > 0
    PROVE  Change(start, l, OrderBook(db, start, TRUE)[l]) \in StartingDepth(db, start)
<1> DEFINE periods == PeriodsWithinEras(db, start, start + 1)
<1>1. start \in Nat
  BY HistoryTyped
<1>2. \A p \in periods : p.start = start
  BY <1>1, PartWithinEra
<1>3. PICK p \in periods : TRUE
  BY <1>1, PartOfEpisode
<1>4. Before(periods, p) = {}
  BY <1>1, <1>2, <1>3 DEF Before
<1> DEFINE opening(q) == {Change(q.start, k, OrderBook(db, q.start, TRUE)[k])
                           : k \in {k \in Levels : OrderBook(db, q.start, TRUE)[k] > 0}}
<1>5. Change(start, l, OrderBook(db, start, TRUE)[l]) \in opening(p)
  BY <1>2, <1>3
<1>6. StartingDepth(db, start) = UNION {opening(q) : q \in {q \in periods : Before(periods, q) = {}}}
  BY DEF StartingDepth
<1> HIDE DEF opening, periods
<1>. QED
  BY <1>3, <1>4, <1>5, <1>6

-----------------------------------------------------------------------------
(***************************************************************************)
(* The inductive invariant.  A change that the client holds is that of an  *)
(* episode of the history, the same whichever query returned it and when,  *)
(* or closes a level before an era.  No change is missing of an episode    *)
(* that has a next one in its era: what is cached is loaded for good.      *)
(***************************************************************************)
Sound(c) ==
    \/ c.time \in Times(history) /\ c \in Made(history, c.time)
    \/ Closes(history, c)

Complete(changes, start, end) ==
    \A x \in Times(history) :
        x + 1 \in Times(history) /\ start <= x /\ x < end => Made(history, x) \subseteq changes

CacheInv ==
    \A p \in DOMAIN cache :
        /\ \A c \in cache[p] : Sound(c)
        /\ Complete(cache[p], p.s, p.e)

(***************************************************************************)
(* The entry being made is complete up to call.current.  Unless nothing    *)
(* has been visited yet, it is apart from what is left in the cache; it    *)
(* reaches further than the request only at the end of the loop.  What was *)
(* cached when the call began is in the cache or in the entry.             *)
(***************************************************************************)
EntryTimes ==
    /\ call.start <= call.bound
    /\ CeilingDate(call.bound) <= call.known
    /\ call.from <= call.start /\ call.start <= call.current /\ call.current <= call.to
    /\ call.to = Requested.e \/ (call.to = call.current /\ Requested.e <= call.to)

EntryApart ==
    \/ call.from = call.start /\ call.current = call.start /\ call.changes = {}
    \/ \A q \in DOMAIN cache : q.e < call.from \/ call.current < q.s

EntryInv ==
    /\ EntryTimes
    /\ EntryApart
    /\ \A c \in call.changes : Sound(c) /\ call.from <= c.time /\ c.time < call.current
    /\ Complete(call.changes, call.from, call.current)
    /\ \A t \in call.kept :
          \/ t \in CachedSeconds
          \/ call.changes # {} /\ call.from <= t /\ t < call.current

DirectInv ==
    /\ \A c \in call.changes : Sound(c) /\ call.start <= c.time
    /\ call.start <= call.bound => Complete(call.changes, call.start, call.bound)
    /\ call.kept \subseteq CachedSeconds

AnswerInv ==
    /\ \A c \in call.changes : Sound(c) /\ call.start <= c.time
    /\ \A x \in Times(history) :
          /\ x + 1 \in Times(history) /\ x + 1 <= call.known
          /\ call.start <= x /\ x < call.end
          => Made(history, x) \subseteq call.changes
    /\ call.kept \subseteq CachedSeconds

CallInv ==
    /\ call # NoCall =>
          /\ call.start < call.end
          /\ call.known <= loaded
          /\ call.depth = StartingDepth(DatabaseUpTo(call.known), call.start)
    /\ call.status = "update" => EntryInv
    /\ call.status = "direct" => DirectInv
    /\ call.status = "returned" => AnswerInv

IInv == TypeOK /\ PeriodsApart /\ CacheInv /\ CallInv

-----------------------------------------------------------------------------
(***************************************************************************)
(* What the queries of the client return, in terms of the history.         *)
(***************************************************************************)
LEMMA LoadedMade ==
    ASSUME NEW n \in Nat, IsHistory(history), NEW x \in Times(DatabaseUpTo(n))
    PROVE  x \in Times(history) /\ Made(DatabaseUpTo(n), x) = Made(history, x)
<1> DEFINE db == DatabaseUpTo(n)
<1>1. /\ Times(db) = {y \in Times(history) : y <= n}
      /\ db.eras = {e \in history.eras : e <= n}
      /\ \A y \in Times(db) : db.episodes[y] = history.episodes[y]
  BY LoadedOf
<1>2. IsHistory(db)
  BY LoadedIsHistory
<1>3. x \in Times(db)
  OBVIOUS
<1> HIDE DEF db
<1>4. x \in db.eras <=> x \in history.eras
  BY <1>1, <1>3
<1>5. x \notin db.eras => x - 1 \in Times(db)
  BY <1>2, <1>3 DEF IsHistory
<1>6. Prior(db, x) = Prior(history, x) /\ db.episodes[x] = history.episodes[x]
  BY <1>1, <1>3, <1>4, <1>5 DEF Prior
<1>7. Made(db, x) = Made(history, x) /\ x \in Times(history)
  BY <1>1, <1>3, <1>6 DEF Made
<1>. QED
  BY <1>7 DEF db

LEMMA SoundTyped ==
    ASSUME IsHistory(history), NEW c, Sound(c)
    PROVE  c \in Changes
<1>1. CASE c.time \in Times(history) /\ c \in Made(history, c.time)
  <2>1. /\ c = Change(c.time, c.level, c.volume)
        /\ c.level \in Levels
        /\ c.volume = history.episodes[c.time][c.level]
    BY <1>1, MadeIs
  <2>2. c.volume \in Volumes /\ c.time \in Int
    BY <1>1, <2>1, BooksTyped, HistoryTyped
  <2>. QED
    BY <2>1, <2>2 DEF Changes, Change
<1>2. CASE Closes(history, c)
  BY <1>2, VolumesAssumption DEF Closes, Changes, Change
<1>. QED
  BY <1>1, <1>2 DEF Sound

LEMMA QuerySound ==
    ASSUME IsHistory(history), loaded \in Nat, NEW start \in Nat, NEW end \in Nat,
           NEW c \in Depth(database, start, end)
    PROVE  Sound(c) /\ start <= c.time /\ c.time < end
<1>1. IsHistory(DatabaseUpTo(loaded))
  BY LoadedIsHistory
<1>2. /\ start <= c.time /\ c.time < end
      /\ \/ c.time \in Times(DatabaseUpTo(loaded)) /\ c \in Made(DatabaseUpTo(loaded), c.time)
         \/ Closes(DatabaseUpTo(loaded), c)
  BY <1>1, DepthSound DEF database
<1>3. Closes(DatabaseUpTo(loaded), c) => Closes(history, c)
  BY LoadedOf DEF Closes
<1>. QED
  BY <1>2, <1>3, LoadedMade DEF Sound

LEMMA QueryComplete ==
    ASSUME IsHistory(history), loaded \in Nat, NEW start \in Nat, NEW end \in Nat,
           NEW x \in Times(history), x + 1 \in Times(history), x + 1 <= loaded,
           start <= x, x < end
    PROVE  Made(history, x) \subseteq Depth(database, start, end)
<1>1. x \in Nat
  BY HistoryTyped
<1>2. x \in Times(DatabaseUpTo(loaded)) /\ x + 1 \in Times(DatabaseUpTo(loaded))
  BY <1>1, LoadedOf
<1>3. IsHistory(DatabaseUpTo(loaded))
  BY LoadedIsHistory
<1>. QED
  BY <1>2, <1>3, DepthComplete, LoadedMade DEF database

LEMMA InitialTyped ==
    ASSUME IsHistory(history), NEW n \in Nat, NEW start \in Nat
    PROVE  StartingDepth(DatabaseUpTo(n), start) \subseteq Changes
<1> SUFFICES ASSUME NEW c \in StartingDepth(DatabaseUpTo(n), start)
             PROVE  c \in Changes
  OBVIOUS
<1>1. IsHistory(DatabaseUpTo(n))
  BY LoadedIsHistory
<1>2. /\ c = Change(start, c.level, OrderBook(DatabaseUpTo(n), start, TRUE)[c.level])
      /\ c.level \in Levels
      /\ start \in Times(DatabaseUpTo(n))
  BY <1>1, StartingDepthSound
<1>3. PICK book : book = OrderBook(DatabaseUpTo(n), start, TRUE)
  OBVIOUS
<1>4. book \in [Levels -> Volumes]
  <2>1. book = Prior(DatabaseUpTo(n), start)
    BY <1>1, <1>2, <1>3, BookBefore
  <2>. QED
    BY <1>1, <1>2, <2>1, BooksTyped
<1>5. c = Change(start, c.level, book[c.level]) /\ book[c.level] \in Volumes /\ c.level \in Levels
  BY <1>2, <1>3, <1>4
<1>. QED
  BY <1>5 DEF Changes, Change

\* A request in whole seconds, and the part of it that may be cached.
LEMMA LoadCachedIs ==
    ASSUME NEW start \in Seconds, NEW end \in Seconds, NEW bound \in 0..MaxTime, start < end
    PROVE  LET until == CachedUntil(end, bound)
           IN  /\ start \in Nat /\ end \in Nat /\ bound \in Nat
               /\ until = (IF end <= bound THEN end ELSE bound)
               /\ until \in Nat
               /\ LoadCached(start, until) = Period(start, CeilingDate(until))
               /\ CeilingDate(until) \in Seconds /\ CeilingDate(until) \in Nat
               /\ until <= CeilingDate(until) /\ CeilingDate(until) <= CeilingDate(bound)
<1> DEFINE until == CachedUntil(end, bound)
<1>1. start \in Nat /\ end \in Nat /\ bound \in Nat /\ bound <= MaxTime
  <2>1. \A b \in 0..MaxTime : b \in Nat /\ b <= MaxTime
    BY CacheAssumption
  <2>2. \A t \in Seconds : t \in Nat
    BY SecondsRounded
  <2>. QED
    BY <2>1, <2>2
<1>2. until = (IF end <= bound THEN end ELSE bound)
  BY DEF CachedUntil
<1> HIDE DEF until
<1>3. until \in Nat /\ until <= bound
  BY <1>1, <1>2
<1>4. /\ until <= CeilingDate(until) /\ CeilingDate(until) <= CeilingDate(bound)
      /\ CeilingDate(until) \in Seconds /\ CeilingDate(until) \in Nat
  BY <1>1, <1>3, Rounding, CeilingMonotone, SecondsRounded, CacheAssumption
<1>5. LoadCached(start, until) = Period(start, CeilingDate(until))
  BY SecondsRounded DEF LoadCached
<1>. QED
  BY <1>1, <1>2, <1>3, <1>4, <1>5 DEF until

LEMMA RequestedIs ==
    ASSUME call \in RunningCalls, call.start < call.end, call.start <= call.bound
    PROVE  /\ call.start \in Nat /\ call.end \in Nat /\ call.bound \in Nat
           /\ Until = (IF call.end <= call.bound THEN call.end ELSE call.bound)
           /\ Until \in Nat
           /\ Requested.s = call.start /\ Requested.e = CeilingDate(Until)
           /\ Requested.e \in Nat
           /\ Until <= Requested.e /\ Requested.e <= CeilingDate(call.bound)
BY LoadCachedIs DEF RunningCalls, Requested, Until, Period

-----------------------------------------------------------------------------
(***************************************************************************)
(* The steps.                                                              *)
(***************************************************************************)
LEMMA InitInv == Init => IInv
<1> SUFFICES ASSUME Init PROVE IInv
  OBVIOUS
<1>1. DOMAIN cache = {}
  BY DEF Init
<1>2. IsHistory(history) /\ loaded \in 0..MaxTime
  BY CacheAssumption DEF Init
<1>3. TypeOK
  BY <1>1, <1>2 DEF Init, TypeOK, CacheTypeOK
<1>4. PeriodsApart /\ CacheInv
  BY <1>1 DEF PeriodsApart, CacheInv
<1>5. CallInv
  BY DEF Init, CallInv, NoCall
<1>. QED
  BY <1>3, <1>4, <1>5 DEF IInv

\* The parts of the invariant that are about the cache, when it does not change.
LEMMA CacheUnchanged ==
    ASSUME IInv, UNCHANGED << history, cache >>
    PROVE  CacheTypeOK' /\ PeriodsApart' /\ CacheInv'
BY DEF IInv, TypeOK, CacheTypeOK, PeriodsApart, CacheInv, Sound, Complete

LEMMA LoadStep ==
    ASSUME IInv, Load
    PROVE  IInv'
<1> USE DEF IInv
<1>1. CacheTypeOK' /\ PeriodsApart' /\ CacheInv'
  BY CacheUnchanged DEF Load
<1>2. loaded \in Nat /\ loaded' = loaded + 1 /\ loaded' \in 0..MaxTime
  BY CacheAssumption DEF Load, TypeOK
<1>3. CASE Running
  <2>1. call' = call /\ history' = history /\ cache' = cache
    BY <1>3 DEF Load
  <2>2. TypeOK'
    BY <1>1, <1>2, <2>1 DEF TypeOK
  <2>3. call \in RunningCalls /\ call # NoCall
    BY <1>3 DEF Running, TypeOK, NoCall, Answers
  <2>4. call.known \in Nat
    BY <2>3, CacheAssumption DEF RunningCalls
  <2>5. CallInv'
    BY <1>2, <2>1, <2>3, <2>4 DEF CallInv, EntryInv, EntryTimes, EntryApart, DirectInv, AnswerInv,
         Sound, Complete, Requested, Until, CachedSeconds, DatabaseUpTo
  <2>. QED
    BY <1>1, <2>2, <2>5
<1>4. CASE ~Running
  <2>1. call' = NoCall /\ history' = history
    BY <1>4 DEF Load
  <2>2. TypeOK'
    BY <1>1, <1>2, <2>1 DEF TypeOK
  <2>3. CallInv'
    BY <2>1 DEF CallInv, NoCall
  <2>. QED
    BY <1>1, <2>2, <2>3
<1>. QED
  BY <1>3, <1>4

LEMMA BeginStep ==
    ASSUME IInv, NEW start \in Seconds, NEW end \in Seconds, NEW bound \in 0..MaxTime,
           start < end, Begin(start, end, bound)
    PROVE  IInv'
<1> DEFINE until == CachedUntil(end, bound)
<1>1. CacheTypeOK' /\ PeriodsApart' /\ CacheInv'
  BY CacheUnchanged DEF Begin
<1>2. UNCHANGED << history, loaded, cache >> /\ CeilingDate(bound) <= loaded
  BY DEF Begin
<1>3. /\ start \in Nat /\ end \in Nat /\ bound \in Nat
      /\ until = (IF end <= bound THEN end ELSE bound)
      /\ until \in Nat
      /\ LoadCached(start, until) = Period(start, CeilingDate(until))
      /\ CeilingDate(until) \in Seconds /\ CeilingDate(until) \in Nat
      /\ until <= CeilingDate(until)
  BY LoadCachedIs
<1>4. call' = [ status  |-> IF start > bound THEN "direct" ELSE "update",
                start   |-> start, end |-> end, bound |-> bound,
                depth   |-> QueryInitialDepth(start),
                from    |-> start, to |-> CeilingDate(until), current |-> start,
                changes |-> {}, known |-> loaded, kept |-> CachedSeconds ]
  BY <1>3 DEF Begin, Period
<1> HIDE DEF until
<1>5. loaded \in Nat /\ loaded \in 0..MaxTime /\ IsHistory(history)
  BY CacheAssumption DEF IInv, TypeOK
<1>6. QueryInitialDepth(start) = StartingDepth(DatabaseUpTo(loaded), start)
  BY SecondsRounded DEF QueryInitialDepth, Format, database
<1>7. QueryInitialDepth(start) \subseteq Changes
  BY <1>3, <1>5, <1>6, InitialTyped
<1>8. call' \in RunningCalls
  <2>1. CachedSeconds \subseteq Seconds
    BY DEF CachedSeconds
  <2>. QED
    BY <1>3, <1>4, <1>5, <1>7, <2>1 DEF RunningCalls
<1>9. TypeOK'
  BY <1>1, <1>2, <1>5, <1>8 DEF TypeOK
<1>10. /\ CachedSeconds' = CachedSeconds
       /\ (call.depth = StartingDepth(DatabaseUpTo(call.known), call.start))'
  BY <1>2, <1>4, <1>6 DEF CachedSeconds, DatabaseUpTo
<1>11. ASSUME call'.status = "update" PROVE EntryInv'
  <2>1. start <= bound
    BY <1>3, <1>4, <1>11
  <2>2. Requested' = Period(start, CeilingDate(until))
    BY <1>3, <1>4 DEF Requested, Until, until
  <2>3. EntryTimes'
    BY <1>2, <1>3, <1>4, <2>1, <2>2 DEF EntryTimes, Period
  <2>4. EntryApart'
    BY <1>4 DEF EntryApart
  <2>5. Complete(call.changes, call.from, call.current)'
    BY <1>2, <1>3, <1>4, <1>5, HistoryTyped DEF Complete
  <2>. QED
    BY <1>4, <1>10, <2>3, <2>4, <2>5 DEF EntryInv
<1>12. ASSUME call'.status = "direct" PROVE DirectInv'
  <2>1. ~(start <= bound)
    BY <1>3, <1>4, <1>12
  <2>. QED
    BY <1>4, <1>10, <2>1 DEF DirectInv
<1>13. CallInv'
  <2>1. call'.status # "returned" /\ call'.start < call'.end /\ call'.known <= loaded'
    BY <1>2, <1>4, <1>5
  <2>. QED
    BY <1>10, <1>11, <1>12, <2>1 DEF CallInv
<1>. QED
  BY <1>1, <1>9, <1>13 DEF IInv

\* What the invariant says of a call that updates the cache.
LEMMA UpdateFacts ==
    ASSUME IInv, call.status = "update"
    PROVE  /\ call \in RunningCalls /\ call # NoCall /\ call.start < call.end
           /\ EntryInv
           /\ \A f \in {call.start, call.from, call.to, call.current, Requested.s, Requested.e, Until} :
                 f \in Nat
           /\ Requested.s = call.start
           /\ Requested.e = call.to \/ Requested.e <= call.to
           /\ Until <= Requested.e /\ Requested.e <= CeilingDate(call.bound)
           /\ CeilingDate(call.bound) \in Nat /\ call.known \in Nat /\ loaded \in Nat
           /\ Requested.e <= call.known /\ call.known <= loaded
<1>1. call # NoCall /\ call \in RunningCalls
  BY DEF IInv, TypeOK, NoCall, Answers
<1>2. call.start < call.end /\ EntryInv /\ call.known <= loaded
  BY <1>1 DEF IInv, CallInv
<1>3. EntryTimes
  BY <1>2 DEF EntryInv
<1>4. /\ call.start \in Nat /\ call.bound \in Nat /\ Until \in Nat /\ Requested.e \in Nat
      /\ Requested.s = call.start
      /\ Until <= Requested.e /\ Requested.e <= CeilingDate(call.bound)
  BY <1>1, <1>2, <1>3, RequestedIs DEF EntryTimes
<1>5. call.from \in Nat /\ call.to \in Nat /\ call.current \in Nat
  BY <1>1, SecondsRounded DEF RunningCalls
<1>6. loaded \in Nat /\ call.known \in Nat
  BY <1>1, CacheAssumption DEF RunningCalls, IInv, TypeOK
<1>7. CeilingDate(call.bound) \in Nat /\ CeilingDate(call.bound) <= call.known
  BY <1>3, <1>4, Rounding DEF EntryTimes
<1>8. Requested.e = call.to \/ Requested.e <= call.to
  BY <1>3 DEF EntryTimes
<1>. QED
  BY <1>1, <1>2, <1>4, <1>5, <1>6, <1>7, <1>8

LEMMA CachedPeriod ==
    ASSUME CacheTypeOK, NEW p \in DOMAIN cache
    PROVE  p.s \in Nat /\ p.e \in Nat /\ p.s < p.e /\ p.s \in Seconds /\ p.e \in Seconds
BY SecondsRounded DEF CacheTypeOK

LEMMA CompleteJoins ==
    ASSUME IsHistory(history), NEW A, NEW B, NEW a \in Nat, NEW b \in Nat, NEW c \in Nat,
           Complete(A, a, b), Complete(B, b, c)
    PROVE  Complete(A \union B, a, c)
BY HistoryTyped DEF Complete

\* A cached period is taken out of the cache and put into the entry.
LEMMA VisitStep ==
    ASSUME IInv, Updating, call.current < call.to,
           NEW p, IsNext(p), NEW changes, Visit(p, changes),
           call.current >= p.s => changes = {},
           call.current < p.s => Complete(changes, call.current, p.s),
           \A c \in changes : Sound(c) /\ call.current <= c.time /\ c.time < p.s
    PROVE  IInv'
<1> DEFINE from == IF call.current >= p.s /\ p.s < call.from THEN p.s ELSE call.from
           to   == IF call.current < p.s /\ p.e > call.to THEN p.e ELSE call.to
           made == call.changes \union changes \union cache[p]
<1>1. /\ TypeOK /\ CacheTypeOK /\ PeriodsApart /\ CacheInv /\ CallInv
      /\ IsHistory(history)
      /\ call.status = "update" /\ ~IsCached(Requested)
  BY DEF IInv, TypeOK, Updating
<1>2. /\ call \in RunningCalls /\ call.start < call.end
      /\ EntryInv
      /\ call.start \in Nat /\ call.from \in Nat /\ call.to \in Nat /\ call.current \in Nat
      /\ Requested.s = call.start /\ Requested.e \in Nat
  BY <1>1, UpdateFacts
<1>3. EntryTimes /\ EntryApart
  BY <1>2 DEF EntryInv
<1>4. /\ p \in DOMAIN cache /\ p.s <= Requested.e /\ call.start <= p.e
      /\ \A q \in DOMAIN cache :
            q.s <= Requested.e /\ q.e >= call.start => p.s < q.s \/ (p.s = q.s /\ p.e <= q.e)
  BY <1>2 DEF IsNext, Relevant
<1>5. p.s \in Nat /\ p.e \in Nat /\ p.s < p.e /\ p.s \in Seconds /\ p.e \in Seconds
  BY <1>1, <1>4, CachedPeriod
<1>6. /\ cache' = [q \in DOMAIN cache \ {p} |-> cache[q]]
      /\ call' = [call EXCEPT !.current = p.e, !.from = from, !.to = to, !.changes = made]
      /\ history' = history /\ loaded' = loaded
  BY DEF Visit, Without
<1> HIDE DEF from, to, made
<1>7. /\ call'.status = "update" /\ call'.start = call.start /\ call'.end = call.end
      /\ call'.bound = call.bound /\ call'.depth = call.depth
      /\ call'.known = call.known /\ call'.kept = call.kept
      /\ call'.from = from /\ call'.to = to /\ call'.current = p.e /\ call'.changes = made
  BY <1>1, <1>2, <1>6 DEF RunningCalls
<1>8. Requested' = Requested
  BY <1>7 DEF Requested, Until
<1>9. CacheTypeOK' /\ PeriodsApart' /\ CacheInv'
  BY <1>1, <1>6 DEF CacheTypeOK, PeriodsApart, CacheInv, Sound, Complete
<1>10. /\ cache[p] \subseteq Changes /\ cache[p] # {}
       /\ \A c \in cache[p] : Sound(c) /\ p.s <= c.time /\ c.time < p.e
       /\ Complete(cache[p], p.s, p.e)
  BY <1>1, <1>4 DEF CacheTypeOK, CacheInv
\* If the period is not after a gap, it is the first, and meets the request's start.
<1>11. ASSUME call.current >= p.s
       PROVE  /\ call.from = call.start /\ call.current = call.start /\ call.changes = {}
              /\ call.to = Requested.e
              /\ p.e < Requested.e
              /\ from = p.s /\ to = call.to
  <2>1. call.from = call.start /\ call.current = call.start /\ call.changes = {}
    BY <1>2, <1>3, <1>4, <1>5, <1>11 DEF EntryTimes, EntryApart
  <2>2. call.to = Requested.e
    BY <1>2, <1>3 DEF EntryTimes
  <2>3. p.e < Requested.e
    BY <1>1, <1>2, <1>4, <1>5, <1>11, <2>1 DEF IsCached, Covers
  <2>. QED
    BY <1>2, <1>5, <1>11, <2>1, <2>2, <2>3 DEF from, to
<1>12. ASSUME call.current < p.s
       PROVE  /\ from = call.from
              /\ call.to = Requested.e
              /\ to = (IF p.e > call.to THEN p.e ELSE call.to)
  BY <1>2, <1>3, <1>5, <1>12 DEF from, to, EntryTimes
<1>13. /\ from \in Nat /\ to \in Nat /\ from \in Seconds /\ to \in Seconds
       /\ from <= call.from /\ from <= p.s
  BY <1>2, <1>3, <1>5, <1>11, <1>12 DEF RunningCalls, EntryTimes
<1>14. EntryTimes'
  <2>1. call.start <= call.bound /\ CeilingDate(call.bound) <= call.known /\ call.from <= call.start
    BY <1>3 DEF EntryTimes
  <2>2. from <= call.start /\ call.start <= p.e
    BY <1>2, <1>4, <1>13, <2>1
  <2>3. p.e <= to /\ (to = Requested.e \/ (to = p.e /\ Requested.e <= to))
    BY <1>2, <1>5, <1>11, <1>12
  <2>. QED
    BY <1>7, <1>8, <2>1, <2>2, <2>3 DEF EntryTimes
<1>15. EntryApart'
  <2> SUFFICES ASSUME NEW q \in DOMAIN cache, q # p
               PROVE  q.e < from \/ p.e < q.s
    BY <1>6, <1>7 DEF EntryApart
  <2>1. q.s \in Nat /\ q.e \in Nat /\ q.s < q.e
    BY <1>1, CachedPeriod
  <2>2. p.e < q.s \/ q.e < p.s
    BY <1>1, <1>4 DEF PeriodsApart
  <2>3. CASE call.current >= p.s
    BY <1>11, <2>2, <2>3
  <2>4. CASE call.current < p.s /\ q.e < p.s
    <3>1. ~(q.s <= Requested.e /\ q.e >= call.start)
      BY <1>4, <1>5, <2>1, <2>4
    <3>2. q.e < call.start
      BY <1>2, <1>4, <1>5, <2>1, <2>4, <3>1
    <3>3. call.from = call.start \/ q.e < call.from \/ call.current < q.s
      BY <1>3 DEF EntryApart
    <3>. QED
      BY <1>2, <1>3, <1>12, <2>1, <2>4, <3>2, <3>3 DEF EntryTimes
  <2>. QED
    BY <1>2, <1>5, <2>2, <2>3, <2>4
<1>16. \A c \in made : Sound(c) /\ from <= c.time /\ c.time < p.e
  <2> SUFFICES ASSUME NEW c \in made
               PROVE  Sound(c) /\ from <= c.time /\ c.time < p.e
    OBVIOUS
  <2>1. CASE c \in call.changes
    <3>1. Sound(c) /\ call.from <= c.time /\ c.time < call.current
      BY <1>2, <2>1 DEF EntryInv
    <3>2. c.time \in Int
      BY <1>1, <3>1, SoundTyped DEF Changes
    <3>3. call.current < p.s
      BY <1>2, <1>5, <1>11, <2>1
    <3>. QED
      BY <1>2, <1>5, <1>13, <3>1, <3>2, <3>3
  <2>2. CASE c \in changes
    <3>1. Sound(c) /\ call.current <= c.time /\ c.time < p.s
      BY <2>2
    <3>2. c.time \in Int
      BY <1>1, <3>1, SoundTyped DEF Changes
    <3>. QED
      BY <1>2, <1>3, <1>5, <1>13, <3>1, <3>2 DEF EntryTimes
  <2>3. CASE c \in cache[p]
    <3>1. Sound(c) /\ p.s <= c.time /\ c.time < p.e
      BY <1>10, <2>3
    <3>2. c.time \in Int
      BY <1>1, <3>1, SoundTyped DEF Changes
    <3>. QED
      BY <1>5, <1>13, <3>1, <3>2
  <2>. QED
    BY <2>1, <2>2, <2>3 DEF made
<1>17. Complete(made, from, p.e)
  <2>1. CASE call.current >= p.s
    BY <1>10, <1>11, <2>1 DEF Complete, made
  <2>2. CASE call.current < p.s
    <3>1. Complete(call.changes, call.from, call.current) /\ Complete(changes, call.current, p.s)
      BY <1>2, <2>2 DEF EntryInv
    <3>2. Complete(call.changes \union changes, call.from, p.s)
      BY <1>1, <1>2, <1>5, <3>1, CompleteJoins
    <3>3. Complete(made, call.from, p.e)
      BY <1>1, <1>2, <1>5, <1>10, <3>2, CompleteJoins DEF made
    <3>. QED
      BY <1>12, <2>2, <3>3
  <2>. QED
    BY <1>2, <1>5, <2>1, <2>2
<1>18. \A t \in call.kept : t \in CachedSeconds' \/ (made # {} /\ from <= t /\ t < p.e)
  <2> SUFFICES ASSUME NEW t \in call.kept
               PROVE  t \in CachedSeconds' \/ (made # {} /\ from <= t /\ t < p.e)
    OBVIOUS
  <2>1. t \in Nat /\ t \in Seconds
    BY <1>2, SecondsRounded DEF RunningCalls
  <2>2. made # {}
    BY <1>10 DEF made
  <2>3. CASE t \in CachedSeconds
    <3>1. PICK q \in DOMAIN cache : q.s <= t /\ t < q.e
      BY <2>3 DEF CachedSeconds
    <3>2. CASE q = p
      BY <1>5, <1>13, <2>1, <2>2, <3>1, <3>2
    <3>3. CASE q # p
      BY <1>6, <2>1, <3>1, <3>3 DEF CachedSeconds
    <3>. QED
      BY <3>2, <3>3
  <2>4. CASE call.changes # {} /\ call.from <= t /\ t < call.current
    BY <1>2, <1>5, <1>11, <1>13, <2>1, <2>2, <2>4
  <2>. QED
    BY <1>2, <2>3, <2>4 DEF EntryInv
<1>19. EntryInv'
  BY <1>6, <1>7, <1>14, <1>15, <1>16, <1>17, <1>18 DEF EntryInv, Sound, Complete
<1>20. TypeOK'
  <2>1. made \subseteq Changes
    BY <1>1, <1>16, SoundTyped
  <2>2. call' \in RunningCalls
    BY <1>2, <1>5, <1>6, <1>13, <2>1 DEF RunningCalls
  <2>. QED
    BY <1>1, <1>6, <1>9, <2>2 DEF TypeOK
<1>21. CallInv'
  <2>1. /\ call # NoCall /\ call.known <= loaded
        /\ call.depth = StartingDepth(DatabaseUpTo(call.known), call.start)
    BY <1>1, UpdateFacts DEF CallInv
  <2>. QED
    BY <1>2, <1>6, <1>7, <1>19, <2>1 DEF CallInv, DatabaseUpTo
<1>. QED
  BY <1>9, <1>20, <1>21 DEF IInv

\* Times of requests are whole seconds: formatting does not change them.
LEMMA QueryOfSeconds ==
    ASSUME NEW start \in Seconds, NEW end \in Seconds
    PROVE  /\ start \in Nat /\ end \in Nat
           /\ QueryDepthUpdates(start, end) = Depth(database, start, end)
BY SecondsRounded DEF QueryDepthUpdates, Format

LEMMA QueryGapStep ==
    ASSUME IInv, NEW p \in DOMAIN cache, QueryGap(p)
    PROVE  IInv'
<1> DEFINE changes == QueryDepthUpdates(call.current, p.s)
<1>1. Updating /\ call.current < call.to /\ IsNext(p) /\ call.current < p.s /\ Visit(p, changes)
  BY DEF QueryGap
<1>2. /\ call \in RunningCalls /\ call.current \in Seconds /\ call.current \in Nat
      /\ loaded \in Nat /\ Requested.e \in Nat /\ Requested.e <= loaded
      /\ IsHistory(history)
  BY <1>1, UpdateFacts DEF Updating, RunningCalls, IInv, TypeOK
<1>3. p.s \in Seconds /\ p.s \in Nat /\ p.s <= Requested.e
  BY <1>1, CachedPeriod DEF IsNext, Relevant, IInv, TypeOK
<1>4. changes = Depth(database, call.current, p.s)
  BY <1>2, <1>3, QueryOfSeconds
<1> HIDE DEF changes
<1>5. \A c \in changes : Sound(c) /\ call.current <= c.time /\ c.time < p.s
  BY <1>2, <1>3, <1>4, QuerySound
<1>6. Complete(changes, call.current, p.s)
  <2> SUFFICES ASSUME NEW x \in Times(history), x + 1 \in Times(history),
                      call.current <= x, x < p.s
               PROVE  Made(history, x) \subseteq changes
    BY DEF Complete
  <2>1. x \in Nat /\ x + 1 <= loaded
    BY <1>2, <1>3, HistoryTyped
  <2>. QED
    BY <1>2, <1>3, <1>4, <2>1, QueryComplete
<1>7. ~(call.current >= p.s)
  BY <1>1, <1>2, <1>3
<1>. QED
  BY <1>1, <1>5, <1>6, <1>7, VisitStep

LEMMA TakeOverStep ==
    ASSUME IInv, NEW p \in DOMAIN cache, TakeOver(p)
    PROVE  IInv'
<1>1. Updating /\ call.current < call.to /\ IsNext(p) /\ call.current >= p.s /\ Visit(p, {})
  BY DEF TakeOver
<1>2. call.current \in Nat /\ p.s \in Nat
  BY <1>1, UpdateFacts, CachedPeriod DEF Updating, IInv, TypeOK
<1>3. ~(call.current < p.s)
  BY <1>1, <1>2
<1>. QED
  BY <1>1, <1>3, VisitStep

LEMMA QueryRestStep ==
    ASSUME IInv, QueryRest
    PROVE  IInv'
<1> DEFINE changes == QueryDepthUpdates(call.current, call.to)
           made == call.changes \union changes
<1>1. /\ Updating /\ call.current < call.to /\ Relevant = {}
      /\ call' = [call EXCEPT !.current = call.to, !.changes = made]
      /\ UNCHANGED << history, loaded, cache >>
  BY DEF QueryRest
<1>2. /\ call \in RunningCalls /\ call # NoCall /\ call.status = "update"
      /\ call.current \in Seconds /\ call.to \in Seconds
      /\ call.start \in Nat /\ call.from \in Nat /\ call.current \in Nat /\ call.to \in Nat
      /\ loaded \in Nat /\ Requested.e \in Nat /\ Requested.e <= loaded
      /\ Requested.s = call.start
      /\ EntryInv /\ CallInv /\ TypeOK /\ IsHistory(history)
  BY <1>1, UpdateFacts DEF Updating, RunningCalls, IInv, TypeOK
<1>3. EntryTimes /\ EntryApart
  BY <1>2 DEF EntryInv
<1>4. call.to = Requested.e
  BY <1>1, <1>2, <1>3 DEF EntryTimes
<1>5. changes = Depth(database, call.current, call.to)
  BY <1>2, QueryOfSeconds
<1> HIDE DEF changes
<1>6. \A c \in changes : Sound(c) /\ call.current <= c.time /\ c.time < call.to
  BY <1>2, <1>5, QuerySound
<1>7. Complete(changes, call.current, call.to)
  <2> SUFFICES ASSUME NEW x \in Times(history), x + 1 \in Times(history),
                      call.current <= x, x < call.to
               PROVE  Made(history, x) \subseteq changes
    BY DEF Complete
  <2>1. x \in Nat /\ x + 1 <= loaded
    BY <1>2, <1>4, HistoryTyped
  <2>. QED
    BY <1>2, <1>5, <2>1, QueryComplete
<1> HIDE DEF made
<1>8. /\ call'.status = "update" /\ call'.start = call.start /\ call'.end = call.end
      /\ call'.bound = call.bound /\ call'.depth = call.depth
      /\ call'.known = call.known /\ call'.kept = call.kept
      /\ call'.from = call.from /\ call'.to = call.to
      /\ call'.current = call.to /\ call'.changes = made
  BY <1>1, <1>2 DEF RunningCalls
<1>9. Requested' = Requested /\ CachedSeconds' = CachedSeconds
  BY <1>1, <1>8 DEF Requested, Until, CachedSeconds
<1>10. EntryTimes'
  BY <1>1, <1>2, <1>3, <1>8, <1>9 DEF EntryTimes
<1>11. EntryApart'
  <2> SUFFICES ASSUME NEW q \in DOMAIN cache
               PROVE  q.e < call.from \/ call.to < q.s
    BY <1>1, <1>8 DEF EntryApart
  <2>1. q.s \in Nat /\ q.e \in Nat /\ q.s < q.e
    BY <1>2, CachedPeriod DEF TypeOK
  <2>2. call.to < q.s \/ q.e < call.start
    BY <1>1, <1>2, <1>4, <2>1 DEF Relevant
  <2>3. call.from = call.start \/ q.e < call.from \/ call.current < q.s
    BY <1>3 DEF EntryApart
  <2>. QED
    BY <1>2, <1>3, <2>1, <2>2, <2>3 DEF EntryTimes
<1>12. \A c \in made : Sound(c) /\ call.from <= c.time /\ c.time < call.to
  <2> SUFFICES ASSUME NEW c \in made
               PROVE  Sound(c) /\ call.from <= c.time /\ c.time < call.to
    OBVIOUS
  <2>1. Sound(c)
    BY <1>2, <1>6 DEF made, EntryInv
  <2>2. c.time \in Int
    BY <1>2, <2>1, SoundTyped DEF Changes
  <2>. QED
    BY <1>1, <1>2, <1>3, <1>6, <2>1, <2>2 DEF made, EntryInv, EntryTimes
<1>13. Complete(made, call.from, call.to)
  BY <1>2, <1>7, CompleteJoins DEF EntryInv, made
<1>14. EntryInv'
  <2>1. \A t \in call.kept : t \in CachedSeconds \/ (made # {} /\ call.from <= t /\ t < call.to)
    <3> SUFFICES ASSUME NEW t \in call.kept, call.changes # {}, call.from <= t, t < call.current
                 PROVE  made # {} /\ call.from <= t /\ t < call.to
      BY <1>2 DEF EntryInv
    <3>1. t \in Nat
      BY <1>2, SecondsRounded DEF RunningCalls
    <3>. QED
      BY <1>1, <1>2, <3>1 DEF made
  <2>. QED
    BY <1>1, <1>8, <1>9, <1>10, <1>11, <1>12, <1>13, <2>1 DEF EntryInv, Sound, Complete
<1>15. CacheTypeOK' /\ PeriodsApart' /\ CacheInv'
  BY <1>1, CacheUnchanged
<1>16. TypeOK'
  <2>1. made \subseteq Changes
    BY <1>2, <1>12, SoundTyped
  <2>2. call' \in RunningCalls
    BY <1>1, <1>2, <2>1 DEF RunningCalls
  <2>. QED
    BY <1>1, <1>2, <1>15, <2>2 DEF TypeOK
<1>17. CallInv'
  BY <1>1, <1>2, <1>8, <1>14 DEF CallInv, DatabaseUpTo
<1>. QED
  BY <1>15, <1>16, <1>17 DEF IInv

(***************************************************************************)
(* .load_from_cache() from a cache that has been updated: it has the part  *)
(* of the request that may be cached, or there are no changes in it.       *)
(***************************************************************************)
LEMMA LoadUpdatedStep ==
    ASSUME IInv, call.status = "update", NEW c, LoadUpdated(c),
           CacheTypeOK', PeriodsApart', CacheInv',
           \A p \in DOMAIN c : (\A x \in c[p] : Sound(x)) /\ Complete(c[p], p.s, p.e),
           \/ \E p \in DOMAIN c : Covers(p, Period(call.start, Until))
           \/ Complete({}, call.start, Until),
           call.kept \subseteq CachedSeconds'
    PROVE  IInv'
<1> DEFINE changes == LoadFromCache(c, call.start, Until)
<1>1. /\ cache' = c /\ history' = history /\ loaded' = loaded
      /\ call' = IF call.end <= call.bound THEN Answer(changes)
                 ELSE [call EXCEPT !.status = "direct", !.changes = changes]
  BY DEF LoadUpdated
<1>2. /\ call \in RunningCalls /\ call # NoCall /\ EntryTimes
      /\ call.start \in Nat /\ Until \in Nat
      /\ CallInv /\ TypeOK /\ IsHistory(history)
      /\ call.known <= loaded
  BY UpdateFacts DEF IInv, TypeOK, EntryInv
<1>3. call.end \in Nat /\ call.bound \in Nat
      /\ Until = (IF call.end <= call.bound THEN call.end ELSE call.bound)
  BY <1>2, RequestedIs DEF EntryTimes, CallInv
<1>4. (\A x \in changes : Sound(x) /\ call.start <= x.time) /\ Complete(changes, call.start, Until)
  <2> DEFINE found == {p \in DOMAIN c : Covers(p, Period(call.start, Until))}
  <2>1. CASE found = {}
    <3>1. changes = {}
      BY <2>1 DEF LoadFromCache
    <3>. QED
      BY <2>1, <3>1
  <2>2. CASE found # {}
    <3>1. PICK p : p = CHOOSE q \in found : TRUE
      OBVIOUS
    <3>2. p \in found
      BY <2>2, <3>1
    <3>3. changes = {x \in c[p] : call.start <= x.time /\ x.time < Until}
      BY <2>2, <3>1 DEF LoadFromCache
    <3>4. p \in DOMAIN c /\ p.s <= call.start /\ Until <= p.e
      BY <3>2 DEF Covers, Period
    <3>5. p.s \in Nat /\ p.e \in Nat
      BY <1>1, <3>4, SecondsRounded DEF CacheTypeOK
    <3> HIDE DEF changes, found
    <3>6. \A x \in changes : Sound(x) /\ call.start <= x.time
      BY <3>3, <3>4
    <3>7. ASSUME NEW x \in Times(history), x + 1 \in Times(history),
                 call.start <= x, x < Until
          PROVE  Made(history, x) \subseteq changes
      <4>1. x \in Nat
        BY <1>2, HistoryTyped
      <4>2. Made(history, x) \subseteq c[p]
        BY <1>2, <3>4, <3>5, <3>7, <4>1 DEF Complete
      <4>3. \A y \in Made(history, x) : y.time = x
        BY <1>2, MadeIs DEF Change
      <4>. QED
        BY <3>3, <3>7, <4>2, <4>3
    <3>. QED
      BY <3>6, <3>7 DEF Complete
  <2>. QED
    BY <2>1, <2>2
<1> HIDE DEF changes
<1>5. changes \subseteq Changes
  BY <1>2, <1>4, SoundTyped
<1>6. CASE call.end <= call.bound
  <2>1. /\ call' = [ status |-> "returned", start |-> call.start, end |-> call.end,
                     depth |-> call.depth, changes |-> changes,
                     known |-> call.known, kept |-> call.kept ]
    BY <1>1, <1>6 DEF Answer
  <2>2. call' \in Answers
    BY <1>2, <1>5, <2>1 DEF RunningCalls, Answers
  <2>3. TypeOK'
    BY <1>1, <1>2, <2>2 DEF TypeOK
  <2>4. AnswerInv'
    <3>1. Complete(changes, call.start, call.end)
      BY <1>3, <1>4, <1>6
    <3>. QED
      BY <1>1, <1>4, <2>1, <3>1 DEF AnswerInv, Sound, Complete
  <2>5. CallInv'
    <3>1. /\ call.start < call.end
          /\ call.depth = StartingDepth(DatabaseUpTo(call.known), call.start)
      BY <1>2 DEF CallInv
    <3>2. /\ call'.start = call.start /\ call'.end = call.end /\ call'.known = call.known
          /\ call'.depth = call.depth /\ call'.status = "returned"
      BY <2>1
    <3>3. (call.depth = StartingDepth(DatabaseUpTo(call.known), call.start))'
      BY <1>1, <3>1, <3>2 DEF DatabaseUpTo
    <3>. QED
      BY <1>1, <1>2, <2>4, <3>1, <3>2, <3>3 DEF CallInv
  <2>. QED
    BY <2>3, <2>5 DEF IInv
<1>7. CASE ~(call.end <= call.bound)
  <2>1. call' = [call EXCEPT !.status = "direct", !.changes = changes]
    BY <1>1, <1>7
  <2>2. /\ call'.status = "direct" /\ call'.start = call.start /\ call'.end = call.end
        /\ call'.bound = call.bound /\ call'.depth = call.depth
        /\ call'.known = call.known /\ call'.kept = call.kept
        /\ call'.changes = changes
        /\ call' \in RunningCalls
    BY <1>2, <1>5, <2>1 DEF RunningCalls
  <2>3. TypeOK'
    BY <1>1, <1>2, <2>2 DEF TypeOK
  <2>4. DirectInv'
    <3>1. Complete(changes, call.start, call.bound)
      BY <1>3, <1>4, <1>7
    <3>. QED
      BY <1>1, <1>4, <2>2, <3>1 DEF DirectInv, Sound, Complete
  <2>5. CallInv'
    BY <1>1, <1>2, <2>2, <2>4 DEF CallInv, DatabaseUpTo
  <2>. QED
    BY <2>3, <2>5 DEF IInv
<1>. QED
  BY <1>6, <1>7

LEMMA ServedStep ==
    ASSUME IInv, Served
    PROVE  IInv'
<1>1. call.status = "update" /\ IsCached(Requested) /\ LoadUpdated(cache)
  BY DEF Served
<1>2. cache' = cache /\ history' = history
  BY <1>1 DEF LoadUpdated
<1>3. CacheTypeOK' /\ PeriodsApart' /\ CacheInv'
  BY <1>2, CacheUnchanged
<1>4. /\ call \in RunningCalls /\ EntryInv /\ EntryTimes /\ EntryApart
      /\ call.start \in Nat /\ call.from \in Nat /\ call.current \in Nat
      /\ Until \in Nat /\ Requested.e \in Nat /\ Until <= Requested.e
      /\ Requested.s = call.start
  BY <1>1, UpdateFacts DEF EntryInv
<1>5. PICK q \in DOMAIN cache : q.s <= call.start /\ Requested.e <= q.e
  BY <1>1, <1>4 DEF IsCached, Covers
<1>6. q.s \in Nat /\ q.e \in Nat /\ q.s < q.e
  BY CachedPeriod DEF IInv, TypeOK
<1>7. Covers(q, Period(call.start, Until))
  BY <1>4, <1>5, <1>6 DEF Covers, Period
<1>8. call.start <= Requested.e
  BY <1>1, <1>4, RequestedIs DEF EntryTimes, IInv, CallInv, RunningCalls, NoCall
<1>9. call.changes = {}
  BY <1>4, <1>5, <1>6, <1>8 DEF EntryApart, EntryTimes
<1>10. call.kept \subseteq CachedSeconds'
  BY <1>2, <1>4, <1>9 DEF EntryInv, CachedSeconds
<1>11. \A p \in DOMAIN cache : (\A x \in cache[p] : Sound(x)) /\ Complete(cache[p], p.s, p.e)
  BY DEF IInv, CacheInv
<1>. QED
  BY <1>1, <1>3, <1>5, <1>7, <1>10, <1>11, LoadUpdatedStep

LEMMA StoreStep ==
    ASSUME IInv, Store
    PROVE  IInv'
<1>1. Updating /\ call.current >= call.to /\ LoadUpdated(WithEntry)
  BY DEF Store
<1>2. cache' = WithEntry /\ history' = history /\ call.status = "update"
  BY <1>1 DEF LoadUpdated, Updating
<1>3. /\ call \in RunningCalls /\ EntryInv /\ EntryTimes /\ EntryApart
      /\ call.start \in Nat /\ call.from \in Nat /\ call.current \in Nat /\ call.to \in Nat
      /\ Until \in Nat /\ Requested.e \in Nat /\ Until <= Requested.e
      /\ IsHistory(history) /\ CacheTypeOK /\ PeriodsApart /\ CacheInv
  BY <1>2, UpdateFacts DEF EntryInv, IInv, TypeOK
<1>4. call.current = call.to /\ Requested.e <= call.to /\ call.from <= call.start
  BY <1>1, <1>3 DEF EntryTimes
<1>5. CASE call.changes = {}
  <2>1. WithEntry = cache /\ cache' = cache
    BY <1>2, <1>5 DEF WithEntry
  <2>2. CacheTypeOK' /\ PeriodsApart' /\ CacheInv'
    BY <1>2, <2>1, CacheUnchanged
  <2>3. Complete({}, call.start, Until)
    BY <1>3, <1>4, <1>5, HistoryTyped DEF EntryInv, Complete
  <2>4. call.kept \subseteq CachedSeconds'
    BY <1>3, <1>5, <2>1 DEF EntryInv, CachedSeconds
  <2>5. \A p \in DOMAIN WithEntry :
           (\A x \in WithEntry[p] : Sound(x)) /\ Complete(WithEntry[p], p.s, p.e)
    BY <1>3, <2>1 DEF CacheInv
  <2>. QED
    BY <1>1, <1>2, <2>2, <2>3, <2>4, <2>5, LoadUpdatedStep
<1>6. CASE call.changes # {}
  <2> DEFINE new == Period(call.from, call.to)
  <2>1. /\ DOMAIN WithEntry = {new} \union DOMAIN cache
        /\ WithEntry[new] = call.changes
        /\ \A q \in DOMAIN cache : q # new => WithEntry[q] = cache[q]
    BY <1>6 DEF WithEntry
  <2>2. new.s = call.from /\ new.e = call.to
    BY DEF Period
  <2>3. /\ new \in [s : Seconds, e : Seconds]
        /\ call.changes \subseteq Changes
        /\ \A c \in call.changes : Sound(c) /\ call.from <= c.time /\ c.time < call.to
    BY <1>3, <1>4 DEF EntryInv, RunningCalls, Period
  <2>4. call.from < call.to
    <3>1. PICK c \in call.changes : TRUE
      BY <1>6
    <3>2. c.time \in Int
      BY <2>3 DEF Changes
    <3>. QED
      BY <1>3, <2>3, <3>2
  <2> HIDE DEF new
  <2>5. CacheTypeOK'
    BY <1>2, <1>3, <1>6, <2>1, <2>2, <2>3, <2>4 DEF CacheTypeOK
  <2>6. PeriodsApart'
    <3>1. \A q \in DOMAIN cache : q.e < call.from \/ call.to < q.s
      BY <1>3, <1>4, <1>6 DEF EntryApart
    <3>. QED
      BY <1>2, <1>3, <2>1, <2>2, <3>1 DEF PeriodsApart
  <2>7. \A p \in DOMAIN WithEntry :
           (\A x \in WithEntry[p] : Sound(x)) /\ Complete(WithEntry[p], p.s, p.e)
    <3>1. Complete(call.changes, call.from, call.to)
      BY <1>3, <1>4 DEF EntryInv
    <3>. QED
      BY <1>3, <2>1, <2>2, <2>3, <3>1 DEF CacheInv
  <2>8. CacheInv'
    BY <1>2, <2>7 DEF CacheInv, Sound, Complete
  <2>9. new \in DOMAIN WithEntry /\ Covers(new, Period(call.start, Until))
    <3>1. Period(call.start, Until).s = call.start /\ Period(call.start, Until).e = Until
      BY DEF Period
    <3>. QED
      BY <1>3, <1>4, <2>1, <2>2, <3>1 DEF Covers
  <2>10. call.kept \subseteq CachedSeconds'
    <3> SUFFICES ASSUME NEW t \in call.kept PROVE t \in CachedSeconds'
      OBVIOUS
    <3>1. t \in Seconds /\ (t \in CachedSeconds \/ (call.from <= t /\ t < call.to))
      BY <1>3, <1>4 DEF EntryInv, RunningCalls
    <3>. QED
      BY <1>2, <2>1, <2>2, <3>1 DEF CachedSeconds
  <2>. QED
    BY <1>1, <1>2, <2>5, <2>6, <2>7, <2>8, <2>9, <2>10, LoadUpdatedStep
<1>. QED
  BY <1>5, <1>6

LEMMA DirectStep ==
    ASSUME IInv, Direct
    PROVE  IInv'
<1> DEFINE from  == IF call.start <= call.bound THEN call.bound ELSE call.start
           queried == QueryDepthUpdates(Max({call.start, call.bound}), call.end)
           made  == call.changes \union queried
<1>1. /\ call.status = "direct" /\ UNCHANGED << history, loaded, cache >>
      /\ call' = [ status |-> "returned", start |-> call.start, end |-> call.end,
                   depth |-> call.depth, changes |-> made,
                   known |-> call.known, kept |-> call.kept ]
  BY DEF Direct, Answer
<1>2. /\ call \in RunningCalls /\ call # NoCall
      /\ TypeOK /\ CallInv /\ DirectInv /\ IsHistory(history)
      /\ loaded \in Nat
  BY <1>1, CacheAssumption DEF IInv, TypeOK, CallInv, NoCall, Answers
<1>3. /\ call.start \in Seconds /\ call.end \in Seconds
      /\ call.start \in Nat /\ call.end \in Nat /\ call.bound \in Nat /\ call.known \in Nat
      /\ call.start < call.end /\ call.known <= loaded
  <2>1. /\ call.start \in Seconds /\ call.end \in Seconds
        /\ call.bound \in 0..MaxTime /\ call.known \in 0..MaxTime
    BY <1>2 DEF RunningCalls
  <2>2. \A b \in 0..MaxTime : b \in Nat
    BY CacheAssumption
  <2>. QED
    BY <1>2, <2>1, <2>2, SecondsRounded DEF CallInv
<1>4. from \in Nat /\ call.start <= from /\ call.bound <= from
  BY <1>3
<1>5. Max({call.start, call.bound}) = from
  <2>1. PICK S : S = {call.start, call.bound}
    OBVIOUS
  <2>2. from \in S /\ \A y \in S : y <= from
    BY <1>3, <2>1
  <2>3. S \in SUBSET (0..from)
    BY <1>3, <1>4, <2>1
  <2> HIDE DEF from
  <2>. QED
    BY <1>4, <2>1, <2>2, <2>3, MaxIs
<1> HIDE DEF from
<1>6. /\ FloorDate(from) \in Nat /\ FloorDate(from) <= from
      /\ call.start <= FloorDate(from)
      /\ FloorDate(call.end) = call.end
  BY <1>3, <1>4, Rounding, FloorMonotone, SecondsRounded
<1>7. queried = Depth(database, FloorDate(from), call.end)
  BY <1>5, <1>6 DEF QueryDepthUpdates, Format
<1> HIDE DEF queried, made
<1>8. \A c \in queried : Sound(c) /\ call.start <= c.time
  <2> SUFFICES ASSUME NEW c \in queried PROVE Sound(c) /\ call.start <= c.time
    OBVIOUS
  <2>1. Sound(c) /\ FloorDate(from) <= c.time
    BY <1>2, <1>3, <1>6, <1>7, QuerySound
  <2>2. c.time \in Int
    BY <1>2, <2>1, SoundTyped DEF Changes
  <2>. QED
    BY <1>3, <1>6, <2>1, <2>2
<1>9. \A c \in made : Sound(c) /\ call.start <= c.time
  BY <1>2, <1>8 DEF made, DirectInv
<1>10. ASSUME NEW x \in Times(history), x + 1 \in Times(history), x + 1 <= call.known,
              call.start <= x, x < call.end
       PROVE  Made(history, x) \subseteq made
  <2>1. x \in Nat
    BY <1>2, HistoryTyped
  <2>2. CASE call.start <= call.bound /\ x < call.bound
    BY <1>2, <1>10, <2>2 DEF DirectInv, Complete, made
  <2>3. CASE ~(call.start <= call.bound /\ x < call.bound)
    <3>1. from <= x
      BY <1>3, <1>10, <2>1, <2>3 DEF from
    <3>2. FloorDate(from) <= x /\ x + 1 <= loaded
      BY <1>2, <1>3, <1>4, <1>6, <1>10, <2>1, <3>1
    <3>3. Made(history, x) \subseteq queried
      BY <1>2, <1>3, <1>6, <1>7, <1>10, <3>2, QueryComplete
    <3>. QED
      BY <3>3 DEF made
  <2>. QED
    BY <2>2, <2>3
<1>11. AnswerInv'
  BY <1>1, <1>2, <1>9, <1>10 DEF AnswerInv, DirectInv, Sound, CachedSeconds
<1>12. CacheTypeOK' /\ PeriodsApart' /\ CacheInv'
  BY <1>1, CacheUnchanged
<1>13. TypeOK'
  <2>1. made \subseteq Changes
    BY <1>2, <1>9, SoundTyped
  <2>2. call' \in Answers
    BY <1>1, <1>2, <2>1 DEF RunningCalls, Answers
  <2>. QED
    BY <1>1, <1>2, <1>12, <2>2 DEF TypeOK
<1>14. CallInv'
  BY <1>1, <1>2, <1>11 DEF CallInv, DatabaseUpTo
<1>. QED
  BY <1>12, <1>13, <1>14 DEF IInv

LEMMA FailStep ==
    ASSUME IInv, Fail
    PROVE  IInv'
<1>1. call' = NoCall /\ UNCHANGED << history, loaded, cache >>
  BY DEF Fail
<1>2. CacheTypeOK' /\ PeriodsApart' /\ CacheInv'
  BY <1>1, CacheUnchanged
<1>3. TypeOK' /\ CallInv'
  BY <1>1, <1>2 DEF IInv, TypeOK, CallInv, NoCall
<1>. QED
  BY <1>2, <1>3 DEF IInv

LEMMA StutterStep ==
    ASSUME IInv, UNCHANGED vars
    PROVE  IInv'
<1>1. CacheTypeOK' /\ PeriodsApart' /\ CacheInv'
  BY CacheUnchanged DEF vars
<1>2. TypeOK' /\ CallInv'
  BY <1>1 DEF vars, IInv, TypeOK, CallInv, EntryInv, EntryTimes, EntryApart, DirectInv, AnswerInv,
       Sound, Complete, Requested, Until, CachedSeconds, DatabaseUpTo
<1>. QED
  BY <1>1, <1>2 DEF IInv

LEMMA Invariance == Spec => []IInv
<1>1. Init => IInv
  BY InitInv
<1>2. IInv /\ [Next]_vars => IInv'
  <2> SUFFICES ASSUME IInv, [Next]_vars PROVE IInv'
    OBVIOUS
  <2>1. CASE Load
    BY <2>1, LoadStep
  <2>2. CASE \E start, end \in Seconds, bound \in 0..MaxTime : start < end /\ Begin(start, end, bound)
    BY <2>2, BeginStep
  <2>3. CASE Served
    BY <2>3, ServedStep
  <2>4. CASE QueryRest
    BY <2>4, QueryRestStep
  <2>5. CASE Store
    BY <2>5, StoreStep
  <2>6. CASE Direct
    BY <2>6, DirectStep
  <2>7. CASE Fail
    BY <2>7, FailStep
  <2>8. CASE \E p \in DOMAIN cache : QueryGap(p) \/ TakeOver(p)
    BY <2>8, QueryGapStep, TakeOverStep
  <2>9. CASE UNCHANGED vars
    BY <2>9, StutterStep
  <2>. QED
    BY <2>1, <2>2, <2>3, <2>4, <2>5, <2>6, <2>7, <2>8, <2>9 DEF Next
<1>. QED
  BY <1>1, <1>2, PTL DEF Spec

-----------------------------------------------------------------------------
(***************************************************************************)
(* Cached periods are of whole seconds and not empty, and every change is  *)
(* in the period it is cached for: see .cache_leaf_key().                  *)
(***************************************************************************)
THEOREM CacheTyped == Spec => []TypeOK
BY Invariance, PTL DEF IInv

(***************************************************************************)
(* .update_cache() puts together all cached periods that meet a request:   *)
(* no two periods of the cache overlap or touch.                           *)
(***************************************************************************)
THEOREM PeriodsStayApart == Spec => []PeriodsApart
BY Invariance, PTL DEF IInv

(***************************************************************************)
(* A call of depth() that returns has lost none of what was cached when it *)
(* began, whichever periods it has taken out of the cache.                 *)
(***************************************************************************)
THEOREM NothingCachedForgotten == Spec => []NothingForgotten
<1>1. IInv => NothingForgotten
  BY DEF IInv, CallInv, NothingForgotten, AnswerInv, NoCall
<1>. QED
  BY <1>1, Invariance, PTL

-----------------------------------------------------------------------------
(***************************************************************************)
(* What is served.  The depth at t is the last of the changes up to t, and *)
(* that is the change of the last episode up to t to change the level.     *)
(***************************************************************************)
Latest(cs) == CHOOSE c \in cs : \A d \in cs : d.time <= c.time

LEMMA LatestIs ==
    ASSUME NEW n \in Nat, NEW cs, cs # {}, \A c \in cs : c.time \in 0..n
    PROVE  Latest(cs) \in cs /\ \A d \in cs : d.time <= Latest(cs).time
<1> DEFINE T == {c.time : c \in cs}
<1>1. T # {} /\ T \in SUBSET (0..n)
  OBVIOUS
<1>2. PICK S : S = T
  OBVIOUS
<1>3. Max(S) \in S /\ \A y \in S : y <= Max(S)
  BY <1>1, <1>2, MaxIsGreatest
<1>4. PICK c \in cs : c.time = Max(S)
  BY <1>2, <1>3
<1>5. \A d \in cs : d.time \in S
  BY <1>2
<1>6. \A d \in cs : d.time <= c.time
  BY <1>3, <1>4, <1>5
<1>. QED
  BY <1>4, <1>6 DEF Latest

\* A level stays as it is while no episode changes it.
LEMMA LevelStays ==
    ASSUME NEW db, IsHistory(db), NEW l \in Levels, NEW m \in Nat, NEW t \in Nat, m <= t,
           m..t \subseteq Times(db),
           \A x \in (m + 1)..t : x \notin db.eras /\ Prior(db, x)[l] = db.episodes[x][l]
    PROVE  db.episodes[t][l] = db.episodes[m][l]
<1> DEFINE T == {y \in Nat : m <= y /\ y <= t /\ db.episodes[y][l] # db.episodes[m][l]}
<1>1. SUFFICES ASSUME T # {} PROVE FALSE
  OBVIOUS
<1>2. PICK y \in T : \A k \in T : y <= k
  BY <1>1, NatMinimum
<1>3. y \in (m + 1)..t /\ y - 1 \in Nat /\ m <= y - 1 /\ y - 1 <= t
  BY <1>2
<1>4. db.episodes[y][l] = db.episodes[y - 1][l]
  BY <1>3 DEF Prior
<1>5. y - 1 \in T
  BY <1>2, <1>3, <1>4
<1>. QED
  BY <1>2, <1>3, <1>5

LEMMA LoadedPrior ==
    ASSUME NEW n \in Nat, IsHistory(history), NEW x \in Times(DatabaseUpTo(n))
    PROVE  Prior(DatabaseUpTo(n), x) = Prior(history, x)
<1> DEFINE db == DatabaseUpTo(n)
<1>1. /\ Times(db) = {y \in Times(history) : y <= n}
      /\ db.eras = {e \in history.eras : e <= n}
      /\ \A y \in Times(db) : db.episodes[y] = history.episodes[y]
  BY LoadedOf
<1>2. IsHistory(db) /\ x \in Times(db)
  BY LoadedIsHistory
<1> HIDE DEF db
<1>3. x \in db.eras <=> x \in history.eras
  BY <1>1, <1>2
<1>4. x \notin db.eras => x - 1 \in Times(db)
  BY <1>2 DEF IsHistory
<1>5. Prior(db, x) = Prior(history, x)
  BY <1>1, <1>3, <1>4 DEF Prior
<1>. QED
  BY <1>5 DEF db

\* No episode of an earlier era is in the request, nor at its start.
LEMMA NoneEarlier ==
    ASSUME NEW db, IsHistory(db), NEW t \in Nat, ErasUpTo(db, t) # {},
           NEW start \in Nat,
           \A e \in ErasUpTo(db, t) \ {EraOf(db, t)} : LastEpisode(db, e) < start,
           NEW x \in Times(db), start <= x, x <= t
    PROVE  EraOf(db, t) <= x
<1> DEFINE era == EraOf(db, x)
<1>1. x \in Nat /\ ErasUpTo(db, x) # {}
  BY EraWithoutGaps, HistoryTyped
<1>2. era \in db.eras /\ era <= x /\ \A e \in db.eras : e <= x => e <= era
  BY <1>1, EraOfIsLast
<1>3. era \in Nat /\ EraOf(db, t) \in Nat /\ \A e \in db.eras : e \in Nat
  BY <1>2, EraOfIsLast, HistoryTyped
<1> HIDE DEF era
<1>4. x <= LastEpisode(db, era) /\ LastEpisode(db, era) \in Nat
  <2>1. \A e \in NextEras(db, era) : x < e
    BY <1>1, <1>2, <1>3 DEF NextEras
  <2>. QED
    BY <1>2, <2>1, LastEpisodeIs, HistoryTyped
<1>5. era \in ErasUpTo(db, t)
  BY <1>1, <1>2, <1>3 DEF ErasUpTo
<1>6. era = EraOf(db, t)
  BY <1>1, <1>4, <1>5
<1>. QED
  BY <1>2, <1>6

(***************************************************************************)
(* One level at one instant of an answer.                                  *)
(***************************************************************************)
VolumeAt(depth, changes, l, t) ==
    LET upTo(cs) == {c \in cs : c.level = l /\ c.time <= t}
    IN  IF upTo(changes) # {} THEN Latest(upTo(changes)).volume
        ELSE IF upTo(depth) # {} THEN Latest(upTo(depth)).volume ELSE 0

LEMMA LevelServed ==
    ASSUME IsHistory(history), NEW known \in Nat, NEW start \in Nat, NEW end \in Nat,
           NEW changes,
           \A c \in changes : Sound(c) /\ start <= c.time,
           \A x \in Times(history) :
              x + 1 \in Times(history) /\ x + 1 <= known /\ start <= x /\ x < end
              => Made(history, x) \subseteq changes,
           NEW t \in Nat, start <= t, t < end,
           ErasUpTo(DatabaseUpTo(known), t) # {},
           t < LastEpisode(DatabaseUpTo(known), EraOf(DatabaseUpTo(known), t)),
           \A e \in ErasUpTo(DatabaseUpTo(known), t) \ {EraOf(DatabaseUpTo(known), t)} :
              LastEpisode(DatabaseUpTo(known), e) < start,
           NEW l \in Levels
    PROVE  history.episodes[t][l] =
               VolumeAt(StartingDepth(DatabaseUpTo(known), start), changes, l, t)
<1> DEFINE db == DatabaseUpTo(known)
           era == EraOf(db, t)
           last == LastEpisode(db, era)
           first == IF era <= start THEN start ELSE era
           upTo(cs) == {c \in cs : c.level = l /\ c.time <= t}
           made == upTo(changes)
           initial == upTo(StartingDepth(db, start))
           M == {x \in first..t : Prior(history, x)[l] # history.episodes[x][l]}
<1>1. /\ Times(db) = {x \in Times(history) : x <= known}
      /\ db.eras = {e \in history.eras : e <= known}
      /\ \A x \in Times(db) : db.episodes[x] = history.episodes[x]
      /\ IsHistory(db)
  BY LoadedOf, LoadedIsHistory
<1>2. era \in db.eras /\ era <= t /\ \A e \in db.eras : e <= t => e <= era
  BY <1>1, EraOfIsLast
<1>3. /\ era \in Nat /\ last \in Nat /\ t < last
      /\ era..last \subseteq Times(db)
      /\ \A x \in era..last : x \in db.eras => x = era
  BY <1>1, <1>2, WithinEra
<1>4. \A x \in Times(db) : Prior(db, x) = Prior(history, x)
  BY LoadedPrior DEF db
<1>5. \A x \in Times(db) : start <= x /\ x <= t => era <= x
  BY <1>1, NoneEarlier DEF db, era
<1>6. StartingDepth(DatabaseUpTo(known), start) = StartingDepth(db, start)
  BY DEF db
<1> HIDE DEF db, era, last, made, initial, M
<1>7. first \in Nat /\ first <= t /\ era <= first /\ start <= first
  BY <1>2, <1>3
<1>8. \A x \in first..t :
         /\ x \in Nat /\ era <= x /\ start <= x
         /\ x \in Times(history) /\ x + 1 \in Times(history) /\ x + 1 <= known /\ x < end
         /\ x \in Times(db) /\ x + 1 \in Times(db)
         /\ (x \in history.eras => x = era)
  <2> SUFFICES ASSUME NEW x \in first..t
               PROVE  /\ x \in Nat /\ era <= x /\ start <= x
                      /\ x \in Times(history) /\ x + 1 \in Times(history) /\ x + 1 <= known /\ x < end
                      /\ x \in Times(db) /\ x + 1 \in Times(db)
                      /\ (x \in history.eras => x = era)
    OBVIOUS
  <2>1. x \in Nat /\ era <= x /\ start <= x /\ x < end
    BY <1>3, <1>7
  <2>2. x \in era..last /\ x + 1 \in era..last
    BY <1>3, <1>7, <2>1
  <2>3. x \in Times(db) /\ x + 1 \in Times(db)
    BY <1>3, <2>2
  <2>4. x <= known
    BY <1>1, <2>3
  <2>. QED
    BY <1>1, <1>3, <2>1, <2>2, <2>3, <2>4
\* The changes up to t: of this era's episodes, and of levels closed before it.
<1>9. \A c \in made :
         /\ c.time \in 0..t
         /\ \/ c.time \in M /\ c.volume = history.episodes[c.time][l]
            \/ c.time < era /\ start < era /\ c.volume = 0
  <2> SUFFICES ASSUME NEW c \in made
               PROVE  /\ c.time \in 0..t
                      /\ \/ c.time \in M /\ c.volume = history.episodes[c.time][l]
                         \/ c.time < era /\ start < era /\ c.volume = 0
    OBVIOUS
  <2>1. c \in changes /\ c.level = l /\ c.time <= t
    BY DEF made
  <2>2. Sound(c) /\ start <= c.time
    BY <2>1
  <2>3. CASE c.time \in Times(history) /\ c \in Made(history, c.time)
    <3>1. c.time \in Nat
      BY <2>3, HistoryTyped
    <3>2. t \in Times(db)
      BY <1>3, <1>2
    <3>3. c.time \in Times(db)
      BY <1>1, <2>1, <2>3, <3>1, <3>2, HistoryTyped
    <3>4. c.time \in first..t
      BY <1>5, <1>7, <2>1, <2>2, <3>1, <3>3
    <3>5. /\ c.volume = history.episodes[c.time][l]
          /\ Prior(history, c.time)[l] # history.episodes[c.time][l]
      BY <2>1, <2>3, MadeIs
    <3>. QED
      BY <2>1, <3>1, <3>4, <3>5 DEF M
  <2>4. CASE Closes(history, c)
    <3>1. /\ c.time \in Nat /\ c.time + 1 \in history.eras /\ c.volume = 0
      BY <2>4 DEF Closes, Change
    <3>2. t \in Times(history) /\ t <= known
      BY <1>1, <1>2, <1>3
    <3>3. c.time # t
      BY <3>1, <3>2 DEF IsHistory
    <3>4. c.time + 1 <= t /\ c.time + 1 \in db.eras
      BY <1>1, <2>1, <3>1, <3>2, <3>3
    <3>5. c.time + 1 <= era
      BY <1>2, <3>4
    <3>. QED
      BY <1>3, <2>1, <2>2, <3>1, <3>5
  <2>. QED
    BY <2>2, <2>3, <2>4 DEF Sound
<1>10. made # {} => Latest(made) \in made /\ \A d \in made : d.time <= Latest(made).time
  BY <1>9, LatestIs
<1>11. CASE M # {}
  <2>1. M \in SUBSET (0..t)
    <3>1. \A x \in M : x \in Nat /\ x <= t
      BY <1>7 DEF M
    <3>. QED
      BY <3>1
  <2>2. PICK m \in M : \A x \in M : x <= m
    BY <1>11, <2>1, MaxIsGreatest
  <2>3. m \in first..t /\ m \in Nat /\ m <= t
        /\ Prior(history, m)[l] # history.episodes[m][l]
    BY <1>7, <2>2 DEF M
  <2>4. PICK c : c = Change(m, l, history.episodes[m][l])
    OBVIOUS
  <2>5. c.time = m /\ c.level = l /\ c \in Made(history, m)
    BY <1>8, <2>3, <2>4 DEF Made, DepthChange, Change
  <2>6. c \in made
    BY <1>8, <2>3, <2>5 DEF made
  <2>7. PICK d : d = Latest(made)
    OBVIOUS
  <2>8. d \in made /\ m <= d.time
    BY <1>10, <2>5, <2>6, <2>7
  <2>9. d.time \in M /\ d.volume = history.episodes[d.time][l]
    BY <1>3, <1>8, <1>9, <2>3, <2>8
  <2>10. d.time = m
    <3>1. d.time <= m
      BY <2>2, <2>9
    <3>2. \A x \in M : x \in Nat
      <4>1. \A x \in 0..t : x \in Nat
        OBVIOUS
      <4>. QED
        BY <2>1, <4>1
    <3>3. d.time \in Nat
      BY <2>9, <3>2
    <3>4. m \in Nat /\ m <= d.time
      BY <2>3, <2>8
    <3>. QED
      BY <3>1, <3>3, <3>4
  <2>11. history.episodes[t][l] = history.episodes[m][l]
    <3>1. \A x \in (m + 1)..t : x \in first..t /\ x \notin M /\ x # era
      BY <1>3, <1>7, <1>8, <2>2, <2>3
    <3>2. \A x \in (m + 1)..t : x \notin history.eras /\ Prior(history, x)[l] = history.episodes[x][l]
      BY <1>8, <3>1 DEF M
    <3>3. m..t \subseteq Times(history)
      BY <1>7, <1>8, <2>3
    <3>. QED
      BY <2>3, <3>2, <3>3, LevelStays
  <2>12. history.episodes[t][l] = Latest(made).volume /\ made # {}
    BY <2>6, <2>7, <2>9, <2>10, <2>11
  <2>. QED
    BY <2>12 DEF made, VolumeAt
<1>12. CASE M = {}
  <2>1. \A x \in first..t : Prior(history, x)[l] = history.episodes[x][l]
    BY <1>12 DEF M
  <2>2. history.episodes[t][l] = Prior(history, first)[l]
    <3>1. \A x \in (first + 1)..t : x \in first..t /\ x # era
      BY <1>3, <1>7
    <3>2. \A x \in (first + 1)..t : x \notin history.eras /\ Prior(history, x)[l] = history.episodes[x][l]
      BY <1>8, <2>1, <3>1
    <3>3. first..t \subseteq Times(history) /\ first \in first..t
      BY <1>7, <1>8
    <3>. QED
      BY <1>7, <2>1, <3>2, <3>3, LevelStays
  <2>3. era = first => Prior(history, first)[l] = 0
    BY <1>1, <1>2 DEF Prior, EmptyBook
  <2>4. CASE made # {}
    <3>1. Latest(made).volume = 0 /\ start < era
      BY <1>9, <1>10, <1>12, <2>4
    <3>2. era = first
      BY <1>3, <3>1
    <3>3. history.episodes[t][l] = Latest(made).volume
      BY <2>2, <2>3, <3>1, <3>2
    <3>. QED
      BY <2>4, <3>3 DEF made, VolumeAt
  <2>5. CASE made = {} /\ initial # {}
    <3>1. \A c \in initial :
             /\ c.time = start /\ c.volume = Prior(history, start)[l]
             /\ start \in Times(db)
      <4> SUFFICES ASSUME NEW c \in initial
                   PROVE  /\ c.time = start /\ c.volume = Prior(history, start)[l]
                          /\ start \in Times(db)
        OBVIOUS
      <4>1. c \in StartingDepth(db, start) /\ c.level = l
        BY DEF initial
      <4>2. c = Change(start, c.level, OrderBook(db, start, TRUE)[c.level]) /\ start \in Times(db)
        BY <1>1, <4>1, StartingDepthSound
      <4>3. OrderBook(db, start, TRUE) = Prior(history, start)
        BY <1>1, <1>4, <4>2, BookBefore
      <4>4. PICK book : book = OrderBook(db, start, TRUE)
        OBVIOUS
      <4>5. c = Change(start, l, book[l])
        BY <4>1, <4>2, <4>4
      <4>6. c.time = start /\ c.volume = book[l]
        BY <4>5 DEF Change
      <4>. QED
        BY <4>2, <4>3, <4>4, <4>6
    <3>2. Latest(initial) \in initial
      BY <2>5, <3>1, LatestIs
    <3>3. start \in Times(db)
      BY <3>1, <3>2
    <3>4. first = start
      BY <1>5, <3>3
    <3>5. history.episodes[t][l] = Latest(initial).volume
      BY <2>2, <3>1, <3>2, <3>4
    <3>. QED
      BY <1>6, <2>5, <3>5 DEF made, initial, VolumeAt
  <2>6. CASE made = {} /\ initial = {}
    <3>1. Prior(history, first)[l] = 0
      <4>1. CASE first = era
        BY <2>3, <4>1
      <4>2. CASE first # era
        <5>1. first = start /\ start \in first..t
          BY <1>3, <1>7, <4>2
        <5>2. start \in Times(db) /\ start + 1 \in Times(db)
          BY <1>8, <5>1
        <5>3. OrderBook(db, start, TRUE) = Prior(history, start)
          BY <1>1, <1>4, <5>2, BookBefore
        <5>4. Prior(history, start)[l] \in Nat
          <6>1. start \in Times(history)
            BY <1>8, <5>1
          <6>2. Prior(history, start) \in [Levels -> Volumes]
            BY <6>1, BooksTyped
          <6>3. Prior(history, start)[l] \in Volumes
            BY <6>2
          <6>. QED
            BY <6>3, VolumesAssumption
        <5>5. ~(Prior(history, start)[l] > 0)
          <6>1. SUFFICES ASSUME Prior(history, start)[l] > 0 PROVE FALSE
            OBVIOUS
          <6>2. Change(start, l, OrderBook(db, start, TRUE)[l]) \in StartingDepth(db, start)
            BY <1>1, <5>2, <5>3, <6>1, StartingDepthComplete
          <6>3. Change(start, l, OrderBook(db, start, TRUE)[l]) \in initial
            BY <6>2 DEF initial, Change
          <6>. QED
            BY <2>6, <6>3
        <5>. QED
          BY <5>1, <5>4, <5>5
      <4>. QED
        BY <4>1, <4>2
    <3>. QED
      BY <1>6, <2>2, <2>6, <3>1 DEF made, initial, VolumeAt
  <2>. QED
    BY <2>4, <2>5, <2>6
<1>. QED
  BY <1>11, <1>12

(***************************************************************************)
(* Whatever has been cached, in which pieces, and whatever is loaded       *)
(* between the queries of a call: the depth served is the order book's.    *)
(***************************************************************************)
THEOREM DepthServedExactly == Spec => []ServedExactly
<1>1. IInv => ServedExactly
  <2> SUFFICES ASSUME IInv, call.status = "returned", NEW t \in Asked,
                      \A e \in ErasUpTo(Known, t) \ {EraOf(Known, t)} :
                         LastEpisode(Known, e) < call.start
               PROVE  Replayed(t) = OrderBook(database, t, FALSE)
    BY DEF ServedExactly
  <2>1. /\ call \in Answers /\ call # NoCall /\ IsHistory(history) /\ AnswerInv /\ CallInv
        /\ loaded \in Nat
    BY CacheAssumption DEF IInv, TypeOK, CallInv, NoCall, RunningCalls
  <2>2. call.start \in Nat /\ call.end \in Nat /\ call.known \in Nat
    <3>1. call.start \in Seconds /\ call.end \in Seconds /\ call.known \in 0..MaxTime
      BY <2>1 DEF Answers
    <3>2. \A b \in 0..MaxTime : b \in Nat
      BY CacheAssumption
    <3>. QED
      BY <3>1, <3>2, SecondsRounded
  <2>3. t \in Nat /\ call.start <= t /\ t < call.end
    BY <2>2 DEF Asked
  <2>4. /\ ErasUpTo(Known, t) # {} /\ t < LastEpisode(Known, EraOf(Known, t))
    BY DEF Asked
  <2>5. t \in Times(database)
    <3>1. IsHistory(Known)
      BY <2>1, <2>2, LoadedIsHistory DEF Known
    <3>2. EraOf(Known, t) \in Known.eras /\ EraOf(Known, t) <= t
      BY <2>3, <2>4, <3>1, EraOfIsLast
    <3>3. t \in Times(Known)
      BY <2>3, <2>4, <3>1, <3>2, WithinEra
    <3>4. t \in Times(history) /\ t <= call.known
      BY <2>2, <3>3, LoadedOf DEF Known
    <3>. QED
      BY <2>1, <2>2, <2>3, <3>4, LoadedOf DEF database, CallInv
  <2>6. OrderBook(database, t, FALSE) = history.episodes[t] /\ t \in Times(history)
    <3>1. IsHistory(database)
      BY <2>1, LoadedIsHistory DEF database
    <3>. QED
      BY <2>1, <2>5, <3>1, BookAfter, LoadedOf DEF database
  <2>7. history.episodes[t] \in [Levels -> Volumes]
    BY <2>1, <2>6, BooksTyped
  <2> DEFINE volume(l) == VolumeAt(call.depth, call.changes, l, t)
  <2>8. \A l \in Levels : history.episodes[t][l] = volume(l)
    <3> SUFFICES ASSUME NEW l \in Levels PROVE history.episodes[t][l] = volume(l)
      OBVIOUS
    <3>1. call.depth = StartingDepth(DatabaseUpTo(call.known), call.start)
      BY <2>1 DEF CallInv
    <3>2. (\A c \in call.changes : Sound(c) /\ call.start <= c.time)
      BY <2>1 DEF AnswerInv
    <3>3. \A x \in Times(history) :
              x + 1 \in Times(history) /\ x + 1 <= call.known /\ call.start <= x /\ x < call.end
              => Made(history, x) \subseteq call.changes
      BY <2>1 DEF AnswerInv
    <3>4. PICK known, start, end, changes, depth :
             /\ known = call.known /\ start = call.start /\ end = call.end
             /\ changes = call.changes /\ depth = call.depth
      OBVIOUS
    <3>5. /\ known \in Nat /\ start \in Nat /\ end \in Nat
          /\ start <= t /\ t < end
          /\ depth = StartingDepth(DatabaseUpTo(known), start)
      BY <2>2, <2>3, <3>1, <3>4
    <3>6. \A c \in changes : Sound(c) /\ start <= c.time
      BY <3>2, <3>4
    <3>7. \A x \in Times(history) :
              x + 1 \in Times(history) /\ x + 1 <= known /\ start <= x /\ x < end
              => Made(history, x) \subseteq changes
      BY <3>3, <3>4
    <3>8. /\ ErasUpTo(DatabaseUpTo(known), t) # {}
          /\ t < LastEpisode(DatabaseUpTo(known), EraOf(DatabaseUpTo(known), t))
          /\ \A e \in ErasUpTo(DatabaseUpTo(known), t) \ {EraOf(DatabaseUpTo(known), t)} :
                LastEpisode(DatabaseUpTo(known), e) < start
      BY <2>4, <3>4 DEF Known
    <3>9. history.episodes[t][l] =
              VolumeAt(StartingDepth(DatabaseUpTo(known), start), changes, l, t)
      BY <2>1, <2>3, <3>5, <3>6, <3>7, <3>8, LevelServed
    <3>. QED
      BY <3>4, <3>5, <3>9
  <2>9. Replayed(t) = [l \in Levels |-> volume(l)]
    BY DEF Replayed, Latest, VolumeAt
  <2> HIDE DEF volume
  <2>. QED
    BY <2>6, <2>7, <2>8, <2>9
<1>. QED
  BY <1>1, Invariance, PTL
=============================================================================
