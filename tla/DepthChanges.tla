---------------------------- MODULE DepthChanges ----------------------------
(***************************************************************************)
(* The extension src/db/c/obadiah_db: depth_change_by_episode() and        *)
(* spread_by_episode(), which read level3 through a cursor, keep the order *)
(* book up to date episode by episode, and return the price levels, or the *)
(* spreads, that changed.  They are set-returning functions: every call    *)
(* returns one row and goes on where the previous call left.               *)
(*                                                                         *)
(* What they should return is defined with the order books of the schema:  *)
(* the full join of the books before and after an episode, as              *)
(* depth_change_by_episode_slow() computes it.                             *)
(*                                                                         *)
(* Prices and amounts are integers instead of long doubles, so volumes are *)
(* compared exactly.  A level that is missing has the price -1.  A cursor, *)
(* a deque or an episode is a set of rows: its order is that of Before.    *)
(***************************************************************************)
EXTENDS Level3Table, FiniteSetsExt

CONSTANTS
    SideOf,         \* the side of an order: "b" or "s"
    FetchCount,     \* SPI_CURSOR_FETCH_COUNT
    Frequencies,    \* p_frequency, in instants; 1 stands for NULL
    Starts,         \* p_start_time
    Tables          \* what level3 may hold of an era

VARIABLES
    level3,         \* the table
    query,          \* the arguments of the call
    phase,          \* what the function does next
    cursor,         \* the rows the cursor has not fetched yet
    events_deque,   \* the rows fetched
    current_episode,\* the time of the episode next() puts together
    episode,        \* its rows, as far as they have not been processed
    by_order_id,    \* the order book: the live orders of a side
    touched,        \* the price levels of a side whose volume has been saved
    l2,             \* the changes not yet returned
    bid, ask,       \* the depth: the volumes of a side's prices
    answer          \* history: what has been returned

vars == << level3, query, phase, cursor, events_deque, current_episode, episode,
           by_order_id, touched, l2, bid, ask, answer >>

Sides == {"b", "s"}
Empty == << >>

\* The era begins at the first instant.
Eras == [e \in {1} |-> MaxTime]

\* The order in which the cursor returns rows.
Before(a, b) ==
    \/ a.mts < b.mts
    \/ a.mts = b.mts /\ a.id < b.id
    \/ a.mts = b.mts /\ a.id = b.id /\ a.no < b.no
IsFirst(row, rows) == row \in rows /\ \A r \in rows \ {row} : Before(row, r)

Deleted(row) == row.next = MinusInfinity

(***************************************************************************)
(* What the loading and its triggers make of level3, see Level3Loading: a  *)
(* row that is not a deletion lasts until the next row of its order, or    *)
(* for ever.                                                               *)
(***************************************************************************)
Later(table, row) == {r \in table : r.id = row.id /\ Before(row, r)}
IsTable(table) ==
    /\ table \subseteq Rows /\ IsFiniteSet(table)
    /\ PrimaryKey(table)
    /\ \A row \in table :
          \/ Deleted(row)
          \/ Later(table, row) = {} /\ row.next = Infinity
          \/ \E r \in Later(table, row) :
                row.next = r.mts /\ \A x \in Later(table, row) : r.mts <= x.mts

ASSUME DepthAssumption ==
    /\ Orders \subseteq Int
    /\ SideOf \in [Orders -> Sides]
    /\ FetchCount \in Nat \ {0}
    /\ Frequencies \subseteq Nat \ {0}
    /\ Starts \subseteq Times
    /\ \A table \in Tables : IsTable(table)

\* get._date_ceiling() of a finite time.
DateCeiling(t) == ((t - 1) \div query.frequency + 1) * query.frequency

\* The rows the cursor returns, and the times it returns them with.
RowsOfQuery == {r \in level3 : query.start <= r.mts /\ r.mts <= MaxTime}
TimeOf(row) == DateCeiling(row.mts)

-----------------------------------------------------------------------------
(***************************************************************************)
(* The order book, per side.                                               *)
(***************************************************************************)
Volume(rows) == MapThenSumSet(LAMBDA r : r.amount, rows)
PriceLevelVolume(orders, price) == Volume({r \in orders : r.price = price})

Replaced(orders, row) == {r \in orders : r.id = row.id}

\* A price level is touched when its volume is saved, before its first change.
\* The rows of the starting order book have the times of level3.
Touch(levels, orders, row, prices) ==
    LET time == IF phase = "initial" THEN row.mts ELSE TimeOf(row)
    IN  [p \in DOMAIN levels \union prices |->
           IF p \in DOMAIN levels THEN levels[p]
           ELSE [time |-> time, volume |-> PriceLevelVolume(orders, p)]]

\* Mutant: the price an order leaves is not touched.
TouchedAtNewPrice(orders, row) == {row.price}
TouchedPrices(orders, row) == {row.price} \union {r.price : r \in Replaced(orders, row)}

OrdersWith(orders, row) ==
    (orders \ Replaced(orders, row)) \union IF Deleted(row) THEN {} ELSE {row}

\* clean_touched(): the levels of a side that have changed.
ChangesOf(s) ==
    { [ time |-> touched[s][p].time, side |-> s, price |-> p,
        volume |-> PriceLevelVolume(by_order_id[s], p) ]
      : p \in {p \in DOMAIN touched[s] :
                  PriceLevelVolume(by_order_id[s], p) # touched[s][p].volume} }
Changes == UNION {ChangesOf(s) : s \in Sides}

Untouched == [s \in Sides |-> Empty]

(***************************************************************************)
(* The depth and its spread.                                               *)
(***************************************************************************)
\* Mutant: a level that has become empty stays.
UpdateLevelsOnly(levels, changes) ==
    [p \in DOMAIN levels \union {c.price : c \in changes} |->
        IF \E c \in changes : c.price = p
        THEN (CHOOSE c \in changes : c.price = p).volume ELSE levels[p]]

UpdateLevels(levels, changes) ==
    LET kept == DOMAIN levels \ {c.price : c \in changes}
        set  == {c \in changes : c.volume > 0}
    IN  [p \in kept \union {c.price : c \in set} |->
            IF p \in kept THEN levels[p] ELSE (CHOOSE c \in set : c.price = p).volume]

SpreadOf(bids, asks) ==
    LET b == IF DOMAIN bids = {} THEN -1 ELSE Max(DOMAIN bids)
        a == IF DOMAIN asks = {} THEN -1 ELSE Min(DOMAIN asks)
    IN  [ bid |-> b, bidQty |-> IF b = -1 THEN -1 ELSE bids[b],
          ask |-> a, askQty |-> IF a = -1 THEN -1 ELSE asks[a] ]

-----------------------------------------------------------------------------
Init ==
    /\ level3 \in Tables
    /\ query \in [kind : {"depth", "spread"}, start : Starts, frequency : Frequencies]
    /\ phase = "first call"
    /\ cursor = {} /\ events_deque = {}
    /\ current_episode = Null /\ episode = {}
    /\ by_order_id = [s \in Sides |-> {}]
    /\ touched = Untouched
    /\ l2 = {}
    /\ bid = Empty /\ ask = Empty
    /\ answer = << >>

(***************************************************************************)
(* episode::initial(): the order book before the start is read, and the    *)
(* cursor is opened.                                                       *)
(***************************************************************************)
FirstCall ==
    /\ phase = "first call"
    /\ episode' = LiveBefore(level3, Eras, query.start)
    /\ cursor' = RowsOfQuery
    /\ phase' = "initial"
    /\ UNCHANGED << level3, query, events_deque, current_episode, by_order_id, touched,
                    l2, bid, ask, answer >>

(***************************************************************************)
(* One row updates its side of the order book: the levels it changes are   *)
(* touched, and it takes the place of the order's previous row.  The rows  *)
(* of the starting order book come by price.                               *)
(***************************************************************************)
InTurn(row) ==
    IF phase = "initial" THEN \A r \in episode : row.price <= r.price
    ELSE IsFirst(row, episode)

UpdateOrder ==
    /\ phase \in {"initial", "update"}
    /\ \E row \in episode :
         /\ InTurn(row)
         /\ LET s == SideOf[row.id]
            IN  /\ touched' = [touched EXCEPT ![s] =
                      Touch(@, by_order_id[s], row, TouchedPrices(by_order_id[s], row))]
                /\ by_order_id' = [by_order_id EXCEPT ![s] = OrdersWith(@, row)]
         /\ episode' = episode \ {row}
    /\ UNCHANGED << level3, query, phase, cursor, events_deque, current_episode, l2,
                    bid, ask, answer >>

(***************************************************************************)
(* The levels of the starting order book are discarded, or make the first  *)
(* depth.                                                                  *)
(***************************************************************************)
StartingDepth ==
    /\ phase = "initial" /\ episode = {}
    /\ IF query.kind = "depth"
       THEN UNCHANGED << bid, ask >>
       ELSE /\ bid' = UpdateLevels(bid, ChangesOf("b"))
            /\ ask' = UpdateLevels(ask, ChangesOf("s"))
    /\ touched' = Untouched
    /\ phase' = "next"
    /\ UNCHANGED << level3, query, cursor, events_deque, current_episode, episode,
                    by_order_id, l2, answer >>

(***************************************************************************)
(* episode::next(): rows are fetched when the deque is empty, and taken    *)
(* while they belong to the episode; it is complete when another one       *)
(* follows in the deque or when there is nothing to fetch.                 *)
(***************************************************************************)
Fetched(rows) == {r \in rows : Cardinality({x \in rows : Before(x, r)}) < FetchCount}

Fetch ==
    /\ phase = "next"
    /\ events_deque = {} /\ cursor # {}
    /\ events_deque' = Fetched(cursor)
    /\ cursor' = cursor \ Fetched(cursor)
    /\ UNCHANGED << level3, query, phase, current_episode, episode, by_order_id, touched,
                    l2, bid, ask, answer >>

BelongsTo(row) == current_episode \in {Null, TimeOf(row)}

Take ==
    /\ phase = "next"
    /\ \E row \in events_deque :
         /\ IsFirst(row, events_deque)
         /\ BelongsTo(row)
         /\ current_episode' = TimeOf(row)
         /\ episode' = episode \union {row}
         /\ events_deque' = events_deque \ {row}
    /\ UNCHANGED << level3, query, phase, cursor, by_order_id, touched, l2, bid, ask, answer >>

AnotherFollows ==
    \E row \in events_deque : IsFirst(row, events_deque) /\ ~BelongsTo(row)

\* Mutant: an episode ends where a batch of the cursor ends.
CompleteWhenDequeEmpty ==
    /\ phase = "next"
    /\ episode # {}
    /\ AnotherFollows \/ events_deque = {}
    /\ phase' = "update"
    /\ UNCHANGED << level3, query, cursor, events_deque, current_episode, episode,
                    by_order_id, touched, l2, bid, ask, answer >>

Complete ==
    /\ phase = "next"
    /\ episode # {}
    /\ AnotherFollows \/ (events_deque = {} /\ cursor = {})
    /\ phase' = "update"
    /\ UNCHANGED << level3, query, cursor, events_deque, current_episode, episode,
                    by_order_id, touched, l2, bid, ask, answer >>

NoMoreData ==
    /\ phase = "next"
    /\ episode = {} /\ events_deque = {} /\ cursor = {}
    /\ phase' = "done"
    /\ UNCHANGED << level3, query, cursor, events_deque, current_episode, episode,
                    by_order_id, touched, l2, bid, ask, answer >>

(***************************************************************************)
(* The order book has been updated with an episode.  Without changes the   *)
(* next episode is read.                                                   *)
(***************************************************************************)
UpdateForDepth ==
    /\ phase = "update" /\ episode = {} /\ query.kind = "depth"
    /\ l2' = Changes
    /\ phase' = IF Changes = {} THEN "next" ELSE "return"
    /\ touched' = Untouched
    /\ current_episode' = Null
    /\ UNCHANGED << level3, query, cursor, events_deque, episode, by_order_id, bid, ask,
                    answer >>

\* Rows of the answer by time; the changes of an episode by side and price.
Earlier(a, b) ==
    \/ a.time < b.time
    \/ /\ query.kind = "depth" /\ a.time = b.time
       /\ \/ a.side = "b" /\ b.side = "s"
          \/ a.side = b.side /\ a.price < b.price

\* Every call returns the first of the changes that are left.
ReturnChange ==
    /\ phase = "return"
    /\ \E change \in l2 :
         /\ \A c \in l2 \ {change} : Earlier(change, c)
         /\ answer' = Append(answer, change)
         /\ l2' = l2 \ {change}
         /\ phase' = IF l2 = {change} THEN "next" ELSE "return"
    /\ UNCHANGED << level3, query, cursor, events_deque, current_episode, episode,
                    by_order_id, touched, bid, ask >>

\* The changes go to the depth, and its spread is returned if it changed.
UpdateForSpread ==
    /\ phase = "update" /\ episode = {} /\ query.kind = "spread"
    /\ bid' = UpdateLevels(bid, ChangesOf("b"))
    /\ ask' = UpdateLevels(ask, ChangesOf("s"))
    /\ answer' = IF Changes = {} \/ SpreadOf(bid', ask') = SpreadOf(bid, ask)
                 THEN answer
                 ELSE Append(answer, [ time |-> (CHOOSE c \in Changes : TRUE).time,
                                       spread |-> SpreadOf(bid', ask') ])
    /\ touched' = Untouched
    /\ current_episode' = Null
    /\ phase' = "next"
    /\ UNCHANGED << level3, query, cursor, events_deque, episode, by_order_id, l2 >>

\* The function has returned its last row, and is not called again.
Done == phase = "done" /\ UNCHANGED vars

Next ==
    \/ FirstCall \/ UpdateOrder \/ StartingDepth
    \/ Fetch \/ Take \/ Complete \/ NoMoreData
    \/ UpdateForDepth \/ ReturnChange \/ UpdateForSpread
    \/ Done

Spec == Init /\ [][Next]_vars

-----------------------------------------------------------------------------
(***************************************************************************)
(* The reference: the order books of the schema before and after every     *)
(* episode, and what differs between them (_depth_change()).               *)
(***************************************************************************)
Episodes == {TimeOf(r) : r \in RowsOfQuery}

\* The order book after some episodes.
LiveAfter(episodes) ==
    IF episodes = {} THEN LiveBefore(level3, Eras, query.start)
    ELSE LiveAt(level3, Eras, IF Max(episodes) < MaxTime THEN Max(episodes) ELSE MaxTime)
EpisodesBefore(t) == {e \in Episodes : e < t}
EpisodesUpTo(t) == {e \in Episodes : e <= t}

OfSide(live, s) == {r \in live : SideOf[r.id] = s}
LevelsOf(live, s) ==
    [p \in {p \in Prices : PriceLevelVolume(OfSide(live, s), p) > 0} |->
        PriceLevelVolume(OfSide(live, s), p)]

DepthChange(before, after, t) ==
    UNION {
      { [time |-> t, side |-> s, price |-> p, volume |-> PriceLevelVolume(OfSide(after, s), p)]
        : p \in {p \in Prices : PriceLevelVolume(OfSide(before, s), p)
                                  # PriceLevelVolume(OfSide(after, s), p)} }
      : s \in Sides }

SpreadAfter(live) == SpreadOf(LevelsOf(live, "b"), LevelsOf(live, "s"))
SpreadChange(before, after, t) ==
    IF SpreadAfter(before) = SpreadAfter(after) THEN {}
    ELSE {[time |-> t, spread |-> SpreadAfter(after)]}

ExpectedAt(t) ==
    LET before == LiveAfter(EpisodesBefore(t))
        after  == LiveAfter(EpisodesUpTo(t))
    IN  IF query.kind = "depth" THEN DepthChange(before, after, t)
                                ELSE SpreadChange(before, after, t)
ExpectedAnswer == UNION {ExpectedAt(t) : t \in Episodes}

-----------------------------------------------------------------------------
(***************************************************************************)
(* Type invariant.                                                         *)
(***************************************************************************)
TypeOK ==
    /\ IsTable(level3)
    /\ query \in [kind : {"depth", "spread"}, start : Starts, frequency : Frequencies]
    /\ phase \in {"first call", "initial", "next", "update", "return", "done"}
    /\ cursor \union events_deque \union episode \subseteq level3
    /\ Cardinality(events_deque) <= FetchCount
    /\ current_episode \in Nat
    /\ \A s \in Sides : /\ by_order_id[s] \subseteq {r \in level3 : SideOf[r.id] = s}
                        /\ \A a, b \in by_order_id[s] : a.id = b.id => a = b
                        /\ DOMAIN touched[s] \subseteq Prices
    /\ \A levels \in {bid, ask} :
         \A p \in DOMAIN levels : p \in Prices /\ levels[p] > 0

(***************************************************************************)
(* The answer is exact: the changes of all levels, or of the spread,       *)
(* between the schema's order books before and after each episode, in      *)
(* order, none twice and none that changes nothing, wherever the batches   *)
(* of the cursor end ("it is possible that some level3 episodes will not   *)
(* generate level2 changes", obadiah_db.cpp:227).                          *)
(***************************************************************************)
AnswerExact ==
    /\ \A i, j \in DOMAIN answer : i < j => Earlier(answer[i], answer[j])
    /\ \A i \in DOMAIN answer : answer[i] \in ExpectedAnswer
    /\ \A row \in ExpectedAnswer :
         \/ \E i \in DOMAIN answer : answer[i] = row
         \/ phase # "done" /\ \A i \in DOMAIN answer : Earlier(answer[i], row)

(***************************************************************************)
(* The extension's order book is order_book() of the schema whenever an    *)
(* episode has been processed.                                             *)
(***************************************************************************)
BookIsLive ==
    phase \in {"next", "return", "done"} /\ episode = {} =>
        LET read == {t \in Episodes : \A r \in events_deque \union cursor : t < TimeOf(r)}
        IN  \A s \in Sides : by_order_id[s] = OfSide(LiveAfter(read), s)
=============================================================================
