---------------------------- MODULE Level3Repairs ---------------------------
(***************************************************************************)
(* Repairs of level3 (src/db/obanalytics_schema.sql), as they are run by   *)
(* hand or after a transfer of events: merge_episodes() moves the events   *)
(* of a period to its end, fix_crossed_books() removes orders that should  *)
(* have been removed by the exchange and merges episodes until no bid is   *)
(* above an ask, insert_level3_era() splits an era, and the deletion of a  *)
(* row takes the rest of its chain with it.                                *)
(*                                                                         *)
(* A call is a transaction: it commits if the constraints hold at its end, *)
(* and otherwise raises an exception and changes nothing.  The steps of    *)
(* fix_crossed_books() are actions, with nothing in between.  Events are   *)
(* loaded, then one repair is called.  All times fall into one partition;  *)
(* the propagation of times to the tables of Bitstamp and to matches is    *)
(* left out, and level1 and level2 have been cleared, as                   *)
(* insert_level3_era() demands.                                            *)
(***************************************************************************)
EXTENDS Level3Table, FiniteSetsExt

CONSTANTS
    Bids,               \* the orders that buy; the others sell
    MaxChange,          \* parameters.max_microtimestamp_change()
    ProcessingInterval, \* v_processing_interval
    MaxEras             \* bound: eras

ASSUME RepairsAssumption ==
    /\ Bids \subseteq Orders
    /\ MaxChange \in Nat
    /\ ProcessingInterval \in Nat \ {0}
    /\ MaxEras \in Nat
    /\ MaxTime >= 1         \* the first era starts at the first instant

VARIABLES
    clock,      \* the time of the last episode
    level3,     \* obanalytics.level3
    eras,       \* obanalytics.level3_eras
    fix,        \* where fix_crossed_books() is
    saved,      \* the tables when it began
    call        \* history: the repair that was called

vars == << clock, level3, eras, fix, saved, call >>

NoCall == [name |-> "none"]
NotFixing == [phase |-> "idle"]
Tables(table, ers) == [level3 |-> table, eras |-> ers]

Init ==
    /\ clock = 0
    /\ level3 = {}
    /\ eras = [e \in {1} |-> Null]
    /\ fix = NotFixing
    /\ saved = Tables({}, << >>)
    /\ call = NoCall

-----------------------------------------------------------------------------
(***************************************************************************)
(* order_book(): is_maker says that an order crossed none of the older     *)
(* ones when it got its price, is_crossed that a newer one crosses it.     *)
(***************************************************************************)
IsBid(r) == r.id \in Bids
Older(x, r) == x.pmts < r.pmts \/ (x.pmts = r.pmts /\ x.mts <= r.mts)
Crosses(r, x) ==
    /\ IsBid(r) # IsBid(x)
    /\ IF IsBid(r) THEN r.price > x.price ELSE r.price < x.price

IsMaker(r, live) == ~\E x \in live : Older(x, r) /\ Crosses(r, x)
IsCrossed(r, live) == \E x \in live : Older(r, x) /\ Crosses(r, x)

(***************************************************************************)
(* level1_continuous(): the best prices after the episodes that changed    *)
(* them or their volumes, of the parts of a period that lie within eras    *)
(* and have a length.  A missing price is taken from the other side.       *)
(***************************************************************************)
PeriodsWithinEras(ers, from, to) ==
    LET last(e)  == IF ers[e] = Null THEN e ELSE ers[e]
        start(e) == Max({e, from})
        end(e)   == Min({last(e), to} \union {x \in DOMAIN ers : x > e})
    IN  {[start |-> start(e), end |-> end(e)] :
           e \in {e \in DOMAIN ers : from <= last(e) /\ to >= e /\ end(e) > start(e)}}

Quote(rows) ==
    LET best == {r \in rows : \A x \in rows : IF IsBid(r) THEN x.price <= r.price
                                                        ELSE r.price <= x.price}
    IN  [ price |-> IF rows = {} THEN Null ELSE (CHOOSE r \in best : TRUE).price,
          qty   |-> MapThenSumSet(LAMBDA r : r.amount, best) ]
Spread(live) == [ bid |-> Quote({r \in live : IsBid(r)}), ask |-> Quote({r \in live : ~IsBid(r)}) ]

Level1(table, ers, from, to) ==
    LET periods == PeriodsWithinEras(ers, from, to)
        times   == {t \in {r.mts : r \in table} :
                      \E p \in periods : t \in p.start..p.end}
        changes == {t \in times : Spread(LiveBefore(table, ers, t)) # Spread(LiveAt(table, ers, t))}
        row(t, s) == [ mts |-> t,
                       bid |-> IF s.bid.price = Null THEN s.ask.price ELSE s.bid.price,
                       ask |-> IF s.ask.price = Null THEN s.bid.price ELSE s.ask.price ]
    IN  {row(t, Spread(LiveAt(table, ers, t))) : t \in changes}

(***************************************************************************)
(* crossed_books(): the periods in which the best bid is above the best    *)
(* ask.  They are the odd ones when the rows are cut where "crossed"       *)
(* changes; after an empty book it is cut only where a crossed one begins. *)
(***************************************************************************)
CrossedBooks(table, ers, from, to) ==
    LET rows       == Level1(table, ers, from, to)
        before(r)  == {x \in rows : x.mts < r.mts}
        lag(r)     == {x \in before(r) : \A y \in before(r) : y.mts <= x.mts}
        crossed(r) == r.bid > r.ask
        cuts       == {r \in rows :
                        /\ r.bid # Null
                        /\ IF \E x \in lag(r) : x.bid # Null
                           THEN \E x \in lag(r) : crossed(x) # crossed(r)
                           ELSE crossed(r)}
        isOdd(r)   == Cardinality({x \in cuts : x.mts <= r.mts}) % 2 = 1
        next(r)    == {x.mts : x \in {x \in cuts : x.mts > r.mts}}
    IN  {[ first_crossed  |-> r.mts,
           next_uncrossed |-> IF next(r) = {} THEN Null ELSE Min(next(r)) ] :
         r \in {r \in cuts : isOdd(r) /\ \A x \in IF lag(r) = {} THEN {r} ELSE lag(r) : x.mts < to}}

-----------------------------------------------------------------------------
(***************************************************************************)
(* An UPDATE that turns rows r into new[r], and may change keys: the       *)
(* foreign keys of rows that refer to them follow (ON UPDATE CASCADE).     *)
(***************************************************************************)
Update(table, new) ==
    LET moved == {r \in table : Key(new[r]) # Key(r)}
        follow(r, mts, no) == {x \in moved : Key(x) = << mts, r.id, no >>}
        cascade(r) ==
            LET next  == IF r.nextNo = Null THEN {} ELSE follow(r, r.next, r.nextNo)
                price == follow(r, r.pmts, r.pno)
                now(xs) == new[CHOOSE x \in xs : TRUE]
            IN  [r EXCEPT !.next   = IF next = {} THEN @ ELSE now(next).mts,
                          !.nextNo = IF next = {} THEN @ ELSE now(next).no,
                          !.pmts   = IF price = {} THEN @ ELSE now(price).mts,
                          !.pno    = IF price = {} THEN @ ELSE now(price).no]
    IN  {cascade(new[r]) : r \in table}

\* No key is used twice: the primary key is checked at once.
KeysApart(table, new) == \A r, x \in table : r # x => Key(new[r]) # Key(new[x])

\* check_microtimestamp_change(), which raises when the transaction ends.
WithinMaxChange(table, new) ==
    \A r \in table : r.mts <= new[r].mts /\ new[r].mts <= r.mts + MaxChange

\* Slips an edit of the repairs could make, used to show that the properties
\* tell them from the code, stand before the definition they are slips of.
MergedAll(table, from, to, r) ==
    IF from < r.mts /\ r.mts < to THEN [r EXCEPT !.mts = to] ELSE r

(***************************************************************************)
(* merge_episodes(): the events of [from, to) move to to; but if an order  *)
(* is deleted and comes back within the period, the events up to its       *)
(* deletion move there.                                                    *)
(***************************************************************************)
Merged(table, from, to, r) ==
    LET period    == {x \in table : from <= x.mts /\ x.mts < to}
        own       == {x \in period : x.id = r.id}
        deaths    == {x.mts : x \in {x \in own : x.mts >= r.mts /\ x.next = MinusInfinity}}
        nextDeath == IF deaths = {} THEN Infinity ELSE Min(deaths)
        comesBack == nextDeath < Max({x.mts : x \in own})
    IN  IF r \notin period THEN r
        ELSE [r EXCEPT
                !.mts  = IF comesBack THEN nextDeath ELSE to,
                !.next = IF IsFinite(@) /\ comesBack /\ @ <= nextDeath THEN nextDeath
                         ELSE IF IsFinite(@) /\ @ < to THEN to
                         ELSE @]

MergeEpisodes(db, from, to) ==
    LET new == [r \in db.level3 |-> Merged(db.level3, from, to, r)]
    IN  [ db EXCEPT !.level3 = Update(@, new),
                    !.raised = @ \/ ~KeysApart(db.level3, new),
                    !.ok = @ /\ WithinMaxChange(db.level3, new) ]

-----------------------------------------------------------------------------
(***************************************************************************)
(* The episodes that are loaded: an order is placed, changed or deleted.   *)
(***************************************************************************)
Idle == fix = NotFixing
Loading == Idle /\ call = NoCall /\ clock < MaxTime
LiveNow(o) == {r \in LiveAt(level3, eras, clock + 1) : r.id = o}

Episode(o, price, amount) ==
    LET new == [ mts |-> clock + 1, id |-> o, no |-> Null, price |-> price, amount |-> amount,
                 next |-> IF price = 0 THEN MinusInfinity ELSE Infinity, nextNo |-> Null,
                 pmts |-> Null, pno |-> Null ]
    IN  /\ Loading /\ DOMAIN eras # {}
        /\ price = 0 => LiveNow(o) # {}
        /\ clock' = clock + 1
        /\ level3' = InsertRows(level3, eras, {new})
        /\ Consistent(level3')
        /\ eras' = UpdateEras(eras, {new})
        /\ UNCHANGED << fix, saved, call >>

StartEra ==
    /\ Loading
    /\ clock + 1 \notin DOMAIN eras
    /\ Cardinality(DOMAIN eras) < MaxEras
    /\ eras' = [e \in DOMAIN eras \union {clock + 1} |->
                  IF e \in DOMAIN eras THEN eras[e] ELSE Null]
    /\ UNCHANGED << clock, level3, fix, saved, call >>

\* A quiet instant.
Tick ==
    /\ Loading
    /\ clock' = clock + 1
    /\ UNCHANGED << level3, eras, fix, saved, call >>

(***************************************************************************)
(* A repair called by hand is a transaction of its own.                    *)
(***************************************************************************)
CanRepair == Idle /\ call = NoCall
\* The callers pass a period of one era that has been loaded.
WithinEra(from, to) ==
    /\ from < to /\ to <= clock
    /\ ErasUpTo(eras, from) # {} /\ ErasUpTo(eras, from) = ErasUpTo(eras, to)

Call(name, from, to) == [name |-> name, from |-> from, to |-> to]

Commits(db) == ~db.raised /\ db.ok /\ Consistent(db.level3)

Commit(called, new) ==
    /\ \E db \in {new} :
          /\ Commits(db)
          /\ level3' = db.level3
          /\ eras' = db.eras
    /\ call' = called
    /\ UNCHANGED << clock, fix, saved >>

\* The tables in a transaction: "raised" by an exception, "ok" by the checks
\* that are deferred to its end.
Database == [level3 |-> level3, eras |-> eras, ok |-> TRUE, raised |-> FALSE]

Merge(from, to) ==
    /\ CanRepair
    /\ WithinEra(from, to)
    /\ Commit(Call("merge", from, to), MergeEpisodes(Database, from, to))

(***************************************************************************)
(* DELETE of a row: level3_update_chain_after_delete() ends the chain with *)
(* the row before it and deletes those after it.                           *)
(***************************************************************************)
PointsAt(x, r) == << x.next, x.id, x.nextNo >> = Key(r)

\* The rows of a chain are at different instants, so they are at most MaxTime.
ChainAfter(table, r) ==
    LET within[n \in 0..MaxTime] ==
            IF n = 0 THEN {}
            ELSE LET before == {r} \union within[n - 1]
                 IN  {x \in table : \E y \in before : PointsAt(y, x)}
    IN  within[MaxTime]

Removed(r) == [r EXCEPT !.next = MinusInfinity, !.nextNo = Null]   \* a slip
Open(r) == [r EXCEPT !.next = Infinity, !.nextNo = Null]

Delete(r) ==
    LET removed == {r} \union ChainAfter(level3, r)
        before(x) == /\ r.no > 1
                     /\ InEraOf(eras, r.mts, x.mts) /\ x.mts <= r.mts
                     /\ PointsAt(x, r)
    IN  /\ CanRepair
        /\ Commit(Call("delete", r.mts, r.id), [Database EXCEPT
             !.level3 = {IF before(x) THEN Open(x) ELSE x : x \in @ \ removed}])

(***************************************************************************)
(* insert_level3_era(): the rows that are followed by an event after the   *)
(* new era's start are repeated at its start, where their chains start     *)
(* anew, and are open in the old era.  Rows that nothing follows are not   *)
(* repeated.  A row of the new era takes the start of its price from the   *)
(* row before it, and its number in the old chain if the price is older    *)
(* than the era.                                                           *)
(***************************************************************************)
GoesOnAfter(r, start) ==    \* a slip
    IsFinite(r.next) /\ r.next > start
GoesOn(r, start) == IsFinite(r.next) /\ r.next >= start

NewChain(r, start) == [r EXCEPT !.mts = start, !.no = 1, !.pmts = start, !.pno = 1]
SplitMoves(table, over, start) ==   \* a slip
    (table \ over) \union {NewChain(r, start) : r \in over}
Split(table, over, start) ==
    (table \ over) \union {Open(r) : r \in over} \union {NewChain(r, start) : r \in over}

LastChange(rows) == IF rows = {} THEN Null ELSE Max({r.next : r \in rows})   \* a slip
LastEvent(rows) == IF rows = {} THEN Null ELSE Max({r.mts : r \in rows})

InsertEra(start) ==
    LET before  == ErasUpTo(eras, start)
        after   == {e \in DOMAIN eras : e >= start}
        inOld(r) == Max(before) <= r.mts /\ r.mts < start
        inNew(r) == start <= r.mts /\ r.mts < Min(after)
        crosses(r) == inOld(r) /\ GoesOn(r, start)
        first(x)  == \E r \in level3 : crosses(r) /\ PointsAt(r, x)
        heads(x)  == {r \in level3 : crosses(r) /\ x \in ChainAfter(level3, r)}
        pred(x)   == CHOOSE r \in level3 : PointsAt(r, x)
        number(x) == x.no - (CHOOSE r \in heads(x) : TRUE).no + 1
        renumber(x) ==
            IF ~inNew(x) \/ heads(x) = {} THEN x
            ELSE [x EXCEPT
                    !.no   = number(x),
                    !.pmts = IF first(x) \/ pred(x).pmts < start THEN start ELSE pred(x).pmts,
                    !.pno  = IF first(x) THEN 1
                             ELSE IF pred(x).pmts < start THEN pred(x).pno ELSE pred(x).no]
        new     == [x \in level3 |-> renumber(x)]
        table   == Update(level3, new)
        rows    == Split(table, {r \in table : crosses(r)}, start)
    IN  /\ CanRepair
        /\ before # {} /\ after # {} /\ start \notin DOMAIN eras
        /\ start <= clock
        /\ Commit(Call("split", Max(before), start), [ Database EXCEPT
                    !.level3 = rows,
                    !.eras = [e \in DOMAIN eras \union {start} |->
                                IF e = start THEN LastEvent({r \in rows : inNew(r)})
                                ELSE IF e = Max(before) THEN LastEvent({r \in rows : inOld(r)})
                                ELSE eras[e]],
                    !.raised = ~KeysApart(level3, new) ])

(***************************************************************************)
(* DELETE of an era: level3_eras_delete() deletes its events.              *)
(***************************************************************************)
DeleteEraOnly(era) ==       \* a slip: its events go to the era before it
    /\ CanRepair
    /\ Commit(Call("delete era", era, era),
              [Database EXCEPT !.eras = Restrict(@, DOMAIN @ \ {era})])

DeleteEra(era) ==
    LET next == {e \in DOMAIN eras : e > era}
        gone(r) == era <= r.mts /\ \A e \in next : r.mts < e
    IN  /\ CanRepair
        /\ Commit(Call("delete era", era, era), [ Database EXCEPT
                    !.level3 = {r \in @ : ~gone(r)},
                    !.eras = Restrict(@, DOMAIN @ \ {era}) ])

-----------------------------------------------------------------------------
(***************************************************************************)
(* fix_crossed_books(), piece by piece.  In a piece the first crossed book *)
(* that can be repaired is, and then the books are looked at from there;   *)
(* when none can, the episodes of those that are left are merged into the  *)
(* next that is not crossed, if there is one in the piece.                 *)
(***************************************************************************)
FixCrossedBooks(from, to) ==
    /\ CanRepair
    /\ WithinEra(from, to)
    /\ fix' = [ phase |-> "repair", start |-> from, crossed |-> from, from |-> from, to |-> to,
                end |-> Min({from + ProcessingInterval, to}), ok |-> TRUE, repairs |-> 0 ]
    /\ saved' = Tables(level3, eras)
    /\ UNCHANGED << clock, level3, eras, call >>

\* An exception: nothing was done.
Rollback ==
    /\ level3' = saved.level3
    /\ eras' = saved.eras
    /\ fix' = NotFixing
    /\ call' = Call("failed", fix.from, fix.to)

\* Orders that crossed others and stayed for ever.
EternalOrders(book) == {r \in book : r.next = Infinity}    \* a slip
EternalTakers(book) == {r \in book : ~IsMaker(r, book) /\ r.next = Infinity}
\* The times at which other takers change next.
TakersMove(book) == {r.next : r \in {r \in book : /\ ~IsMaker(r, book)
                                                  /\ IsFinite(r.next)
                                                  /\ r.next <= r.mts + MaxChange}}
\* Orders that newer ones cross and that stay for ever.
EternalCrossed(book) == {r \in book : IsCrossed(r, book) /\ r.next = Infinity}

CanBeRepaired(book) ==
    EternalTakers(book) \union EternalCrossed(book) # {} \/ TakersMove(book) # {}

InsertAgain(rows, t, book) ==       \* a slip: the events do not delete
    LET at == Max({r.mts : r \in book})
        events == {[r EXCEPT !.mts = at, !.no = Null, !.pmts = Null, !.pno = Null] : r \in rows}
    IN  /\ level3' = InsertRows(level3, eras, events)
        /\ eras' = UpdateEras(eras, events)
        /\ fix' = [fix EXCEPT !.crossed = t, !.repairs = @ + 1]
        /\ UNCHANGED call

\* The deletions are inserted at the time of the book's latest event; the trigger
\* raises too_many_rows when an order is in the table twice, and the primary key
\* is checked at once.
Deletions(rows, at) ==
    {[r EXCEPT !.mts = at, !.no = Null, !.next = MinusInfinity, !.nextNo = Null,
               !.pmts = Null, !.pno = Null] : r \in rows}
DeleteOrders(rows, t, book) ==
    LET deletions == Deletions(rows, Max({r.mts : r \in book}))
        new == InsertRows(level3, eras, deletions)
    IN  IF \/ \E d \in deletions : Cardinality(Previous(level3, eras, d)) > 1
           \/ ~PrimaryKey(new)
        THEN Rollback
        ELSE /\ level3' = new
             /\ eras' = UpdateEras(eras, deletions)
             /\ fix' = [fix EXCEPT !.crossed = t, !.repairs = @ + 1]
             /\ UNCHANGED call

RemoveEternalTakers(t, book) ==
    /\ EternalTakers(book) # {}
    /\ DeleteOrders(EternalTakers(book), t, book)

MergeToNextTaker(t, book) ==
    /\ EternalTakers(book) = {} /\ TakersMove(book) # {}
    /\ \E db \in {MergeEpisodes(Database, t, Max(TakersMove(book)))} :
           IF db.raised THEN Rollback
           ELSE /\ level3' = db.level3
                /\ fix' = [fix EXCEPT !.crossed = t, !.repairs = @ + 1, !.ok = @ /\ db.ok]
                /\ UNCHANGED << eras, call >>

RemoveEternalCrossed(t, book) ==
    /\ EternalTakers(book) = {} /\ TakersMove(book) = {} /\ EternalCrossed(book) # {}
    /\ DeleteOrders(EternalCrossed(book), t, book)

Repair ==
    /\ fix.phase = "repair"
    /\ LET crossed  == {b.first_crossed : b \in CrossedBooks(level3, eras, fix.crossed, fix.end)}
           toRepair == {t \in crossed : CanBeRepaired(LiveAt(level3, eras, t))}
       IN  IF toRepair = {}
           THEN /\ fix' = [fix EXCEPT !.phase = "merge"]
                /\ UNCHANGED << level3, eras, call >>
           ELSE \E t \in {Min(toRepair)} : LET book == LiveAt(level3, eras, t) IN
                   \/ RemoveEternalTakers(t, book)
                   \/ MergeToNextTaker(t, book)
                   \/ RemoveEternalCrossed(t, book)
    /\ UNCHANGED << clock, saved >>

MergeNone(from, to) == [Database EXCEPT !.ok = fix.ok]      \* a slip

\* merge_crossed_books()
MergeCrossedBooks(from, to) ==
    LET books == {b \in CrossedBooks(level3, eras, from, to) : b.next_uncrossed # Null}
        merge(db, b) ==
            [ MergeEpisodes(db, b.first_crossed, b.next_uncrossed) EXCEPT
                !.raised = @ \/ b.next_uncrossed > b.first_crossed + MaxChange ]
        upTo[t \in 0..MaxTime] ==
            LET here == {b \in books : b.first_crossed = t}
            IN  IF t = 0 THEN [Database EXCEPT !.ok = fix.ok]
                ELSE IF here = {} THEN upTo[t - 1]
                ELSE merge(upTo[t - 1], CHOOSE b \in here : TRUE)
    IN  upTo[MaxTime]

NextPiece ==
    /\ fix.phase = "merge"
    /\ LET last == fix.end = fix.to
       IN  \E db \in {MergeCrossedBooks(fix.start, fix.end)} :
           \/ /\ IF last THEN ~Commits(db) ELSE db.raised
              /\ Rollback
           \/ /\ ~last /\ ~db.raised
              /\ level3' = db.level3
              /\ fix' = [fix EXCEPT !.phase = "repair", !.start = fix.end, !.crossed = fix.end,
                                    !.end = Min({fix.end + ProcessingInterval, fix.to}),
                                    !.ok = db.ok]
              /\ UNCHANGED << eras, call >>
           \/ /\ last /\ Commits(db)
              /\ level3' = db.level3
              /\ fix' = NotFixing
              /\ call' = Call("fix", fix.from, fix.to)
              /\ UNCHANGED eras
    /\ UNCHANGED << clock, saved >>

Next ==
    \/ \E o \in Orders, price \in Prices, amount \in Amounts : Episode(o, price, amount)
    \/ \E o \in Orders : Episode(o, 0, 1)
    \/ StartEra
    \/ Tick
    \/ \E from, to \in Times : Merge(from, to) \/ FixCrossedBooks(from, to)
    \/ \E start \in Times : InsertEra(start)
    \/ \E r \in level3 : Delete(r)
    \/ \E era \in DOMAIN eras : DeleteEra(era)
    \/ Repair
    \/ NextPiece

Spec == Init /\ [][Next]_vars

-----------------------------------------------------------------------------
(***************************************************************************)
(* Type invariant.                                                         *)
(***************************************************************************)
TypeOK ==
    /\ clock \in 0..MaxTime
    /\ level3 \subseteq Rows
    /\ DOMAIN eras \subseteq Times
    /\ \A e \in DOMAIN eras : eras[e] \in Times \union {Null}
    /\ fix = NotFixing \/ fix.phase \in {"repair", "merge"}

(***************************************************************************)
(* Whatever is merged, split, deleted or fixed, every row but the first of *)
(* a chain is the next of the row numbered before it: the foreign keys     *)
(* demand half of it only, and no constraint says that a chain is numbered *)
(* without a gap.  Between the steps of a fix, which nobody else sees, a   *)
(* merge may take a row away from the one that points at it: the call then *)
(* raises in the end.                                                      *)
(***************************************************************************)
ChainsLinked ==
    Idle =>
        \A r \in level3 :
            LET before == {x \in level3 : PointsAt(x, r)}
            IN  IF r.no = 1 THEN before = {}
                ELSE \E x \in before : x.no = r.no - 1 /\ InEraOf(eras, r.mts, x.mts)

(***************************************************************************)
(* A row has had its price since the row before it has had it, if that has *)
(* the same price, and otherwise since its own time, although merging      *)
(* moves the rows that price times refer to.  A split is excepted: it      *)
(* shifts the price times of a chain by one row (1488-1504).               *)
(***************************************************************************)
PriceTimeKept ==
    call.name # "split" =>
        \A r \in level3 :
            LET same == {x \in level3 : PointsAt(x, r) /\ x.price = r.price}
            IN  IF same = {} THEN << r.pmts, r.pno >> = << r.mts, r.no >>
                ELSE \A x \in same : << r.pmts, r.pno >> = << x.pmts, x.pno >>

(***************************************************************************)
(* An order is in a book once, also when it was deleted and came back in   *)
(* the episodes that are merged: an order twice in a book makes the next   *)
(* load raise (too_many_rows).  The deletion of a row is excepted: when it *)
(* is the last of a chain the order is open again, even if it came back.   *)
(***************************************************************************)
OrdersOnce ==
    call.name # "delete" =>
        \A t \in Times : \A a, b \in LiveAt(level3, eras, t) : a.id = b.id => a = b

(***************************************************************************)
(* After a split and after a fix level3_eras tells how far level3 goes.    *)
(***************************************************************************)
ErasUpToDate ==
    call.name \in {"none", "split", "fix"} =>
        \A e \in DOMAIN eras :
            LET rows == {r \in level3 : r.mts >= e /\ \A x \in DOMAIN eras : x > e => r.mts < x}
            IN  eras[e] = IF rows = {} THEN Null ELSE Max({r.mts : r \in rows})

(***************************************************************************)
(* fix_crossed_books() ends: it looks at the crossed books again after     *)
(* every repair, but a repair ends an order that was open for ever or      *)
(* empties an instant.                                                     *)
(***************************************************************************)
RepairsEnd ==
    fix # NotFixing =>
        fix.repairs <= Cardinality({r \in saved.level3 : r.next = Infinity})
                       + Cardinality({r.mts : r \in saved.level3})

Shown(rows) == {<< r.id, r.price, r.amount >> : r \in rows}
BookAt(t) == Shown(LiveAt(level3, eras, t))

\* The repair that a step makes, if it makes one.
Made(name) == call = NoCall /\ call'.name = name

(***************************************************************************)
(* merge_episodes() over [from, to) changes the books of that period only, *)
(* and leaves nothing in them that was not there before it.                *)
(***************************************************************************)
MergeKeepsBooks ==
    [][Made("merge") =>
         \A t \in Times :
             IF t < call'.from \/ t >= call'.to THEN BookAt(t)' = BookAt(t)
             ELSE BookAt(t)' \subseteq BookAt(call'.from - 1)]_vars

(***************************************************************************)
(* insert_level3_era() keeps the books on both sides of the new era's      *)
(* start, but for the orders at the start that nothing follows: those are  *)
(* in the old era only.                                                    *)
(***************************************************************************)
SplitKeepsBooks ==
    [][Made("split") =>
         LET start == call'.to
             lost  == Shown({r \in LiveAt(level3, eras, start - 1) : r.next = Infinity})
         IN  \A t \in Times :
               BookAt(t)' = IF t < start \/ \E e \in DOMAIN eras : start < e /\ e <= t THEN BookAt(t)
                            ELSE BookAt(t) \ lost]_vars

(***************************************************************************)
(* The deletion of a row changes the books since its time only, and only   *)
(* what is said of its order.                                              *)
(***************************************************************************)
DeletionIsLocal ==
    [][Made("delete") =>
         LET others(book) == {x \in book : x[1] # call'.to}
         IN  \A t \in Times :
               /\ others(BookAt(t)') = others(BookAt(t))
               /\ t < call'.from => BookAt(t)' = BookAt(t)]_vars

(***************************************************************************)
(* After fix_crossed_books() no book of the period is crossed and later    *)
(* not, but for those still crossed at the end of a piece.                 *)
(***************************************************************************)
Uncrossed ==
    LET cutIn(b) == \E k \in Times :
                      call.from + k * ProcessingInterval \in b.first_crossed..(b.next_uncrossed - 1)
    IN  \A b \in CrossedBooks(level3, eras, call.from, call.to) :
            b.next_uncrossed = Null \/ cutIn(b)
FixUncrosses == [][Made("fix") => Uncrossed']_vars

(***************************************************************************)
(* What a fix removes from the latest book, where every later load goes    *)
(* on, are orders that crossed others or were crossed since the period     *)
(* began, and it adds none.                                                *)
(***************************************************************************)
WereCrossing ==
    LET live(t) == LiveAt(saved.level3, saved.eras, t)
    IN  {r.id : r \in UNION {{r \in live(t) : \E x \in live(t) : Crosses(r, x) \/ Crosses(x, r)} :
                               t \in fix.from..clock}}
FixRemovesCrossingOnly ==
    [][Made("fix") =>
         LET before == LiveAt(saved.level3, saved.eras, clock)
         IN  /\ BookAt(clock)' \subseteq Shown(before)
             /\ Shown({r \in before : r.id \notin WereCrossing}) \subseteq BookAt(clock)']_vars
=============================================================================
