----------------------------- MODULE Level3Table ----------------------------
(***************************************************************************)
(* The table obanalytics.level3 of one exchange and pair                   *)
(* (src/db/obanalytics_schema.sql): its rows, constraints and triggers and *)
(* the order book it stands for.                                           *)
(*                                                                         *)
(* A row is an event of an order's life: it was created, changed its price *)
(* or its amount, or was deleted, at time mts, and stayed so until next.   *)
(* The rows of an order form a chain numbered from 1.  The order's side    *)
(* never changes and is left out, and so is fill, which is derived from    *)
(* amounts.  A table is a set of rows; the triggers are operators on it.   *)
(*                                                                         *)
(* Eras are a function from an era's start to the time of its last event   *)
(* (the columns era and level3 of level3_eras).                            *)
(***************************************************************************)
EXTENDS Integers, FiniteSets, SequencesExt

CONSTANTS
    Orders,         \* order_id
    Prices,         \* positive prices; price 0 means a deletion
    Amounts,        \* amounts
    MonthLength,    \* instants in a month: the rows of a month are a partition
    MaxTime         \* bound: instants of time

ASSUME TableAssumption ==
    /\ Prices \subseteq Nat \ {0}
    /\ Amounts \subseteq Nat \ {0}
    /\ MonthLength \in Nat \ {0}
    /\ MaxTime \in Nat

Times == 1..MaxTime
Month(t) == t \div MonthLength
MonthStart(t) == Month(t) * MonthLength

\* 'infinity', '-infinity' and NULL.
Infinity == MaxTime + 1
MinusInfinity == -1
Null == 0

Rows == [mts : Times, id : Orders, no : Nat, price : Prices, amount : Amounts,
         next : Times \union {Infinity, MinusInfinity}, nextNo : Nat,
         pmts : Times, pno : Nat]

IsFinite(t) == t \in Times

\* max(era) where era <= t; an instant before the first era has none.
ErasUpTo(eras, t) == {e \in DOMAIN eras : e <= t}
InEraOf(eras, t, mts) ==
    ErasUpTo(eras, t) # {} /\ \A e \in ErasUpTo(eras, t) : e <= mts

-----------------------------------------------------------------------------
(***************************************************************************)
(* order_book(): the live orders just before t, or at t.                   *)
(***************************************************************************)
LiveBefore(table, eras, t) ==
    {r \in table : InEraOf(eras, t, r.mts) /\ r.mts < t /\ r.next >= t}
LiveAt(table, eras, t) ==
    {r \in table : InEraOf(eras, t, r.mts) /\ r.mts <= t /\ r.next > t}

(***************************************************************************)
(* level3_incorporate_new_event(): a row without event_no or               *)
(* price_microtimestamp continues the chain of its order, if the order is  *)
(* live, and starts one otherwise.  A deletion of an order that is not     *)
(* live is skipped.  Two live rows raise too_many_rows: the row stays as   *)
(* it is, and without its price time breaks PriceKey.                      *)
(***************************************************************************)
Previous(table, eras, new) ==
    {r \in table : /\ InEraOf(eras, new.mts, r.mts) /\ r.mts <= new.mts
                   /\ r.id = new.id
                   /\ r.next > new.mts}

SamePriceAsGiven(event, new, prev) ==   \* a slip: a deletion is given without a price
    new.price = prev.price
SamePrice(event, new, prev) == event.price = prev.price

Continue(table, prev, new) ==
    LET event == IF new.price = 0
                 THEN [new EXCEPT !.price = prev.price, !.amount = prev.amount]
                 ELSE new
        no == prev.no + 1
        samePrice == SamePrice(event, new, prev)
    IN  (table \ {prev}) \union
        { [prev EXCEPT !.next = new.mts, !.nextNo = no],
          [event EXCEPT !.no = no,
                        !.pmts = IF samePrice THEN prev.pmts ELSE new.mts,
                        !.pno  = IF samePrice THEN prev.pno  ELSE no] }

Incorporate(table, eras, new) ==
    LET previous == Previous(table, eras, new)
    IN  IF \/ new.pmts # Null /\ new.no # Null
           \/ Cardinality(previous) > 1
        THEN table \union {new}
        ELSE IF previous # {}
        THEN Continue(table, CHOOSE r \in previous : TRUE, new)
        ELSE IF new.price > 0
        THEN table \union {[new EXCEPT !.no = 1, !.pmts = new.mts, !.pno = 1]}
        ELSE table

\* Rows are inserted by time; those of one instant are of different orders,
\* which do not meet.
InsertInstant(table, eras, rows) ==
    {x \in table : \A r \in rows : r.id # x.id} \union
    UNION {Incorporate({x \in table : x.id = r.id}, eras, r) : r \in rows}

InsertRows(table, eras, rows) ==
    LET upTo[t \in 0..MaxTime] ==
            IF t = 0 THEN table
            ELSE InsertInstant(upTo[t - 1], eras, {r \in rows : r.mts = t})
    IN  upTo[MaxTime]

(***************************************************************************)
(* level3_update_level3_eras(), after an INSERT statement: the era of the  *)
(* latest inserted row remembers it.                                       *)
(***************************************************************************)
UpdateErasOnce(eras, inserted) ==   \* a slip the properties tell from the code
    IF inserted = {} THEN eras
    ELSE LET latest == Max({r.mts : r \in inserted})
             ers    == ErasUpTo(eras, latest)
         IN  [e \in DOMAIN eras |->
                IF ers # {} /\ e = Max(ers) /\ eras[e] = Null THEN latest ELSE eras[e]]

UpdateEras(eras, inserted) ==
    IF inserted = {} THEN eras
    ELSE LET latest == Max({r.mts : r \in inserted})
             ers    == ErasUpTo(eras, latest)
         IN  [e \in DOMAIN eras |->
                IF ers # {} /\ e = Max(ers) /\ eras[e] < latest THEN latest ELSE eras[e]]

-----------------------------------------------------------------------------
(***************************************************************************)
(* The constraints of a partition.  The foreign keys refer to the rows of  *)
(* the same partition, which holds the events of one month.                *)
(***************************************************************************)
Key(r) == << r.mts, r.id, r.no >>
Refers(table, r, mts, no) ==
    Month(mts) = Month(r.mts) /\ \E x \in table : Key(x) = << mts, r.id, no >>

PrimaryKey(table) == \A a, b \in table : Key(a) = Key(b) => a = b
UniqueNext(table) ==
    \A a, b \in table :
        /\ a.nextNo # Null
        /\ << a.next, a.id, a.nextNo >> = << b.next, b.id, b.nextNo >>
        => a = b
NextKey(table) == \A r \in table : r.nextNo # Null => Refers(table, r, r.next, r.nextNo)
PriceKey(table) == \A r \in table : Refers(table, r, r.pmts, r.pno)
NextChecks(table) ==
    \A r \in table : /\ IsFinite(r.next) <=> r.nextNo # Null
                     /\ r.next = MinusInfinity \/ r.next >= r.mts

Consistent(table) ==
    /\ PrimaryKey(table) /\ UniqueNext(table)
    /\ NextKey(table) /\ PriceKey(table)
    /\ NextChecks(table)
=============================================================================
