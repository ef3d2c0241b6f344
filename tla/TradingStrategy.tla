--------------------------- MODULE TradingStrategy --------------------------
(***************************************************************************)
(* Discovery of the ideal trading strategy: TradingStrategy of             *)
(* src/src/position_discovery.cpp, an ObjectStream of positions made of an *)
(* ObjectStream of bid-ask spreads.                                        *)
(*                                                                         *)
(* It keeps the best instants to start and to end a long and a short       *)
(* position (sl_, el_, ss_, es_), at most one position at a time, and      *)
(* returns a position once no later spread can improve it.                 *)
(*                                                                         *)
(* To say that the strategy is ideal, it runs next to a rival: a trader    *)
(* who opens and closes positions at any spread, in any way the definition *)
(* of a trading strategy in                                                *)
(* src/notebooks/spike-detection/spike-detection.Rmd allows.               *)
(*                                                                         *)
(* Profits are differences of logarithms of prices; Log stands for the     *)
(* logarithm and may be any monotone function.  A price of 0 marks an      *)
(* instant price that is not set, as in the code.                          *)
(***************************************************************************)
EXTENDS Integers

CONSTANTS
    Prices,     \* prices, all above 0
    Log,        \* the logarithm of a price
    phi,        \* commission per transaction, as given to the constructor
    rho,        \* margin interest rate, as given to the constructor
    MaxTime     \* bound: the time of the last spread

ASSUME StrategyAssumption ==
    /\ Prices \subseteq Nat \ {0}
    /\ Log \in [Prices -> Int]
    /\ \A p, q \in Prices : p <= q => Log[p] <= Log[q]
    /\ phi \in Int /\ rho \in Int
    /\ MaxTime \in Nat

VARIABLES
    time,             \* time of the last spread read
    ended,            \* has the stream of spreads ended?
    is_all_processed, \* is_all_processed_
    sl, el,           \* start and end of a long position
    ss, es,           \* start and end of a short position
    returned,         \* history: the last position returned
    gain,             \* history: profit of the positions returned
    market,           \* history: the spread one can trade at
    rival             \* a trader: what it holds, since when, what it has earned

own == << sl, el, ss, es >>
vars == << time, ended, is_all_processed, own, returned, gain, market, rival >>

NaN == -1
Spreads == [bid : Prices \union {NaN}, ask : Prices \union {NaN}, t : 1..MaxTime]
Bid(c) == [p |-> c.bid, t |-> c.t]
Ask(c) == [p |-> c.ask, t |-> c.t]
Unset == [p |-> 0, t |-> 0]
InstantPrices == [p : Prices, t : 1..MaxTime]

\* Mutant: a spread that lacks a bid or an ask is taken.
UsableUnchecked(c) == c.bid <= c.ask

\* Spreads without a bid or an ask and crossed ones are skipped.
Usable(c) == c.bid # NaN /\ c.ask # NaN /\ c.bid <= c.ask

\* A wrong phi or rho is replaced by 0.
Rho == IF rho < 0 THEN 0 ELSE rho
Commission == 2 * (IF phi < 0 THEN 0 ELSE phi)
Interest(a, b) == Rho * (IF a.t < b.t THEN b.t - a.t ELSE a.t - b.t)
Minus(a, b) == Log[a.p] - Log[b.p]

Cost(s, e) == Interest(s, e) + Commission
LongProfit(s, e) == Minus(e, s) - Cost(s, e)
ShortProfit(s, e) == Minus(s, e) - Cost(s, e)

Nothing == [holds |-> "nothing", at |-> Unset, earned |-> 0]
NoSpread == [bid |-> NaN, ask |-> NaN, t |-> 0]
NoPosition == [s |-> Unset, e |-> Unset]

Init ==
    /\ time = 0
    /\ ended = FALSE
    /\ is_all_processed = TRUE
    /\ sl = Unset /\ el = Unset
    /\ ss = Unset /\ es = Unset
    /\ returned = NoPosition
    /\ gain = 0
    /\ market = NoSpread
    /\ rival = Nothing

-----------------------------------------------------------------------------
(***************************************************************************)
(* Reading a spread.  While is_all_processed_ is set the constructor looks *)
(* for the first one; afterwards operator>> reads.  Its caller calls it    *)
(* until is_all_processed_ is set, so that a return is only told by the    *)
(* position returned.                                                      *)
(***************************************************************************)
Read(c) ==
    /\ ~ended
    /\ c.t > time
    /\ time' = c.t
    /\ UNCHANGED << ended, rival >>

Skip(c) ==
    /\ ~Usable(c)
    /\ Read(c)
    /\ UNCHANGED << is_all_processed, own, returned, gain, market >>

First(c) ==
    /\ is_all_processed
    /\ Usable(c)
    /\ Read(c)
    /\ is_all_processed' = FALSE
    /\ sl' = Ask(c)
    /\ ss' = Bid(c)
    /\ market' = c
    /\ UNCHANGED << el, es, returned, gain >>

Takes(c) ==
    /\ ~is_all_processed
    /\ Usable(c)
    /\ Read(c)
    /\ market' = c
    /\ UNCHANGED is_all_processed

Returns(s, e, profit) ==
    /\ returned' = [s |-> s, e |-> e]
    /\ gain' = gain + profit
ReturnsNothing == UNCHANGED << returned, gain >>

-----------------------------------------------------------------------------
(***************************************************************************)
(* No position discovered yet.                                             *)
(***************************************************************************)
IsFlat == el.p = 0 /\ es.p = 0

StartsLong(c) == Minus(Bid(c), sl) > Interest(Bid(c), sl) + Commission
StartsShort(c) == Minus(ss, Ask(c)) > Interest(ss, Ask(c)) + Commission

BetterLongStart(c) == Minus(Ask(c), sl) < Interest(Ask(c), sl)
BetterShortStart(c) == Minus(ss, Bid(c)) < Interest(ss, Bid(c))
LongStart(c) == IF BetterLongStart(c) THEN Ask(c) ELSE sl
ShortStart(c) == IF BetterShortStart(c) THEN Bid(c) ELSE ss

DiscoverLong(c) ==
    /\ IsFlat
    /\ Takes(c)
    /\ StartsLong(c)
    /\ el' = Bid(c)
    /\ ss' = Bid(c)
    /\ UNCHANGED << sl, es >>
    /\ ReturnsNothing

DiscoverShort(c) ==
    /\ IsFlat
    /\ Takes(c)
    /\ ~StartsLong(c)
    /\ StartsShort(c)
    /\ es' = Ask(c)
    /\ sl' = Ask(c)
    /\ UNCHANGED << el, ss >>
    /\ ReturnsNothing

Wait(c) ==
    /\ IsFlat
    /\ Takes(c)
    /\ ~StartsLong(c)
    /\ ~StartsShort(c)
    /\ sl' = LongStart(c)
    /\ ss' = ShortStart(c)
    /\ UNCHANGED << el, es >>
    /\ ReturnsNothing

(***************************************************************************)
(* A long position has been discovered: it is extended; or returned since  *)
(* a short position starts, or since it pays to close it and to start a    *)
(* new one.                                                                *)
(***************************************************************************)
IsLong == el.p # 0

ExtendsLong(c) == Minus(Bid(c), el) > Interest(Bid(c), el)
ReversesLong(c) ==
    Minus(ShortStart(c), Ask(c)) > Interest(ShortStart(c), Ask(c)) + Commission
RestartsLong(c) == Interest(Ask(c), el) > Commission - Minus(el, Ask(c))

TakesLong(c) == IsLong /\ Takes(c)

\* Mutant: the start of the next short position stays before the new end.
ExtendLongKeepsStart(c) ==
    /\ TakesLong(c)
    /\ ExtendsLong(c)
    /\ el' = Bid(c)
    /\ UNCHANGED << sl, es, ss >>
    /\ ReturnsNothing

ExtendLong(c) ==
    /\ TakesLong(c)
    /\ ExtendsLong(c)
    /\ el' = Bid(c)
    /\ ss' = Bid(c)
    /\ UNCHANGED << sl, es >>
    /\ ReturnsNothing

\* Mutant: the long position returned is not unset.
ReverseLongKeepsEnd(c) ==
    /\ TakesLong(c)
    /\ ~ExtendsLong(c)
    /\ ReversesLong(c)
    /\ Returns(sl, el, LongProfit(sl, el))
    /\ es' = Ask(c)
    /\ sl' = Ask(c)
    /\ ss' = ShortStart(c)
    /\ UNCHANGED el

ReverseLong(c) ==
    /\ TakesLong(c)
    /\ ~ExtendsLong(c)
    /\ ReversesLong(c)
    /\ Returns(sl, el, LongProfit(sl, el))
    /\ es' = Ask(c)
    /\ sl' = Ask(c)
    /\ el' = [el EXCEPT !.p = 0]
    /\ ss' = ShortStart(c)

RestartLong(c) ==
    /\ TakesLong(c)
    /\ ~ExtendsLong(c)
    /\ ~ReversesLong(c)
    /\ RestartsLong(c)
    /\ Returns(sl, el, LongProfit(sl, el))
    /\ sl' = Ask(c)
    /\ el' = [el EXCEPT !.p = 0]
    /\ ss' = ShortStart(c)
    /\ UNCHANGED es

\* Mutant: the start of a short position is not updated while long.
HoldLongForgetsStart(c) ==
    /\ TakesLong(c)
    /\ ~ExtendsLong(c)
    /\ ~ReversesLong(c)
    /\ ~RestartsLong(c)
    /\ UNCHANGED << sl, el, ss, es >>
    /\ ReturnsNothing

HoldLong(c) ==
    /\ TakesLong(c)
    /\ ~ExtendsLong(c)
    /\ ~ReversesLong(c)
    /\ ~RestartsLong(c)
    /\ ss' = ShortStart(c)
    /\ UNCHANGED << sl, el, es >>
    /\ ReturnsNothing

(***************************************************************************)
(* A short position has been discovered.                                   *)
(***************************************************************************)
IsShort == el.p = 0 /\ es.p # 0

ExtendsShort(c) == Minus(es, Ask(c)) > Interest(es, Ask(c))
ReversesShort(c) ==
    Minus(Bid(c), LongStart(c)) > Interest(LongStart(c), Bid(c)) + Commission
RestartsShort(c) == Interest(Bid(c), es) > Commission - Minus(Bid(c), es)

TakesShort(c) == IsShort /\ Takes(c)

ExtendShort(c) ==
    /\ TakesShort(c)
    /\ ExtendsShort(c)
    /\ es' = Ask(c)
    /\ sl' = Ask(c)
    /\ UNCHANGED << el, ss >>
    /\ ReturnsNothing

ReverseShort(c) ==
    /\ TakesShort(c)
    /\ ~ExtendsShort(c)
    /\ ReversesShort(c)
    /\ Returns(ss, es, ShortProfit(ss, es))
    /\ el' = Bid(c)
    /\ ss' = Bid(c)
    /\ es' = [es EXCEPT !.p = 0]
    /\ sl' = LongStart(c)

RestartShort(c) ==
    /\ TakesShort(c)
    /\ ~ExtendsShort(c)
    /\ ~ReversesShort(c)
    /\ RestartsShort(c)
    /\ Returns(ss, es, ShortProfit(ss, es))
    /\ ss' = Bid(c)
    /\ es' = [es EXCEPT !.p = 0]
    /\ sl' = LongStart(c)
    /\ UNCHANGED el

HoldShort(c) ==
    /\ TakesShort(c)
    /\ ~ExtendsShort(c)
    /\ ~ReversesShort(c)
    /\ ~RestartsShort(c)
    /\ sl' = LongStart(c)
    /\ UNCHANGED << el, ss, es >>
    /\ ReturnsNothing

-----------------------------------------------------------------------------
(***************************************************************************)
(* The stream has ended: the position discovered last is returned, and     *)
(* the next call sets is_all_processed_.                                   *)
(***************************************************************************)
AtEnd ==
    /\ ended' = TRUE
    /\ market' = NoSpread
    /\ UNCHANGED << time, sl, ss, rival >>

EndLong ==
    /\ IsLong
    /\ AtEnd
    /\ Returns(sl, el, LongProfit(sl, el))
    /\ el' = [el EXCEPT !.p = 0]
    /\ UNCHANGED << es, is_all_processed >>

EndShort ==
    /\ IsShort
    /\ AtEnd
    /\ Returns(ss, es, ShortProfit(ss, es))
    /\ es' = [es EXCEPT !.p = 0]
    /\ UNCHANGED << el, is_all_processed >>

Finish ==
    /\ IsFlat
    /\ AtEnd
    /\ ~(ended /\ is_all_processed)
    /\ is_all_processed' = TRUE
    /\ UNCHANGED << el, es >>
    /\ ReturnsNothing

-----------------------------------------------------------------------------
(***************************************************************************)
(* The rival trades at the last spread: buys at the ask, sells at the bid, *)
(* pays the commission twice and the interest for the time it holds.       *)
(***************************************************************************)
Trades ==
    /\ Usable(market)
    /\ UNCHANGED << time, ended, is_all_processed, own, returned, gain, market >>

RivalOpens ==
    /\ Trades
    /\ rival.holds = "nothing"
    /\ \/ rival' = [rival EXCEPT !.holds = "long", !.at = Ask(market)]
       \/ rival' = [rival EXCEPT !.holds = "short", !.at = Bid(market)]

RivalClosesLong ==
    /\ Trades
    /\ rival.holds = "long"
    /\ rival.at.t < market.t
    /\ rival' = [ holds |-> "nothing", at |-> Unset,
                  earned |-> rival.earned + LongProfit(rival.at, Bid(market)) ]

RivalClosesShort ==
    /\ Trades
    /\ rival.holds = "short"
    /\ rival.at.t < market.t
    /\ rival' = [ holds |-> "nothing", at |-> Unset,
                  earned |-> rival.earned + ShortProfit(rival.at, Ask(market)) ]

RivalStep == RivalOpens \/ RivalClosesLong \/ RivalClosesShort

Discover(c) ==
    \/ Skip(c) \/ First(c)
    \/ DiscoverLong(c) \/ DiscoverShort(c) \/ Wait(c)
    \/ ExtendLong(c) \/ ReverseLong(c) \/ RestartLong(c) \/ HoldLong(c)
    \/ ExtendShort(c) \/ ReverseShort(c) \/ RestartShort(c) \/ HoldShort(c)

Next ==
    \/ \E c \in Spreads : Discover(c)
    \/ EndLong \/ EndShort \/ Finish
    \/ RivalStep

Spec == Init /\ [][Next]_vars

-----------------------------------------------------------------------------
(***************************************************************************)
(* Type invariant.                                                         *)
(***************************************************************************)
TypeOK ==
    /\ time \in 0..MaxTime
    /\ ended \in BOOLEAN /\ is_all_processed \in BOOLEAN
    /\ sl \in InstantPrices \union {Unset} /\ ss \in InstantPrices \union {Unset}
    /\ el \in [p : Prices \union {0}, t : 0..MaxTime]
    /\ es \in [p : Prices \union {0}, t : 0..MaxTime]
    /\ returned \in [s : InstantPrices \union {Unset}, e : InstantPrices \union {Unset}]
    /\ gain \in Int
    /\ market \in Spreads \union {NoSpread}
    /\ rival \in [ holds : {"nothing", "long", "short"},
                   at : InstantPrices \union {Unset}, earned : Int ]

\* What the strategy will have earned when the stream ends now.
Pending ==
    IF IsLong THEN LongProfit(sl, el) ELSE IF IsShort THEN ShortProfit(ss, es) ELSE 0
Value == gain + Pending

(***************************************************************************)
(* The strategy is ideal: no trader who trades at the same spreads has     *)
(* ever earned more ("the set of long and/or short positions that          *)
(* generates the maximum profit", src/R/obanalytics.R:767).                *)
(***************************************************************************)
Ideal == rival.holds = "nothing" => rival.earned <= Value

(***************************************************************************)
(* There is at most one position, it pays more than it costs, and it is    *)
(* extended only: a position's start precedes its end.  The assertions at  *)
(* lines 150 and 200 of position_discovery.cpp.                            *)
(***************************************************************************)
OnePayingPosition ==
    /\ el.p = 0 \/ es.p = 0
    /\ IsLong => sl.t < el.t /\ LongProfit(sl, el) > 0
    /\ IsShort => ss.t < es.t /\ ShortProfit(ss, es) > 0

(***************************************************************************)
(* Positions do not overlap: a position is returned after the positions    *)
(* returned before have ended, it does not start before their end, and is  *)
(* longer than an instant.  (Constraints b and c of the notebook's         *)
(* definition of a trading strategy.)                                      *)
(***************************************************************************)
PositionsInOrder ==
    [][returned' # returned =>
         /\ returned'.s.t < returned'.e.t
         /\ returned'.s.t >= returned.e.t]_vars
=============================================================================
