------------------------ MODULE TradingStrategyProofs -----------------------
(***************************************************************************)
(* The discovered strategy is ideal: no trader earns more, for any prices, *)
(* logarithms, commission, interest rate and any number of spreads; and    *)
(* its positions pay and do not overlap.                                   *)
(*                                                                         *)
(* The argument follows the dynamic program behind the strategy.  Next to  *)
(* the value of the positions discovered so far stand the worths of the    *)
(* best long and short position one could have opened: what has been       *)
(* earned before, the price paid or got, and the interest up to the time   *)
(* of opening.  The four variables of the strategy hold exactly these      *)
(* worths, every spread improves them as much as it can, and a rival's     *)
(* value is never above them.                                              *)
(***************************************************************************)
EXTENDS TradingStrategy, TLAPS

\* The interest paid from the beginning of time to t.
Tax(t) == Rho * t

LongWorth == (IF IsShort THEN Value ELSE gain) - Log[sl.p] + Tax(sl.t)
ShortWorth == (IF IsLong THEN Value ELSE gain) + Log[ss.p] + Tax(ss.t)

Looking == is_all_processed /\ ~ended
Discovering == ~is_all_processed /\ ~ended

\* Which variables are set, and when.
PhaseInv ==
    /\ Looking => /\ market = NoSpread /\ el = Unset /\ es = Unset
                  /\ rival = Nothing /\ gain = 0 /\ returned = NoPosition
    /\ Discovering => /\ market \in Spreads /\ Usable(market) /\ market.t <= time
                      /\ sl \in InstantPrices /\ sl.t <= market.t
                      /\ ss \in InstantPrices /\ ss.t <= market.t
                      /\ rival.at.t <= market.t
    /\ ended => market = NoSpread
    /\ IsLong => el \in InstantPrices /\ sl \in InstantPrices
    /\ IsShort => es \in InstantPrices /\ ss \in InstantPrices
    /\ Discovering /\ IsLong => el.t <= market.t
    /\ Discovering /\ IsShort => es.t <= market.t
    /\ rival.holds # "nothing" => rival.at \in InstantPrices

\* A position's start and end, and those of the position returned before.
OrderInv ==
    /\ el.p = 0 \/ es.p = 0
    /\ IsLong => /\ sl.t < el.t /\ returned.e.t <= sl.t
                 /\ LongProfit(sl, el) > 0
    /\ IsShort => /\ ss.t < es.t /\ returned.e.t <= ss.t
                  /\ ShortProfit(ss, es) > 0
    /\ Discovering => returned.e.t <= sl.t /\ returned.e.t <= ss.t
    /\ Discovering /\ IsLong => el.t <= ss.t
    /\ Discovering /\ IsShort => es.t <= sl.t

\* The worths are those of the dynamic program: the last spread cannot
\* improve them, neither by opening nor by closing a position.
WorthInv ==
    Discovering =>
      /\ Value \in Int /\ LongWorth \in Int /\ ShortWorth \in Int
      /\ Value - Log[market.ask] + Tax(market.t) <= LongWorth
      /\ Value + Log[market.bid] + Tax(market.t) <= ShortWorth
      /\ LongWorth + Log[market.bid] - Tax(market.t) - Commission <= Value
      /\ ShortWorth - Log[market.ask] - Tax(market.t) - Commission <= Value

\* The start of the next position is no better than the end of this one.
StartInv ==
    Discovering =>
      /\ IsLong => Log[ss.p] - Tax(ss.t) <= Log[el.p] - Tax(el.t)
      /\ IsShort => Log[sl.p] + Tax(sl.t) >= Log[es.p] + Tax(es.t)
      /\ IsFlat => /\ Log[ss.p] - Log[sl.p] <= Tax(ss.t) - Tax(sl.t) + Commission
                      \/ ss.t < sl.t
                   /\ Log[ss.p] - Log[sl.p] <= Tax(sl.t) - Tax(ss.t) + Commission
                      \/ sl.t < ss.t

RivalInv ==
    /\ rival.holds = "nothing" => rival.earned <= Value
    /\ Discovering /\ rival.holds = "long" =>
         rival.earned - Log[rival.at.p] + Tax(rival.at.t) <= LongWorth
    /\ Discovering /\ rival.holds = "short" =>
         rival.earned + Log[rival.at.p] + Tax(rival.at.t) <= ShortWorth

Inv == TypeOK /\ PhaseInv /\ OrderInv /\ WorthInv /\ StartInv /\ RivalInv

Improves == Value <= Value' /\ LongWorth <= LongWorth' /\ ShortWorth <= ShortWorth'

-----------------------------------------------------------------------------
\* Costs are natural numbers.
LEMMA Costs == Rho \in Nat /\ Commission \in Nat
  BY StrategyAssumption DEF Rho, Commission

\* Logarithms are numbers, and monotone.
LEMMA Logs ==
    /\ \A p \in Prices : Log[p] \in Int /\ p \in Nat /\ p > 0
    /\ \A p, q \in Prices : p <= q => Log[p] <= Log[q]
    /\ MaxTime \in Nat
  BY StrategyAssumption

\* The interest for a span of time is a difference of taxes.
LEMMA Taxes ==
    /\ \A t \in Nat : Tax(t) \in Int
    /\ \A s, t \in Nat : s <= t => Tax(s) <= Tax(t) /\ Rho * (t - s) = Tax(t) - Tax(s)
  <1>1. Rho \in Nat
    BY Costs
  <1>2. \A r \in Nat : \A t \in Nat : r * t \in Int
    OBVIOUS
  <1>3. \A r \in Nat : \A s, t \in Nat : s <= t =>
            r * s <= r * t /\ r * (t - s) = r * t - r * s
    OBVIOUS
  <1> QED
    BY <1>1, <1>2, <1>3 DEF Tax

\* Interest between two instants, in either order.
LEMMA Interests ==
    \A a, b \in InstantPrices : a.t <= b.t =>
        /\ Interest(a, b) = Tax(b.t) - Tax(a.t)
        /\ Interest(b, a) = Tax(b.t) - Tax(a.t)
        /\ Tax(a.t) \in Int /\ Tax(b.t) \in Int /\ Tax(a.t) <= Tax(b.t)
  <1> SUFFICES ASSUME NEW a \in InstantPrices, NEW b \in InstantPrices, a.t <= b.t
               PROVE  /\ Interest(a, b) = Tax(b.t) - Tax(a.t)
                      /\ Interest(b, a) = Tax(b.t) - Tax(a.t)
                      /\ Tax(a.t) \in Int /\ Tax(b.t) \in Int /\ Tax(a.t) <= Tax(b.t)
    OBVIOUS
  <1>1. a.t \in Nat /\ b.t \in Nat
    BY Logs DEF InstantPrices
  <1>2. Rho * (b.t - a.t) = Tax(b.t) - Tax(a.t)
    BY <1>1, Taxes
  <1>3. CASE a.t < b.t
    BY <1>1, <1>2, <1>3, Taxes DEF Interest
  <1>4. CASE a.t = b.t
    BY <1>1, <1>2, <1>4, Taxes DEF Interest
  <1> QED
    BY <1>1, <1>3, <1>4

\* Profits of positions, in numbers.
LEMMA Profits ==
    \A s, e \in InstantPrices : s.t <= e.t =>
        /\ LongProfit(s, e) = Log[e.p] - Log[s.p] - (Tax(e.t) - Tax(s.t)) - Commission
        /\ ShortProfit(s, e) = Log[s.p] - Log[e.p] - (Tax(e.t) - Tax(s.t)) - Commission
        /\ LongProfit(s, e) \in Int /\ ShortProfit(s, e) \in Int
        /\ Log[s.p] \in Int /\ Log[e.p] \in Int
  <1> SUFFICES ASSUME NEW s \in InstantPrices, NEW e \in InstantPrices, s.t <= e.t
               PROVE  /\ LongProfit(s, e) = Log[e.p] - Log[s.p] - (Tax(e.t) - Tax(s.t)) - Commission
                      /\ ShortProfit(s, e) = Log[s.p] - Log[e.p] - (Tax(e.t) - Tax(s.t)) - Commission
                      /\ LongProfit(s, e) \in Int /\ ShortProfit(s, e) \in Int
                      /\ Log[s.p] \in Int /\ Log[e.p] \in Int
    OBVIOUS
  <1>1. Log[s.p] \in Int /\ Log[e.p] \in Int
    BY Logs DEF InstantPrices
  <1>2. Commission \in Int
    BY Costs
  <1>3. /\ Interest(s, e) = Tax(e.t) - Tax(s.t)
        /\ Tax(s.t) \in Int /\ Tax(e.t) \in Int
    BY Interests
  <1> QED
    BY <1>1, <1>2, <1>3 DEF LongProfit, ShortProfit, Minus, Cost

\* A spread one can trade at, in numbers.
LEMMA Quotes ==
  ASSUME NEW c \in Spreads, Usable(c)
  PROVE  /\ Bid(c) \in InstantPrices /\ Ask(c) \in InstantPrices
         /\ Bid(c).p = c.bid /\ Ask(c).p = c.ask /\ Bid(c).t = c.t /\ Ask(c).t = c.t
         /\ c.bid \in Prices /\ c.ask \in Prices /\ c.bid > 0 /\ c.ask > 0
         /\ Log[c.bid] \in Int /\ Log[c.ask] \in Int /\ Log[c.bid] <= Log[c.ask]
         /\ Tax(c.t) \in Int /\ c.t \in Nat
  <1>1. c.bid \in Prices /\ c.ask \in Prices /\ c.t \in 1..MaxTime
    BY DEF Spreads, Usable
  <1>2. c.t \in Nat
    BY <1>1, Logs
  <1> QED
    BY <1>1, <1>2, Logs, Taxes DEF Usable, Bid, Ask, InstantPrices

\* The state of a strategy that has discovered a long position, in numbers.
LEMMA LongView ==
  ASSUME TypeOK, PhaseInv, OrderInv, Discovering, IsLong
  PROVE  /\ sl \in InstantPrices /\ el \in InstantPrices /\ ss \in InstantPrices
         /\ sl.t < el.t /\ el.t <= ss.t /\ ss.t <= market.t /\ es.p = 0
         /\ gain \in Int
         /\ Value = gain + LongProfit(sl, el)
         /\ LongProfit(sl, el) =
              Log[el.p] - Log[sl.p] - (Tax(el.t) - Tax(sl.t)) - Commission
         /\ LongWorth = gain - Log[sl.p] + Tax(sl.t)
         /\ ShortWorth = Value + Log[ss.p] + Tax(ss.t)
         /\ Log[sl.p] \in Int /\ Log[el.p] \in Int /\ Log[ss.p] \in Int
         /\ Tax(sl.t) \in Int /\ Tax(el.t) \in Int /\ Tax(ss.t) \in Int
         /\ Tax(sl.t) <= Tax(el.t) /\ Tax(el.t) <= Tax(ss.t)
  <1>1. /\ sl \in InstantPrices /\ el \in InstantPrices /\ ss \in InstantPrices
        /\ sl.t < el.t /\ el.t <= ss.t /\ ss.t <= market.t /\ es.p = 0
        /\ gain \in Int
    BY DEF TypeOK, PhaseInv, OrderInv, IsLong
  <1>2. sl.t \in Nat /\ el.t \in Nat /\ ss.t \in Nat
    BY <1>1, Logs DEF InstantPrices
  <1>3. /\ Log[sl.p] \in Int /\ Log[el.p] \in Int /\ Log[ss.p] \in Int
        /\ LongProfit(sl, el) =
              Log[el.p] - Log[sl.p] - (Tax(el.t) - Tax(sl.t)) - Commission
    BY <1>1, <1>2, Profits
  <1>4. /\ Tax(sl.t) \in Int /\ Tax(el.t) \in Int /\ Tax(ss.t) \in Int
        /\ Tax(sl.t) <= Tax(el.t) /\ Tax(el.t) <= Tax(ss.t)
    BY <1>1, <1>2, Taxes
  <1>5. Value = gain + LongProfit(sl, el)
    BY DEF Value, Pending
  <1>6. LongWorth = gain - Log[sl.p] + Tax(sl.t) /\ ShortWorth = Value + Log[ss.p] + Tax(ss.t)
    BY DEF LongWorth, ShortWorth, IsLong, IsShort
  <1> QED
    BY <1>1, <1>3, <1>4, <1>5, <1>6

LEMMA ShortView ==
  ASSUME TypeOK, PhaseInv, OrderInv, Discovering, IsShort
  PROVE  /\ ss \in InstantPrices /\ es \in InstantPrices /\ sl \in InstantPrices
         /\ ss.t < es.t /\ es.t <= sl.t /\ sl.t <= market.t /\ el.p = 0
         /\ gain \in Int
         /\ Value = gain + ShortProfit(ss, es)
         /\ ShortProfit(ss, es) =
              Log[ss.p] - Log[es.p] - (Tax(es.t) - Tax(ss.t)) - Commission
         /\ ShortWorth = gain + Log[ss.p] + Tax(ss.t)
         /\ LongWorth = Value - Log[sl.p] + Tax(sl.t)
         /\ Log[ss.p] \in Int /\ Log[es.p] \in Int /\ Log[sl.p] \in Int
         /\ Tax(ss.t) \in Int /\ Tax(es.t) \in Int /\ Tax(sl.t) \in Int
         /\ Tax(ss.t) <= Tax(es.t) /\ Tax(es.t) <= Tax(sl.t)
  <1>1. /\ ss \in InstantPrices /\ es \in InstantPrices /\ sl \in InstantPrices
        /\ ss.t < es.t /\ es.t <= sl.t /\ sl.t <= market.t /\ el.p = 0
        /\ gain \in Int
    BY DEF TypeOK, PhaseInv, OrderInv, IsShort
  <1>2. sl.t \in Nat /\ es.t \in Nat /\ ss.t \in Nat
    BY <1>1, Logs DEF InstantPrices
  <1>3. /\ Log[ss.p] \in Int /\ Log[es.p] \in Int /\ Log[sl.p] \in Int
        /\ ShortProfit(ss, es) =
              Log[ss.p] - Log[es.p] - (Tax(es.t) - Tax(ss.t)) - Commission
    BY <1>1, <1>2, Profits
  <1>4. /\ Tax(ss.t) \in Int /\ Tax(es.t) \in Int /\ Tax(sl.t) \in Int
        /\ Tax(ss.t) <= Tax(es.t) /\ Tax(es.t) <= Tax(sl.t)
    BY <1>1, <1>2, Taxes
  <1>5. Value = gain + ShortProfit(ss, es)
    BY DEF Value, Pending, IsShort, IsLong
  <1>6. ShortWorth = gain + Log[ss.p] + Tax(ss.t) /\ LongWorth = Value - Log[sl.p] + Tax(sl.t)
    BY DEF LongWorth, ShortWorth, IsLong, IsShort
  <1> QED
    BY <1>1, <1>3, <1>4, <1>5, <1>6

LEMMA FlatView ==
  ASSUME TypeOK, PhaseInv, OrderInv, Discovering, IsFlat
  PROVE  /\ ss \in InstantPrices /\ sl \in InstantPrices
         /\ ss.t <= market.t /\ sl.t <= market.t /\ el.p = 0 /\ es.p = 0
         /\ gain \in Int
         /\ Value = gain
         /\ ShortWorth = gain + Log[ss.p] + Tax(ss.t)
         /\ LongWorth = gain - Log[sl.p] + Tax(sl.t)
         /\ Log[ss.p] \in Int /\ Log[sl.p] \in Int
         /\ Tax(ss.t) \in Int /\ Tax(sl.t) \in Int
  <1>1. /\ ss \in InstantPrices /\ sl \in InstantPrices
        /\ ss.t <= market.t /\ sl.t <= market.t /\ el.p = 0 /\ es.p = 0
        /\ gain \in Int
    BY DEF TypeOK, PhaseInv, OrderInv, IsFlat
  <1>2. sl.t \in Nat /\ ss.t \in Nat
    BY <1>1, Logs DEF InstantPrices
  <1>3. Value = gain + 0
    BY <1>1 DEF Value, Pending, IsShort, IsLong
  <1>4. ShortWorth = gain + Log[ss.p] + Tax(ss.t) /\ LongWorth = gain - Log[sl.p] + Tax(sl.t)
    BY <1>1 DEF LongWorth, ShortWorth, IsLong, IsShort
  <1> QED
    BY <1>1, <1>2, <1>3, <1>4, Logs, Taxes DEF InstantPrices

-----------------------------------------------------------------------------
\* A spread that is read comes after every instant the strategy remembers.
LEMMA Later ==
  ASSUME TypeOK, PhaseInv, Discovering, NEW c \in Spreads, Takes(c)
  PROVE  /\ Usable(c) /\ Usable(market) /\ market \in Spreads
         /\ market.t < c.t /\ Tax(market.t) <= Tax(c.t)
         /\ market' = c /\ Discovering'
         /\ \A x \in InstantPrices : x.t <= market.t =>
                x.t < c.t /\ Tax(x.t) <= Tax(c.t)
  <1>1. /\ Usable(c) /\ Usable(market) /\ market \in Spreads
        /\ market.t <= time /\ time < c.t /\ time \in Nat
    BY Logs DEF TypeOK, PhaseInv, Takes, Read
  <1>2. c.t \in Nat /\ market.t \in Nat
    BY <1>1, Quotes
  <1>3. market.t < c.t
    BY <1>1, <1>2
  <1>4. \A x \in InstantPrices : x.t \in Nat
    BY Logs DEF InstantPrices
  <1>5. \A x \in InstantPrices : x.t <= market.t => x.t < c.t /\ Tax(x.t) <= Tax(c.t)
    BY <1>2, <1>3, <1>4, Taxes
  <1> QED
    BY <1>1, <1>2, <1>3, <1>5, Taxes DEF Takes, Read, Discovering

\* The better of the old and a new start of a short position.
LEMMA ShortStarts ==
  ASSUME NEW c \in Spreads, Usable(c), ss \in InstantPrices, ss.t <= c.t
  PROVE  /\ ShortStart(c) \in InstantPrices
         /\ ShortStart(c) = ss \/ ShortStart(c) = Bid(c)
         /\ ss.t <= ShortStart(c).t /\ ShortStart(c).t <= c.t
         /\ Log[ShortStart(c).p] + Tax(ShortStart(c).t) >= Log[c.bid] + Tax(c.t)
         /\ Log[ShortStart(c).p] + Tax(ShortStart(c).t) >= Log[ss.p] + Tax(ss.t)
  <1>1. ss.t \in Nat /\ Log[ss.p] \in Int /\ Tax(ss.t) \in Int
    BY Logs, Taxes DEF InstantPrices
  <1>2. BetterShortStart(c) <=> Log[ss.p] - Log[c.bid] < Tax(c.t) - Tax(ss.t)
    BY Quotes, Interests DEF BetterShortStart, Minus
  <1> QED
    BY <1>1, <1>2, Quotes DEF ShortStart

\* The better of the old and a new start of a long position.
LEMMA LongStarts ==
  ASSUME NEW c \in Spreads, Usable(c), sl \in InstantPrices, sl.t <= c.t
  PROVE  /\ LongStart(c) \in InstantPrices
         /\ LongStart(c) = sl \/ LongStart(c) = Ask(c)
         /\ sl.t <= LongStart(c).t /\ LongStart(c).t <= c.t
         /\ Tax(LongStart(c).t) - Log[LongStart(c).p] >= Tax(c.t) - Log[c.ask]
         /\ Tax(LongStart(c).t) - Log[LongStart(c).p] >= Tax(sl.t) - Log[sl.p]
  <1>1. sl.t \in Nat /\ Log[sl.p] \in Int /\ Tax(sl.t) \in Int
    BY Logs, Taxes DEF InstantPrices
  <1>2. BetterLongStart(c) <=> Log[c.ask] - Log[sl.p] < Tax(c.t) - Tax(sl.t)
    BY Quotes, Interests DEF BetterLongStart, Minus
  <1> QED
    BY <1>1, <1>2, Quotes DEF LongStart

\* A spread read while a long position is open: the conditions in numbers.
LEMMA LongConditions ==
  ASSUME TypeOK, PhaseInv, OrderInv, Discovering, NEW c \in Spreads, TakesLong(c)
  PROVE  /\ Usable(c) /\ market \in Spreads /\ Usable(market) /\ market' = c /\ Discovering'
         /\ market.t < c.t /\ Tax(market.t) <= Tax(c.t)
         /\ sl.t < c.t /\ el.t < c.t /\ ss.t < c.t
         /\ Tax(el.t) <= Tax(c.t) /\ Tax(ss.t) <= Tax(c.t) /\ Tax(sl.t) <= Tax(c.t)
         /\ ExtendsLong(c) <=> Log[c.bid] - Log[el.p] > Tax(c.t) - Tax(el.t)
         /\ ReversesLong(c) <=>
              Log[ShortStart(c).p] - Log[c.ask]
                > Tax(c.t) - Tax(ShortStart(c).t) + Commission
         /\ RestartsLong(c) <=>
              Tax(c.t) - Tax(el.t) > Commission - (Log[el.p] - Log[c.ask])
  <1>1. IsLong /\ Takes(c)
    BY DEF TakesLong
  <1>2. el.t <= market.t /\ ss.t <= market.t /\ sl.t <= market.t
    BY <1>1 DEF PhaseInv
  <1>3. sl \in InstantPrices /\ el \in InstantPrices /\ ss \in InstantPrices
    BY <1>1, LongView
  <1>4. /\ Usable(c) /\ sl.t < c.t /\ el.t < c.t /\ ss.t < c.t
        /\ Tax(el.t) <= Tax(c.t) /\ Tax(ss.t) <= Tax(c.t) /\ Tax(sl.t) <= Tax(c.t)
    BY <1>1, <1>2, <1>3, Later
  <1>5. el.t <= c.t /\ ss.t <= c.t
    BY <1>3, <1>4, Quotes, Logs DEF InstantPrices
  <1>6. ExtendsLong(c) <=> Log[c.bid] - Log[el.p] > Tax(c.t) - Tax(el.t)
    BY <1>3, <1>4, <1>5, Quotes, Interests DEF ExtendsLong, Minus
  <1>7. RestartsLong(c) <=> Tax(c.t) - Tax(el.t) > Commission - (Log[el.p] - Log[c.ask])
    BY <1>3, <1>4, <1>5, Quotes, Interests DEF RestartsLong, Minus
  <1>8. ReversesLong(c) <=>
          Log[ShortStart(c).p] - Log[c.ask] > Tax(c.t) - Tax(ShortStart(c).t) + Commission
    BY <1>3, <1>4, <1>5, Quotes, ShortStarts, Interests DEF ReversesLong, Minus
  <1> QED
    BY <1>1, <1>4, <1>6, <1>7, <1>8, Later

LEMMA ShortConditions ==
  ASSUME TypeOK, PhaseInv, OrderInv, Discovering, NEW c \in Spreads, TakesShort(c)
  PROVE  /\ Usable(c) /\ market \in Spreads /\ Usable(market) /\ market' = c /\ Discovering'
         /\ market.t < c.t /\ Tax(market.t) <= Tax(c.t)
         /\ ss.t < c.t /\ es.t < c.t /\ sl.t < c.t
         /\ Tax(es.t) <= Tax(c.t) /\ Tax(sl.t) <= Tax(c.t) /\ Tax(ss.t) <= Tax(c.t)
         /\ ExtendsShort(c) <=> Log[es.p] - Log[c.ask] > Tax(c.t) - Tax(es.t)
         /\ ReversesShort(c) <=>
              Log[c.bid] - Log[LongStart(c).p]
                > Tax(c.t) - Tax(LongStart(c).t) + Commission
         /\ RestartsShort(c) <=>
              Tax(c.t) - Tax(es.t) > Commission - (Log[c.bid] - Log[es.p])
  <1>1. IsShort /\ Takes(c)
    BY DEF TakesShort
  <1>2. es.t <= market.t /\ ss.t <= market.t /\ sl.t <= market.t
    BY <1>1 DEF PhaseInv
  <1>3. sl \in InstantPrices /\ es \in InstantPrices /\ ss \in InstantPrices
    BY <1>1, ShortView
  <1>4. /\ Usable(c) /\ sl.t < c.t /\ es.t < c.t /\ ss.t < c.t
        /\ Tax(es.t) <= Tax(c.t) /\ Tax(sl.t) <= Tax(c.t) /\ Tax(ss.t) <= Tax(c.t)
    BY <1>1, <1>2, <1>3, Later
  <1>5. es.t <= c.t /\ sl.t <= c.t
    BY <1>3, <1>4, Quotes, Logs DEF InstantPrices
  <1>6. ExtendsShort(c) <=> Log[es.p] - Log[c.ask] > Tax(c.t) - Tax(es.t)
    BY <1>3, <1>4, <1>5, Quotes, Interests DEF ExtendsShort, Minus
  <1>7. RestartsShort(c) <=> Tax(c.t) - Tax(es.t) > Commission - (Log[c.bid] - Log[es.p])
    BY <1>3, <1>4, <1>5, Quotes, Interests DEF RestartsShort, Minus
  <1>8. ReversesShort(c) <=>
          Log[c.bid] - Log[LongStart(c).p] > Tax(c.t) - Tax(LongStart(c).t) + Commission
    BY <1>3, <1>4, <1>5, Quotes, LongStarts, Interests DEF ReversesShort, Minus
  <1> QED
    BY <1>1, <1>4, <1>6, <1>7, <1>8, Later

-----------------------------------------------------------------------------
(***************************************************************************)
(* The arithmetic of a step that takes a spread, in one place: what the    *)
(* steps below need to know of the numbers, and nothing else.              *)
(***************************************************************************)
QuoteNumbers(c) ==
    /\ Log[c.bid] \in Int /\ Log[c.ask] \in Int /\ Log[c.bid] <= Log[c.ask]
    /\ Tax(c.t) \in Int /\ c.t \in Nat /\ Commission \in Nat
    /\ Bid(c).p = c.bid /\ Ask(c).p = c.ask /\ Bid(c).t = c.t /\ Ask(c).t = c.t

\* The start of the next short position, and of the next long one.
ShortStartNumbers(c) ==
    /\ Log[ShortStart(c).p] \in Int /\ Tax(ShortStart(c).t) \in Int
    /\ ShortStart(c).t \in Nat /\ ShortStart(c).t <= c.t /\ Tax(ShortStart(c).t) <= Tax(c.t)
    /\ ShortStart(c) = ss \/ ShortStart(c) = Bid(c)
    /\ Log[ShortStart(c).p] + Tax(ShortStart(c).t) >= Log[c.bid] + Tax(c.t)
    /\ Log[ShortStart(c).p] + Tax(ShortStart(c).t) >= Log[ss.p] + Tax(ss.t)

LongStartNumbers(c) ==
    /\ Log[LongStart(c).p] \in Int /\ Tax(LongStart(c).t) \in Int
    /\ LongStart(c).t \in Nat /\ LongStart(c).t <= c.t /\ Tax(LongStart(c).t) <= Tax(c.t)
    /\ LongStart(c) = sl \/ LongStart(c) = Ask(c)
    /\ Tax(LongStart(c).t) - Log[LongStart(c).p] >= Tax(c.t) - Log[c.ask]
    /\ Tax(LongStart(c).t) - Log[LongStart(c).p] >= Tax(sl.t) - Log[sl.p]

\* A spread is taken while a long position is open.
LongNumbers(c) ==
    /\ gain \in Int /\ Value = gain + LongProfit(sl, el)
    /\ LongProfit(sl, el) = Log[el.p] - Log[sl.p] - (Tax(el.t) - Tax(sl.t)) - Commission
    /\ LongWorth = gain - Log[sl.p] + Tax(sl.t)
    /\ ShortWorth = Value + Log[ss.p] + Tax(ss.t)
    /\ Log[sl.p] \in Int /\ Log[el.p] \in Int /\ Log[ss.p] \in Int
    /\ Tax(sl.t) \in Int /\ Tax(el.t) \in Int /\ Tax(ss.t) \in Int
    /\ Tax(sl.t) <= Tax(el.t) /\ Tax(el.t) <= Tax(ss.t) /\ Tax(ss.t) <= Tax(c.t)
    /\ Log[ss.p] - Tax(ss.t) <= Log[el.p] - Tax(el.t)
    /\ ExtendsLong(c) <=> Log[c.bid] - Log[el.p] > Tax(c.t) - Tax(el.t)
    /\ ReversesLong(c) <=>
         Log[ShortStart(c).p] - Log[c.ask] > Tax(c.t) - Tax(ShortStart(c).t) + Commission
    /\ RestartsLong(c) <=> Tax(c.t) - Tax(el.t) > Commission - (Log[el.p] - Log[c.ask])

\* A spread is taken while a short position is open.
ShortNumbers(c) ==
    /\ gain \in Int /\ Value = gain + ShortProfit(ss, es)
    /\ ShortProfit(ss, es) = Log[ss.p] - Log[es.p] - (Tax(es.t) - Tax(ss.t)) - Commission
    /\ ShortWorth = gain + Log[ss.p] + Tax(ss.t)
    /\ LongWorth = Value - Log[sl.p] + Tax(sl.t)
    /\ Log[ss.p] \in Int /\ Log[es.p] \in Int /\ Log[sl.p] \in Int
    /\ Tax(ss.t) \in Int /\ Tax(es.t) \in Int /\ Tax(sl.t) \in Int
    /\ Tax(ss.t) <= Tax(es.t) /\ Tax(es.t) <= Tax(sl.t) /\ Tax(sl.t) <= Tax(c.t)
    /\ Log[sl.p] + Tax(sl.t) >= Log[es.p] + Tax(es.t)
    /\ ExtendsShort(c) <=> Log[es.p] - Log[c.ask] > Tax(c.t) - Tax(es.t)
    /\ ReversesShort(c) <=>
         Log[c.bid] - Log[LongStart(c).p] > Tax(c.t) - Tax(LongStart(c).t) + Commission
    /\ RestartsShort(c) <=> Tax(c.t) - Tax(es.t) > Commission - (Log[c.bid] - Log[es.p])

\* A spread is taken while no position is open.
FlatNumbers(c) ==
    /\ gain \in Int /\ Value = gain
    /\ ShortWorth = gain + Log[ss.p] + Tax(ss.t)
    /\ LongWorth = gain - Log[sl.p] + Tax(sl.t)
    /\ Log[ss.p] \in Int /\ Log[sl.p] \in Int /\ Tax(ss.t) \in Int /\ Tax(sl.t) \in Int
    /\ sl.t \in Nat /\ ss.t \in Nat /\ sl.t <= c.t /\ ss.t <= c.t
    /\ Tax(ss.t) <= Tax(c.t) /\ Tax(sl.t) <= Tax(c.t)
    /\ Log[ss.p] - Log[sl.p] <= Tax(ss.t) - Tax(sl.t) + Commission \/ ss.t < sl.t
    /\ Log[ss.p] - Log[sl.p] <= Tax(sl.t) - Tax(ss.t) + Commission \/ sl.t < ss.t
    /\ StartsLong(c) <=> Log[c.bid] - Log[sl.p] > Tax(c.t) - Tax(sl.t) + Commission
    /\ StartsShort(c) <=> Log[ss.p] - Log[c.ask] > Tax(c.t) - Tax(ss.t) + Commission

LEMMA QuoteArithmetic ==
  ASSUME NEW c \in Spreads, Usable(c)
  PROVE  QuoteNumbers(c)
  BY Quotes, Costs DEF QuoteNumbers

LEMMA ShortStartArithmetic ==
  ASSUME NEW c \in Spreads, Usable(c), ss \in InstantPrices, ss.t <= c.t
  PROVE  ShortStartNumbers(c)
  <1>1. ShortStart(c) \in InstantPrices /\ ShortStart(c).t <= c.t
    BY ShortStarts
  <1>2. /\ Log[ShortStart(c).p] \in Int /\ Tax(ShortStart(c).t) \in Int
        /\ ShortStart(c).t \in Nat /\ Tax(ShortStart(c).t) <= Tax(c.t)
    <2>1. \A x \in InstantPrices : x.t \in Nat /\ Log[x.p] \in Int /\ Tax(x.t) \in Int
      BY Logs, Taxes DEF InstantPrices
    <2>2. \A x \in InstantPrices : x.t <= c.t => Tax(x.t) <= Tax(c.t)
      BY <2>1, Quotes, Taxes
    <2> QED
      BY <1>1, <2>1, <2>2
  <1> QED
    BY <1>1, <1>2, ShortStarts DEF ShortStartNumbers

LEMMA LongStartArithmetic ==
  ASSUME NEW c \in Spreads, Usable(c), sl \in InstantPrices, sl.t <= c.t
  PROVE  LongStartNumbers(c)
  <1>1. LongStart(c) \in InstantPrices /\ LongStart(c).t <= c.t
    BY LongStarts
  <1>2. /\ Log[LongStart(c).p] \in Int /\ Tax(LongStart(c).t) \in Int
        /\ LongStart(c).t \in Nat /\ Tax(LongStart(c).t) <= Tax(c.t)
    <2>1. \A x \in InstantPrices : x.t \in Nat /\ Log[x.p] \in Int /\ Tax(x.t) \in Int
      BY Logs, Taxes DEF InstantPrices
    <2>2. \A x \in InstantPrices : x.t <= c.t => Tax(x.t) <= Tax(c.t)
      BY <2>1, Quotes, Taxes
    <2> QED
      BY <1>1, <2>1, <2>2
  <1> QED
    BY <1>1, <1>2, LongStarts DEF LongStartNumbers

LEMMA LongArithmetic ==
  ASSUME TypeOK, PhaseInv, OrderInv, StartInv, Discovering, NEW c \in Spreads, TakesLong(c)
  PROVE  LongNumbers(c)
  <1>1. IsLong
    BY DEF TakesLong
  <1>2. Log[ss.p] - Tax(ss.t) <= Log[el.p] - Tax(el.t)
    BY <1>1 DEF StartInv
  <1> QED
    BY <1>1, <1>2, LongView, LongConditions DEF LongNumbers

LEMMA ShortArithmetic ==
  ASSUME TypeOK, PhaseInv, OrderInv, StartInv, Discovering, NEW c \in Spreads, TakesShort(c)
  PROVE  ShortNumbers(c)
  <1>1. IsShort
    BY DEF TakesShort
  <1>2. Log[sl.p] + Tax(sl.t) >= Log[es.p] + Tax(es.t)
    BY <1>1 DEF StartInv
  <1> QED
    BY <1>1, <1>2, ShortView, ShortConditions DEF ShortNumbers

-----------------------------------------------------------------------------
(***************************************************************************)
(* Every step that takes a spread keeps the worths those of the dynamic    *)
(* program and makes none smaller.                                         *)
(***************************************************************************)
LEMMA ExtendLongWorth ==
  ASSUME TypeOK, PhaseInv, OrderInv, WorthInv, StartInv, Discovering,
         NEW c \in Spreads, ExtendLong(c)
  PROVE  WorthInv' /\ StartInv' /\ Improves
  <1>1. TakesLong(c) /\ IsLong /\ ExtendsLong(c)
    BY DEF ExtendLong, TakesLong
  <1>2. Usable(c) /\ market' = c /\ Discovering'
    BY <1>1, LongConditions
  <1> HIDE DEF Discovering
  <1>3. /\ sl' = sl /\ el' = Bid(c) /\ ss' = Bid(c)
        /\ es' = es /\ gain' = gain
    BY DEF ExtendLong, Returns, ReturnsNothing
  <1>4. ss.t <= c.t /\ ss \in InstantPrices /\ ss.t \in Nat
    BY <1>1, <1>2, LongConditions, LongView, Quotes, Logs DEF InstantPrices
  <1>5. IsLong' /\ ~IsShort' /\ ~IsFlat'
    BY <1>1, <1>2, <1>3, <1>4, LongView, Quotes, ShortStarts
       DEF IsLong, IsShort, IsFlat, InstantPrices
  <1>6. Value' = gain + LongProfit(sl, Bid(c))
    BY <1>3, <1>5 DEF Value, Pending, LongProfit, ShortProfit, Cost, Minus, Interest
  <1>7. LongProfit(sl, Bid(c)) = Log[c.bid] - Log[sl.p] - (Tax(c.t) - Tax(sl.t)) - Commission
    BY <1>1, <1>2, <1>4, LongConditions, LongView, Quotes, ShortStarts, Profits
       DEF InstantPrices
  <1>8. /\ LongWorth' = gain - Log[sl.p] + Tax(sl.t)
        /\ ShortWorth' = Value' + Log[c.bid] + Tax(c.t)
    BY <1>1, <1>2, <1>3, <1>5, Quotes DEF LongWorth, ShortWorth, Tax, Rho
  <1>9. LongNumbers(c) /\ QuoteNumbers(c) /\ ShortStartNumbers(c)
    BY <1>1, <1>2, <1>4, LongArithmetic, QuoteArithmetic, ShortStartArithmetic
  <1>10. WorthInv'
    <2>1. Value' \in Int /\ LongWorth' \in Int /\ ShortWorth' \in Int
      BY <1>1, <1>3, <1>6, <1>7, <1>8, <1>9 DEF LongNumbers, QuoteNumbers, ShortStartNumbers
    <2>2. Value' - Log[c.ask] + Tax(c.t) <= LongWorth'
      BY <1>1, <1>3, <1>6, <1>7, <1>8, <1>9 DEF LongNumbers, QuoteNumbers, ShortStartNumbers
    <2>3. Value' + Log[c.bid] + Tax(c.t) <= ShortWorth'
      BY <1>1, <1>3, <1>6, <1>7, <1>8, <1>9 DEF LongNumbers, QuoteNumbers, ShortStartNumbers
    <2>4. LongWorth' + Log[c.bid] - Tax(c.t) - Commission <= Value'
      BY <1>1, <1>3, <1>6, <1>7, <1>8, <1>9 DEF LongNumbers, QuoteNumbers, ShortStartNumbers
    <2>5. ShortWorth' - Log[c.ask] - Tax(c.t) - Commission <= Value'
      BY <1>1, <1>3, <1>6, <1>7, <1>8, <1>9 DEF LongNumbers, QuoteNumbers, ShortStartNumbers
    <2> QED
      BY <1>2, <2>1, <2>2, <2>3, <2>4, <2>5 DEF WorthInv
  <1>11. StartInv'
    BY <1>1, <1>3, <1>5, <1>9 DEF StartInv, LongNumbers, QuoteNumbers, ShortStartNumbers
  <1>12. Improves
    BY <1>1, <1>3, <1>6, <1>7, <1>8, <1>9
       DEF Improves, LongNumbers, QuoteNumbers, ShortStartNumbers
  <1> QED
    BY <1>10, <1>11, <1>12

LEMMA ReverseLongWorth ==
  ASSUME TypeOK, PhaseInv, OrderInv, WorthInv, StartInv, Discovering,
         NEW c \in Spreads, ReverseLong(c)
  PROVE  WorthInv' /\ StartInv' /\ Improves
  <1>1. TakesLong(c) /\ IsLong /\ ~ExtendsLong(c) /\ ReversesLong(c)
    BY DEF ReverseLong, TakesLong
  <1>2. Usable(c) /\ market' = c /\ Discovering'
    BY <1>1, LongConditions
  <1> HIDE DEF Discovering
  <1>3. /\ es' = Ask(c) /\ sl' = Ask(c) /\ ss' = ShortStart(c)
        /\ el'.p = 0 /\ gain' = gain + LongProfit(sl, el)
    BY DEF ReverseLong, Returns, ReturnsNothing
  <1>4. ss.t <= c.t /\ ss \in InstantPrices /\ ss.t \in Nat
    BY <1>1, <1>2, LongConditions, LongView, Quotes, Logs DEF InstantPrices
  <1>5. ~IsLong' /\ IsShort' /\ ~IsFlat'
    BY <1>1, <1>2, <1>3, <1>4, LongView, Quotes, ShortStarts
       DEF IsLong, IsShort, IsFlat, InstantPrices
  <1>6. Value' = gain' + ShortProfit(ShortStart(c), Ask(c))
    BY <1>3, <1>5 DEF Value, Pending, LongProfit, ShortProfit, Cost, Minus, Interest
  <1>7. /\ ShortProfit(ShortStart(c), Ask(c)) =
              Log[ShortStart(c).p] - Log[c.ask] - (Tax(c.t) - Tax(ShortStart(c).t)) - Commission
    BY <1>1, <1>2, <1>4, LongConditions, LongView, Quotes, ShortStarts, Profits
       DEF InstantPrices
  <1>8. /\ LongWorth' = Value' - Log[c.ask] + Tax(c.t)
        /\ ShortWorth' = gain' + Log[ShortStart(c).p] + Tax(ShortStart(c).t)
    BY <1>1, <1>2, <1>3, <1>5, Quotes DEF LongWorth, ShortWorth, Tax, Rho
  <1>9. LongNumbers(c) /\ QuoteNumbers(c) /\ ShortStartNumbers(c)
    BY <1>1, <1>2, <1>4, LongArithmetic, QuoteArithmetic, ShortStartArithmetic
  <1>10. WorthInv'
    <2>1. Value' \in Int /\ LongWorth' \in Int /\ ShortWorth' \in Int
      BY <1>1, <1>3, <1>6, <1>7, <1>8, <1>9 DEF LongNumbers, QuoteNumbers, ShortStartNumbers
    <2>2. Value' - Log[c.ask] + Tax(c.t) <= LongWorth'
      BY <1>1, <1>3, <1>6, <1>7, <1>8, <1>9 DEF LongNumbers, QuoteNumbers, ShortStartNumbers
    <2>3. Value' + Log[c.bid] + Tax(c.t) <= ShortWorth'
      BY <1>1, <1>3, <1>6, <1>7, <1>8, <1>9 DEF LongNumbers, QuoteNumbers, ShortStartNumbers
    <2>4. LongWorth' + Log[c.bid] - Tax(c.t) - Commission <= Value'
      BY <1>1, <1>3, <1>6, <1>7, <1>8, <1>9 DEF LongNumbers, QuoteNumbers, ShortStartNumbers
    <2>5. ShortWorth' - Log[c.ask] - Tax(c.t) - Commission <= Value'
      BY <1>1, <1>3, <1>6, <1>7, <1>8, <1>9 DEF LongNumbers, QuoteNumbers, ShortStartNumbers
    <2> QED
      BY <1>2, <2>1, <2>2, <2>3, <2>4, <2>5 DEF WorthInv
  <1>11. StartInv'
    BY <1>1, <1>3, <1>5, <1>9 DEF StartInv, LongNumbers, QuoteNumbers, ShortStartNumbers
  <1>12. Improves
    BY <1>1, <1>3, <1>6, <1>7, <1>8, <1>9
       DEF Improves, LongNumbers, QuoteNumbers, ShortStartNumbers
  <1> QED
    BY <1>10, <1>11, <1>12

LEMMA RestartLongWorth ==
  ASSUME TypeOK, PhaseInv, OrderInv, WorthInv, StartInv, Discovering,
         NEW c \in Spreads, RestartLong(c)
  PROVE  WorthInv' /\ StartInv' /\ Improves
  <1>1. TakesLong(c) /\ IsLong /\ ~ExtendsLong(c) /\ ~ReversesLong(c) /\ RestartsLong(c)
    BY DEF RestartLong, TakesLong
  <1>2. Usable(c) /\ market' = c /\ Discovering'
    BY <1>1, LongConditions
  <1> HIDE DEF Discovering
  <1>3. /\ es' = es /\ sl' = Ask(c) /\ ss' = ShortStart(c)
        /\ el'.p = 0 /\ gain' = gain + LongProfit(sl, el)
    BY DEF RestartLong, Returns, ReturnsNothing
  <1>4. ss.t <= c.t /\ ss \in InstantPrices /\ ss.t \in Nat
    BY <1>1, <1>2, LongConditions, LongView, Quotes, Logs DEF InstantPrices
  <1>5. ~IsLong' /\ ~IsShort' /\ IsFlat'
    BY <1>1, <1>2, <1>3, <1>4, LongView, Quotes, ShortStarts
       DEF IsLong, IsShort, IsFlat, InstantPrices
  <1>6. Value' = gain' + 0
    BY <1>3, <1>5 DEF Value, Pending, LongProfit, ShortProfit, Cost, Minus, Interest
  <1>8. /\ LongWorth' = gain' - Log[c.ask] + Tax(c.t)
        /\ ShortWorth' = gain' + Log[ShortStart(c).p] + Tax(ShortStart(c).t)
    BY <1>1, <1>2, <1>3, <1>5, Quotes DEF LongWorth, ShortWorth, Tax, Rho
  <1>9. LongNumbers(c) /\ QuoteNumbers(c) /\ ShortStartNumbers(c)
    BY <1>1, <1>2, <1>4, LongArithmetic, QuoteArithmetic, ShortStartArithmetic
  <1>10. WorthInv'
    <2>1. Value' \in Int /\ LongWorth' \in Int /\ ShortWorth' \in Int
      BY <1>1, <1>3, <1>6, <1>8, <1>9 DEF LongNumbers, QuoteNumbers, ShortStartNumbers
    <2>2. Value' - Log[c.ask] + Tax(c.t) <= LongWorth'
      BY <1>1, <1>3, <1>6, <1>8, <1>9 DEF LongNumbers, QuoteNumbers, ShortStartNumbers
    <2>3. Value' + Log[c.bid] + Tax(c.t) <= ShortWorth'
      BY <1>1, <1>3, <1>6, <1>8, <1>9 DEF LongNumbers, QuoteNumbers, ShortStartNumbers
    <2>4. LongWorth' + Log[c.bid] - Tax(c.t) - Commission <= Value'
      BY <1>1, <1>3, <1>6, <1>8, <1>9 DEF LongNumbers, QuoteNumbers, ShortStartNumbers
    <2>5. ShortWorth' - Log[c.ask] - Tax(c.t) - Commission <= Value'
      BY <1>1, <1>3, <1>6, <1>8, <1>9 DEF LongNumbers, QuoteNumbers, ShortStartNumbers
    <2> QED
      BY <1>2, <2>1, <2>2, <2>3, <2>4, <2>5 DEF WorthInv
  <1>11. StartInv'
    BY <1>1, <1>3, <1>5, <1>9 DEF StartInv, LongNumbers, QuoteNumbers, ShortStartNumbers
  <1>12. Improves
    BY <1>1, <1>3, <1>6, <1>8, <1>9
       DEF Improves, LongNumbers, QuoteNumbers, ShortStartNumbers
  <1> QED
    BY <1>10, <1>11, <1>12

LEMMA HoldLongWorth ==
  ASSUME TypeOK, PhaseInv, OrderInv, WorthInv, StartInv, Discovering,
         NEW c \in Spreads, HoldLong(c)
  PROVE  WorthInv' /\ StartInv' /\ Improves
  <1>1. TakesLong(c) /\ IsLong /\ ~ExtendsLong(c) /\ ~ReversesLong(c) /\ ~RestartsLong(c)
    BY DEF HoldLong, TakesLong
  <1>2. Usable(c) /\ market' = c /\ Discovering'
    BY <1>1, LongConditions
  <1> HIDE DEF Discovering
  <1>3. /\ es' = es /\ sl' = sl /\ ss' = ShortStart(c)
        /\ el' = el /\ gain' = gain
    BY DEF HoldLong, Returns, ReturnsNothing
  <1>4. ss.t <= c.t /\ ss \in InstantPrices /\ ss.t \in Nat
    BY <1>1, <1>2, LongConditions, LongView, Quotes, Logs DEF InstantPrices
  <1>5. IsLong' /\ ~IsShort' /\ ~IsFlat'
    BY <1>1, <1>2, <1>3, <1>4, LongView, Quotes, ShortStarts
       DEF IsLong, IsShort, IsFlat, InstantPrices
  <1>6. Value' = gain + LongProfit(sl, el)
    BY <1>3, <1>5 DEF Value, Pending, LongProfit, ShortProfit, Cost, Minus, Interest
  <1>8. /\ LongWorth' = gain - Log[sl.p] + Tax(sl.t)
        /\ ShortWorth' = Value' + Log[ShortStart(c).p] + Tax(ShortStart(c).t)
    BY <1>1, <1>2, <1>3, <1>5, Quotes DEF LongWorth, ShortWorth, Tax, Rho
  <1>9. LongNumbers(c) /\ QuoteNumbers(c) /\ ShortStartNumbers(c)
    BY <1>1, <1>2, <1>4, LongArithmetic, QuoteArithmetic, ShortStartArithmetic
  <1>10. WorthInv'
    <2>1. Value' \in Int /\ LongWorth' \in Int /\ ShortWorth' \in Int
      BY <1>1, <1>3, <1>6, <1>8, <1>9 DEF LongNumbers, QuoteNumbers, ShortStartNumbers
    <2>2. Value' - Log[c.ask] + Tax(c.t) <= LongWorth'
      BY <1>1, <1>3, <1>6, <1>8, <1>9 DEF LongNumbers, QuoteNumbers, ShortStartNumbers
    <2>3. Value' + Log[c.bid] + Tax(c.t) <= ShortWorth'
      BY <1>1, <1>3, <1>6, <1>8, <1>9 DEF LongNumbers, QuoteNumbers, ShortStartNumbers
    <2>4. LongWorth' + Log[c.bid] - Tax(c.t) - Commission <= Value'
      BY <1>1, <1>3, <1>6, <1>8, <1>9 DEF LongNumbers, QuoteNumbers, ShortStartNumbers
    <2>5. ShortWorth' - Log[c.ask] - Tax(c.t) - Commission <= Value'
      BY <1>1, <1>3, <1>6, <1>8, <1>9 DEF LongNumbers, QuoteNumbers, ShortStartNumbers
    <2> QED
      BY <1>2, <2>1, <2>2, <2>3, <2>4, <2>5 DEF WorthInv
  <1>11. StartInv'
    BY <1>1, <1>3, <1>5, <1>9 DEF StartInv, LongNumbers, QuoteNumbers, ShortStartNumbers
  <1>12. Improves
    BY <1>1, <1>3, <1>6, <1>8, <1>9
       DEF Improves, LongNumbers, QuoteNumbers, ShortStartNumbers
  <1> QED
    BY <1>10, <1>11, <1>12

LEMMA ExtendShortWorth ==
  ASSUME TypeOK, PhaseInv, OrderInv, WorthInv, StartInv, Discovering,
         NEW c \in Spreads, ExtendShort(c)
  PROVE  WorthInv' /\ StartInv' /\ Improves
  <1>1. TakesShort(c) /\ IsShort /\ ExtendsShort(c)
    BY DEF ExtendShort, TakesShort
  <1>2. Usable(c) /\ market' = c /\ Discovering'
    BY <1>1, ShortConditions
  <1> HIDE DEF Discovering
  <1>3. /\ ss' = ss /\ es' = Ask(c) /\ sl' = Ask(c)
        /\ el' = el /\ gain' = gain
    BY DEF ExtendShort, Returns, ReturnsNothing
  <1>4. sl.t <= c.t /\ sl \in InstantPrices /\ sl.t \in Nat
    BY <1>1, <1>2, ShortConditions, ShortView, Quotes, Logs DEF InstantPrices
  <1>5. ~IsLong' /\ IsShort' /\ ~IsFlat'
    BY <1>1, <1>2, <1>3, <1>4, ShortView, Quotes, LongStarts
       DEF IsLong, IsShort, IsFlat, InstantPrices
  <1>6. Value' = gain + ShortProfit(ss, Ask(c))
    BY <1>3, <1>5 DEF Value, Pending, LongProfit, ShortProfit, Cost, Minus, Interest
  <1>7. ShortProfit(ss, Ask(c)) = Log[ss.p] - Log[c.ask] - (Tax(c.t) - Tax(ss.t)) - Commission
    BY <1>1, <1>2, <1>4, ShortConditions, ShortView, Quotes, LongStarts, Profits
       DEF InstantPrices
  <1>8. /\ ShortWorth' = gain + Log[ss.p] + Tax(ss.t)
        /\ LongWorth' = Value' - Log[c.ask] + Tax(c.t)
    BY <1>1, <1>2, <1>3, <1>5, Quotes DEF LongWorth, ShortWorth, Tax, Rho
  <1>9. ShortNumbers(c) /\ QuoteNumbers(c) /\ LongStartNumbers(c)
    BY <1>1, <1>2, <1>4, ShortArithmetic, QuoteArithmetic, LongStartArithmetic
  <1>10. WorthInv'
    <2>1. Value' \in Int /\ LongWorth' \in Int /\ ShortWorth' \in Int
      BY <1>1, <1>3, <1>6, <1>7, <1>8, <1>9 DEF ShortNumbers, QuoteNumbers, LongStartNumbers
    <2>2. Value' - Log[c.ask] + Tax(c.t) <= LongWorth'
      BY <1>1, <1>3, <1>6, <1>7, <1>8, <1>9 DEF ShortNumbers, QuoteNumbers, LongStartNumbers
    <2>3. Value' + Log[c.bid] + Tax(c.t) <= ShortWorth'
      BY <1>1, <1>3, <1>6, <1>7, <1>8, <1>9 DEF ShortNumbers, QuoteNumbers, LongStartNumbers
    <2>4. LongWorth' + Log[c.bid] - Tax(c.t) - Commission <= Value'
      BY <1>1, <1>3, <1>6, <1>7, <1>8, <1>9 DEF ShortNumbers, QuoteNumbers, LongStartNumbers
    <2>5. ShortWorth' - Log[c.ask] - Tax(c.t) - Commission <= Value'
      BY <1>1, <1>3, <1>6, <1>7, <1>8, <1>9 DEF ShortNumbers, QuoteNumbers, LongStartNumbers
    <2> QED
      BY <1>2, <2>1, <2>2, <2>3, <2>4, <2>5 DEF WorthInv
  <1>11. StartInv'
    BY <1>1, <1>3, <1>5, <1>9 DEF StartInv, ShortNumbers, QuoteNumbers, LongStartNumbers
  <1>12. Improves
    BY <1>1, <1>3, <1>6, <1>7, <1>8, <1>9
       DEF Improves, ShortNumbers, QuoteNumbers, LongStartNumbers
  <1> QED
    BY <1>10, <1>11, <1>12

LEMMA ReverseShortWorth ==
  ASSUME TypeOK, PhaseInv, OrderInv, WorthInv, StartInv, Discovering,
         NEW c \in Spreads, ReverseShort(c)
  PROVE  WorthInv' /\ StartInv' /\ Improves
  <1>1. TakesShort(c) /\ IsShort /\ ~ExtendsShort(c) /\ ReversesShort(c)
    BY DEF ReverseShort, TakesShort
  <1>2. Usable(c) /\ market' = c /\ Discovering'
    BY <1>1, ShortConditions
  <1> HIDE DEF Discovering
  <1>3. /\ el' = Bid(c) /\ ss' = Bid(c) /\ sl' = LongStart(c)
        /\ es'.p = 0 /\ gain' = gain + ShortProfit(ss, es)
    BY DEF ReverseShort, Returns, ReturnsNothing
  <1>4. sl.t <= c.t /\ sl \in InstantPrices /\ sl.t \in Nat
    BY <1>1, <1>2, ShortConditions, ShortView, Quotes, Logs DEF InstantPrices
  <1>5. IsLong' /\ ~IsShort' /\ ~IsFlat'
    BY <1>1, <1>2, <1>3, <1>4, ShortView, Quotes, LongStarts
       DEF IsLong, IsShort, IsFlat, InstantPrices
  <1>6. Value' = gain' + LongProfit(LongStart(c), Bid(c))
    BY <1>3, <1>5 DEF Value, Pending, LongProfit, ShortProfit, Cost, Minus, Interest
  <1>7. /\ LongProfit(LongStart(c), Bid(c)) =
              Log[c.bid] - Log[LongStart(c).p] - (Tax(c.t) - Tax(LongStart(c).t)) - Commission
    BY <1>1, <1>2, <1>4, ShortConditions, ShortView, Quotes, LongStarts, Profits
       DEF InstantPrices
  <1>8. /\ ShortWorth' = Value' + Log[c.bid] + Tax(c.t)
        /\ LongWorth' = gain' - Log[LongStart(c).p] + Tax(LongStart(c).t)
    BY <1>1, <1>2, <1>3, <1>5, Quotes DEF LongWorth, ShortWorth, Tax, Rho
  <1>9. ShortNumbers(c) /\ QuoteNumbers(c) /\ LongStartNumbers(c)
    BY <1>1, <1>2, <1>4, ShortArithmetic, QuoteArithmetic, LongStartArithmetic
  <1>10. WorthInv'
    <2>1. Value' \in Int /\ LongWorth' \in Int /\ ShortWorth' \in Int
      BY <1>1, <1>3, <1>6, <1>7, <1>8, <1>9 DEF ShortNumbers, QuoteNumbers, LongStartNumbers
    <2>2. Value' - Log[c.ask] + Tax(c.t) <= LongWorth'
      BY <1>1, <1>3, <1>6, <1>7, <1>8, <1>9 DEF ShortNumbers, QuoteNumbers, LongStartNumbers
    <2>3. Value' + Log[c.bid] + Tax(c.t) <= ShortWorth'
      BY <1>1, <1>3, <1>6, <1>7, <1>8, <1>9 DEF ShortNumbers, QuoteNumbers, LongStartNumbers
    <2>4. LongWorth' + Log[c.bid] - Tax(c.t) - Commission <= Value'
      BY <1>1, <1>3, <1>6, <1>7, <1>8, <1>9 DEF ShortNumbers, QuoteNumbers, LongStartNumbers
    <2>5. ShortWorth' - Log[c.ask] - Tax(c.t) - Commission <= Value'
      BY <1>1, <1>3, <1>6, <1>7, <1>8, <1>9 DEF ShortNumbers, QuoteNumbers, LongStartNumbers
    <2> QED
      BY <1>2, <2>1, <2>2, <2>3, <2>4, <2>5 DEF WorthInv
  <1>11. StartInv'
    BY <1>1, <1>3, <1>5, <1>9 DEF StartInv, ShortNumbers, QuoteNumbers, LongStartNumbers
  <1>12. Improves
    BY <1>1, <1>3, <1>6, <1>7, <1>8, <1>9
       DEF Improves, ShortNumbers, QuoteNumbers, LongStartNumbers
  <1> QED
    BY <1>10, <1>11, <1>12

LEMMA RestartShortWorth ==
  ASSUME TypeOK, PhaseInv, OrderInv, WorthInv, StartInv, Discovering,
         NEW c \in Spreads, RestartShort(c)
  PROVE  WorthInv' /\ StartInv' /\ Improves
  <1>1. TakesShort(c) /\ IsShort /\ ~ExtendsShort(c) /\ ~ReversesShort(c) /\ RestartsShort(c)
    BY DEF RestartShort, TakesShort
  <1>2. Usable(c) /\ market' = c /\ Discovering'
    BY <1>1, ShortConditions
  <1> HIDE DEF Discovering
  <1>3. /\ el' = el /\ ss' = Bid(c) /\ sl' = LongStart(c)
        /\ es'.p = 0 /\ gain' = gain + ShortProfit(ss, es)
    BY DEF RestartShort, Returns, ReturnsNothing
  <1>4. sl.t <= c.t /\ sl \in InstantPrices /\ sl.t \in Nat
    BY <1>1, <1>2, ShortConditions, ShortView, Quotes, Logs DEF InstantPrices
  <1>5. ~IsLong' /\ ~IsShort' /\ IsFlat'
    BY <1>1, <1>2, <1>3, <1>4, ShortView, Quotes, LongStarts
       DEF IsLong, IsShort, IsFlat, InstantPrices
  <1>6. Value' = gain' + 0
    BY <1>3, <1>5 DEF Value, Pending, LongProfit, ShortProfit, Cost, Minus, Interest
  <1>8. /\ ShortWorth' = gain' + Log[c.bid] + Tax(c.t)
        /\ LongWorth' = gain' - Log[LongStart(c).p] + Tax(LongStart(c).t)
    BY <1>1, <1>2, <1>3, <1>5, Quotes DEF LongWorth, ShortWorth, Tax, Rho
  <1>9. ShortNumbers(c) /\ QuoteNumbers(c) /\ LongStartNumbers(c)
    BY <1>1, <1>2, <1>4, ShortArithmetic, QuoteArithmetic, LongStartArithmetic
  <1>10. WorthInv'
    <2>1. Value' \in Int /\ LongWorth' \in Int /\ ShortWorth' \in Int
      BY <1>1, <1>3, <1>6, <1>8, <1>9 DEF ShortNumbers, QuoteNumbers, LongStartNumbers
    <2>2. Value' - Log[c.ask] + Tax(c.t) <= LongWorth'
      BY <1>1, <1>3, <1>6, <1>8, <1>9 DEF ShortNumbers, QuoteNumbers, LongStartNumbers
    <2>3. Value' + Log[c.bid] + Tax(c.t) <= ShortWorth'
      BY <1>1, <1>3, <1>6, <1>8, <1>9 DEF ShortNumbers, QuoteNumbers, LongStartNumbers
    <2>4. LongWorth' + Log[c.bid] - Tax(c.t) - Commission <= Value'
      BY <1>1, <1>3, <1>6, <1>8, <1>9 DEF ShortNumbers, QuoteNumbers, LongStartNumbers
    <2>5. ShortWorth' - Log[c.ask] - Tax(c.t) - Commission <= Value'
      BY <1>1, <1>3, <1>6, <1>8, <1>9 DEF ShortNumbers, QuoteNumbers, LongStartNumbers
    <2> QED
      BY <1>2, <2>1, <2>2, <2>3, <2>4, <2>5 DEF WorthInv
  <1>11. StartInv'
    BY <1>1, <1>3, <1>5, <1>9 DEF StartInv, ShortNumbers, QuoteNumbers, LongStartNumbers
  <1>12. Improves
    BY <1>1, <1>3, <1>6, <1>8, <1>9
       DEF Improves, ShortNumbers, QuoteNumbers, LongStartNumbers
  <1> QED
    BY <1>10, <1>11, <1>12

LEMMA HoldShortWorth ==
  ASSUME TypeOK, PhaseInv, OrderInv, WorthInv, StartInv, Discovering,
         NEW c \in Spreads, HoldShort(c)
  PROVE  WorthInv' /\ StartInv' /\ Improves
  <1>1. TakesShort(c) /\ IsShort /\ ~ExtendsShort(c) /\ ~ReversesShort(c) /\ ~RestartsShort(c)
    BY DEF HoldShort, TakesShort
  <1>2. Usable(c) /\ market' = c /\ Discovering'
    BY <1>1, ShortConditions
  <1> HIDE DEF Discovering
  <1>3. /\ el' = el /\ ss' = ss /\ sl' = LongStart(c)
        /\ es' = es /\ gain' = gain
    BY DEF HoldShort, Returns, ReturnsNothing
  <1>4. sl.t <= c.t /\ sl \in InstantPrices /\ sl.t \in Nat
    BY <1>1, <1>2, ShortConditions, ShortView, Quotes, Logs DEF InstantPrices
  <1>5. ~IsLong' /\ IsShort' /\ ~IsFlat'
    BY <1>1, <1>2, <1>3, <1>4, ShortView, Quotes, LongStarts
       DEF IsLong, IsShort, IsFlat, InstantPrices
  <1>6. Value' = gain + ShortProfit(ss, es)
    BY <1>3, <1>5 DEF Value, Pending, LongProfit, ShortProfit, Cost, Minus, Interest
  <1>8. /\ ShortWorth' = gain + Log[ss.p] + Tax(ss.t)
        /\ LongWorth' = Value' - Log[LongStart(c).p] + Tax(LongStart(c).t)
    BY <1>1, <1>2, <1>3, <1>5, Quotes DEF LongWorth, ShortWorth, Tax, Rho
  <1>9. ShortNumbers(c) /\ QuoteNumbers(c) /\ LongStartNumbers(c)
    BY <1>1, <1>2, <1>4, ShortArithmetic, QuoteArithmetic, LongStartArithmetic
  <1>10. WorthInv'
    <2>1. Value' \in Int /\ LongWorth' \in Int /\ ShortWorth' \in Int
      BY <1>1, <1>3, <1>6, <1>8, <1>9 DEF ShortNumbers, QuoteNumbers, LongStartNumbers
    <2>2. Value' - Log[c.ask] + Tax(c.t) <= LongWorth'
      BY <1>1, <1>3, <1>6, <1>8, <1>9 DEF ShortNumbers, QuoteNumbers, LongStartNumbers
    <2>3. Value' + Log[c.bid] + Tax(c.t) <= ShortWorth'
      BY <1>1, <1>3, <1>6, <1>8, <1>9 DEF ShortNumbers, QuoteNumbers, LongStartNumbers
    <2>4. LongWorth' + Log[c.bid] - Tax(c.t) - Commission <= Value'
      BY <1>1, <1>3, <1>6, <1>8, <1>9 DEF ShortNumbers, QuoteNumbers, LongStartNumbers
    <2>5. ShortWorth' - Log[c.ask] - Tax(c.t) - Commission <= Value'
      BY <1>1, <1>3, <1>6, <1>8, <1>9 DEF ShortNumbers, QuoteNumbers, LongStartNumbers
    <2> QED
      BY <1>2, <2>1, <2>2, <2>3, <2>4, <2>5 DEF WorthInv
  <1>11. StartInv'
    BY <1>1, <1>3, <1>5, <1>9 DEF StartInv, ShortNumbers, QuoteNumbers, LongStartNumbers
  <1>12. Improves
    BY <1>1, <1>3, <1>6, <1>8, <1>9
       DEF Improves, ShortNumbers, QuoteNumbers, LongStartNumbers
  <1> QED
    BY <1>10, <1>11, <1>12

\* A spread read while no position is open: the conditions in numbers.
LEMMA FlatConditions ==
  ASSUME TypeOK, PhaseInv, OrderInv, Discovering, IsFlat, NEW c \in Spreads, Takes(c)
  PROVE  /\ Usable(c) /\ market \in Spreads /\ Usable(market) /\ market' = c /\ Discovering'
         /\ market.t < c.t /\ Tax(market.t) <= Tax(c.t)
         /\ sl.t <= c.t /\ ss.t <= c.t /\ sl.t < c.t /\ ss.t < c.t
         /\ sl.t \in Nat /\ ss.t \in Nat
         /\ Tax(ss.t) <= Tax(c.t) /\ Tax(sl.t) <= Tax(c.t)
         /\ StartsLong(c) <=>
              Log[c.bid] - Log[sl.p] > Tax(c.t) - Tax(sl.t) + Commission
         /\ StartsShort(c) <=>
              Log[ss.p] - Log[c.ask] > Tax(c.t) - Tax(ss.t) + Commission
  <1>1. sl \in InstantPrices /\ ss \in InstantPrices /\ ss.t <= market.t /\ sl.t <= market.t
    BY FlatView
  <1>2. /\ Usable(c) /\ sl.t < c.t /\ ss.t < c.t
        /\ Tax(ss.t) <= Tax(c.t) /\ Tax(sl.t) <= Tax(c.t)
    BY <1>1, Later
  <1>3. sl.t <= c.t /\ ss.t <= c.t /\ sl.t \in Nat /\ ss.t \in Nat
    BY <1>1, <1>2, Quotes, Logs DEF InstantPrices
  <1>4. StartsLong(c) <=> Log[c.bid] - Log[sl.p] > Tax(c.t) - Tax(sl.t) + Commission
    BY <1>1, <1>2, <1>3, Quotes, Interests DEF StartsLong, Minus
  <1>5. StartsShort(c) <=> Log[ss.p] - Log[c.ask] > Tax(c.t) - Tax(ss.t) + Commission
    BY <1>1, <1>2, <1>3, Quotes, Interests DEF StartsShort, Minus
  <1> QED
    BY <1>2, <1>3, <1>4, <1>5, Later

LEMMA FlatArithmetic ==
  ASSUME TypeOK, PhaseInv, OrderInv, StartInv, Discovering, IsFlat,
         NEW c \in Spreads, Takes(c)
  PROVE  FlatNumbers(c)
  <1>1. /\ Log[ss.p] - Log[sl.p] <= Tax(ss.t) - Tax(sl.t) + Commission \/ ss.t < sl.t
        /\ Log[ss.p] - Log[sl.p] <= Tax(sl.t) - Tax(ss.t) + Commission \/ sl.t < ss.t
    BY DEF StartInv
  <1> QED
    BY <1>1, FlatView, FlatConditions DEF FlatNumbers

LEMMA DiscoverLongWorth ==
  ASSUME TypeOK, PhaseInv, OrderInv, WorthInv, StartInv, Discovering,
         NEW c \in Spreads, DiscoverLong(c)
  PROVE  WorthInv' /\ StartInv' /\ Improves
  <1>1. Takes(c) /\ IsFlat /\ StartsLong(c)
    BY DEF DiscoverLong
  <1>2. /\ Usable(c) /\ market' = c /\ Discovering'
        /\ ss.t <= c.t /\ sl.t <= c.t
    BY <1>1, FlatConditions
  <1> HIDE DEF Discovering
  <1>3. /\ sl' = sl /\ el' = Bid(c) /\ ss' = Bid(c)
        /\ es' = es /\ gain' = gain
    BY DEF DiscoverLong, ReturnsNothing
  <1>4. sl \in InstantPrices /\ ss \in InstantPrices /\ el.p = 0 /\ es.p = 0
    BY <1>1, FlatView
  <1>5. IsLong' /\ ~IsShort' /\ ~IsFlat'
    BY <1>2, <1>3, <1>4, Quotes DEF IsLong, IsShort, IsFlat
  <1>6. Value' = gain + LongProfit(sl, Bid(c))
    BY <1>3, <1>5 DEF Value, Pending, LongProfit, ShortProfit, Cost, Minus, Interest
  <1>7. LongProfit(sl, Bid(c)) = Log[c.bid] - Log[sl.p] - (Tax(c.t) - Tax(sl.t)) - Commission
    BY <1>2, <1>4, Quotes, Profits
  <1>8. /\ LongWorth' = gain - Log[sl.p] + Tax(sl.t)
        /\ ShortWorth' = Value' + Log[c.bid] + Tax(c.t)
    BY <1>1, <1>2, <1>3, <1>5, Quotes DEF LongWorth, ShortWorth, Tax, Rho
  <1>9. FlatNumbers(c) /\ QuoteNumbers(c) /\ ShortStartNumbers(c) /\ LongStartNumbers(c)
    BY <1>1, <1>2, <1>4, FlatArithmetic, QuoteArithmetic, ShortStartArithmetic, LongStartArithmetic
  <1>10. WorthInv'
    <2>1. Value' \in Int /\ LongWorth' \in Int /\ ShortWorth' \in Int
      BY <1>1, <1>3, <1>6, <1>7, <1>8, <1>9
         DEF FlatNumbers, QuoteNumbers, ShortStartNumbers, LongStartNumbers
    <2>2. Value' - Log[c.ask] + Tax(c.t) <= LongWorth'
      BY <1>1, <1>3, <1>6, <1>7, <1>8, <1>9
         DEF FlatNumbers, QuoteNumbers, ShortStartNumbers, LongStartNumbers
    <2>3. Value' + Log[c.bid] + Tax(c.t) <= ShortWorth'
      BY <1>1, <1>3, <1>6, <1>7, <1>8, <1>9
         DEF FlatNumbers, QuoteNumbers, ShortStartNumbers, LongStartNumbers
    <2>4. LongWorth' + Log[c.bid] - Tax(c.t) - Commission <= Value'
      BY <1>1, <1>3, <1>6, <1>7, <1>8, <1>9
         DEF FlatNumbers, QuoteNumbers, ShortStartNumbers, LongStartNumbers
    <2>5. ShortWorth' - Log[c.ask] - Tax(c.t) - Commission <= Value'
      BY <1>1, <1>3, <1>6, <1>7, <1>8, <1>9
         DEF FlatNumbers, QuoteNumbers, ShortStartNumbers, LongStartNumbers
    <2> QED
      BY <1>2, <2>1, <2>2, <2>3, <2>4, <2>5 DEF WorthInv
  <1>11. StartInv'
    BY <1>1, <1>3, <1>5, <1>9
       DEF StartInv, FlatNumbers, QuoteNumbers, ShortStartNumbers, LongStartNumbers
  <1>12. Improves
    BY <1>1, <1>3, <1>6, <1>7, <1>8, <1>9
       DEF Improves, FlatNumbers, QuoteNumbers, ShortStartNumbers, LongStartNumbers
  <1> QED
    BY <1>10, <1>11, <1>12

LEMMA DiscoverShortWorth ==
  ASSUME TypeOK, PhaseInv, OrderInv, WorthInv, StartInv, Discovering,
         NEW c \in Spreads, DiscoverShort(c)
  PROVE  WorthInv' /\ StartInv' /\ Improves
  <1>1. Takes(c) /\ IsFlat /\ ~StartsLong(c) /\ StartsShort(c)
    BY DEF DiscoverShort
  <1>2. /\ Usable(c) /\ market' = c /\ Discovering'
        /\ ss.t <= c.t /\ sl.t <= c.t
    BY <1>1, FlatConditions
  <1> HIDE DEF Discovering
  <1>3. /\ ss' = ss /\ es' = Ask(c) /\ sl' = Ask(c)
        /\ el' = el /\ gain' = gain
    BY DEF DiscoverShort, ReturnsNothing
  <1>4. sl \in InstantPrices /\ ss \in InstantPrices /\ el.p = 0 /\ es.p = 0
    BY <1>1, FlatView
  <1>5. ~IsLong' /\ IsShort' /\ ~IsFlat'
    BY <1>2, <1>3, <1>4, Quotes DEF IsLong, IsShort, IsFlat
  <1>6. Value' = gain + ShortProfit(ss, Ask(c))
    BY <1>3, <1>5 DEF Value, Pending, LongProfit, ShortProfit, Cost, Minus, Interest
  <1>7. ShortProfit(ss, Ask(c)) = Log[ss.p] - Log[c.ask] - (Tax(c.t) - Tax(ss.t)) - Commission
    BY <1>2, <1>4, Quotes, Profits
  <1>8. /\ ShortWorth' = gain + Log[ss.p] + Tax(ss.t)
        /\ LongWorth' = Value' - Log[c.ask] + Tax(c.t)
    BY <1>1, <1>2, <1>3, <1>5, Quotes DEF LongWorth, ShortWorth, Tax, Rho
  <1>9. FlatNumbers(c) /\ QuoteNumbers(c) /\ ShortStartNumbers(c) /\ LongStartNumbers(c)
    BY <1>1, <1>2, <1>4, FlatArithmetic, QuoteArithmetic, ShortStartArithmetic, LongStartArithmetic
  <1>10. WorthInv'
    <2>1. Value' \in Int /\ LongWorth' \in Int /\ ShortWorth' \in Int
      BY <1>1, <1>3, <1>6, <1>7, <1>8, <1>9
         DEF FlatNumbers, QuoteNumbers, ShortStartNumbers, LongStartNumbers
    <2>2. Value' - Log[c.ask] + Tax(c.t) <= LongWorth'
      BY <1>1, <1>3, <1>6, <1>7, <1>8, <1>9
         DEF FlatNumbers, QuoteNumbers, ShortStartNumbers, LongStartNumbers
    <2>3. Value' + Log[c.bid] + Tax(c.t) <= ShortWorth'
      BY <1>1, <1>3, <1>6, <1>7, <1>8, <1>9
         DEF FlatNumbers, QuoteNumbers, ShortStartNumbers, LongStartNumbers
    <2>4. LongWorth' + Log[c.bid] - Tax(c.t) - Commission <= Value'
      BY <1>1, <1>3, <1>6, <1>7, <1>8, <1>9
         DEF FlatNumbers, QuoteNumbers, ShortStartNumbers, LongStartNumbers
    <2>5. ShortWorth' - Log[c.ask] - Tax(c.t) - Commission <= Value'
      BY <1>1, <1>3, <1>6, <1>7, <1>8, <1>9
         DEF FlatNumbers, QuoteNumbers, ShortStartNumbers, LongStartNumbers
    <2> QED
      BY <1>2, <2>1, <2>2, <2>3, <2>4, <2>5 DEF WorthInv
  <1>11. StartInv'
    BY <1>1, <1>3, <1>5, <1>9
       DEF StartInv, FlatNumbers, QuoteNumbers, ShortStartNumbers, LongStartNumbers
  <1>12. Improves
    BY <1>1, <1>3, <1>6, <1>7, <1>8, <1>9
       DEF Improves, FlatNumbers, QuoteNumbers, ShortStartNumbers, LongStartNumbers
  <1> QED
    BY <1>10, <1>11, <1>12

LEMMA WaitWorth ==
  ASSUME TypeOK, PhaseInv, OrderInv, WorthInv, StartInv, Discovering,
         NEW c \in Spreads, Wait(c)
  PROVE  WorthInv' /\ StartInv' /\ Improves
  <1>1. Takes(c) /\ IsFlat /\ ~StartsLong(c) /\ ~StartsShort(c)
    BY DEF Wait
  <1>2. /\ Usable(c) /\ market' = c /\ Discovering'
        /\ ss.t <= c.t /\ sl.t <= c.t
    BY <1>1, FlatConditions
  <1> HIDE DEF Discovering
  <1>3. /\ sl' = LongStart(c) /\ ss' = ShortStart(c)
        /\ el' = el /\ es' = es /\ gain' = gain
    BY DEF Wait, ReturnsNothing
  <1>4. sl \in InstantPrices /\ ss \in InstantPrices /\ el.p = 0 /\ es.p = 0
    BY <1>1, FlatView
  <1>5. ~IsLong' /\ ~IsShort' /\ IsFlat'
    BY <1>2, <1>3, <1>4, Quotes DEF IsLong, IsShort, IsFlat
  <1>6. Value' = gain + 0
    BY <1>3, <1>5 DEF Value, Pending, LongProfit, ShortProfit, Cost, Minus, Interest
  <1>8. /\ LongWorth' = gain - Log[LongStart(c).p] + Tax(LongStart(c).t)
        /\ ShortWorth' = gain + Log[ShortStart(c).p] + Tax(ShortStart(c).t)
    BY <1>1, <1>2, <1>3, <1>5, Quotes DEF LongWorth, ShortWorth, Tax, Rho
  <1>9. FlatNumbers(c) /\ QuoteNumbers(c) /\ ShortStartNumbers(c) /\ LongStartNumbers(c)
    BY <1>1, <1>2, <1>4, FlatArithmetic, QuoteArithmetic, ShortStartArithmetic, LongStartArithmetic
  <1>10. WorthInv'
    <2>1. Value' \in Int /\ LongWorth' \in Int /\ ShortWorth' \in Int
      BY <1>1, <1>3, <1>6, <1>8, <1>9
         DEF FlatNumbers, QuoteNumbers, ShortStartNumbers, LongStartNumbers
    <2>2. Value' - Log[c.ask] + Tax(c.t) <= LongWorth'
      BY <1>1, <1>3, <1>6, <1>8, <1>9
         DEF FlatNumbers, QuoteNumbers, ShortStartNumbers, LongStartNumbers
    <2>3. Value' + Log[c.bid] + Tax(c.t) <= ShortWorth'
      BY <1>1, <1>3, <1>6, <1>8, <1>9
         DEF FlatNumbers, QuoteNumbers, ShortStartNumbers, LongStartNumbers
    <2>4. LongWorth' + Log[c.bid] - Tax(c.t) - Commission <= Value'
      BY <1>1, <1>3, <1>6, <1>8, <1>9
         DEF FlatNumbers, QuoteNumbers, ShortStartNumbers, LongStartNumbers
    <2>5. ShortWorth' - Log[c.ask] - Tax(c.t) - Commission <= Value'
      BY <1>1, <1>3, <1>6, <1>8, <1>9
         DEF FlatNumbers, QuoteNumbers, ShortStartNumbers, LongStartNumbers
    <2> QED
      BY <1>2, <2>1, <2>2, <2>3, <2>4, <2>5 DEF WorthInv
  <1>11. StartInv'
    <2>1. \/ Log[ShortStart(c).p] - Log[LongStart(c).p]
               <= Tax(ShortStart(c).t) - Tax(LongStart(c).t) + Commission
          \/ ShortStart(c).t < LongStart(c).t
      BY <1>1, <1>9 DEF FlatNumbers, QuoteNumbers, ShortStartNumbers, LongStartNumbers
    <2>2. \/ Log[ShortStart(c).p] - Log[LongStart(c).p]
               <= Tax(LongStart(c).t) - Tax(ShortStart(c).t) + Commission
          \/ LongStart(c).t < ShortStart(c).t
      BY <1>1, <1>9 DEF FlatNumbers, QuoteNumbers, ShortStartNumbers, LongStartNumbers
    <2> QED
      BY <1>3, <1>5, <2>1, <2>2 DEF StartInv
  <1>12. Improves
    BY <1>1, <1>3, <1>6, <1>8, <1>9
       DEF Improves, FlatNumbers, QuoteNumbers, ShortStartNumbers, LongStartNumbers
  <1> QED
    BY <1>10, <1>11, <1>12

-----------------------------------------------------------------------------
(***************************************************************************)
(* The same steps keep the types, the phases and the order of positions.   *)
(***************************************************************************)
LEMMA DiscoverLongOrder ==
  ASSUME TypeOK, PhaseInv, OrderInv, StartInv, Discovering,
         NEW c \in Spreads, DiscoverLong(c)
  PROVE  TypeOK' /\ PhaseInv' /\ OrderInv'
  <1>1. Takes(c) /\ IsFlat /\ StartsLong(c)
    BY DEF DiscoverLong
  <1>2. /\ Usable(c) /\ market' = c /\ Discovering' /\ ~Looking' /\ ~ended'
        /\ time' = c.t /\ rival' = rival
        /\ is_all_processed' = is_all_processed /\ ended' = ended
    BY <1>1, FlatConditions DEF Takes, Read, Discovering, Looking
  <1> HIDE DEF Discovering, Looking
  <1>3. /\ sl' = sl /\ el' = Bid(c) /\ ss' = Bid(c) /\ es' = es
        /\ gain' = gain /\ returned' = returned
    BY DEF DiscoverLong, Returns, ReturnsNothing
  <1>4. /\ sl \in InstantPrices /\ ss \in InstantPrices
        /\ sl.t \in Nat /\ sl.t <= c.t /\ ss.t \in Nat /\ ss.t <= c.t
        /\ returned.e.t <= sl.t /\ returned.e.t <= ss.t /\ returned.e.t \in Nat
        /\ rival.at.t <= c.t
    <2>1. /\ sl \in InstantPrices /\ ss \in InstantPrices
          /\ sl.t <= market.t /\ ss.t <= market.t /\ rival.at.t <= market.t
          /\ rival.at \in InstantPrices \union {Unset}
          /\ returned.e \in InstantPrices \union {Unset}
          /\ returned.e.t <= sl.t /\ returned.e.t <= ss.t
      BY DEF TypeOK, PhaseInv, OrderInv
    <2>2. \A x \in InstantPrices \union {Unset} : x.t \in Nat
      BY Logs DEF InstantPrices, Unset
    <2>3. market.t \in Nat /\ c.t \in Nat /\ market.t < c.t
      BY <1>1, FlatConditions, Quotes
    <2> QED
      BY <2>1, <2>2, <2>3
  <1>5. /\ ShortStart(c) \in InstantPrices /\ ss.t <= ShortStart(c).t
        /\ ShortStart(c).t <= c.t /\ ShortStart(c).t \in Nat
        /\ LongStart(c) \in InstantPrices /\ sl.t <= LongStart(c).t
        /\ LongStart(c).t <= c.t /\ LongStart(c).t \in Nat
    BY <1>2, <1>4, ShortStarts, LongStarts, Logs DEF InstantPrices
  <1>6. IsLong' /\ ~IsShort' /\ ~IsFlat'
    BY <1>1, <1>2, <1>3, <1>5, FlatView, Quotes DEF IsLong, IsShort, IsFlat, InstantPrices
  <1>7. LongProfit(sl, Bid(c)) > 0
    <2>1. /\ sl \in InstantPrices /\ Bid(c) \in InstantPrices /\ sl.t <= Bid(c).t
          /\ Bid(c).t = c.t /\ Tax(sl.t) \in Int
      BY <1>2, <1>4, <1>5, Quotes, Taxes
    <2>2. /\ LongProfit(sl, Bid(c)) =
               Log[Bid(c).p] - Log[sl.p] - (Tax(Bid(c).t) - Tax(sl.t)) - Commission
          /\ Log[sl.p] \in Int
      BY <2>1, Profits
    <2> QED
      BY <1>1, <1>2, <2>1, <2>2, FlatConditions, FlatView, Quotes, Costs DEF OrderInv
  <1>8. LongProfit(sl, el)' > 0
    BY <1>3, <1>7 DEF LongProfit, Cost, Minus, Interest
  <1>9. TypeOK'
    BY <1>1, <1>2, <1>3, <1>4, <1>5, FlatView, Quotes, Logs, Costs
       DEF TypeOK, Spreads, InstantPrices, Unset
  <1>10. PhaseInv'
    BY <1>1, <1>2, <1>3, <1>4, <1>5, <1>6, FlatView, FlatConditions, Quotes DEF PhaseInv
  <1>11. OrderInv'
    BY <1>1, <1>2, <1>3, <1>4, <1>5, <1>6, <1>8, FlatView, FlatConditions, Quotes
       DEF OrderInv, LongProfit, ShortProfit, Cost, Minus, Interest
  <1> QED
    BY <1>9, <1>10, <1>11

LEMMA DiscoverShortOrder ==
  ASSUME TypeOK, PhaseInv, OrderInv, StartInv, Discovering,
         NEW c \in Spreads, DiscoverShort(c)
  PROVE  TypeOK' /\ PhaseInv' /\ OrderInv'
  <1>1. Takes(c) /\ IsFlat /\ StartsShort(c)
    BY DEF DiscoverShort
  <1>2. /\ Usable(c) /\ market' = c /\ Discovering' /\ ~Looking' /\ ~ended'
        /\ time' = c.t /\ rival' = rival
        /\ is_all_processed' = is_all_processed /\ ended' = ended
    BY <1>1, FlatConditions DEF Takes, Read, Discovering, Looking
  <1> HIDE DEF Discovering, Looking
  <1>3. /\ ss' = ss /\ es' = Ask(c) /\ sl' = Ask(c) /\ el' = el
        /\ gain' = gain /\ returned' = returned
    BY DEF DiscoverShort, Returns, ReturnsNothing
  <1>4. /\ sl \in InstantPrices /\ ss \in InstantPrices
        /\ sl.t \in Nat /\ sl.t <= c.t /\ ss.t \in Nat /\ ss.t <= c.t
        /\ returned.e.t <= sl.t /\ returned.e.t <= ss.t /\ returned.e.t \in Nat
        /\ rival.at.t <= c.t
    <2>1. /\ sl \in InstantPrices /\ ss \in InstantPrices
          /\ sl.t <= market.t /\ ss.t <= market.t /\ rival.at.t <= market.t
          /\ rival.at \in InstantPrices \union {Unset}
          /\ returned.e \in InstantPrices \union {Unset}
          /\ returned.e.t <= sl.t /\ returned.e.t <= ss.t
      BY DEF TypeOK, PhaseInv, OrderInv
    <2>2. \A x \in InstantPrices \union {Unset} : x.t \in Nat
      BY Logs DEF InstantPrices, Unset
    <2>3. market.t \in Nat /\ c.t \in Nat /\ market.t < c.t
      BY <1>1, FlatConditions, Quotes
    <2> QED
      BY <2>1, <2>2, <2>3
  <1>5. /\ ShortStart(c) \in InstantPrices /\ ss.t <= ShortStart(c).t
        /\ ShortStart(c).t <= c.t /\ ShortStart(c).t \in Nat
        /\ LongStart(c) \in InstantPrices /\ sl.t <= LongStart(c).t
        /\ LongStart(c).t <= c.t /\ LongStart(c).t \in Nat
    BY <1>2, <1>4, ShortStarts, LongStarts, Logs DEF InstantPrices
  <1>6. ~IsLong' /\ IsShort' /\ ~IsFlat'
    BY <1>1, <1>2, <1>3, <1>5, FlatView, Quotes DEF IsLong, IsShort, IsFlat, InstantPrices
  <1>7. ShortProfit(ss, Ask(c)) > 0
    <2>1. /\ ss \in InstantPrices /\ Ask(c) \in InstantPrices /\ ss.t <= Ask(c).t
          /\ Ask(c).t = c.t /\ Tax(ss.t) \in Int
      BY <1>2, <1>4, <1>5, Quotes, Taxes
    <2>2. /\ ShortProfit(ss, Ask(c)) =
               Log[ss.p] - Log[Ask(c).p] - (Tax(Ask(c).t) - Tax(ss.t)) - Commission
          /\ Log[ss.p] \in Int
      BY <2>1, Profits
    <2> QED
      BY <1>1, <1>2, <2>1, <2>2, FlatConditions, FlatView, Quotes, Costs DEF OrderInv
  <1>8. ShortProfit(ss, es)' > 0
    BY <1>3, <1>7 DEF ShortProfit, Cost, Minus, Interest
  <1>9. TypeOK'
    BY <1>1, <1>2, <1>3, <1>4, <1>5, FlatView, Quotes, Logs, Costs
       DEF TypeOK, Spreads, InstantPrices, Unset
  <1>10. PhaseInv'
    BY <1>1, <1>2, <1>3, <1>4, <1>5, <1>6, FlatView, FlatConditions, Quotes DEF PhaseInv
  <1>11. OrderInv'
    BY <1>1, <1>2, <1>3, <1>4, <1>5, <1>6, <1>8, FlatView, FlatConditions, Quotes
       DEF OrderInv, LongProfit, ShortProfit, Cost, Minus, Interest
  <1> QED
    BY <1>9, <1>10, <1>11

LEMMA WaitOrder ==
  ASSUME TypeOK, PhaseInv, OrderInv, StartInv, Discovering,
         NEW c \in Spreads, Wait(c)
  PROVE  TypeOK' /\ PhaseInv' /\ OrderInv'
  <1>1. Takes(c) /\ IsFlat /\ ~StartsLong(c)
    BY DEF Wait
  <1>2. /\ Usable(c) /\ market' = c /\ Discovering' /\ ~Looking' /\ ~ended'
        /\ time' = c.t /\ rival' = rival
        /\ is_all_processed' = is_all_processed /\ ended' = ended
    BY <1>1, FlatConditions DEF Takes, Read, Discovering, Looking
  <1> HIDE DEF Discovering, Looking
  <1>3. /\ sl' = LongStart(c) /\ ss' = ShortStart(c) /\ el' = el /\ es' = es
        /\ gain' = gain /\ returned' = returned
    BY DEF Wait, Returns, ReturnsNothing
  <1>4. /\ sl \in InstantPrices /\ ss \in InstantPrices
        /\ sl.t \in Nat /\ sl.t <= c.t /\ ss.t \in Nat /\ ss.t <= c.t
        /\ returned.e.t <= sl.t /\ returned.e.t <= ss.t /\ returned.e.t \in Nat
        /\ rival.at.t <= c.t
    <2>1. /\ sl \in InstantPrices /\ ss \in InstantPrices
          /\ sl.t <= market.t /\ ss.t <= market.t /\ rival.at.t <= market.t
          /\ rival.at \in InstantPrices \union {Unset}
          /\ returned.e \in InstantPrices \union {Unset}
          /\ returned.e.t <= sl.t /\ returned.e.t <= ss.t
      BY DEF TypeOK, PhaseInv, OrderInv
    <2>2. \A x \in InstantPrices \union {Unset} : x.t \in Nat
      BY Logs DEF InstantPrices, Unset
    <2>3. market.t \in Nat /\ c.t \in Nat /\ market.t < c.t
      BY <1>1, FlatConditions, Quotes
    <2> QED
      BY <2>1, <2>2, <2>3
  <1>5. /\ ShortStart(c) \in InstantPrices /\ ss.t <= ShortStart(c).t
        /\ ShortStart(c).t <= c.t /\ ShortStart(c).t \in Nat
        /\ LongStart(c) \in InstantPrices /\ sl.t <= LongStart(c).t
        /\ LongStart(c).t <= c.t /\ LongStart(c).t \in Nat
    BY <1>2, <1>4, ShortStarts, LongStarts, Logs DEF InstantPrices
  <1>6. ~IsLong' /\ ~IsShort' /\ IsFlat'
    BY <1>1, <1>2, <1>3, <1>5, FlatView, Quotes DEF IsLong, IsShort, IsFlat, InstantPrices
  <1>7. TypeOK'
    BY <1>1, <1>2, <1>3, <1>4, <1>5, FlatView, Quotes, Logs, Costs
       DEF TypeOK, Spreads, InstantPrices, Unset
  <1>8. PhaseInv'
    BY <1>1, <1>2, <1>3, <1>4, <1>5, <1>6, FlatView, FlatConditions, Quotes DEF PhaseInv
  <1>9. OrderInv'
    BY <1>1, <1>2, <1>3, <1>4, <1>5, <1>6, FlatView, FlatConditions, Quotes
       DEF OrderInv, LongProfit, ShortProfit, Cost, Minus, Interest
  <1> QED
    BY <1>7, <1>8, <1>9

LEMMA ExtendLongOrder ==
  ASSUME TypeOK, PhaseInv, OrderInv, StartInv, Discovering,
         NEW c \in Spreads, ExtendLong(c)
  PROVE  TypeOK' /\ PhaseInv' /\ OrderInv'
  <1>1. TakesLong(c) /\ Takes(c) /\ IsLong /\ ExtendsLong(c)
    BY DEF ExtendLong, TakesLong
  <1>2. /\ Usable(c) /\ market' = c /\ Discovering' /\ ~Looking' /\ ~ended'
        /\ time' = c.t /\ rival' = rival
        /\ is_all_processed' = is_all_processed /\ ended' = ended
    BY <1>1, LongConditions DEF Takes, Read, Discovering, Looking
  <1> HIDE DEF Discovering, Looking
  <1>3. /\ sl' = sl /\ el' = Bid(c) /\ ss' = Bid(c) /\ es' = es
        /\ gain' = gain /\ returned' = returned
    BY DEF ExtendLong, Returns, ReturnsNothing
  <1>4. /\ sl \in InstantPrices /\ ss \in InstantPrices
        /\ sl.t \in Nat /\ sl.t <= c.t /\ ss.t \in Nat /\ ss.t <= c.t
        /\ returned.e.t <= sl.t /\ returned.e.t <= ss.t /\ returned.e.t \in Nat
        /\ rival.at.t <= c.t
    <2>1. /\ sl \in InstantPrices /\ ss \in InstantPrices
          /\ sl.t <= market.t /\ ss.t <= market.t /\ rival.at.t <= market.t
          /\ rival.at \in InstantPrices \union {Unset}
          /\ returned.e \in InstantPrices \union {Unset}
          /\ returned.e.t <= sl.t /\ returned.e.t <= ss.t
      BY DEF TypeOK, PhaseInv, OrderInv
    <2>2. \A x \in InstantPrices \union {Unset} : x.t \in Nat
      BY Logs DEF InstantPrices, Unset
    <2>3. market.t \in Nat /\ c.t \in Nat /\ market.t < c.t
      BY <1>1, LongConditions, Quotes
    <2> QED
      BY <2>1, <2>2, <2>3
  <1>5. /\ ShortStart(c) \in InstantPrices /\ ss.t <= ShortStart(c).t
        /\ ShortStart(c).t <= c.t /\ ShortStart(c).t \in Nat
        /\ LongStart(c) \in InstantPrices /\ sl.t <= LongStart(c).t
        /\ LongStart(c).t <= c.t /\ LongStart(c).t \in Nat
    BY <1>2, <1>4, ShortStarts, LongStarts, Logs DEF InstantPrices
  <1>6. IsLong' /\ ~IsShort' /\ ~IsFlat'
    BY <1>1, <1>2, <1>3, <1>5, LongView, Quotes DEF IsLong, IsShort, IsFlat, InstantPrices
  <1>7. /\ el \in InstantPrices /\ el.t \in Nat /\ el.t <= c.t
        /\ el.t <= ss.t /\ sl.t < el.t
        /\ [el EXCEPT !.p = 0] \in [p : Prices \union {0}, t : 0..MaxTime]
        /\ [el EXCEPT !.p = 0].p = 0
    BY <1>1, LongConditions, LongView, Quotes, Logs DEF InstantPrices
  <1>8. LongProfit(sl, Bid(c)) > 0
    <2>1. /\ sl \in InstantPrices /\ Bid(c) \in InstantPrices /\ sl.t <= Bid(c).t
          /\ Bid(c).t = c.t /\ Tax(sl.t) \in Int
      BY <1>2, <1>4, <1>5, Quotes, Taxes
    <2>2. /\ LongProfit(sl, Bid(c)) =
               Log[Bid(c).p] - Log[sl.p] - (Tax(Bid(c).t) - Tax(sl.t)) - Commission
          /\ Log[sl.p] \in Int
      BY <2>1, Profits
    <2> QED
      BY <1>1, <1>2, <2>1, <2>2, LongConditions, LongView, Quotes, Costs DEF OrderInv
  <1>9. LongProfit(sl, el)' > 0
    BY <1>3, <1>8 DEF LongProfit, Cost, Minus, Interest
  <1>10. TypeOK'
    BY <1>1, <1>2, <1>3, <1>4, <1>5, <1>7, LongView, Quotes, Logs, Costs
       DEF TypeOK, Spreads, InstantPrices, Unset
  <1>11. PhaseInv'
    BY <1>1, <1>2, <1>3, <1>4, <1>5, <1>6, <1>7, LongView, LongConditions, Quotes
       DEF PhaseInv
  <1>12. OrderInv'
    BY <1>1, <1>2, <1>3, <1>4, <1>5, <1>6, <1>7, <1>9, LongView, LongConditions, Quotes
       DEF OrderInv, LongProfit, ShortProfit, Cost, Minus, Interest
  <1> QED
    BY <1>10, <1>11, <1>12

LEMMA ReverseLongOrder ==
  ASSUME TypeOK, PhaseInv, OrderInv, StartInv, Discovering,
         NEW c \in Spreads, ReverseLong(c)
  PROVE  TypeOK' /\ PhaseInv' /\ OrderInv'
  <1>1. TakesLong(c) /\ Takes(c) /\ IsLong /\ ReversesLong(c)
    BY DEF ReverseLong, TakesLong
  <1>2. /\ Usable(c) /\ market' = c /\ Discovering' /\ ~Looking' /\ ~ended'
        /\ time' = c.t /\ rival' = rival
        /\ is_all_processed' = is_all_processed /\ ended' = ended
    BY <1>1, LongConditions DEF Takes, Read, Discovering, Looking
  <1> HIDE DEF Discovering, Looking
  <1>3. /\ es' = Ask(c) /\ sl' = Ask(c) /\ ss' = ShortStart(c) /\ el' = [el EXCEPT !.p = 0]
        /\ gain' = gain + LongProfit(sl, el) /\ returned' = [s |-> sl, e |-> el]
    BY DEF ReverseLong, Returns, ReturnsNothing
  <1>4. /\ sl \in InstantPrices /\ ss \in InstantPrices
        /\ sl.t \in Nat /\ sl.t <= c.t /\ ss.t \in Nat /\ ss.t <= c.t
        /\ returned.e.t <= sl.t /\ returned.e.t <= ss.t /\ returned.e.t \in Nat
        /\ rival.at.t <= c.t
    <2>1. /\ sl \in InstantPrices /\ ss \in InstantPrices
          /\ sl.t <= market.t /\ ss.t <= market.t /\ rival.at.t <= market.t
          /\ rival.at \in InstantPrices \union {Unset}
          /\ returned.e \in InstantPrices \union {Unset}
          /\ returned.e.t <= sl.t /\ returned.e.t <= ss.t
      BY DEF TypeOK, PhaseInv, OrderInv
    <2>2. \A x \in InstantPrices \union {Unset} : x.t \in Nat
      BY Logs DEF InstantPrices, Unset
    <2>3. market.t \in Nat /\ c.t \in Nat /\ market.t < c.t
      BY <1>1, LongConditions, Quotes
    <2> QED
      BY <2>1, <2>2, <2>3
  <1>5. /\ ShortStart(c) \in InstantPrices /\ ss.t <= ShortStart(c).t
        /\ ShortStart(c).t <= c.t /\ ShortStart(c).t \in Nat
        /\ LongStart(c) \in InstantPrices /\ sl.t <= LongStart(c).t
        /\ LongStart(c).t <= c.t /\ LongStart(c).t \in Nat
    BY <1>2, <1>4, ShortStarts, LongStarts, Logs DEF InstantPrices
  <1>6. ~IsLong' /\ IsShort' /\ ~IsFlat'
    BY <1>1, <1>2, <1>3, <1>5, LongView, Quotes DEF IsLong, IsShort, IsFlat, InstantPrices
  <1>7. /\ el \in InstantPrices /\ el.t \in Nat /\ el.t <= c.t
        /\ el.t <= ss.t /\ sl.t < el.t
        /\ [el EXCEPT !.p = 0] \in [p : Prices \union {0}, t : 0..MaxTime]
        /\ [el EXCEPT !.p = 0].p = 0
    BY <1>1, LongConditions, LongView, Quotes, Logs DEF InstantPrices
  <1>8. ShortProfit(ShortStart(c), Ask(c)) > 0
    <2>1. /\ ShortStart(c) \in InstantPrices /\ Ask(c) \in InstantPrices /\ ShortStart(c).t <= Ask(c).t
          /\ Ask(c).t = c.t /\ Tax(ShortStart(c).t) \in Int
      BY <1>2, <1>4, <1>5, Quotes, Taxes
    <2>2. /\ ShortProfit(ShortStart(c), Ask(c)) =
               Log[ShortStart(c).p] - Log[Ask(c).p] - (Tax(Ask(c).t) - Tax(ShortStart(c).t)) - Commission
          /\ Log[ShortStart(c).p] \in Int
      BY <2>1, Profits
    <2> QED
      BY <1>1, <1>2, <2>1, <2>2, LongConditions, LongView, Quotes, Costs DEF OrderInv
  <1>9. ShortProfit(ss, es)' > 0
    BY <1>3, <1>8 DEF ShortProfit, Cost, Minus, Interest
  <1>10. ShortStart(c).t < c.t
    <2>1. CASE ShortStart(c) = ss
      BY <1>1, <2>1, LongConditions
    <2>2. CASE ShortStart(c) = Bid(c)
      <3>1. ShortProfit(Bid(c), Ask(c)) = Log[c.bid] - Log[c.ask] - (Tax(c.t) - Tax(c.t)) - Commission
        BY <1>2, Quotes, Profits
      <3> QED
        BY <1>2, <1>8, <2>2, <3>1, Quotes, Costs
    <2> QED
      BY <1>2, <1>4, <2>1, <2>2, ShortStarts, Quotes, Logs DEF InstantPrices
  <1>11. TypeOK'
    BY <1>1, <1>2, <1>3, <1>4, <1>5, <1>7, LongView, Quotes, Logs, Costs
       DEF TypeOK, Spreads, InstantPrices, Unset
  <1>12. PhaseInv'
    BY <1>1, <1>2, <1>3, <1>4, <1>5, <1>6, <1>7, LongView, LongConditions, Quotes
       DEF PhaseInv
  <1>13. OrderInv'
    BY <1>1, <1>2, <1>3, <1>4, <1>5, <1>6, <1>7, <1>9, <1>10, LongView, LongConditions, Quotes
       DEF OrderInv, LongProfit, ShortProfit, Cost, Minus, Interest
  <1> QED
    BY <1>11, <1>12, <1>13

LEMMA RestartLongOrder ==
  ASSUME TypeOK, PhaseInv, OrderInv, StartInv, Discovering,
         NEW c \in Spreads, RestartLong(c)
  PROVE  TypeOK' /\ PhaseInv' /\ OrderInv'
  <1>1. TakesLong(c) /\ Takes(c) /\ IsLong /\ RestartsLong(c)
    BY DEF RestartLong, TakesLong
  <1>2. /\ Usable(c) /\ market' = c /\ Discovering' /\ ~Looking' /\ ~ended'
        /\ time' = c.t /\ rival' = rival
        /\ is_all_processed' = is_all_processed /\ ended' = ended
    BY <1>1, LongConditions DEF Takes, Read, Discovering, Looking
  <1> HIDE DEF Discovering, Looking
  <1>3. /\ es' = es /\ sl' = Ask(c) /\ ss' = ShortStart(c) /\ el' = [el EXCEPT !.p = 0]
        /\ gain' = gain + LongProfit(sl, el) /\ returned' = [s |-> sl, e |-> el]
    BY DEF RestartLong, Returns, ReturnsNothing
  <1>4. /\ sl \in InstantPrices /\ ss \in InstantPrices
        /\ sl.t \in Nat /\ sl.t <= c.t /\ ss.t \in Nat /\ ss.t <= c.t
        /\ returned.e.t <= sl.t /\ returned.e.t <= ss.t /\ returned.e.t \in Nat
        /\ rival.at.t <= c.t
    <2>1. /\ sl \in InstantPrices /\ ss \in InstantPrices
          /\ sl.t <= market.t /\ ss.t <= market.t /\ rival.at.t <= market.t
          /\ rival.at \in InstantPrices \union {Unset}
          /\ returned.e \in InstantPrices \union {Unset}
          /\ returned.e.t <= sl.t /\ returned.e.t <= ss.t
      BY DEF TypeOK, PhaseInv, OrderInv
    <2>2. \A x \in InstantPrices \union {Unset} : x.t \in Nat
      BY Logs DEF InstantPrices, Unset
    <2>3. market.t \in Nat /\ c.t \in Nat /\ market.t < c.t
      BY <1>1, LongConditions, Quotes
    <2> QED
      BY <2>1, <2>2, <2>3
  <1>5. /\ ShortStart(c) \in InstantPrices /\ ss.t <= ShortStart(c).t
        /\ ShortStart(c).t <= c.t /\ ShortStart(c).t \in Nat
        /\ LongStart(c) \in InstantPrices /\ sl.t <= LongStart(c).t
        /\ LongStart(c).t <= c.t /\ LongStart(c).t \in Nat
    BY <1>2, <1>4, ShortStarts, LongStarts, Logs DEF InstantPrices
  <1>6. ~IsLong' /\ ~IsShort' /\ IsFlat'
    BY <1>1, <1>2, <1>3, <1>5, LongView, Quotes DEF IsLong, IsShort, IsFlat, InstantPrices
  <1>7. /\ el \in InstantPrices /\ el.t \in Nat /\ el.t <= c.t
        /\ el.t <= ss.t /\ sl.t < el.t
        /\ [el EXCEPT !.p = 0] \in [p : Prices \union {0}, t : 0..MaxTime]
        /\ [el EXCEPT !.p = 0].p = 0
    BY <1>1, LongConditions, LongView, Quotes, Logs DEF InstantPrices
  <1>8. TypeOK'
    BY <1>1, <1>2, <1>3, <1>4, <1>5, <1>7, LongView, Quotes, Logs, Costs
       DEF TypeOK, Spreads, InstantPrices, Unset
  <1>9. PhaseInv'
    BY <1>1, <1>2, <1>3, <1>4, <1>5, <1>6, <1>7, LongView, LongConditions, Quotes
       DEF PhaseInv
  <1>10. OrderInv'
    BY <1>1, <1>2, <1>3, <1>4, <1>5, <1>6, <1>7, LongView, LongConditions, Quotes
       DEF OrderInv, LongProfit, ShortProfit, Cost, Minus, Interest
  <1> QED
    BY <1>8, <1>9, <1>10

LEMMA HoldLongOrder ==
  ASSUME TypeOK, PhaseInv, OrderInv, StartInv, Discovering,
         NEW c \in Spreads, HoldLong(c)
  PROVE  TypeOK' /\ PhaseInv' /\ OrderInv'
  <1>1. TakesLong(c) /\ Takes(c) /\ IsLong /\ ~ExtendsLong(c)
    BY DEF HoldLong, TakesLong
  <1>2. /\ Usable(c) /\ market' = c /\ Discovering' /\ ~Looking' /\ ~ended'
        /\ time' = c.t /\ rival' = rival
        /\ is_all_processed' = is_all_processed /\ ended' = ended
    BY <1>1, LongConditions DEF Takes, Read, Discovering, Looking
  <1> HIDE DEF Discovering, Looking
  <1>3. /\ es' = es /\ sl' = sl /\ ss' = ShortStart(c) /\ el' = el
        /\ gain' = gain /\ returned' = returned
    BY DEF HoldLong, Returns, ReturnsNothing
  <1>4. /\ sl \in InstantPrices /\ ss \in InstantPrices
        /\ sl.t \in Nat /\ sl.t <= c.t /\ ss.t \in Nat /\ ss.t <= c.t
        /\ returned.e.t <= sl.t /\ returned.e.t <= ss.t /\ returned.e.t \in Nat
        /\ rival.at.t <= c.t
    <2>1. /\ sl \in InstantPrices /\ ss \in InstantPrices
          /\ sl.t <= market.t /\ ss.t <= market.t /\ rival.at.t <= market.t
          /\ rival.at \in InstantPrices \union {Unset}
          /\ returned.e \in InstantPrices \union {Unset}
          /\ returned.e.t <= sl.t /\ returned.e.t <= ss.t
      BY DEF TypeOK, PhaseInv, OrderInv
    <2>2. \A x \in InstantPrices \union {Unset} : x.t \in Nat
      BY Logs DEF InstantPrices, Unset
    <2>3. market.t \in Nat /\ c.t \in Nat /\ market.t < c.t
      BY <1>1, LongConditions, Quotes
    <2> QED
      BY <2>1, <2>2, <2>3
  <1>5. /\ ShortStart(c) \in InstantPrices /\ ss.t <= ShortStart(c).t
        /\ ShortStart(c).t <= c.t /\ ShortStart(c).t \in Nat
        /\ LongStart(c) \in InstantPrices /\ sl.t <= LongStart(c).t
        /\ LongStart(c).t <= c.t /\ LongStart(c).t \in Nat
    BY <1>2, <1>4, ShortStarts, LongStarts, Logs DEF InstantPrices
  <1>6. IsLong' /\ ~IsShort' /\ ~IsFlat'
    BY <1>1, <1>2, <1>3, <1>5, LongView, Quotes DEF IsLong, IsShort, IsFlat, InstantPrices
  <1>7. /\ el \in InstantPrices /\ el.t \in Nat /\ el.t <= c.t
        /\ el.t <= ss.t /\ sl.t < el.t
        /\ [el EXCEPT !.p = 0] \in [p : Prices \union {0}, t : 0..MaxTime]
        /\ [el EXCEPT !.p = 0].p = 0
    BY <1>1, LongConditions, LongView, Quotes, Logs DEF InstantPrices
  <1>8. TypeOK'
    BY <1>1, <1>2, <1>3, <1>4, <1>5, <1>7, LongView, Quotes, Logs, Costs
       DEF TypeOK, Spreads, InstantPrices, Unset
  <1>9. PhaseInv'
    BY <1>1, <1>2, <1>3, <1>4, <1>5, <1>6, <1>7, LongView, LongConditions, Quotes
       DEF PhaseInv
  <1>10. OrderInv'
    BY <1>1, <1>2, <1>3, <1>4, <1>5, <1>6, <1>7, LongView, LongConditions, Quotes
       DEF OrderInv, LongProfit, ShortProfit, Cost, Minus, Interest
  <1> QED
    BY <1>8, <1>9, <1>10

LEMMA ExtendShortOrder ==
  ASSUME TypeOK, PhaseInv, OrderInv, StartInv, Discovering,
         NEW c \in Spreads, ExtendShort(c)
  PROVE  TypeOK' /\ PhaseInv' /\ OrderInv'
  <1>1. TakesShort(c) /\ Takes(c) /\ IsShort /\ ExtendsShort(c)
    BY DEF ExtendShort, TakesShort
  <1>2. /\ Usable(c) /\ market' = c /\ Discovering' /\ ~Looking' /\ ~ended'
        /\ time' = c.t /\ rival' = rival
        /\ is_all_processed' = is_all_processed /\ ended' = ended
    BY <1>1, ShortConditions DEF Takes, Read, Discovering, Looking
  <1> HIDE DEF Discovering, Looking
  <1>3. /\ ss' = ss /\ es' = Ask(c) /\ sl' = Ask(c) /\ el' = el
        /\ gain' = gain /\ returned' = returned
    BY DEF ExtendShort, Returns, ReturnsNothing
  <1>4. /\ sl \in InstantPrices /\ ss \in InstantPrices
        /\ sl.t \in Nat /\ sl.t <= c.t /\ ss.t \in Nat /\ ss.t <= c.t
        /\ returned.e.t <= sl.t /\ returned.e.t <= ss.t /\ returned.e.t \in Nat
        /\ rival.at.t <= c.t
    <2>1. /\ sl \in InstantPrices /\ ss \in InstantPrices
          /\ sl.t <= market.t /\ ss.t <= market.t /\ rival.at.t <= market.t
          /\ rival.at \in InstantPrices \union {Unset}
          /\ returned.e \in InstantPrices \union {Unset}
          /\ returned.e.t <= sl.t /\ returned.e.t <= ss.t
      BY DEF TypeOK, PhaseInv, OrderInv
    <2>2. \A x \in InstantPrices \union {Unset} : x.t \in Nat
      BY Logs DEF InstantPrices, Unset
    <2>3. market.t \in Nat /\ c.t \in Nat /\ market.t < c.t
      BY <1>1, ShortConditions, Quotes
    <2> QED
      BY <2>1, <2>2, <2>3
  <1>5. /\ ShortStart(c) \in InstantPrices /\ ss.t <= ShortStart(c).t
        /\ ShortStart(c).t <= c.t /\ ShortStart(c).t \in Nat
        /\ LongStart(c) \in InstantPrices /\ sl.t <= LongStart(c).t
        /\ LongStart(c).t <= c.t /\ LongStart(c).t \in Nat
    BY <1>2, <1>4, ShortStarts, LongStarts, Logs DEF InstantPrices
  <1>6. ~IsLong' /\ IsShort' /\ ~IsFlat'
    BY <1>1, <1>2, <1>3, <1>5, ShortView, Quotes DEF IsLong, IsShort, IsFlat, InstantPrices
  <1>7. /\ es \in InstantPrices /\ es.t \in Nat /\ es.t <= c.t
        /\ es.t <= sl.t /\ ss.t < es.t
        /\ [es EXCEPT !.p = 0] \in [p : Prices \union {0}, t : 0..MaxTime]
        /\ [es EXCEPT !.p = 0].p = 0
    BY <1>1, ShortConditions, ShortView, Quotes, Logs DEF InstantPrices
  <1>8. ShortProfit(ss, Ask(c)) > 0
    <2>1. /\ ss \in InstantPrices /\ Ask(c) \in InstantPrices /\ ss.t <= Ask(c).t
          /\ Ask(c).t = c.t /\ Tax(ss.t) \in Int
      BY <1>2, <1>4, <1>5, Quotes, Taxes
    <2>2. /\ ShortProfit(ss, Ask(c)) =
               Log[ss.p] - Log[Ask(c).p] - (Tax(Ask(c).t) - Tax(ss.t)) - Commission
          /\ Log[ss.p] \in Int
      BY <2>1, Profits
    <2> QED
      BY <1>1, <1>2, <2>1, <2>2, ShortConditions, ShortView, Quotes, Costs DEF OrderInv
  <1>9. ShortProfit(ss, es)' > 0
    BY <1>3, <1>8 DEF ShortProfit, Cost, Minus, Interest
  <1>10. TypeOK'
    BY <1>1, <1>2, <1>3, <1>4, <1>5, <1>7, ShortView, Quotes, Logs, Costs
       DEF TypeOK, Spreads, InstantPrices, Unset
  <1>11. PhaseInv'
    BY <1>1, <1>2, <1>3, <1>4, <1>5, <1>6, <1>7, ShortView, ShortConditions, Quotes
       DEF PhaseInv
  <1>12. OrderInv'
    BY <1>1, <1>2, <1>3, <1>4, <1>5, <1>6, <1>7, <1>9, ShortView, ShortConditions, Quotes
       DEF OrderInv, LongProfit, ShortProfit, Cost, Minus, Interest
  <1> QED
    BY <1>10, <1>11, <1>12

LEMMA ReverseShortOrder ==
  ASSUME TypeOK, PhaseInv, OrderInv, StartInv, Discovering,
         NEW c \in Spreads, ReverseShort(c)
  PROVE  TypeOK' /\ PhaseInv' /\ OrderInv'
  <1>1. TakesShort(c) /\ Takes(c) /\ IsShort /\ ReversesShort(c)
    BY DEF ReverseShort, TakesShort
  <1>2. /\ Usable(c) /\ market' = c /\ Discovering' /\ ~Looking' /\ ~ended'
        /\ time' = c.t /\ rival' = rival
        /\ is_all_processed' = is_all_processed /\ ended' = ended
    BY <1>1, ShortConditions DEF Takes, Read, Discovering, Looking
  <1> HIDE DEF Discovering, Looking
  <1>3. /\ el' = Bid(c) /\ ss' = Bid(c) /\ sl' = LongStart(c) /\ es' = [es EXCEPT !.p = 0]
        /\ gain' = gain + ShortProfit(ss, es) /\ returned' = [s |-> ss, e |-> es]
    BY DEF ReverseShort, Returns, ReturnsNothing
  <1>4. /\ sl \in InstantPrices /\ ss \in InstantPrices
        /\ sl.t \in Nat /\ sl.t <= c.t /\ ss.t \in Nat /\ ss.t <= c.t
        /\ returned.e.t <= sl.t /\ returned.e.t <= ss.t /\ returned.e.t \in Nat
        /\ rival.at.t <= c.t
    <2>1. /\ sl \in InstantPrices /\ ss \in InstantPrices
          /\ sl.t <= market.t /\ ss.t <= market.t /\ rival.at.t <= market.t
          /\ rival.at \in InstantPrices \union {Unset}
          /\ returned.e \in InstantPrices \union {Unset}
          /\ returned.e.t <= sl.t /\ returned.e.t <= ss.t
      BY DEF TypeOK, PhaseInv, OrderInv
    <2>2. \A x \in InstantPrices \union {Unset} : x.t \in Nat
      BY Logs DEF InstantPrices, Unset
    <2>3. market.t \in Nat /\ c.t \in Nat /\ market.t < c.t
      BY <1>1, ShortConditions, Quotes
    <2> QED
      BY <2>1, <2>2, <2>3
  <1>5. /\ ShortStart(c) \in InstantPrices /\ ss.t <= ShortStart(c).t
        /\ ShortStart(c).t <= c.t /\ ShortStart(c).t \in Nat
        /\ LongStart(c) \in InstantPrices /\ sl.t <= LongStart(c).t
        /\ LongStart(c).t <= c.t /\ LongStart(c).t \in Nat
    BY <1>2, <1>4, ShortStarts, LongStarts, Logs DEF InstantPrices
  <1>6. IsLong' /\ ~IsShort' /\ ~IsFlat'
    BY <1>1, <1>2, <1>3, <1>5, ShortView, Quotes DEF IsLong, IsShort, IsFlat, InstantPrices
  <1>7. /\ es \in InstantPrices /\ es.t \in Nat /\ es.t <= c.t
        /\ es.t <= sl.t /\ ss.t < es.t
        /\ [es EXCEPT !.p = 0] \in [p : Prices \union {0}, t : 0..MaxTime]
        /\ [es EXCEPT !.p = 0].p = 0
    BY <1>1, ShortConditions, ShortView, Quotes, Logs DEF InstantPrices
  <1>8. LongProfit(LongStart(c), Bid(c)) > 0
    <2>1. /\ LongStart(c) \in InstantPrices /\ Bid(c) \in InstantPrices /\ LongStart(c).t <= Bid(c).t
          /\ Bid(c).t = c.t /\ Tax(LongStart(c).t) \in Int
      BY <1>2, <1>4, <1>5, Quotes, Taxes
    <2>2. /\ LongProfit(LongStart(c), Bid(c)) =
               Log[Bid(c).p] - Log[LongStart(c).p] - (Tax(Bid(c).t) - Tax(LongStart(c).t)) - Commission
          /\ Log[LongStart(c).p] \in Int
      BY <2>1, Profits
    <2> QED
      BY <1>1, <1>2, <2>1, <2>2, ShortConditions, ShortView, Quotes, Costs DEF OrderInv
  <1>9. LongProfit(sl, el)' > 0
    BY <1>3, <1>8 DEF LongProfit, Cost, Minus, Interest
  <1>10. LongStart(c).t < c.t
    <2>1. CASE LongStart(c) = sl
      BY <1>1, <2>1, ShortConditions
    <2>2. CASE LongStart(c) = Ask(c)
      <3>1. LongProfit(Ask(c), Bid(c)) = Log[c.bid] - Log[c.ask] - (Tax(c.t) - Tax(c.t)) - Commission
        BY <1>2, Quotes, Profits
      <3> QED
        BY <1>2, <1>8, <2>2, <3>1, Quotes, Costs
    <2> QED
      BY <1>2, <1>4, <2>1, <2>2, LongStarts, Quotes, Logs DEF InstantPrices
  <1>11. TypeOK'
    BY <1>1, <1>2, <1>3, <1>4, <1>5, <1>7, ShortView, Quotes, Logs, Costs
       DEF TypeOK, Spreads, InstantPrices, Unset
  <1>12. PhaseInv'
    BY <1>1, <1>2, <1>3, <1>4, <1>5, <1>6, <1>7, ShortView, ShortConditions, Quotes
       DEF PhaseInv
  <1>13. OrderInv'
    BY <1>1, <1>2, <1>3, <1>4, <1>5, <1>6, <1>7, <1>9, <1>10, ShortView, ShortConditions, Quotes
       DEF OrderInv, LongProfit, ShortProfit, Cost, Minus, Interest
  <1> QED
    BY <1>11, <1>12, <1>13

LEMMA RestartShortOrder ==
  ASSUME TypeOK, PhaseInv, OrderInv, StartInv, Discovering,
         NEW c \in Spreads, RestartShort(c)
  PROVE  TypeOK' /\ PhaseInv' /\ OrderInv'
  <1>1. TakesShort(c) /\ Takes(c) /\ IsShort /\ RestartsShort(c)
    BY DEF RestartShort, TakesShort
  <1>2. /\ Usable(c) /\ market' = c /\ Discovering' /\ ~Looking' /\ ~ended'
        /\ time' = c.t /\ rival' = rival
        /\ is_all_processed' = is_all_processed /\ ended' = ended
    BY <1>1, ShortConditions DEF Takes, Read, Discovering, Looking
  <1> HIDE DEF Discovering, Looking
  <1>3. /\ el' = el /\ ss' = Bid(c) /\ sl' = LongStart(c) /\ es' = [es EXCEPT !.p = 0]
        /\ gain' = gain + ShortProfit(ss, es) /\ returned' = [s |-> ss, e |-> es]
    BY DEF RestartShort, Returns, ReturnsNothing
  <1>4. /\ sl \in InstantPrices /\ ss \in InstantPrices
        /\ sl.t \in Nat /\ sl.t <= c.t /\ ss.t \in Nat /\ ss.t <= c.t
        /\ returned.e.t <= sl.t /\ returned.e.t <= ss.t /\ returned.e.t \in Nat
        /\ rival.at.t <= c.t
    <2>1. /\ sl \in InstantPrices /\ ss \in InstantPrices
          /\ sl.t <= market.t /\ ss.t <= market.t /\ rival.at.t <= market.t
          /\ rival.at \in InstantPrices \union {Unset}
          /\ returned.e \in InstantPrices \union {Unset}
          /\ returned.e.t <= sl.t /\ returned.e.t <= ss.t
      BY DEF TypeOK, PhaseInv, OrderInv
    <2>2. \A x \in InstantPrices \union {Unset} : x.t \in Nat
      BY Logs DEF InstantPrices, Unset
    <2>3. market.t \in Nat /\ c.t \in Nat /\ market.t < c.t
      BY <1>1, ShortConditions, Quotes
    <2> QED
      BY <2>1, <2>2, <2>3
  <1>5. /\ ShortStart(c) \in InstantPrices /\ ss.t <= ShortStart(c).t
        /\ ShortStart(c).t <= c.t /\ ShortStart(c).t \in Nat
        /\ LongStart(c) \in InstantPrices /\ sl.t <= LongStart(c).t
        /\ LongStart(c).t <= c.t /\ LongStart(c).t \in Nat
    BY <1>2, <1>4, ShortStarts, LongStarts, Logs DEF InstantPrices
  <1>6. ~IsLong' /\ ~IsShort' /\ IsFlat'
    BY <1>1, <1>2, <1>3, <1>5, ShortView, Quotes DEF IsLong, IsShort, IsFlat, InstantPrices
  <1>7. /\ es \in InstantPrices /\ es.t \in Nat /\ es.t <= c.t
        /\ es.t <= sl.t /\ ss.t < es.t
        /\ [es EXCEPT !.p = 0] \in [p : Prices \union {0}, t : 0..MaxTime]
        /\ [es EXCEPT !.p = 0].p = 0
    BY <1>1, ShortConditions, ShortView, Quotes, Logs DEF InstantPrices
  <1>8. TypeOK'
    BY <1>1, <1>2, <1>3, <1>4, <1>5, <1>7, ShortView, Quotes, Logs, Costs
       DEF TypeOK, Spreads, InstantPrices, Unset
  <1>9. PhaseInv'
    BY <1>1, <1>2, <1>3, <1>4, <1>5, <1>6, <1>7, ShortView, ShortConditions, Quotes
       DEF PhaseInv
  <1>10. OrderInv'
    BY <1>1, <1>2, <1>3, <1>4, <1>5, <1>6, <1>7, ShortView, ShortConditions, Quotes
       DEF OrderInv, LongProfit, ShortProfit, Cost, Minus, Interest
  <1> QED
    BY <1>8, <1>9, <1>10

LEMMA HoldShortOrder ==
  ASSUME TypeOK, PhaseInv, OrderInv, StartInv, Discovering,
         NEW c \in Spreads, HoldShort(c)
  PROVE  TypeOK' /\ PhaseInv' /\ OrderInv'
  <1>1. TakesShort(c) /\ Takes(c) /\ IsShort /\ ~ExtendsShort(c)
    BY DEF HoldShort, TakesShort
  <1>2. /\ Usable(c) /\ market' = c /\ Discovering' /\ ~Looking' /\ ~ended'
        /\ time' = c.t /\ rival' = rival
        /\ is_all_processed' = is_all_processed /\ ended' = ended
    BY <1>1, ShortConditions DEF Takes, Read, Discovering, Looking
  <1> HIDE DEF Discovering, Looking
  <1>3. /\ el' = el /\ ss' = ss /\ sl' = LongStart(c) /\ es' = es
        /\ gain' = gain /\ returned' = returned
    BY DEF HoldShort, Returns, ReturnsNothing
  <1>4. /\ sl \in InstantPrices /\ ss \in InstantPrices
        /\ sl.t \in Nat /\ sl.t <= c.t /\ ss.t \in Nat /\ ss.t <= c.t
        /\ returned.e.t <= sl.t /\ returned.e.t <= ss.t /\ returned.e.t \in Nat
        /\ rival.at.t <= c.t
    <2>1. /\ sl \in InstantPrices /\ ss \in InstantPrices
          /\ sl.t <= market.t /\ ss.t <= market.t /\ rival.at.t <= market.t
          /\ rival.at \in InstantPrices \union {Unset}
          /\ returned.e \in InstantPrices \union {Unset}
          /\ returned.e.t <= sl.t /\ returned.e.t <= ss.t
      BY DEF TypeOK, PhaseInv, OrderInv
    <2>2. \A x \in InstantPrices \union {Unset} : x.t \in Nat
      BY Logs DEF InstantPrices, Unset
    <2>3. market.t \in Nat /\ c.t \in Nat /\ market.t < c.t
      BY <1>1, ShortConditions, Quotes
    <2> QED
      BY <2>1, <2>2, <2>3
  <1>5. /\ ShortStart(c) \in InstantPrices /\ ss.t <= ShortStart(c).t
        /\ ShortStart(c).t <= c.t /\ ShortStart(c).t \in Nat
        /\ LongStart(c) \in InstantPrices /\ sl.t <= LongStart(c).t
        /\ LongStart(c).t <= c.t /\ LongStart(c).t \in Nat
    BY <1>2, <1>4, ShortStarts, LongStarts, Logs DEF InstantPrices
  <1>6. ~IsLong' /\ IsShort' /\ ~IsFlat'
    BY <1>1, <1>2, <1>3, <1>5, ShortView, Quotes DEF IsLong, IsShort, IsFlat, InstantPrices
  <1>7. /\ es \in InstantPrices /\ es.t \in Nat /\ es.t <= c.t
        /\ es.t <= sl.t /\ ss.t < es.t
        /\ [es EXCEPT !.p = 0] \in [p : Prices \union {0}, t : 0..MaxTime]
        /\ [es EXCEPT !.p = 0].p = 0
    BY <1>1, ShortConditions, ShortView, Quotes, Logs DEF InstantPrices
  <1>8. TypeOK'
    BY <1>1, <1>2, <1>3, <1>4, <1>5, <1>7, ShortView, Quotes, Logs, Costs
       DEF TypeOK, Spreads, InstantPrices, Unset
  <1>9. PhaseInv'
    BY <1>1, <1>2, <1>3, <1>4, <1>5, <1>6, <1>7, ShortView, ShortConditions, Quotes
       DEF PhaseInv
  <1>10. OrderInv'
    BY <1>1, <1>2, <1>3, <1>4, <1>5, <1>6, <1>7, ShortView, ShortConditions, Quotes
       DEF OrderInv, LongProfit, ShortProfit, Cost, Minus, Interest
  <1> QED
    BY <1>8, <1>9, <1>10

-----------------------------------------------------------------------------
(***************************************************************************)
(* The other steps.                                                        *)
(***************************************************************************)
\* The first spread: the worths are those of opening a position at once.
LEMMA FirstKeeps ==
  ASSUME TypeOK, PhaseInv, OrderInv, RivalInv, NEW c \in Spreads, First(c)
  PROVE  Inv'
  <1>1. /\ Looking /\ Usable(c) /\ Discovering' /\ ~Looking' /\ ~ended'
        /\ market' = c /\ time' = c.t /\ sl' = Ask(c) /\ ss' = Bid(c)
        /\ el' = el /\ es' = es /\ returned' = returned /\ gain' = gain /\ rival' = rival
        /\ ended' = ended /\ is_all_processed' = FALSE
    BY DEF First, Read, Looking, Discovering
  <1> HIDE DEF Discovering, Looking
  <1>2. /\ el = Unset /\ es = Unset /\ rival = Nothing /\ gain = 0 /\ returned = NoPosition
    BY <1>1 DEF PhaseInv
  <1>3. ~IsLong' /\ ~IsShort' /\ IsFlat'
    BY <1>1, <1>2 DEF IsLong, IsShort, IsFlat, Unset
  <1>4. Value' = 0
    BY <1>1, <1>2, <1>3 DEF Value, Pending
  <1>5. /\ LongWorth' = 0 - Log[c.ask] + Tax(c.t)
        /\ ShortWorth' = 0 + Log[c.bid] + Tax(c.t)
    BY <1>1, <1>2, <1>3, Quotes DEF LongWorth, ShortWorth, Tax, Rho
  <1>6. TypeOK'
    <2>1. c.t \in 0..MaxTime /\ c.t \in Nat
      BY <1>1, Quotes, Logs DEF Spreads
    <2>2. Ask(c) \in InstantPrices /\ Bid(c) \in InstantPrices
      BY <1>1, Quotes
    <2> QED
      BY <1>1, <2>1, <2>2 DEF TypeOK
  <1>7. PhaseInv'
    BY <1>1, <1>2, <1>3, Quotes DEF PhaseInv, Nothing, Unset
  <1>8. OrderInv'
    BY <1>1, <1>2, <1>3, Quotes DEF OrderInv, NoPosition, Unset
  <1>9. WorthInv'
    BY <1>1, <1>4, <1>5, Quotes, Costs DEF WorthInv
  <1>10. StartInv'
    BY <1>1, <1>3, Quotes, Costs DEF StartInv
  <1>11. RivalInv'
    BY <1>1, <1>2, <1>4 DEF RivalInv, Nothing
  <1> QED
    BY <1>6, <1>7, <1>8, <1>9, <1>10, <1>11 DEF Inv

\* A spread that is skipped only moves the time on.
LEMMA SkipKeeps ==
  ASSUME Inv, NEW c \in Spreads, Skip(c)
  PROVE  Inv'
  <1>1. /\ UNCHANGED << ended, is_all_processed, sl, el, ss, es, returned, gain, market, rival >>
        /\ time' = c.t /\ c.t > time
    BY DEF Skip, Read, own
  <1>2. TypeOK'
    BY <1>1, Logs DEF Inv, TypeOK, Spreads
  <1>3. PhaseInv'
    <2>1. ASSUME Discovering, market \in Spreads, market.t <= time
          PROVE  market.t <= time'
      BY <1>1, <2>1, Logs DEF Inv, TypeOK, Spreads
    <2> QED
      BY <1>1, <2>1 DEF Inv, PhaseInv, Looking, Discovering, IsLong, IsShort
  <1>4. OrderInv'
    BY <1>1 DEF Inv, OrderInv, Discovering, IsLong, IsShort, LongProfit, ShortProfit,
                Cost, Minus, Interest
  <1>5. Value' = Value /\ LongWorth' = LongWorth /\ ShortWorth' = ShortWorth
    BY <1>1 DEF Value, Pending, LongWorth, ShortWorth, Tax, Rho, IsLong, IsShort,
                LongProfit, ShortProfit, Cost, Minus, Interest
  <1>6. WorthInv' /\ StartInv' /\ RivalInv'
    BY <1>1, <1>5 DEF Inv, WorthInv, StartInv, RivalInv, Discovering, IsLong, IsShort,
                      IsFlat, Tax, Rho
  <1> QED
    BY <1>2, <1>3, <1>4, <1>6 DEF Inv

\* Steps that leave the strategy alone keep its value and its worths.
LEMMA OwnUnchanged ==
  ASSUME UNCHANGED << time, ended, is_all_processed, own, returned, gain, market >>
  PROVE  /\ Value' = Value /\ LongWorth' = LongWorth /\ ShortWorth' = ShortWorth
         /\ OrderInv => OrderInv'
         /\ WorthInv => WorthInv'
         /\ StartInv => StartInv'
  <1>1. Value' = Value /\ LongWorth' = LongWorth /\ ShortWorth' = ShortWorth
    BY DEF own, Value, Pending, LongWorth, ShortWorth, Tax, Rho, IsLong, IsShort,
           LongProfit, ShortProfit, Cost, Minus, Interest
  <1>2. OrderInv => OrderInv'
    BY DEF own, OrderInv, Discovering, IsLong, IsShort, LongProfit, ShortProfit,
           Cost, Minus, Interest
  <1>3. (WorthInv => WorthInv') /\ (StartInv => StartInv')
    BY <1>1 DEF own, WorthInv, StartInv, Discovering, IsLong, IsShort, IsFlat, Tax, Rho
  <1> QED
    BY <1>1, <1>2, <1>3

\* The last position is returned: what was pending is gained.
LEMMA EndLongKeeps ==
  ASSUME Inv, EndLong
  PROVE  Inv'
  <1>1. /\ IsLong /\ ended' = TRUE /\ market' = NoSpread
        /\ UNCHANGED << time, sl, ss, rival, es, is_all_processed >>
        /\ returned' = [s |-> sl, e |-> el] /\ gain' = gain + LongProfit(sl, el)
        /\ el' = [el EXCEPT !.p = 0]
    BY DEF EndLong, AtEnd, Returns
  <1>2. ~Discovering' /\ ~Looking' /\ ended'
    BY <1>1 DEF Discovering, Looking
  <1>3. /\ sl \in InstantPrices /\ el \in InstantPrices /\ sl.t \in Nat /\ el.t \in Nat
        /\ sl.t < el.t /\ es.p = 0
    BY <1>1, Logs DEF Inv, PhaseInv, OrderInv, IsLong, InstantPrices
  <1>4. LongProfit(sl, el) \in Int /\ gain \in Int
    BY <1>3, Profits DEF Inv, TypeOK
  <1>5. /\ el' \in [p : Prices \union {0}, t : 0..MaxTime]
        /\ el'.p = 0 /\ es'.p = 0 /\ ~IsLong' /\ ~IsShort'
    BY <1>1, <1>3, Logs DEF InstantPrices, IsLong, IsShort
  <1>6. Value' = Value
    BY <1>1, <1>4, <1>5 DEF Value, Pending
  <1>7. TypeOK'
    BY <1>1, <1>3, <1>4, <1>5 DEF Inv, TypeOK
  <1>8. PhaseInv' /\ OrderInv'
    BY <1>1, <1>2, <1>5 DEF Inv, PhaseInv, OrderInv
  <1>9. WorthInv' /\ StartInv' /\ RivalInv'
    BY <1>1, <1>2, <1>6 DEF Inv, WorthInv, StartInv, RivalInv
  <1> QED
    BY <1>7, <1>8, <1>9 DEF Inv

LEMMA EndShortKeeps ==
  ASSUME Inv, EndShort
  PROVE  Inv'
  <1>1. /\ IsShort /\ ended' = TRUE /\ market' = NoSpread
        /\ UNCHANGED << time, sl, ss, rival, el, is_all_processed >>
        /\ returned' = [s |-> ss, e |-> es] /\ gain' = gain + ShortProfit(ss, es)
        /\ es' = [es EXCEPT !.p = 0]
    BY DEF EndShort, AtEnd, Returns
  <1>2. ~Discovering' /\ ~Looking' /\ ended'
    BY <1>1 DEF Discovering, Looking
  <1>3. /\ ss \in InstantPrices /\ es \in InstantPrices /\ ss.t \in Nat /\ es.t \in Nat
        /\ ss.t < es.t /\ el.p = 0
    BY <1>1, Logs DEF Inv, PhaseInv, OrderInv, IsShort, InstantPrices
  <1>4. ShortProfit(ss, es) \in Int /\ gain \in Int
    BY <1>3, Profits DEF Inv, TypeOK
  <1>5. /\ es' \in [p : Prices \union {0}, t : 0..MaxTime]
        /\ es'.p = 0 /\ el'.p = 0 /\ ~IsLong' /\ ~IsShort'
    BY <1>1, <1>3, Logs DEF InstantPrices, IsLong, IsShort
  <1>6. Value' = Value
    BY <1>1, <1>3, <1>4, <1>5 DEF Value, Pending, IsLong
  <1>7. TypeOK'
    BY <1>1, <1>3, <1>4, <1>5 DEF Inv, TypeOK
  <1>8. PhaseInv' /\ OrderInv'
    BY <1>1, <1>2, <1>5 DEF Inv, PhaseInv, OrderInv
  <1>9. WorthInv' /\ StartInv' /\ RivalInv'
    BY <1>1, <1>2, <1>6 DEF Inv, WorthInv, StartInv, RivalInv
  <1> QED
    BY <1>7, <1>8, <1>9 DEF Inv

LEMMA FinishKeeps ==
  ASSUME Inv, Finish
  PROVE  Inv'
  <1>1. /\ IsFlat /\ ended' = TRUE /\ market' = NoSpread /\ is_all_processed' = TRUE
        /\ UNCHANGED << time, sl, ss, rival, el, es, returned, gain >>
    BY DEF Finish, AtEnd, ReturnsNothing
  <1>2. ~Discovering' /\ ~Looking' /\ ended'
    BY <1>1 DEF Discovering, Looking
  <1>3. ~IsLong /\ ~IsShort /\ ~IsLong' /\ ~IsShort'
    BY <1>1 DEF IsFlat, IsLong, IsShort
  <1>4. Value' = Value
    BY <1>1, <1>3 DEF Value, Pending
  <1>5. TypeOK'
    BY <1>1 DEF Inv, TypeOK
  <1>6. PhaseInv' /\ OrderInv'
    BY <1>1, <1>2, <1>3 DEF Inv, PhaseInv, OrderInv
  <1>7. WorthInv' /\ StartInv' /\ RivalInv'
    BY <1>1, <1>2, <1>4 DEF Inv, WorthInv, StartInv, RivalInv
  <1> QED
    BY <1>5, <1>6, <1>7 DEF Inv

\* A rival who trades never gets above the worths, nor above the value.
LEMMA RivalKeeps ==
  ASSUME Inv, RivalStep
  PROVE  Inv'
  <1> DEFINE m == market
  <1>1. /\ Usable(m)
        /\ UNCHANGED << time, ended, is_all_processed, own, returned, gain, market >>
    BY DEF RivalStep, RivalOpens, RivalClosesLong, RivalClosesShort, Trades
  <1>2. Discovering /\ m \in Spreads
    BY <1>1 DEF Inv, TypeOK, PhaseInv, Looking, Discovering, Usable, NoSpread
  <1>3. /\ Value' = Value /\ LongWorth' = LongWorth /\ ShortWorth' = ShortWorth
        /\ OrderInv' /\ WorthInv' /\ StartInv' /\ Discovering'
    BY <1>1, <1>2, OwnUnchanged DEF Inv, Discovering
  <1>4. rival \in [ holds : {"nothing", "long", "short"},
                    at : InstantPrices \union {Unset}, earned : Int ]
    BY DEF Inv, TypeOK
  <1>5. /\ Value - Log[m.ask] + Tax(m.t) <= LongWorth
        /\ Value + Log[m.bid] + Tax(m.t) <= ShortWorth
        /\ LongWorth + Log[m.bid] - Tax(m.t) - Commission <= Value
        /\ ShortWorth - Log[m.ask] - Tax(m.t) - Commission <= Value
        /\ Value \in Int /\ LongWorth \in Int /\ ShortWorth \in Int
    BY <1>2 DEF Inv, WorthInv
  <1> HIDE DEF Discovering
  <1>6. CASE RivalOpens
    <2>1. rival.holds = "nothing" /\ rival.earned <= Value
      BY <1>6 DEF RivalOpens, Inv, RivalInv
    <2>2. CASE rival' = [rival EXCEPT !.holds = "long", !.at = Ask(m)]
      <3>1. rival'.holds = "long" /\ rival'.at = Ask(m) /\ rival'.earned = rival.earned
        BY <1>4, <2>2
      <3>2. rival' \in [ holds : {"nothing", "long", "short"},
                         at : InstantPrices \union {Unset}, earned : Int ]
        BY <1>1, <1>2, <1>4, <2>2, Quotes
      <3>3. RivalInv'
        BY <1>1, <1>2, <1>3, <1>4, <1>5, <2>1, <3>1, Quotes DEF RivalInv, Tax, Rho
      <3>4. TypeOK' /\ PhaseInv'
        BY <1>1, <1>2, <1>3, <3>1, <3>2, Quotes
           DEF Inv, TypeOK, PhaseInv, own, IsLong, IsShort, Looking, Discovering
      <3> QED
        BY <1>3, <3>3, <3>4 DEF Inv
    <2>3. CASE rival' = [rival EXCEPT !.holds = "short", !.at = Bid(m)]
      <3>1. rival'.holds = "short" /\ rival'.at = Bid(m) /\ rival'.earned = rival.earned
        BY <1>4, <2>3
      <3>2. rival' \in [ holds : {"nothing", "long", "short"},
                         at : InstantPrices \union {Unset}, earned : Int ]
        BY <1>1, <1>2, <1>4, <2>3, Quotes
      <3>3. RivalInv'
        BY <1>1, <1>2, <1>3, <1>4, <1>5, <2>1, <3>1, Quotes DEF RivalInv, Tax, Rho
      <3>4. TypeOK' /\ PhaseInv'
        BY <1>1, <1>2, <1>3, <3>1, <3>2, Quotes
           DEF Inv, TypeOK, PhaseInv, own, IsLong, IsShort, Looking, Discovering
      <3> QED
        BY <1>3, <3>3, <3>4 DEF Inv
    <2> QED
      BY <1>6, <2>2, <2>3 DEF RivalOpens
  <1>7. ASSUME NEW profit \in Int,
               rival' = [ holds |-> "nothing", at |-> Unset, earned |-> rival.earned + profit ],
               rival.earned + profit <= Value
        PROVE  Inv'
    <2>1. RivalInv'
      BY <1>3, <1>7 DEF RivalInv
    <2>2. 0 <= m.t
      BY <1>1, <1>2, Quotes
    <2>3. TypeOK' /\ PhaseInv'
      BY <1>1, <1>2, <1>4, <1>7, <2>2
         DEF Inv, TypeOK, PhaseInv, own, IsLong, IsShort, Looking, Discovering, Unset
    <2> QED
      BY <1>3, <2>1, <2>3 DEF Inv
  <1>8. CASE RivalClosesLong
    <2>1. /\ rival.holds = "long" /\ rival.at \in InstantPrices /\ rival.at.t < m.t
          /\ rival.earned - Log[rival.at.p] + Tax(rival.at.t) <= LongWorth
      BY <1>2, <1>8 DEF RivalClosesLong, Inv, PhaseInv, RivalInv
    <2>2. Bid(m) \in InstantPrices /\ rival.at.t <= Bid(m).t /\ Bid(m).t = m.t /\ Bid(m).p = m.bid
      BY <1>1, <1>2, <2>1, Quotes, Logs DEF InstantPrices
    <2>3. /\ LongProfit(rival.at, Bid(m)) =
               Log[m.bid] - Log[rival.at.p] - (Tax(m.t) - Tax(rival.at.t)) - Commission
          /\ LongProfit(rival.at, Bid(m)) \in Int /\ Log[rival.at.p] \in Int
      BY <2>1, <2>2, Profits
    <2>4. Tax(rival.at.t) \in Int /\ rival.earned \in Int
      BY <1>4, <2>1, Taxes, Logs DEF InstantPrices
    <2>5. rival.earned + LongProfit(rival.at, Bid(m)) <= Value
      BY <1>1, <1>2, <1>5, <2>1, <2>3, <2>4, Quotes, Costs
    <2> QED
      BY <1>7, <1>8, <2>3, <2>5 DEF RivalClosesLong
  <1>9. CASE RivalClosesShort
    <2>1. /\ rival.holds = "short" /\ rival.at \in InstantPrices /\ rival.at.t < m.t
          /\ rival.earned + Log[rival.at.p] + Tax(rival.at.t) <= ShortWorth
      BY <1>2, <1>9 DEF RivalClosesShort, Inv, PhaseInv, RivalInv
    <2>2. Ask(m) \in InstantPrices /\ rival.at.t <= Ask(m).t /\ Ask(m).t = m.t /\ Ask(m).p = m.ask
      BY <1>1, <1>2, <2>1, Quotes, Logs DEF InstantPrices
    <2>3. /\ ShortProfit(rival.at, Ask(m)) =
               Log[rival.at.p] - Log[m.ask] - (Tax(m.t) - Tax(rival.at.t)) - Commission
          /\ ShortProfit(rival.at, Ask(m)) \in Int /\ Log[rival.at.p] \in Int
      BY <2>1, <2>2, Profits
    <2>4. Tax(rival.at.t) \in Int /\ rival.earned \in Int
      BY <1>4, <2>1, Taxes, Logs DEF InstantPrices
    <2>5. rival.earned + ShortProfit(rival.at, Ask(m)) <= Value
      BY <1>1, <1>2, <1>5, <2>1, <2>3, <2>4, Quotes, Costs
    <2> QED
      BY <1>7, <1>9, <2>3, <2>5 DEF RivalClosesShort
  <1> QED
    BY <1>6, <1>8, <1>9 DEF RivalStep

-----------------------------------------------------------------------------
(***************************************************************************)
(* A step that takes a spread: the rival who holds something compares with *)
(* worths that only get better.                                            *)
(***************************************************************************)
LEMMA TakeKeeps ==
  ASSUME Inv, NEW c \in Spreads, Takes(c),
         TypeOK' /\ PhaseInv' /\ OrderInv', WorthInv' /\ StartInv' /\ Improves
  PROVE  Inv'
  <1>1. Discovering /\ Discovering' /\ rival' = rival
    BY DEF Takes, Read, Discovering
  <1> HIDE DEF Discovering
  <1>2. /\ Value \in Int /\ LongWorth \in Int /\ ShortWorth \in Int
        /\ Value' \in Int /\ LongWorth' \in Int /\ ShortWorth' \in Int
    BY <1>1 DEF Inv, WorthInv
  <1>3. rival.earned \in Int
    BY DEF Inv, TypeOK
  <1>4. ASSUME rival.holds # "nothing"
        PROVE  /\ Log[rival.at.p] \in Int
               /\ Tax(rival.at.t) \in Int /\ Tax(rival.at.t)' = Tax(rival.at.t)
    <2>1. rival.at \in InstantPrices
      BY <1>4 DEF Inv, PhaseInv
    <2> QED
      BY <1>1, <2>1, Logs, Taxes DEF InstantPrices, Tax, Rho
  <1>5. RivalInv'
    BY <1>1, <1>2, <1>3, <1>4 DEF Inv, RivalInv, Improves
  <1> QED
    BY <1>5 DEF Inv

LEMMA InitInv == Init => Inv
  <1> SUFFICES ASSUME Init PROVE Inv
    OBVIOUS
  <1>1. ~IsLong /\ ~IsShort /\ ~Discovering /\ ~ended
    BY DEF Init, IsLong, IsShort, Discovering, Unset
  <1>2. TypeOK
    <2>1. 0 \in 0..MaxTime /\ Unset \in [p : Prices \union {0}, t : 0..MaxTime]
      BY Logs DEF Unset
    <2>2. /\ NoPosition \in [s : InstantPrices \union {Unset}, e : InstantPrices \union {Unset}]
          /\ Nothing \in [ holds : {"nothing", "long", "short"},
                           at : InstantPrices \union {Unset}, earned : Int ]
      BY DEF NoPosition, Nothing
    <2>3. ended \in BOOLEAN /\ is_all_processed \in BOOLEAN
      BY DEF Init
    <2>4. /\ time \in 0..MaxTime /\ gain \in Int
          /\ el \in [p : Prices \union {0}, t : 0..MaxTime]
          /\ es \in [p : Prices \union {0}, t : 0..MaxTime]
      BY <2>1 DEF Init
    <2>5. /\ sl \in InstantPrices \union {Unset} /\ ss \in InstantPrices \union {Unset}
          /\ market \in Spreads \union {NoSpread}
      BY DEF Init
    <2> QED
      BY <2>2, <2>3, <2>4, <2>5 DEF Init, TypeOK
  <1>3. PhaseInv /\ OrderInv
    BY <1>1 DEF Init, PhaseInv, OrderInv, Unset, Nothing, NoPosition
  <1>4. Value = 0
    BY <1>1 DEF Init, Value, Pending
  <1> QED
    BY <1>1, <1>2, <1>3, <1>4 DEF Init, Inv, WorthInv, StartInv, RivalInv, Nothing

LEMMA StepInv == Inv /\ [Next]_vars => Inv'
  <1> SUFFICES ASSUME Inv, [Next]_vars PROVE Inv'
    OBVIOUS
  <1>1. TypeOK /\ PhaseInv /\ OrderInv /\ WorthInv /\ StartInv /\ RivalInv
    BY DEF Inv
  <1>2. ASSUME NEW c \in Spreads, Discover(c)
        PROVE  Inv'
    <2>1. Takes(c) => Discovering
      BY DEF Takes, Read, Discovering
    <2>2. CASE DiscoverLong(c)
      <3>1. Takes(c) /\ Discovering
        BY <2>1, <2>2 DEF DiscoverLong
      <3> QED
        BY <1>1, <2>2, <3>1, DiscoverLongWorth, DiscoverLongOrder, TakeKeeps
    <2>3. CASE DiscoverShort(c)
      <3>1. Takes(c) /\ Discovering
        BY <2>1, <2>3 DEF DiscoverShort
      <3> QED
        BY <1>1, <2>3, <3>1, DiscoverShortWorth, DiscoverShortOrder, TakeKeeps
    <2>4. CASE Wait(c)
      <3>1. Takes(c) /\ Discovering
        BY <2>1, <2>4 DEF Wait
      <3> QED
        BY <1>1, <2>4, <3>1, WaitWorth, WaitOrder, TakeKeeps
    <2>5. CASE ExtendLong(c)
      <3>1. Takes(c) /\ Discovering
        BY <2>1, <2>5 DEF ExtendLong, TakesLong
      <3> QED
        BY <1>1, <2>5, <3>1, ExtendLongWorth, ExtendLongOrder, TakeKeeps
    <2>6. CASE ReverseLong(c)
      <3>1. Takes(c) /\ Discovering
        BY <2>1, <2>6 DEF ReverseLong, TakesLong
      <3> QED
        BY <1>1, <2>6, <3>1, ReverseLongWorth, ReverseLongOrder, TakeKeeps
    <2>7. CASE RestartLong(c)
      <3>1. Takes(c) /\ Discovering
        BY <2>1, <2>7 DEF RestartLong, TakesLong
      <3> QED
        BY <1>1, <2>7, <3>1, RestartLongWorth, RestartLongOrder, TakeKeeps
    <2>8. CASE HoldLong(c)
      <3>1. Takes(c) /\ Discovering
        BY <2>1, <2>8 DEF HoldLong, TakesLong
      <3> QED
        BY <1>1, <2>8, <3>1, HoldLongWorth, HoldLongOrder, TakeKeeps
    <2>9. CASE ExtendShort(c)
      <3>1. Takes(c) /\ Discovering
        BY <2>1, <2>9 DEF ExtendShort, TakesShort
      <3> QED
        BY <1>1, <2>9, <3>1, ExtendShortWorth, ExtendShortOrder, TakeKeeps
    <2>10. CASE ReverseShort(c)
      <3>1. Takes(c) /\ Discovering
        BY <2>1, <2>10 DEF ReverseShort, TakesShort
      <3> QED
        BY <1>1, <2>10, <3>1, ReverseShortWorth, ReverseShortOrder, TakeKeeps
    <2>11. CASE RestartShort(c)
      <3>1. Takes(c) /\ Discovering
        BY <2>1, <2>11 DEF RestartShort, TakesShort
      <3> QED
        BY <1>1, <2>11, <3>1, RestartShortWorth, RestartShortOrder, TakeKeeps
    <2>12. CASE HoldShort(c)
      <3>1. Takes(c) /\ Discovering
        BY <2>1, <2>12 DEF HoldShort, TakesShort
      <3> QED
        BY <1>1, <2>12, <3>1, HoldShortWorth, HoldShortOrder, TakeKeeps
    <2> QED
      BY <1>1, <1>2, FirstKeeps, SkipKeeps, <2>2, <2>3, <2>4, <2>5, <2>6, <2>7, <2>8, <2>9, <2>10, <2>11, <2>12
         DEF Discover
  <1>3. CASE EndLong \/ EndShort \/ Finish \/ RivalStep
    BY <1>3, EndLongKeeps, EndShortKeeps, FinishKeeps, RivalKeeps
  <1>4. CASE UNCHANGED vars
    <2>1. OrderInv' /\ WorthInv' /\ StartInv' /\ Value' = Value
          /\ LongWorth' = LongWorth /\ ShortWorth' = ShortWorth
      BY <1>1, <1>4, OwnUnchanged DEF vars
    <2>2. TypeOK' /\ PhaseInv'
      BY <1>1, <1>4 DEF vars, own, TypeOK, PhaseInv, Looking, Discovering, IsLong, IsShort
    <2>3. RivalInv'
      BY <1>1, <1>4, <2>1 DEF vars, RivalInv, Discovering, Tax, Rho
    <2> QED
      BY <2>1, <2>2, <2>3 DEF Inv
  <1> QED
    BY <1>2, <1>3, <1>4 DEF Next

-----------------------------------------------------------------------------
THEOREM Invariant == Spec => []Inv
  BY InitInv, StepInv, PTL DEF Spec

\* The variables keep their types, for all prices, costs and spreads.
THEOREM TypeCorrect == Spec => []TypeOK
  <1>1. Inv => TypeOK
    BY DEF Inv
  <1> QED
    BY Invariant, <1>1, PTL

(***************************************************************************)
(* The strategy that operator>> returns is ideal: whatever the spreads,    *)
(* no trader earns more.                                                   *)
(***************************************************************************)
THEOREM StrategyIsIdeal == Spec => []Ideal
  <1>1. Inv => Ideal
    BY DEF Inv, RivalInv, Ideal
  <1> QED
    BY Invariant, <1>1, PTL

(***************************************************************************)
(* There is at most one position, and it pays: the assertions of           *)
(* operator>> hold.                                                        *)
(***************************************************************************)
THEOREM OnePosition == Spec => []OnePayingPosition
  <1>1. Inv => OnePayingPosition
    BY DEF Inv, OrderInv, OnePayingPosition
  <1> QED
    BY Invariant, <1>1, PTL

\* The positions returned do not overlap.
THEOREM PositionsAreInOrder == Spec => PositionsInOrder
  <1>1. Inv /\ [Next]_vars =>
          [returned' # returned =>
              /\ returned'.s.t < returned'.e.t
              /\ returned'.s.t >= returned.e.t]_vars
    <2> SUFFICES ASSUME Inv, Next, returned' # returned
                 PROVE  /\ returned'.s.t < returned'.e.t
                        /\ returned'.s.t >= returned.e.t
      OBVIOUS
    <2>1. \/ IsLong /\ returned' = [s |-> sl, e |-> el]
          \/ IsShort /\ returned' = [s |-> ss, e |-> es]
      BY DEF Next, Discover, Skip, First, DiscoverLong, DiscoverShort, Wait,
             ExtendLong, ReverseLong, RestartLong, HoldLong,
             ExtendShort, ReverseShort, RestartShort, HoldShort, TakesLong, TakesShort,
             EndLong, EndShort, Finish, RivalStep, RivalOpens, RivalClosesLong,
             RivalClosesShort, Trades, Returns, ReturnsNothing
    <2>2. returned.e.t \in Int /\ (IsLong => sl.t \in Int) /\ (IsShort => ss.t \in Int)
      BY Logs DEF Inv, TypeOK, PhaseInv, InstantPrices, Unset
    <2> QED
      BY <2>1, <2>2 DEF Inv, OrderInv
  <1> QED
    BY Invariant, <1>1, PTL DEF Spec, PositionsInOrder
=============================================================================
