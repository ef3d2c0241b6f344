--------------------------- MODULE MCDepthChanges ---------------------------
(***************************************************************************)
(* Model values for DepthChanges: two bids and an ask, opened at the first *)
(* instant or later; some events change or delete them, or open them       *)
(* again.  The triggers make their rows.                                   *)
(***************************************************************************)
EXTENDS DepthChanges

CONSTANTS MaxEvents     \* bound: events after the first instant

MCSideOf == << "b", "b", "s" >>

Event(id, t, price, amount) ==
    [ mts |-> t, id |-> id, no |-> Null, price |-> price, amount |-> amount,
      next |-> IF price = 0 THEN MinusInfinity ELSE Infinity,
      nextNo |-> Null, pmts |-> Null, pno |-> Null ]

Openings == UNION {[os -> Prices \X Amounts] : os \in SUBSET Orders}
Slots == Orders \X (2..MaxTime)
Histories == UNION {[s -> (Prices \X Amounts) \union {<< 0, 0 >>}] :
                       s \in UNION {kSubset(k, Slots) : k \in 0..MaxEvents}}
TableOf(opening, history) ==
    InsertRows(InsertRows({}, Eras, {Event(o, 1, opening[o][1], opening[o][2]) : o \in DOMAIN opening}),
               Eras, {Event(s[1], s[2], history[s][1], history[s][2]) : s \in DOMAIN history})

MCTables == {TableOf(opening, history) : opening \in Openings, history \in Histories}
=============================================================================
