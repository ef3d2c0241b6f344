---------------------------- MODULE MCDepthCache ----------------------------
(***************************************************************************)
(* Model values for DepthCache: one or two eras, whose first episodes open *)
(* them with a depth, and no more than MaxChanges other episodes that      *)
(* change it.                                                              *)
(***************************************************************************)
EXTENDS DepthCache

CONSTANT MaxChanges

Spans == {p \in [s : 0..(MaxTime - 1), e : 0..(MaxTime - 1)] : p.s <= p.e}
SetsOfSpans == {{p, q} : << p, q >> \in {x \in Spans \X Spans :
                    x[1] = x[2] \/ x[1].e + 1 < x[2].s}}
InSpans(S) == UNION {p.s..p.e : p \in S}
Starts(S) == {p.s : p \in S}
Episodes(S, books) ==
    [t \in InSpans(S) |-> books[Max({x \in DOMAIN books : x <= t})]]
MCHistories ==
    UNION { { [episodes |-> Episodes(S, opened @@ changed), eras |-> Starts(S)] :
                opened  \in [Starts(S) -> Books \ {EmptyBook}],
                changed \in UNION {[T -> Books] :
                    T \in UNION {kSubset(n, InSpans(S) \ Starts(S)) : n \in 0..MaxChanges}} }
          : S \in SetsOfSpans }

=============================================================================
