------------------------ MODULE Level3RepairsProofs -------------------------
(***************************************************************************)
(* Proofs about Level3Repairs, for all orders, prices, eras and periods.   *)
(***************************************************************************)
EXTENDS Level3Repairs, TLAPS, FiniteSetTheorems, WellFoundedInduction, NaturalsInduction

SameEra(ers, a, b) == ErasUpTo(ers, a) = ErasUpTo(ers, b)

-----------------------------------------------------------------------------
(***************************************************************************)
(* level3 as the loading leaves it, up to the instant now: chains without  *)
(* gaps that stay in their eras, one event at an instant, and no row of an *)
(* order live when the next one begins.                                    *)
(***************************************************************************)
RowsSound(T) ==
    /\ T \subseteq Rows /\ IsFiniteSet(T)
    /\ \A r \in T : r.no # 0
ErasTyped(ers) ==
    /\ ers = [e \in DOMAIN ers |-> ers[e]]
    /\ 1 \in DOMAIN ers /\ DOMAIN ers \subseteq Times

OnePerInstant(T) == \A a, b \in T : a.mts = b.mts => a = b
Followed(T, ers) ==
    \A r \in T :
        IF r.nextNo = Null THEN r.next \in {Infinity, MinusInfinity}
        ELSE /\ r.nextNo = r.no + 1 /\ r.mts < r.next
             /\ SameEra(ers, r.mts, r.next)
             /\ \E x \in T : PointsAt(r, x)
Preceded(T) == \A x \in T : x.no # 1 => \E r \in T : PointsAt(r, x)
LivesApart(T, ers) ==
    \A a, b \in T : a.id = b.id /\ a.mts < b.mts /\ SameEra(ers, a.mts, b.mts) => a.next <= b.mts
PricesKept(T) ==
    \A r \in T :
        LET same == {x \in T : PointsAt(x, r) /\ x.price = r.price}
        IN  IF same = {} THEN << r.pmts, r.pno >> = << r.mts, r.no >>
            ELSE \A x \in same : << r.pmts, r.pno >> = << x.pmts, x.pno >>
RowsOfEra(T, ers, e) == {r \in T : r.mts >= e /\ \A x \in DOMAIN ers : x > e => r.mts < x}
ErasFollow(T, ers) == \A e \in DOMAIN ers : ers[e] = LastEvent(RowsOfEra(T, ers, e))

Loaded(T, ers, now) ==
    /\ RowsSound(T) /\ ErasTyped(ers)
    /\ \A r \in T : r.mts <= now
    /\ OnePerInstant(T)
    /\ Followed(T, ers) /\ Preceded(T)
    /\ LivesApart(T, ers)
    /\ PricesKept(T)
    /\ ErasFollow(T, ers)
    /\ Consistent(T)

(***************************************************************************)
(* level3 while it is fixed: a chain may be broken, but every reference to *)
(* a next row counts up and stays in its era, before a row of it, and      *)
(* there are as many of them as there are rows to refer to.  When they all *)
(* refer to rows in the end, no row is left without one.                   *)
(***************************************************************************)
Reached(T, ers, t) == \E x \in T : SameEra(ers, x.mts, t) /\ t <= x.mts
Numbered(T, ers) ==
    \A r \in T :
        IF r.nextNo = Null THEN r.next \in {Infinity, MinusInfinity}
        ELSE /\ r.nextNo = r.no + 1 /\ r.next \in Times
             /\ SameEra(ers, r.mts, r.next) /\ Reached(T, ers, r.next)
Referring(T) == {r \in T : r.nextNo # Null}
Following(T) == {r \in T : r.no # 1}

InRepair(T, ers) ==
    /\ RowsSound(T) /\ ErasTyped(ers)
    /\ PrimaryKey(T)
    /\ Numbered(T, ers)
    /\ Cardinality(Following(T)) <= Cardinality(Referring(T))
    /\ ErasFollow(T, ers)

FixTyped ==
    /\ fix \in [ phase : {"repair", "merge"}, start : Times, crossed : Times, from : Times,
                 to : Times, end : Times, ok : BOOLEAN, repairs : Nat ]
    /\ fix.from <= fix.start /\ fix.start <= fix.end /\ fix.end <= fix.to
    /\ fix.from <= fix.crossed
    /\ SameEra(eras, fix.from, fix.to)

(***************************************************************************)
(* level3 when a repair has been made.                                     *)
(***************************************************************************)
Linked(T, ers) ==
    \A r \in T :
        LET before == {x \in T : PointsAt(x, r)}
        IN  IF r.no = 1 THEN before = {}
            ELSE \E x \in before : x.no = r.no - 1 /\ InEraOf(ers, r.mts, x.mts)
LiveOnce(T, ers) == \A t \in Times : \A a, b \in LiveAt(T, ers, t) : a.id = b.id => a = b

Repaired(T, ers, name) ==
    /\ T \subseteq Rows
    /\ DOMAIN ers \subseteq Times /\ \A e \in DOMAIN ers : ers[e] \in Times \union {Null}
    /\ Linked(T, ers)
    /\ name \notin {"split", "fix"} => PricesKept(T)
    /\ name \notin {"delete", "fix"} => LiveOnce(T, ers)
    /\ name \in {"split", "fix"} => ErasFollow(T, ers)

RepairInv ==
    /\ clock \in 0..MaxTime
    /\ IF Idle
       THEN IF call = NoCall THEN Loaded(level3, eras, clock)
            ELSE call.name # "none" /\ Repaired(level3, eras, call.name)
       ELSE /\ call = NoCall
            /\ Loaded(saved.level3, saved.eras, clock)
            /\ eras = saved.eras
            /\ FixTyped
            /\ InRepair(level3, eras)

-----------------------------------------------------------------------------
(***************************************************************************)
(* Extrema.                                                                *)
(***************************************************************************)
LEMMA NatMinimum ==
    ASSUME NEW T \in SUBSET Nat, T # {}
    PROVE  \E m \in T : \A k \in T : m <= k
<1> DEFINE R == OpToRel(<, Nat)
<1>1. IsWellFoundedOn(R, Nat)
  BY NatLessThanWellFounded
<1>2. \A x, y \in Nat : x < y => << x, y >> \in R
  BY DEF OpToRel
<1> HIDE DEF R
<1>3. PICK m \in T : \A k \in T : << k, m >> \notin R
  BY <1>1, WFMin
<1>4. \A k \in T : m <= k
  <2>1. TAKE k \in T
  <2>2. m \in Nat /\ k \in Nat
    OBVIOUS
  <2>3. ~(k < m)
    BY <1>2, <1>3, <2>2
  <2>. QED
    BY <2>2, <2>3
<1>. QED
  BY <1>4

LEMMA MaxIsGreatest ==
    ASSUME NEW n \in Nat, NEW S \in SUBSET (0..n), S # {}
    PROVE  /\ Max(S) \in S
           /\ \A y \in S : y <= Max(S)
<1> DEFINE T == {k \in Nat : n - k \in S}
<1>1. PICK s \in S : TRUE
  OBVIOUS
<1>2. n - s \in T
  BY n - (n - s) = s
<1>3. PICK m \in T : \A k \in T : m <= k
  BY <1>2, NatMinimum
<1>4. n - m \in S /\ \A y \in S : n - m >= y
  <2>1. \A y \in S : n - y \in T
    BY \A y \in S : n - (n - y) = y
  <2>. QED
    BY <2>1, <1>3
<1>. QED
  BY <1>4 DEF Max

LEMMA MaxIs ==
    ASSUME NEW n \in Nat, NEW S \in SUBSET (0..n), NEW x \in S, \A y \in S : y <= x
    PROVE  Max(S) = x
<1>1. Max(S) \in S /\ \A y \in S : y <= Max(S)
  <2>1. S # {}
    OBVIOUS
  <2>. QED
    BY <2>1, MaxIsGreatest
<1>2. PICK m : m = Max(S)
  OBVIOUS
<1>3. m \in Nat /\ x \in Nat
  <2>1. \A y \in S : y \in 0..n
    OBVIOUS
  <2>2. \A y \in 0..n : y \in Nat
    OBVIOUS
  <2>3. m \in S
    BY <1>1, <1>2
  <2>. QED
    BY <2>1, <2>2, <2>3
<1>4. m <= x /\ x <= m
  BY <1>1, <1>2
<1>. QED
  BY <1>2, <1>3, <1>4

LEMMA MinIsLeast ==
    ASSUME NEW S \in SUBSET Nat, S # {}
    PROVE  /\ Min(S) \in S
           /\ \A y \in S : Min(S) <= y
<1>1. PICK m \in S : \A y \in S : m <= y
  BY NatMinimum
<1>. QED
  BY <1>1 DEF Min
-----------------------------------------------------------------------------
(***************************************************************************)
(* Rows, references and eras.                                              *)
(***************************************************************************)
LEMMA TimesAre ==
    /\ MaxTime \in Nat
    /\ \A t \in Times : t \in Nat /\ t # 0 /\ 1 <= t /\ t <= MaxTime /\ t < Infinity
    /\ \A t \in Nat : 1 <= t /\ t <= MaxTime => t \in Times
    /\ \A t \in Times \union {Infinity, MinusInfinity} : t \in Int
    /\ Infinity \notin Times /\ MinusInfinity \notin Times /\ Infinity # MinusInfinity
    /\ Infinity \in Nat /\ MinusInfinity \in Int /\ MinusInfinity < 0
    /\ \A t \in Times \union {Infinity, MinusInfinity} : t <= Infinity
BY TableAssumption DEF Times, Infinity, MinusInfinity

LEMMA RowFields ==
    ASSUME NEW r \in Rows
    PROVE  /\ r.mts \in Times /\ r.id \in Orders /\ r.no \in Nat /\ r.price \in Prices
           /\ r.amount \in Amounts /\ r.next \in Times \union {Infinity, MinusInfinity}
           /\ r.nextNo \in Nat /\ r.pmts \in Times /\ r.pno \in Nat
BY DEF Rows

LEMMA RowTimes ==
    ASSUME NEW r \in Rows
    PROVE  /\ r.mts \in Nat /\ 1 <= r.mts /\ r.mts <= MaxTime
           /\ r.next \in Int /\ r.no \in Nat /\ r.nextNo \in Nat
           /\ r.next \in Times <=> r.next # Infinity /\ r.next # MinusInfinity
           /\ IsFinite(r.next) <=> r.next \in Times
BY RowFields, TimesAre DEF IsFinite

LEMMA PointsIs ==
    ASSUME NEW x, NEW r
    PROVE  PointsAt(x, r) <=> x.next = r.mts /\ x.id = r.id /\ x.nextNo = r.no
BY DEF PointsAt, Key

LEMMA KeyIs ==
    ASSUME NEW x, NEW r
    PROVE  Key(x) = Key(r) <=> x.mts = r.mts /\ x.id = r.id /\ x.no = r.no
BY DEF Key

\* What refers to a row refers to it alone.
LEMMA PointsOnce ==
    ASSUME NEW T, PrimaryKey(T), NEW x, NEW r \in T, NEW y \in T, PointsAt(x, r), PointsAt(x, y)
    PROVE  r = y
BY DEF PrimaryKey, PointsAt

LEMMA EraNumbers ==
    ASSUME NEW ers, ErasTyped(ers)
    PROVE  \A e \in DOMAIN ers : e \in Nat /\ 1 <= e /\ e <= MaxTime
BY TimesAre DEF ErasTyped

LEMMA EraBetween ==
    ASSUME NEW ers, ErasTyped(ers), NEW a \in Int, NEW b \in Int, NEW c \in Int,
           a <= b, b <= c, SameEra(ers, a, c)
    PROVE  SameEra(ers, a, b) /\ SameEra(ers, b, c)
<1>1. \A e \in DOMAIN ers : e \in Nat
  BY EraNumbers
<1>2. \A e \in DOMAIN ers : (e <= a <=> e <= c)
  BY DEF SameEra, ErasUpTo
<1>3. \A e \in DOMAIN ers : (e <= a <=> e <= b) /\ (e <= b <=> e <= c)
  BY <1>1, <1>2
<1>. QED
  BY <1>3 DEF SameEra, ErasUpTo

LEMMA EraTransitive ==
    ASSUME NEW ers, NEW a, NEW b, NEW c
    PROVE  /\ SameEra(ers, a, b) => SameEra(ers, b, a)
           /\ SameEra(ers, a, b) /\ SameEra(ers, b, c) => SameEra(ers, a, c)
           /\ SameEra(ers, a, a)
BY DEF SameEra

LEMMA InEraIs ==
    ASSUME NEW ers, ErasTyped(ers), NEW t \in Times, NEW m \in Int, m <= t
    PROVE  InEraOf(ers, t, m) <=> SameEra(ers, m, t)
<1>1. \A e \in DOMAIN ers : e \in Nat
  BY EraNumbers
<1>2. t \in Nat /\ 1 <= t /\ 1 \in ErasUpTo(ers, t)
  BY TimesAre DEF ErasTyped, ErasUpTo
<1>3. ASSUME InEraOf(ers, t, m)
      PROVE  SameEra(ers, m, t)
  <2>1. \A e \in DOMAIN ers : e <= t => e <= m
    BY <1>3 DEF InEraOf, ErasUpTo
  <2>2. \A e \in DOMAIN ers : (e <= t <=> e <= m)
    BY <1>1, <1>2, <2>1
  <2>. QED
    BY <2>2 DEF SameEra, ErasUpTo
<1>4. ASSUME SameEra(ers, m, t)
      PROVE  InEraOf(ers, t, m)
  BY <1>2, <1>4 DEF SameEra, InEraOf, ErasUpTo
<1>. QED
  BY <1>3, <1>4

\* The book at an instant, in an era.
LEMMA LiveIs ==
    ASSUME NEW T, T \subseteq Rows, NEW ers, ErasTyped(ers), NEW t \in Times, NEW r
    PROVE  r \in LiveAt(T, ers, t) <=>
             r \in T /\ SameEra(ers, r.mts, t) /\ r.mts <= t /\ r.next > t
<1>1. \A x \in T : x.mts \in Int
  BY RowTimes
<1>2. \A x \in T : x.mts <= t => (InEraOf(ers, t, x.mts) <=> SameEra(ers, x.mts, t))
  BY <1>1, InEraIs
<1>. QED
  BY <1>2 DEF LiveAt

LEMMA RowsOfEraIs ==
    ASSUME NEW T, T \subseteq Rows, NEW ers, ErasTyped(ers), NEW e \in DOMAIN ers, NEW r \in T
    PROVE  r \in RowsOfEra(T, ers, e) <=>
             e \in ErasUpTo(ers, r.mts) /\ \A x \in ErasUpTo(ers, r.mts) : x <= e
<1>1. \A x \in DOMAIN ers : x \in Nat
  BY EraNumbers
<1>2. r.mts \in Nat /\ r \in T
  BY RowTimes
<1>3. r \in RowsOfEra(T, ers, e) <=> e <= r.mts /\ \A x \in DOMAIN ers : x > e => r.mts < x
  BY <1>1, <1>2 DEF RowsOfEra
<1>4. (\A x \in DOMAIN ers : x > e => r.mts < x) <=> \A x \in DOMAIN ers : x <= r.mts => x <= e
  BY <1>1, <1>2
<1>. QED
  BY <1>3, <1>4 DEF ErasUpTo

\* An era's last event.
LEMMA LastEventIs ==
    ASSUME NEW S, S \subseteq Rows, NEW v
    PROVE  v = LastEvent(S) <=> \/ S = {} /\ v = Null
                                \/ \E r \in S : r.mts = v /\ \A x \in S : x.mts <= v
<1> DEFINE M == {r.mts : r \in S}
<1>1. M \in SUBSET (0..MaxTime)
  BY RowTimes, TimesAre
<1>2. CASE S = {}
  BY <1>2 DEF LastEvent
<1>3. CASE S # {}
  <2>1. M # {}
    BY <1>3
  <2>2. Max(M) \in M /\ \A y \in M : y <= Max(M)
    BY <1>1, <2>1, MaxIsGreatest, TimesAre
  <2>3. LastEvent(S) = Max(M)
    BY <1>3 DEF LastEvent
  <2>4. \E r \in S : r.mts = Max(M) /\ \A x \in S : x.mts <= Max(M)
    BY <2>2
  <2>5. ASSUME NEW r \in S, r.mts = v, \A x \in S : x.mts <= v
        PROVE  v = Max(M)
    <3>1. v \in M /\ \A y \in M : y <= v
      BY <2>5
    <3>. QED
      BY <1>1, <3>1, MaxIs, TimesAre
  <2>. QED
    BY <1>3, <2>3, <2>4, <2>5
<1>. QED
  BY <1>2, <1>3
-----------------------------------------------------------------------------
(***************************************************************************)
(* Numbers of rows.                                                        *)
(***************************************************************************)
LEMMA ImageNumber ==
    ASSUME NEW S, IsFiniteSet(S), NEW f
    PROVE  LET I == {f[x] : x \in S}
           IN  /\ IsFiniteSet(I) /\ Cardinality(I) \in Nat /\ Cardinality(S) \in Nat
               /\ Cardinality(I) <= Cardinality(S)
               /\ (\A x, y \in S : f[x] = f[y] => x = y) => Cardinality(I) = Cardinality(S)
<1> DEFINE I == {f[x] : x \in S}
           h == [x \in S |-> f[x]]
<1>1. h \in Surjection(S, I)
  <2>1. h \in [S -> I]
    OBVIOUS
  <2>2. \A y \in I : \E x \in S : h[x] = y
    OBVIOUS
  <2>. QED
    BY <2>1, <2>2 DEF Surjection
<1>2. ASSUME \A x, y \in S : f[x] = f[y] => x = y
      PROVE  h \in Injection(S, I)
  <2>1. h \in [S -> I]
    OBVIOUS
  <2>2. \A x, y \in S : h[x] = h[y] => x = y
    BY <1>2
  <2>. QED
    BY <2>1, <2>2 DEF Injection, IsInjective
<1> HIDE DEF h
<1>3. /\ IsFiniteSet(I) /\ Cardinality(I) <= Cardinality(S)
      /\ Cardinality(I) = Cardinality(S) <=> h \in Injection(S, I)
  BY <1>1, FS_Surjection
<1>4. Cardinality(I) \in Nat /\ Cardinality(S) \in Nat
  BY <1>3, FS_CardinalityType
<1>. QED
  BY <1>2, <1>3, <1>4

-----------------------------------------------------------------------------
(***************************************************************************)
(* An UPDATE takes the references to a row along.                          *)
(***************************************************************************)
Moved(T, new) == {r \in T : Key(new[r]) # Key(r)}
Follow(T, new, r, mts, no) == {x \in Moved(T, new) : Key(x) = << mts, r.id, no >>}
Cascade(T, new, r) ==
    LET next  == IF r.nextNo = Null THEN {} ELSE Follow(T, new, r, r.next, r.nextNo)
        price == Follow(T, new, r, r.pmts, r.pno)
        now(xs) == new[CHOOSE x \in xs : TRUE]
    IN  [r EXCEPT !.next   = IF next = {} THEN @ ELSE now(next).mts,
                  !.nextNo = IF next = {} THEN @ ELSE now(next).no,
                  !.pmts   = IF price = {} THEN @ ELSE now(price).mts,
                  !.pno    = IF price = {} THEN @ ELSE now(price).no]
Updated(T, new, r) == Cascade(T, new, new[r])

LEMMA UpdateIs ==
    ASSUME NEW T, NEW new
    PROVE  Update(T, new) = {Updated(T, new, r) : r \in T}
BY DEF Update, Updated, Cascade, Follow, Moved

\* The new rows, before references follow.
Renewed(T, new) == \A r \in T : new[r] \in Rows /\ new[r].id = r.id

\* What a reference of a new row refers to afterwards.
Refer(T, new, r, mts, no, mtsThen, noThen) ==
    \/ \E x \in T : /\ Key(x) = << mts, r.id, no >>
                    /\ mtsThen = new[x].mts /\ noThen = new[x].no
    \/ /\ \A x \in T : Key(x) # << mts, r.id, no >>
       /\ mtsThen = mts /\ noThen = no

LEMMA FollowRefers ==
    ASSUME NEW T, PrimaryKey(T), NEW new, NEW r, NEW mts, NEW no
    PROVE  LET xs == Follow(T, new, r, mts, no)
               now == new[CHOOSE x \in xs : TRUE]
           IN  /\ xs = {} => Refer(T, new, r, mts, no, mts, no)
               /\ xs # {} => /\ Refer(T, new, r, mts, no, now.mts, now.no)
                             /\ now \in {new[x] : x \in T}
<1> DEFINE xs == Follow(T, new, r, mts, no)
           y == CHOOSE x \in xs : TRUE
<1>1. CASE xs = {}
  <2>1. \A x \in T : Key(x) = << mts, r.id, no >> => Key(new[x]) = Key(x)
    BY <1>1 DEF Follow, Moved
  <2>2. \A x \in T : Key(x) = << mts, r.id, no >> => new[x].mts = mts /\ new[x].no = no
    BY <2>1 DEF Key
  <2>. QED
    BY <1>1, <2>2 DEF Refer
<1>2. CASE xs # {}
  <2>1. y \in xs
    BY <1>2
  <2> HIDE DEF y
  <2>2. y \in T /\ Key(y) = << mts, r.id, no >>
    BY <2>1 DEF Follow, Moved
  <2>3. Refer(T, new, r, mts, no, new[y].mts, new[y].no) /\ new[y] \in {new[x] : x \in T}
    BY <2>2 DEF Refer
  <2>. QED
    BY <1>2, <2>3 DEF y
<1>. QED
  BY <1>1, <1>2

LEMMA UpdatedIs ==
    ASSUME NEW T, T \subseteq Rows, PrimaryKey(T), NEW new, Renewed(T, new), NEW r \in T
    PROVE  LET c == Updated(T, new, r)
           IN  /\ c \in Rows
               /\ c.mts = new[r].mts /\ c.id = r.id /\ c.no = new[r].no
               /\ c.price = new[r].price /\ c.amount = new[r].amount
               /\ IF new[r].nextNo = Null THEN c.next = new[r].next /\ c.nextNo = Null
                  ELSE Refer(T, new, r, new[r].next, new[r].nextNo, c.next, c.nextNo)
               /\ Refer(T, new, r, new[r].pmts, new[r].pno, c.pmts, c.pno)
<1> DEFINE n == new[r]
           next == IF n.nextNo = Null THEN {} ELSE Follow(T, new, n, n.next, n.nextNo)
           price == Follow(T, new, n, n.pmts, n.pno)
           nowNext == new[CHOOSE x \in next : TRUE]
           nowPrice == new[CHOOSE x \in price : TRUE]
           v1 == IF next = {} THEN n.next ELSE nowNext.mts
           v2 == IF next = {} THEN n.nextNo ELSE nowNext.no
           v3 == IF price = {} THEN n.pmts ELSE nowPrice.mts
           v4 == IF price = {} THEN n.pno ELSE nowPrice.no
           c == [n EXCEPT !.next = v1, !.nextNo = v2, !.pmts = v3, !.pno = v4]
<1>1. Updated(T, new, r) = c
  BY DEF Updated, Cascade
<1>2. n \in Rows /\ n.id = r.id
  BY DEF Renewed
<1>3. \A x \in {new[z] : z \in T} : x.mts \in Times /\ x.no \in Nat
  BY RowFields DEF Renewed
<1>4. IF n.nextNo = Null THEN v1 = n.next /\ v2 = Null
      ELSE Refer(T, new, n, n.next, n.nextNo, v1, v2)
  <2>1. CASE n.nextNo = Null
    BY <2>1
  <2>2. CASE n.nextNo # Null
    BY <2>2, FollowRefers
  <2>. QED
    BY <2>1, <2>2
<1>5. Refer(T, new, n, n.pmts, n.pno, v3, v4)
  BY FollowRefers
<1>6. next # {} => nowNext \in {new[x] : x \in T}
  <2>1. CASE n.nextNo = Null
    BY <2>1
  <2>2. CASE n.nextNo # Null
    BY <2>2, FollowRefers
  <2>. QED
    BY <2>1, <2>2
<1>7. price # {} => nowPrice \in {new[x] : x \in T}
  BY FollowRefers
<1>8. /\ v1 \in Times \union {Infinity, MinusInfinity} /\ v2 \in Nat
      /\ v3 \in Times /\ v4 \in Nat
  BY <1>2, <1>3, <1>6, <1>7, RowFields
<1>9. \A t1, t2, t3, t4 : Refer(T, new, n, t1, t2, t3, t4) => Refer(T, new, r, t1, t2, t3, t4)
  BY <1>2 DEF Refer
<1> HIDE DEF v1, v2, v3, v4
<1>10. /\ c \in Rows
       /\ c.mts = n.mts /\ c.id = n.id /\ c.no = n.no
       /\ c.price = n.price /\ c.amount = n.amount
       /\ c.next = v1 /\ c.nextNo = v2 /\ c.pmts = v3 /\ c.pno = v4
  BY <1>2, <1>8 DEF Rows
<1>. QED
  BY <1>1, <1>2, <1>4, <1>5, <1>9, <1>10
-----------------------------------------------------------------------------
(***************************************************************************)
(* merge_episodes(): a row of the period goes to the next deletion of its  *)
(* order that it comes back from within the period, and otherwise to the   *)
(* period's end.                                                           *)
(***************************************************************************)
Period(T, from, to) == {x \in T : from <= x.mts /\ x.mts < to}
Own(T, from, to, r) == {x \in Period(T, from, to) : x.id = r.id}
Deaths(T, from, to, r) ==
    {x.mts : x \in {x \in Own(T, from, to, r) : x.mts >= r.mts /\ x.next = MinusInfinity}}
NextDeath(T, from, to, r) ==
    IF Deaths(T, from, to, r) = {} THEN Infinity ELSE Min(Deaths(T, from, to, r))
ComesBack(T, from, to, r) == NextDeath(T, from, to, r) < Max({x.mts : x \in Own(T, from, to, r)})

Returns(T, from, to, o, t) ==
    \E d, b \in Period(T, from, to) :
        d.id = o /\ b.id = o /\ d.mts = t /\ d.next = MinusInfinity /\ t < b.mts
MovesTo(T, from, to, r) == Merged(T, from, to, r).mts
NextThen(r, t, to) ==
    IF IsFinite(r.next) /\ t # to /\ r.next <= t THEN t
    ELSE IF IsFinite(r.next) /\ r.next < to THEN to
    ELSE r.next

LEMMA ComesBackIs ==
    ASSUME NEW T, T \subseteq Rows, NEW from \in Times, NEW to \in Times,
           NEW r \in Period(T, from, to)
    PROVE  LET t == IF ComesBack(T, from, to, r) THEN NextDeath(T, from, to, r) ELSE to
           IN  /\ t \in Times /\ r.mts <= t /\ t <= to
               /\ ComesBack(T, from, to, r) <=> t # to
               /\ t = to \/ Returns(T, from, to, r.id, t)
               /\ \A u : Returns(T, from, to, r.id, u) /\ r.mts <= u => t <= u
<1> DEFINE own == Own(T, from, to, r)
           times == {x.mts : x \in own}
           deaths == Deaths(T, from, to, r)
           next == NextDeath(T, from, to, r)
           back == ComesBack(T, from, to, r)
           t == IF back THEN next ELSE to
<1>1. r \in own /\ own \subseteq Rows /\ own \subseteq Period(T, from, to)
  BY DEF Own, Period
<1>2. /\ from \in Nat /\ to \in Nat /\ MaxTime \in Nat /\ to <= MaxTime /\ Infinity \in Nat
      /\ MaxTime < Infinity
  BY TimesAre DEF Infinity
<1>3. \A x \in own : /\ x.mts \in Nat /\ x.mts \in Times /\ from <= x.mts /\ x.mts < to
                     /\ x.id = r.id
  BY <1>1, RowTimes, RowFields DEF Own, Period
<1>4. times \in SUBSET (0..MaxTime) /\ times # {}
  BY <1>1, <1>2, <1>3
<1>5. Max(times) \in times /\ \A y \in times : y <= Max(times)
  BY <1>2, <1>4, MaxIsGreatest
<1>6. PICK last \in own : last.mts = Max(times)
  BY <1>5
<1>7. back <=> next < last.mts
  BY <1>6 DEF ComesBack
<1>8. \A k : k \in deaths <=>
        \E x \in own : x.mts = k /\ x.mts >= r.mts /\ x.next = MinusInfinity
  BY DEF Deaths
<1>9. deaths # {} => next \in deaths /\ \A k \in deaths : next <= k
  <2>1. deaths \in SUBSET Nat
    BY <1>3, <1>8
  <2>. QED
    BY <2>1, MinIsLeast DEF NextDeath
<1>10. deaths = {} => next = Infinity
  BY DEF NextDeath
<1> HIDE DEF own, times, deaths, next, back
<1>11. last.mts < to /\ last.mts \in Nat
  BY <1>3, <1>6
<1>12. ASSUME back
       PROVE  /\ next \in deaths
              /\ next \in Times /\ r.mts <= next /\ next < to
              /\ Returns(T, from, to, r.id, next)
  <2>1. deaths # {}
    BY <1>2, <1>7, <1>10, <1>11, <1>12
  <2>2. PICK d \in own : d.mts = next /\ d.mts >= r.mts /\ d.next = MinusInfinity
    BY <1>8, <1>9, <2>1
  <2>3. Returns(T, from, to, r.id, next)
    BY <1>1, <1>3, <1>6, <1>7, <1>12, <2>2 DEF Returns
  <2>. QED
    BY <1>3, <1>9, <2>1, <2>2, <2>3
<1>13. ASSUME NEW u, Returns(T, from, to, r.id, u), r.mts <= u
       PROVE  back /\ next <= u
  <2>1. PICK d, b \in Period(T, from, to) :
               d.id = r.id /\ b.id = r.id /\ d.mts = u /\ d.next = MinusInfinity /\ u < b.mts
    BY <1>13 DEF Returns
  <2>2. d \in own /\ b \in own
    BY <2>1 DEF own, Own
  <2>3. u \in deaths
    BY <1>3, <1>8, <1>13, <2>1, <2>2
  <2>4. next <= u /\ next \in Nat
    BY <1>3, <1>8, <1>9, <2>3
  <2>5. b.mts <= last.mts
    BY <1>5, <1>6, <2>2 DEF times
  <2>. QED
    BY <1>3, <1>6, <1>7, <2>1, <2>2, <2>4, <2>5
<1>14. r.mts \in Nat /\ r.mts < to
  BY <1>1, <1>3
<1>15. CASE back
  <2>1. t = next
    BY <1>15
  <2>2. next \in Nat
    BY <1>12, <1>15, TimesAre
  <2>. QED
    BY <1>2, <1>12, <1>13, <1>15, <2>1, <2>2 DEF back, next
<1>16. CASE ~back
  <2>1. t = to
    BY <1>16
  <2>. QED
    BY <1>2, <1>13, <1>14, <1>16, <2>1 DEF back, next
<1>. QED
  BY <1>15, <1>16
NextNow(T, from, to, r) ==
    IF r \in Period(T, from, to) THEN NextThen(r, MovesTo(T, from, to, r), to) ELSE r.next

MergedAs(T, from, to, r, t) ==
    /\ t = IF ComesBack(T, from, to, r) THEN NextDeath(T, from, to, r) ELSE to
    /\ Merged(T, from, to, r) = [r EXCEPT !.mts = t, !.next = NextThen(r, t, to)]
    /\ t \in Times /\ NextThen(r, t, to) \in Times \union {Infinity, MinusInfinity}

LEMMA MergedIs ==
    ASSUME NEW T, T \subseteq Rows, NEW from \in Times, NEW to \in Times,
           NEW r \in Period(T, from, to)
    PROVE  MergedAs(T, from, to, r, MovesTo(T, from, to, r))
<1> DEFINE back == ComesBack(T, from, to, r)
           next == NextDeath(T, from, to, r)
           t == IF back THEN next ELSE to
           n == IF IsFinite(r.next) /\ back /\ r.next <= next THEN next
                ELSE IF IsFinite(r.next) /\ r.next < to THEN to
                ELSE r.next
<1>1. r \in Rows
  BY DEF Period
<1>2. Merged(T, from, to, r) = [r EXCEPT !.mts = t, !.next = n]
  BY DEF Merged, Period, Own, Deaths, NextDeath, ComesBack
<1>3. t \in Times /\ (back <=> t # to)
  BY ComesBackIs
<1>4. n = NextThen(r, t, to)
  BY <1>3 DEF NextThen
<1>5. NextThen(r, t, to) \in Times \union {Infinity, MinusInfinity}
  <2>1. t \in Times /\ to \in Times /\ r.next \in Times \union {Infinity, MinusInfinity}
    BY <1>1, <1>3, RowFields
  <2> HIDE DEF t
  <2>. QED
    BY <2>1 DEF NextThen
<1>6. [r EXCEPT !.mts = t, !.next = n].mts = t
  <2> HIDE DEF t, n
  <2>. QED
    BY <1>1 DEF Rows
<1>7. MovesTo(T, from, to, r) = t
  BY <1>2, <1>6 DEF MovesTo
<1> HIDE DEF n
<1>. QED
  BY <1>2, <1>3, <1>4, <1>5, <1>7 DEF MergedAs

LEMMA MergedFields ==
    ASSUME NEW T, T \subseteq Rows, NEW from \in Times, NEW to \in Times, NEW r \in T
    PROVE  LET m == Merged(T, from, to, r)
           IN  /\ m \in Rows
               /\ m.mts = MovesTo(T, from, to, r) /\ m.id = r.id /\ m.no = r.no
               /\ m.price = r.price /\ m.amount = r.amount
               /\ m.next = NextNow(T, from, to, r) /\ m.nextNo = r.nextNo
               /\ m.pmts = r.pmts /\ m.pno = r.pno
<1>1. CASE r \notin Period(T, from, to)
  <2>1. Merged(T, from, to, r) = r
    BY <1>1 DEF Merged, Period
  <2>. QED
    BY <1>1, <2>1 DEF MovesTo, NextNow
<1>2. CASE r \in Period(T, from, to)
  <2> DEFINE t == MovesTo(T, from, to, r)
             n == NextThen(r, t, to)
             m == Merged(T, from, to, r)
  <2>0. MergedAs(T, from, to, r, t)
    BY <1>2, MergedIs
  <2>1. /\ m = [r EXCEPT !.mts = t, !.next = n]
        /\ t \in Times /\ n \in Times \union {Infinity, MinusInfinity}
    BY Zenon, <2>0 DEF MergedAs
  <2>2. n = NextNow(T, from, to, r)
    BY <1>2 DEF NextNow
  <2> HIDE DEF t, n, m
  <2>3. /\ m \in Rows
        /\ m.mts = t /\ m.id = r.id /\ m.no = r.no
        /\ m.price = r.price /\ m.amount = r.amount
        /\ m.next = n /\ m.nextNo = r.nextNo
        /\ m.pmts = r.pmts /\ m.pno = r.pno
    BY <2>1 DEF Rows
  <2>. QED
    BY <2>2, <2>3 DEF t, m
<1>. QED
  BY <1>1, <1>2

LEMMA MovesIs ==
    ASSUME NEW T, T \subseteq Rows, NEW from \in Times, NEW to \in Times, NEW r \in T
    PROVE  LET t == MovesTo(T, from, to, r)
           IN  /\ t \in Times
               /\ r \notin Period(T, from, to) => t = r.mts
               /\ r \in Period(T, from, to) =>
                    /\ from <= r.mts /\ r.mts < to
                    /\ r.mts <= t /\ t <= to
                    /\ t = to \/ Returns(T, from, to, r.id, t)
                    /\ \A u : Returns(T, from, to, r.id, u) /\ r.mts <= u => t <= u
<1>1. CASE r \notin Period(T, from, to)
  <2>1. Merged(T, from, to, r) = r
    BY <1>1 DEF Merged, Period
  <2>2. r.mts \in Times
    BY RowFields
  <2>. QED
    BY <1>1, <2>1, <2>2 DEF MovesTo
<1>2. CASE r \in Period(T, from, to)
  <2>0. MergedAs(T, from, to, r, MovesTo(T, from, to, r))
    BY <1>2, MergedIs
  <2>1. MovesTo(T, from, to, r)
          = IF ComesBack(T, from, to, r) THEN NextDeath(T, from, to, r) ELSE to
    BY Zenon, <2>0 DEF MergedAs
  <2>2. from <= r.mts /\ r.mts < to
    BY <1>2 DEF Period
  <2>. QED
    BY <1>2, <2>1, <2>2, ComesBackIs
<1>. QED
  BY <1>1, <1>2

\* Rows move forward, within the era, and those of an order do not pass each other.
LEMMA MovesForward ==
    ASSUME NEW T, T \subseteq Rows, NEW from \in Times, NEW to \in Times, NEW r \in T
    PROVE  LET t == MovesTo(T, from, to, r)
           IN  /\ t \in Times /\ r.mts <= t
               /\ t = r.mts \/ t <= to
               /\ \A ers : ErasTyped(ers) /\ SameEra(ers, from, to) => SameEra(ers, r.mts, t)
<1> DEFINE t == MovesTo(T, from, to, r)
<1>1. t \in Times /\ r.mts \in Nat
  BY MovesIs, RowTimes
<1>2. t \in Nat /\ from \in Nat /\ to \in Nat
  BY <1>1, TimesAre
<1>3. CASE r \notin Period(T, from, to)
  <2>1. t = r.mts
    BY <1>3, MovesIs
  <2>2. \A ers : SameEra(ers, r.mts, r.mts)
    BY DEF SameEra
  <2>. QED
    BY <1>1, <2>1, <2>2
<1>4. CASE r \in Period(T, from, to)
  <2>1. from <= r.mts /\ r.mts <= t /\ t <= to
    BY <1>4, MovesIs
  <2> HIDE DEF t
  <2>2. ASSUME NEW ers, ErasTyped(ers), SameEra(ers, from, to)
        PROVE  SameEra(ers, r.mts, t)
    <3>1. SameEra(ers, r.mts, to)
      BY <1>1, <1>2, <2>1, <2>2, EraBetween
    <3>. QED
      BY <1>1, <1>2, <2>1, <2>2, <3>1, EraBetween
  <2>. QED
    BY <1>1, <2>1, <2>2 DEF t
<1>. QED
  BY <1>3, <1>4

LEMMA MovesInOrder ==
    ASSUME NEW T, T \subseteq Rows, NEW from \in Times, NEW to \in Times,
           NEW a \in T, NEW b \in T, a.id = b.id, a.mts <= b.mts
    PROVE  MovesTo(T, from, to, a) <= MovesTo(T, from, to, b)
<1> DEFINE ta == MovesTo(T, from, to, a)
           tb == MovesTo(T, from, to, b)
<1>1. /\ ta \in Nat /\ tb \in Nat /\ a.mts \in Nat /\ b.mts \in Nat
      /\ from \in Nat /\ to \in Nat /\ a.mts <= ta /\ b.mts <= tb
  BY MovesForward, RowTimes, TimesAre
<1>2. /\ a \in Period(T, from, to) <=> from <= a.mts /\ a.mts < to
      /\ b \in Period(T, from, to) <=> from <= b.mts /\ b.mts < to
  BY DEF Period
<1>3. CASE a \notin Period(T, from, to)
  <2>1. ta = a.mts
    BY <1>3, MovesIs
  <2>. QED
    BY <1>1, <2>1
<1>4. CASE a \in Period(T, from, to) /\ b \notin Period(T, from, to)
  <2>1. ta <= to
    BY <1>4, MovesIs
  <2>. QED
    BY <1>1, <1>2, <1>4, <2>1
<1>5. CASE a \in Period(T, from, to) /\ b \in Period(T, from, to)
  <2>1. /\ ta <= to
        /\ \A u : Returns(T, from, to, a.id, u) /\ a.mts <= u => ta <= u
    BY <1>5, MovesIs
  <2>2. tb = to \/ Returns(T, from, to, a.id, tb)
    BY <1>5, MovesIs
  <2>3. a.mts <= tb
    BY <1>1
  <2>. QED
    BY <2>1, <2>2, <2>3
<1>. QED
  BY <1>3, <1>4, <1>5
MergeNew(T, from, to) == [r \in T |-> Merged(T, from, to, r)]
MergedRow(T, from, to, r) == Updated(T, MergeNew(T, from, to), r)
MergedTable(T, from, to) == {MergedRow(T, from, to, r) : r \in T}

\* Where a reference of r leads after the merge.
Leads(T, from, to, r, mts, no, mtsThen) ==
    \/ \E x \in T : Key(x) = << mts, r.id, no >> /\ mtsThen = MovesTo(T, from, to, x)
    \/ (\A x \in T : Key(x) # << mts, r.id, no >>) /\ mtsThen = mts

LEMMA MergedRowIs ==
    ASSUME NEW T, T \subseteq Rows, PrimaryKey(T), NEW from \in Times, NEW to \in Times,
           NEW r \in T
    PROVE  LET c == MergedRow(T, from, to, r)
           IN  /\ c \in Rows
               /\ c.mts = MovesTo(T, from, to, r) /\ c.id = r.id /\ c.no = r.no
               /\ c.price = r.price /\ c.amount = r.amount
               /\ c.nextNo = r.nextNo /\ c.pno = r.pno
               /\ r.nextNo = Null => c.next = NextNow(T, from, to, r)
               /\ r.nextNo # Null =>
                    Leads(T, from, to, r, NextNow(T, from, to, r), r.nextNo, c.next)
               /\ Leads(T, from, to, r, r.pmts, r.pno, c.pmts)
<1> DEFINE new == MergeNew(T, from, to)
           c == MergedRow(T, from, to, r)
<1>1. \A x \in T : /\ new[x] = Merged(T, from, to, x)
                   /\ new[x] \in Rows /\ new[x].id = x.id /\ new[x].no = x.no
                   /\ new[x].mts = MovesTo(T, from, to, x)
  <2>1. TAKE x \in T
  <2>2. new[x] = Merged(T, from, to, x)
    BY DEF MergeNew
  <2>. QED
    BY <2>2, MergedFields
<1>2. /\ new[r].price = r.price /\ new[r].amount = r.amount /\ new[r].nextNo = r.nextNo
      /\ new[r].pmts = r.pmts /\ new[r].pno = r.pno
  BY <1>1, MergedFields
<1>3. new[r].next = NextNow(T, from, to, r)
  BY <1>1, MergedFields
<1>4. Renewed(T, new)
  BY <1>1 DEF Renewed
<1>5. \A mts, no, mtsThen, noThen : Refer(T, new, r, mts, no, mtsThen, noThen) =>
        Leads(T, from, to, r, mts, no, mtsThen) /\ noThen = no
  <2>1. \A x \in T : \A mts, no : Key(x) = << mts, r.id, no >> => x.no = no
    BY DEF Key
  <2>. QED
    BY <1>1, <2>1 DEF Refer, Leads
<1> HIDE DEF new
<1>6. /\ c \in Rows
      /\ c.mts = new[r].mts /\ c.id = r.id /\ c.no = new[r].no
      /\ c.price = new[r].price /\ c.amount = new[r].amount
      /\ IF new[r].nextNo = Null THEN c.next = new[r].next /\ c.nextNo = Null
         ELSE Refer(T, new, r, new[r].next, new[r].nextNo, c.next, c.nextNo)
      /\ Refer(T, new, r, new[r].pmts, new[r].pno, c.pmts, c.pno)
  <2>1. c = Updated(T, new, r)
    BY DEF new, MergedRow
  <2>2. Updated(T, new, r) \in Rows
    BY <1>4, UpdatedIs
  <2>. QED
    BY <1>4, <2>1, <2>2, UpdatedIs
<1>. QED
  BY <1>1, <1>2, <1>3, <1>5, <1>6

LEMMA MergeEpisodesIs ==
    ASSUME NEW db, NEW from, NEW to,
           db = [level3 |-> db.level3, eras |-> db.eras, ok |-> db.ok, raised |-> db.raised]
    PROVE  LET new == MergeNew(db.level3, from, to)
               m == MergeEpisodes(db, from, to)
           IN  /\ m.level3 = MergedTable(db.level3, from, to)
               /\ m.eras = db.eras
               /\ m.raised = (db.raised \/ ~KeysApart(db.level3, new))
               /\ m.ok = (db.ok /\ WithinMaxChange(db.level3, new))
               /\ m = [level3 |-> m.level3, eras |-> m.eras, ok |-> m.ok, raised |-> m.raised]
<1> DEFINE new == MergeNew(db.level3, from, to)
           m == MergeEpisodes(db, from, to)
<1>1. m = [db EXCEPT !.level3 = Update(@, new), !.raised = @ \/ ~KeysApart(db.level3, new),
                     !.ok = @ /\ WithinMaxChange(db.level3, new)]
  BY DEF MergeEpisodes, MergeNew
<1>2. Update(db.level3, new) = MergedTable(db.level3, from, to)
  BY UpdateIs DEF MergedTable, MergedRow
<1> HIDE DEF new, m
<1>. QED
  BY <1>1, <1>2 DEF new, m

\* Rows that the merge does not bring to the same place were different.
LEMMA MergedKeys ==
    ASSUME NEW T, T \subseteq Rows, PrimaryKey(T), NEW from \in Times, NEW to \in Times,
           KeysApart(T, MergeNew(T, from, to)), NEW r \in T, NEW x \in T, r.id = x.id, r.no = x.no,
           MovesTo(T, from, to, r) = MovesTo(T, from, to, x)
    PROVE  r = x
<1>1. /\ MergeNew(T, from, to)[r] = Merged(T, from, to, r)
      /\ MergeNew(T, from, to)[x] = Merged(T, from, to, x)
  BY DEF MergeNew
<1>2. /\ Merged(T, from, to, r).id = r.id /\ Merged(T, from, to, r).no = r.no
      /\ Merged(T, from, to, x).id = x.id /\ Merged(T, from, to, x).no = x.no
  BY MergedFields
<1>3. Key(Merged(T, from, to, r)) = Key(Merged(T, from, to, x))
  BY <1>2 DEF MovesTo, Key
<1>. QED
  BY <1>1, <1>3 DEF KeysApart

-----------------------------------------------------------------------------
(***************************************************************************)
(* A merge of a table as the loading leaves it: a row still refers to the  *)
(* row that followed it.                                                   *)
(***************************************************************************)
LEMMA LoadedFollower ==
    ASSUME NEW T, NEW ers, RowsSound(T), Followed(T, ers), NEW r \in T, r.nextNo # Null
    PROVE  \E s \in T : /\ PointsAt(r, s) /\ s.id = r.id /\ s.mts = r.next /\ s.no = r.no + 1
                        /\ r.nextNo = s.no /\ r.mts < s.mts /\ SameEra(ers, r.mts, s.mts)
                        /\ r.next \in Times
<1>1. PICK s \in T : PointsAt(r, s)
  BY DEF Followed
<1>2. s.mts \in Times
  BY RowFields DEF RowsSound
<1>. QED
  BY <1>1, <1>2, PointsIs DEF Followed

LEMMA LoadedLast ==
    ASSUME NEW T, NEW ers, RowsSound(T), Followed(T, ers), NEW r \in T
    PROVE  /\ r.nextNo = Null <=> ~IsFinite(r.next)
           /\ r.nextNo = Null => r.next \in {Infinity, MinusInfinity} /\ \A s \in T : ~PointsAt(r, s)
<1>1. CASE r.nextNo = Null
  <2>1. r.next \in {Infinity, MinusInfinity}
    BY <1>1 DEF Followed
  <2>. QED
    BY <1>1, <2>1, TimesAre, PointsIs DEF IsFinite, RowsSound, Null
<1>2. CASE r.nextNo # Null
  BY <1>2, LoadedFollower DEF IsFinite
<1>. QED
  BY <1>1, <1>2

LEMMA MovesWithFollower ==
    ASSUME NEW T, NEW ers, NEW now, Loaded(T, ers, now),
           NEW from \in Times, NEW to \in Times, SameEra(ers, from, to),
           NEW r \in T, NEW s \in T, PointsAt(r, s)
    PROVE  \A v : Leads(T, from, to, r, NextNow(T, from, to, r), r.nextNo, v) =>
             v = MovesTo(T, from, to, s)
<1> DEFINE tr == MovesTo(T, from, to, r)
           ts == MovesTo(T, from, to, s)
<1>1. /\ T \subseteq Rows /\ RowsSound(T) /\ ErasTyped(ers) /\ Followed(T, ers)
      /\ OnePerInstant(T) /\ LivesApart(T, ers) /\ PrimaryKey(T)
  BY DEF Loaded, RowsSound, Consistent
<1>2. r.nextNo # Null
  BY <1>1, LoadedLast
<1>3. /\ s.id = r.id /\ s.mts = r.next /\ r.mts < s.mts /\ SameEra(ers, r.mts, s.mts)
      /\ r.next \in Times
  <2>1. PICK y \in T : /\ PointsAt(r, y) /\ y.id = r.id /\ y.mts = r.next /\ r.mts < y.mts
                       /\ SameEra(ers, r.mts, y.mts) /\ r.next \in Times
    BY <1>1, <1>2, LoadedFollower
  <2>2. y = s
    BY <1>1, <2>1, PointsOnce
  <2>. QED
    BY <2>1, <2>2
<1>4. /\ \A x \in T : x.mts \in Nat
      /\ from \in Nat /\ to \in Nat /\ r.next \in Nat /\ IsFinite(r.next)
      /\ tr \in Nat /\ ts \in Nat /\ tr <= ts
  <2>1. \A x \in T : x.mts \in Nat
    BY <1>1, RowTimes
  <2>2. tr \in Nat /\ ts \in Nat
    BY <1>1, MovesForward, TimesAre
  <2>3. r.mts <= s.mts /\ r.id = s.id
    BY <1>3, <2>1
  <2>4. tr <= ts
    BY <1>1, <2>3, MovesInOrder
  <2>. QED
    BY <1>3, <2>1, <2>2, <2>4, TimesAre DEF IsFinite
<1>5. \A x \in T : x \in Period(T, from, to) <=> from <= x.mts /\ x.mts < to
  BY DEF Period
\* A deletion that r goes to is one that s goes to.
<1>6. ASSUME r \in Period(T, from, to), NEW u, Returns(T, from, to, r.id, u), r.mts <= u
      PROVE  s.mts <= u /\ u < to /\ u \in Nat /\ s \in Period(T, from, to)
  <2>1. PICK d \in T : /\ d \in Period(T, from, to) /\ d.id = r.id /\ d.mts = u
                       /\ d.next = MinusInfinity
    BY <1>6 DEF Returns, Period
  <2>2. d # r
    BY <1>3, <2>1, TimesAre
  <2>3. from <= r.mts /\ r.mts < to /\ from <= d.mts /\ d.mts < to /\ r.mts <= d.mts
    BY <1>5, <1>6, <2>1
  <2>4. r.mts < d.mts
    BY <1>1, <1>4, <2>2, <2>3 DEF OnePerInstant
  <2>5. SameEra(ers, r.mts, d.mts)
    <3>1. SameEra(ers, r.mts, to)
      BY <1>1, <1>4, <2>3, EraBetween
    <3>. QED
      BY <1>1, <1>4, <2>3, <3>1, EraBetween
  <2>6. r.next <= d.mts
    BY <1>1, <2>1, <2>4, <2>5 DEF LivesApart
  <2>. QED
    BY <1>3, <1>4, <1>5, <2>1, <2>3, <2>6
<1>7. CASE r \notin Period(T, from, to)
  <2>1. NextNow(T, from, to, r) = s.mts
    BY <1>3, <1>7 DEF NextNow
  <2>2. Key(s) = << NextNow(T, from, to, r), r.id, r.nextNo >>
    BY <1>3, <2>1 DEF PointsAt, Key
  <2>3. \A x \in T : Key(x) = << NextNow(T, from, to, r), r.id, r.nextNo >> => x = s
    BY <1>1, <2>2 DEF PrimaryKey
  <2>. QED
    BY <2>2, <2>3 DEF Leads
<1>8. CASE r \in Period(T, from, to)
  <2>1. /\ from <= r.mts /\ r.mts < to /\ r.mts <= tr
        /\ tr = to \/ Returns(T, from, to, r.id, tr)
    BY <1>1, <1>8, MovesIs
  <2>2. CASE tr # to
    <3>1. Returns(T, from, to, r.id, tr)
      BY <2>1, <2>2
    <3>2. s.mts <= tr /\ tr < to /\ s \in Period(T, from, to)
      BY <1>6, <1>8, <2>1, <3>1
    <3>3. ts <= tr
      <4>1. \A u : Returns(T, from, to, s.id, u) /\ s.mts <= u => ts <= u
        BY <1>1, <3>2, MovesIs
      <4>. QED
        BY <1>3, <3>1, <3>2, <4>1
    <3>4. ts = tr
      BY <1>4, <3>3
    <3>5. NextNow(T, from, to, r) = ts
      BY <1>3, <1>4, <1>8, <2>2, <3>2, <3>4 DEF NextNow, NextThen
    <3>6. ASSUME NEW x \in T, x.mts = ts
          PROVE  MovesTo(T, from, to, x) = ts
      <4>1. PICK d \in T : d.id = r.id /\ d.mts = tr
        BY <3>1 DEF Returns, Period
      <4>2. x = d
        BY <1>1, <3>4, <3>6, <4>1 DEF OnePerInstant
      <4>3. x \in Period(T, from, to)
        BY <1>4, <1>5, <2>1, <3>2, <3>4, <3>6
      <4>4. ts <= MovesTo(T, from, to, x) /\ MovesTo(T, from, to, x) \in Nat
        BY <1>1, <3>6, MovesForward, TimesAre
      <4>5. MovesTo(T, from, to, x) <= ts
        <5>1. \A u : Returns(T, from, to, x.id, u) /\ x.mts <= u => MovesTo(T, from, to, x) <= u
          BY <1>1, <4>3, MovesIs
        <5>. QED
          BY <1>4, <3>1, <3>4, <3>6, <4>1, <4>2, <5>1
      <4>. QED
        BY <1>4, <4>4, <4>5
    <3>7. \A x \in T : Key(x) = << ts, r.id, r.nextNo >> => MovesTo(T, from, to, x) = ts
      BY <3>6 DEF Key
    <3>. QED
      BY <3>5, <3>7 DEF Leads
  <2>3. CASE tr = to
    <3>1. CASE s.mts < to
      <4>1. s \in Period(T, from, to)
        BY <1>3, <1>4, <1>5, <2>1, <3>1
      <4>2. ts = to
        <5>1. ts <= to
          BY <1>1, <4>1, MovesIs
        <5>. QED
          BY <1>4, <2>3, <5>1
      <4>3. NextNow(T, from, to, r) = to
        BY <1>3, <1>4, <1>8, <2>3, <3>1 DEF NextNow, NextThen
      <4>4. \A x \in T : x.mts = to => MovesTo(T, from, to, x) = to
        <5>1. \A x \in T : x.mts = to => x \notin Period(T, from, to)
          BY <1>4, <1>5
        <5>. QED
          BY <1>1, <5>1, MovesIs
      <4>5. \A x \in T : Key(x) = << to, r.id, r.nextNo >> => MovesTo(T, from, to, x) = to
        BY <4>4 DEF Key
      <4>. QED
        BY <4>2, <4>3, <4>5 DEF Leads
    <3>2. CASE ~(s.mts < to)
      <4>1. s \notin Period(T, from, to)
        BY <1>5, <3>2
      <4>2. ts = s.mts
        BY <1>1, <4>1, MovesIs
      <4>3. NextNow(T, from, to, r) = s.mts
        BY <1>3, <1>8, <2>3, <3>2 DEF NextNow, NextThen
      <4>4. Key(s) = << s.mts, r.id, r.nextNo >>
        BY <1>3 DEF PointsAt, Key
      <4>5. \A x \in T : Key(x) = << s.mts, r.id, r.nextNo >> => x = s
        BY <1>1, <4>4 DEF PrimaryKey
      <4>. QED
        BY <4>2, <4>3, <4>5 DEF Leads
    <3>. QED
      BY <3>1, <3>2
  <2>. QED
    BY <2>2, <2>3
<1>. QED
  BY <1>7, <1>8
MergeStarts(T, ers, now, from, to) ==
    /\ Loaded(T, ers, now)
    /\ SameEra(ers, from, to)
    /\ KeysApart(T, MergeNew(T, from, to))

LEMMA LoadedParts ==
    ASSUME NEW T, NEW ers, NEW now, Loaded(T, ers, now)
    PROVE  /\ T \subseteq Rows /\ RowsSound(T) /\ ErasTyped(ers) /\ Followed(T, ers)
           /\ Preceded(T) /\ PricesKept(T) /\ ErasFollow(T, ers)
           /\ OnePerInstant(T) /\ LivesApart(T, ers) /\ PrimaryKey(T) /\ Consistent(T)
BY DEF Loaded, RowsSound, Consistent

\* The row that r becomes.
Merges(T, from, to, r, c) ==
    /\ c \in Rows
    /\ c.mts = MovesTo(T, from, to, r) /\ c.id = r.id /\ c.no = r.no
    /\ c.price = r.price /\ c.amount = r.amount
    /\ c.nextNo = r.nextNo /\ c.pno = r.pno
    /\ r.nextNo = Null => c.next = r.next
    /\ \A s \in T : PointsAt(r, s) => c.next = MovesTo(T, from, to, s)
    /\ \A p \in T : Key(p) = << r.pmts, r.id, r.pno >> => c.pmts = MovesTo(T, from, to, p)

LEMMA MergesSound ==
    ASSUME NEW T, NEW ers, NEW now, NEW from \in Times, NEW to \in Times,
           MergeStarts(T, ers, now, from, to), NEW r \in T
    PROVE  Merges(T, from, to, r, MergedRow(T, from, to, r))
<1> DEFINE c == MergedRow(T, from, to, r)
<1>1. T \subseteq Rows /\ RowsSound(T) /\ Followed(T, ers) /\ PrimaryKey(T) /\ Loaded(T, ers, now)
  BY LoadedParts DEF MergeStarts
<1>2. /\ c \in Rows
      /\ c.mts = MovesTo(T, from, to, r) /\ c.id = r.id /\ c.no = r.no
      /\ c.price = r.price /\ c.amount = r.amount
      /\ c.nextNo = r.nextNo /\ c.pno = r.pno
      /\ r.nextNo = Null => c.next = NextNow(T, from, to, r)
      /\ r.nextNo # Null =>
           Leads(T, from, to, r, NextNow(T, from, to, r), r.nextNo, c.next)
      /\ Leads(T, from, to, r, r.pmts, r.pno, c.pmts)
  BY <1>1, MergedRowIs
<1> HIDE DEF c
<1>3. r.nextNo = Null => c.next = r.next
  <2>1. r.nextNo = Null => ~IsFinite(r.next)
    BY <1>1, LoadedLast
  <2>. QED
    BY <1>2, <2>1 DEF NextNow, NextThen
<1>4. \A s \in T : PointsAt(r, s) => c.next = MovesTo(T, from, to, s)
  <2>1. TAKE s \in T
  <2>2. HAVE PointsAt(r, s)
  <2>3. r.nextNo # Null
    BY <1>1, <2>2, LoadedLast
  <2>. QED
    BY <1>1, <1>2, <2>2, <2>3, MovesWithFollower DEF MergeStarts
<1>5. \A p \in T : Key(p) = << r.pmts, r.id, r.pno >> => c.pmts = MovesTo(T, from, to, p)
  <2>1. TAKE p \in T
  <2>2. HAVE Key(p) = << r.pmts, r.id, r.pno >>
  <2>3. \A x \in T : Key(x) = << r.pmts, r.id, r.pno >> => x = p
    BY <1>1, <2>2 DEF PrimaryKey
  <2>. QED
    BY <1>2, <2>2, <2>3 DEF Leads
<1>. QED
  BY <1>2, <1>3, <1>4, <1>5 DEF Merges, c

LEMMA MergedPoints ==
    ASSUME NEW T, NEW ers, NEW now, NEW from \in Times, NEW to \in Times,
           MergeStarts(T, ers, now, from, to), NEW x \in T, NEW r \in T
    PROVE  PointsAt(MergedRow(T, from, to, x), MergedRow(T, from, to, r)) <=> PointsAt(x, r)
<1> DEFINE cx == MergedRow(T, from, to, x)
           cr == MergedRow(T, from, to, r)
<1>1. /\ T \subseteq Rows /\ RowsSound(T) /\ Followed(T, ers) /\ PrimaryKey(T)
      /\ KeysApart(T, MergeNew(T, from, to))
  BY LoadedParts DEF MergeStarts
<1>2. Merges(T, from, to, x, cx) /\ Merges(T, from, to, r, cr)
  BY MergesSound
<1> HIDE DEF cx, cr
<1>3. ASSUME PointsAt(x, r)
      PROVE  PointsAt(cx, cr)
  <2>1. cx.next = cr.mts /\ cx.id = cr.id /\ cx.nextNo = cr.no
    BY <1>2, <1>3, PointsIs DEF Merges
  <2>. QED
    BY <2>1, PointsIs
<1>4. ASSUME PointsAt(cx, cr)
      PROVE  PointsAt(x, r)
  <2>1. /\ cx.next = MovesTo(T, from, to, r) /\ x.id = r.id /\ x.nextNo = r.no
    BY <1>2, <1>4, PointsIs DEF Merges
  <2>2. x.nextNo # Null
    BY <1>1, <2>1 DEF RowsSound, Null
  <2>3. PICK s \in T : PointsAt(x, s) /\ s.id = x.id /\ x.nextNo = s.no
    BY <1>1, <2>2, LoadedFollower
  <2>4. cx.next = MovesTo(T, from, to, s)
    BY <1>2, <2>3 DEF Merges
  <2>5. s = r
    BY <1>1, <2>1, <2>3, <2>4, MergedKeys
  <2>. QED
    BY <2>3, <2>5
<1>. QED
  BY <1>3, <1>4 DEF cx, cr

LEMMA MergedLinked ==
    ASSUME NEW T, NEW ers, NEW now, NEW from \in Times, NEW to \in Times,
           MergeStarts(T, ers, now, from, to)
    PROVE  Linked(MergedTable(T, from, to), ers)
<1> DEFINE new == MergedTable(T, from, to)
           row(r) == MergedRow(T, from, to, r)
<1>1. /\ T \subseteq Rows /\ RowsSound(T) /\ ErasTyped(ers) /\ Followed(T, ers)
      /\ Preceded(T) /\ PrimaryKey(T) /\ SameEra(ers, from, to)
  BY LoadedParts DEF MergeStarts
<1>2. \A r \in T : /\ row(r) \in new /\ row(r).no = r.no
                   /\ row(r).mts = MovesTo(T, from, to, r) /\ row(r).mts \in Times
                   /\ SameEra(ers, r.mts, row(r).mts)
  <2>1. TAKE r \in T
  <2>2. row(r).no = r.no /\ row(r).mts = MovesTo(T, from, to, r)
    BY MergesSound DEF Merges
  <2>3. row(r) \in new
    BY DEF MergedTable
  <2>4. MovesTo(T, from, to, r) \in Times /\ SameEra(ers, r.mts, MovesTo(T, from, to, r))
    BY <1>1, MovesForward
  <2>. QED
    BY <2>2, <2>3, <2>4
<1>3. \A x, r \in T : PointsAt(row(x), row(r)) <=> PointsAt(x, r)
  BY MergedPoints
<1>4. \A c \in new : \E r \in T : c = row(r)
  BY DEF MergedTable
<1> HIDE DEF new, row
<1>5. ASSUME NEW c \in new
      PROVE  LET before == {x \in new : PointsAt(x, c)}
             IN  IF c.no = 1 THEN before = {}
                 ELSE \E x \in before : x.no = c.no - 1 /\ InEraOf(ers, c.mts, x.mts)
  <2>1. PICK r \in T : c = row(r)
    BY <1>4
  <2>0. c.no = r.no
    BY <1>2, <2>1
  <2>2. CASE c.no = 1
    <3>1. ASSUME NEW y \in new, PointsAt(y, c) PROVE FALSE
      <4>1. PICK x \in T : y = row(x)
        BY <1>4
      <4>2. PointsAt(x, r)
        BY <1>3, <2>1, <3>1, <4>1
      <4>3. x.nextNo # Null /\ x.nextNo = r.no
        BY <1>1, <4>2, LoadedLast, PointsIs
      <4>4. x.nextNo = x.no + 1 /\ x.no \in Nat /\ x.no # 0
        BY <1>1, <4>3, RowTimes DEF Followed, RowsSound
      <4>. QED
        BY <2>0, <2>2, <4>3, <4>4
    <3>. QED
      BY <2>2, <3>1
  <2>3. CASE c.no # 1
    <3>1. PICK x \in T : PointsAt(x, r)
      BY <1>1, <1>2, <2>1, <2>3 DEF Preceded
    <3>2. x.nextNo # Null /\ x.nextNo = r.no
      BY <1>1, <3>1, LoadedLast, PointsIs
    <3>3. x.nextNo = x.no + 1 /\ x.no \in Nat
      BY <1>1, <3>2, RowTimes DEF Followed
    <3>4. SameEra(ers, x.mts, r.mts) /\ x.mts < r.mts /\ x.id = r.id
      BY <1>1, <3>1, <3>2, PointsIs DEF Followed
    <3>5. row(x) \in new /\ PointsAt(row(x), c) /\ row(x).no = c.no - 1
      <4>1. row(x) \in new /\ row(x).no = x.no
        BY <1>2
      <4>2. PointsAt(row(x), c)
        BY <1>3, <2>1, <3>1
      <4>. QED
        BY <2>0, <3>2, <3>3, <4>1, <4>2
    <3>6. InEraOf(ers, c.mts, row(x).mts)
      <4>1. SameEra(ers, row(x).mts, c.mts)
        BY <1>2, <2>1, <3>4 DEF SameEra
      <4>2. row(x).mts <= row(r).mts
        <5>1. x.mts <= r.mts
          BY <1>1, <3>4, RowTimes
        <5>. QED
          BY <1>1, <1>2, <3>4, <5>1, MovesInOrder
      <4>. QED
        BY <1>1, <1>2, <2>1, <4>1, <4>2, InEraIs, TimesAre
    <3>. QED
      BY <2>3, <3>5, <3>6
  <2>. QED
    BY <2>2, <2>3
<1>. QED
  BY <1>5 DEF Linked, new

LEMMA PriceRow ==
    ASSUME NEW T, NEW ers, NEW now, Loaded(T, ers, now), NEW r \in T
    PROVE  \E p \in T : Key(p) = << r.pmts, r.id, r.pno >> /\ p.mts = r.pmts /\ p.no = r.pno
BY LoadedParts DEF Consistent, PriceKey, Refers, Key

LEMMA MergedPrices ==
    ASSUME NEW T, NEW ers, NEW now, NEW from \in Times, NEW to \in Times,
           MergeStarts(T, ers, now, from, to)
    PROVE  PricesKept(MergedTable(T, from, to))
<1> DEFINE new == MergedTable(T, from, to)
           row(r) == MergedRow(T, from, to, r)
<1>1. /\ T \subseteq Rows /\ PricesKept(T) /\ PrimaryKey(T) /\ Loaded(T, ers, now)
  BY LoadedParts DEF MergeStarts
<1>2. \A r \in T : Merges(T, from, to, r, row(r))
  BY MergesSound
<1>3. \A x, r \in T : PointsAt(row(x), row(r)) <=> PointsAt(x, r)
  BY MergedPoints
<1>4. new = {row(r) : r \in T}
  BY DEF MergedTable
<1> HIDE DEF new, row
<1>5. ASSUME NEW c \in new
      PROVE  LET same == {x \in new : PointsAt(x, c) /\ x.price = c.price}
             IN  IF same = {} THEN << c.pmts, c.pno >> = << c.mts, c.no >>
                 ELSE \A x \in same : << c.pmts, c.pno >> = << x.pmts, x.pno >>
  <2> DEFINE same == {x \in new : PointsAt(x, c) /\ x.price = c.price}
  <2>1. PICK r \in T : c = row(r)
    BY <1>4
  <2>2. PICK p \in T : Key(p) = << r.pmts, r.id, r.pno >> /\ p.mts = r.pmts /\ p.no = r.pno
    BY <1>1, PriceRow
  <2>3. /\ c.pmts = MovesTo(T, from, to, p) /\ c.pno = r.pno /\ c.no = r.no /\ c.price = r.price
        /\ c.mts = MovesTo(T, from, to, r)
    BY <1>2, <2>1, <2>2 DEF Merges
  <2>4. CASE same = {}
    <3>1. \A x \in T : ~(PointsAt(x, r) /\ x.price = r.price)
      <4>1. TAKE x \in T
      <4>2. row(x) \in new /\ row(x).price = x.price
        BY <1>2, <1>4 DEF Merges
      <4>. QED
        BY <1>3, <2>1, <2>3, <2>4, <4>2
    <3>2. << r.pmts, r.pno >> = << r.mts, r.no >>
      BY <1>1, <3>1 DEF PricesKept
    <3>3. Key(r) = << r.pmts, r.id, r.pno >>
      BY <3>2 DEF Key
    <3>4. c.pmts = MovesTo(T, from, to, r)
      BY <1>2, <2>1, <3>3 DEF Merges
    <3>. QED
      BY <2>3, <2>4, <3>2, <3>4
  <2>5. CASE same # {}
    <3>1. ASSUME NEW y \in same
          PROVE  << c.pmts, c.pno >> = << y.pmts, y.pno >>
      <4>1. PICK x \in T : y = row(x)
        BY <1>4
      <4>2. PointsAt(x, r) /\ x.price = r.price /\ x.id = r.id
        BY <1>2, <1>3, <2>1, <2>3, <4>1, PointsIs DEF Merges
      <4>3. << r.pmts, r.pno >> = << x.pmts, x.pno >>
        BY <1>1, <4>2 DEF PricesKept
      <4>4. Key(p) = << x.pmts, x.id, x.pno >>
        BY <2>2, <4>2, <4>3
      <4>5. y.pmts = MovesTo(T, from, to, p) /\ y.pno = x.pno
        BY <1>2, <4>1, <4>4 DEF Merges
      <4>. QED
        BY <2>3, <4>3, <4>5
    <3>. QED
      BY <2>5, <3>1
  <2>. QED
    BY <2>4, <2>5
<1>. QED
  BY <1>5 DEF PricesKept, new
\* A row that is followed by another moves before it does.
LEMMA MergedApart ==
    ASSUME NEW T, NEW ers, NEW now, NEW from \in Times, NEW to \in Times,
           MergeStarts(T, ers, now, from, to),
           NEW a \in T, NEW b \in T, a.id = b.id, a.mts < b.mts, SameEra(ers, a.mts, b.mts)
    PROVE  MergedRow(T, from, to, a).next <= MovesTo(T, from, to, b)
<1> DEFINE c == MergedRow(T, from, to, a)
           tb == MovesTo(T, from, to, b)
<1>1. /\ T \subseteq Rows /\ RowsSound(T) /\ Followed(T, ers) /\ LivesApart(T, ers)
  BY LoadedParts DEF MergeStarts
<1>2. Merges(T, from, to, a, c)
  BY MergesSound
<1>3. a.next <= b.mts /\ b.mts \in Nat /\ tb \in Nat /\ b.mts <= tb
  BY <1>1, RowTimes, MovesForward, TimesAre DEF LivesApart
<1> HIDE DEF c
<1>4. CASE a.nextNo = Null
  <2>1. c.next = a.next /\ a.next \in {Infinity, MinusInfinity}
    BY <1>1, <1>2, <1>4, LoadedLast DEF Merges
  <2>2. a.next \in Int
    BY <2>1, TimesAre
  <2>. QED
    BY <1>3, <2>1, <2>2 DEF c
<1>5. CASE a.nextNo # Null
  <2>1. PICK s \in T : PointsAt(a, s) /\ s.id = a.id /\ s.mts = a.next
    BY <1>1, <1>5, LoadedFollower
  <2>2. c.next = MovesTo(T, from, to, s)
    BY <1>2, <2>1 DEF Merges
  <2>3. MovesTo(T, from, to, s) <= tb
    BY <1>1, <1>3, <2>1, MovesInOrder
  <2>. QED
    BY <2>2, <2>3 DEF c
<1>. QED
  BY <1>4, <1>5

LEMMA MergedOnce ==
    ASSUME NEW T, NEW ers, NEW now, NEW from \in Times, NEW to \in Times,
           MergeStarts(T, ers, now, from, to)
    PROVE  LiveOnce(MergedTable(T, from, to), ers)
<1> DEFINE new == MergedTable(T, from, to)
           row(r) == MergedRow(T, from, to, r)
<1>1. /\ T \subseteq Rows /\ ErasTyped(ers) /\ OnePerInstant(T) /\ SameEra(ers, from, to)
  BY LoadedParts DEF MergeStarts
<1>2. \A r \in T : /\ row(r).id = r.id /\ row(r).mts = MovesTo(T, from, to, r)
                   /\ row(r).next \in Int /\ row(r).mts \in Nat /\ r.mts \in Nat
                   /\ SameEra(ers, r.mts, row(r).mts) /\ row(r) \in Rows
  <2>1. TAKE r \in T
  <2>2. row(r).id = r.id /\ row(r).mts = MovesTo(T, from, to, r) /\ row(r) \in Rows
    BY MergesSound DEF Merges
  <2>3. MovesTo(T, from, to, r) \in Times /\ SameEra(ers, r.mts, MovesTo(T, from, to, r))
    BY <1>1, MovesForward
  <2>. QED
    BY <1>1, <2>2, <2>3, RowTimes
<1>3. \A a, b \in T : a.id = b.id /\ a.mts < b.mts /\ SameEra(ers, a.mts, b.mts) =>
        row(a).next <= row(b).mts
  <2>1. \A a, b \in T : a.id = b.id /\ a.mts < b.mts /\ SameEra(ers, a.mts, b.mts) =>
          row(a).next <= MovesTo(T, from, to, b)
    BY MergedApart
  <2>. QED
    BY <1>2, <2>1
<1>4. new \subseteq Rows /\ \A c \in new : \E r \in T : c = row(r)
  BY <1>2 DEF MergedTable
<1> HIDE DEF new, row
<1>5. ASSUME NEW t \in Times, NEW c1 \in LiveAt(new, ers, t), NEW c2 \in LiveAt(new, ers, t),
             c1.id = c2.id
      PROVE  c1 = c2
  <2>1. /\ c1 \in new /\ SameEra(ers, c1.mts, t) /\ c1.mts <= t /\ c1.next > t
        /\ c2 \in new /\ SameEra(ers, c2.mts, t) /\ c2.mts <= t /\ c2.next > t
    BY <1>1, <1>4, LiveIs
  <2>2. PICK a \in T, b \in T : c1 = row(a) /\ c2 = row(b)
    BY <1>4, <2>1
  <2>3. a.id = b.id /\ SameEra(ers, a.mts, b.mts) /\ SameEra(ers, b.mts, a.mts)
    BY <1>2, <1>5, <2>1, <2>2 DEF SameEra
  <2>4. t \in Nat
    BY TimesAre
  <2>5. ~(a.mts < b.mts)
    BY <1>2, <1>3, <2>1, <2>2, <2>3, <2>4
  <2>6. ~(b.mts < a.mts)
    BY <1>2, <1>3, <2>1, <2>2, <2>3, <2>4
  <2>7. a.mts = b.mts
    BY <1>2, <2>5, <2>6
  <2>. QED
    BY <1>1, <2>2, <2>7 DEF OnePerInstant
<1>. QED
  BY <1>5 DEF LiveOnce, new

\* Outside the period a row is live when it was.
LEMMA MergedOutside ==
    ASSUME NEW T, NEW ers, NEW now, NEW from \in Times, NEW to \in Times,
           MergeStarts(T, ers, now, from, to), from < to, NEW r \in T,
           NEW t \in Times, t < from \/ t >= to
    PROVE  MergedRow(T, from, to, r) \in LiveAt(MergedTable(T, from, to), ers, t)
             <=> r \in LiveAt(T, ers, t)
<1> DEFINE c == MergedRow(T, from, to, r)
<1>1. /\ T \subseteq Rows /\ RowsSound(T) /\ Followed(T, ers) /\ ErasTyped(ers)
      /\ SameEra(ers, from, to)
  BY LoadedParts DEF MergeStarts
<1>2. \A x \in T : Merges(T, from, to, x, MergedRow(T, from, to, x))
  BY MergesSound
<1>3. MergedTable(T, from, to) \subseteq Rows /\ c \in MergedTable(T, from, to)
  BY <1>2 DEF MergedTable, Merges
<1>4. Merges(T, from, to, r, c)
  BY <1>2
<1> HIDE DEF c
<1>5. from \in Nat /\ to \in Nat /\ t \in Nat
  BY TimesAre
<1>6. ASSUME NEW x \in T
      PROVE  MovesTo(T, from, to, x) <= t <=> x.mts <= t
  <2>1. x.mts \in Nat /\ MovesTo(T, from, to, x) \in Nat
    BY <1>1, RowTimes, MovesForward, TimesAre
  <2>2. CASE x \notin Period(T, from, to)
    BY <1>1, <2>2, MovesIs
  <2>3. CASE x \in Period(T, from, to)
    <3>1. from <= x.mts /\ x.mts < to /\ x.mts <= MovesTo(T, from, to, x)
          /\ MovesTo(T, from, to, x) <= to
      BY <1>1, <2>3, MovesIs
    <3>. QED
      BY <1>5, <2>1, <3>1
  <2>. QED
    BY <2>2, <2>3
<1>7. c.next > t <=> r.next > t
  <2>1. CASE r.nextNo = Null
    BY <1>4, <2>1 DEF Merges
  <2>2. CASE r.nextNo # Null
    <3>1. PICK s \in T : PointsAt(r, s) /\ s.mts = r.next
      BY <1>1, <2>2, LoadedFollower
    <3>2. c.next = MovesTo(T, from, to, s)
      BY <1>4, <3>1 DEF Merges
    <3>3. MovesTo(T, from, to, s) <= t <=> s.mts <= t
      BY <1>6
    <3>4. MovesTo(T, from, to, s) \in Nat /\ s.mts \in Nat
      BY <1>1, RowTimes, MovesForward, TimesAre
    <3>. QED
      BY <1>5, <3>1, <3>2, <3>3, <3>4
  <2>. QED
    BY <2>1, <2>2
<1>8. SameEra(ers, r.mts, c.mts) /\ (c.mts <= t <=> r.mts <= t)
  BY <1>1, <1>4, <1>6, MovesForward DEF Merges
<1>9. c \in LiveAt(MergedTable(T, from, to), ers, t) <=>
        SameEra(ers, c.mts, t) /\ c.mts <= t /\ c.next > t
  BY <1>1, <1>3, LiveIs
<1>10. r \in LiveAt(T, ers, t) <=> SameEra(ers, r.mts, t) /\ r.mts <= t /\ r.next > t
  BY <1>1, LiveIs
<1>. QED
  BY <1>7, <1>8, <1>9, <1>10 DEF SameEra, c

\* Within it, it was live before the period.
LEMMA MergedWithin ==
    ASSUME NEW T, NEW ers, NEW now, NEW from \in Times, NEW to \in Times,
           MergeStarts(T, ers, now, from, to), NEW r \in T,
           NEW t \in Times, from <= t, t < to,
           MergedRow(T, from, to, r) \in LiveAt(MergedTable(T, from, to), ers, t)
    PROVE  r \in LiveAt(T, ers, from - 1)
<1> DEFINE c == MergedRow(T, from, to, r)
           tr == MovesTo(T, from, to, r)
<1>1. /\ T \subseteq Rows /\ RowsSound(T) /\ Followed(T, ers) /\ ErasTyped(ers)
      /\ OnePerInstant(T) /\ LivesApart(T, ers) /\ SameEra(ers, from, to)
  BY LoadedParts DEF MergeStarts
<1>2. \A x \in T : Merges(T, from, to, x, MergedRow(T, from, to, x))
  BY MergesSound
<1>3. MergedTable(T, from, to) \subseteq Rows
  BY <1>2 DEF MergedTable, Merges
<1>4. Merges(T, from, to, r, c) /\ SameEra(ers, c.mts, t) /\ c.mts <= t /\ c.next > t
  BY <1>1, <1>2, <1>3, LiveIs
<1> HIDE DEF c
<1>5. /\ from \in Nat /\ to \in Nat /\ t \in Nat /\ 1 <= from
      /\ \A x \in T : x.mts \in Nat /\ 1 <= x.mts /\ x.mts <= MaxTime
      /\ \A x \in T : MovesTo(T, from, to, x) \in Nat /\ MovesTo(T, from, to, x) \in Times
      /\ MaxTime \in Nat
  BY <1>1, TimesAre, RowTimes, MovesForward
<1>6. c.mts = tr
  BY <1>4 DEF Merges
<1>7. r \notin Period(T, from, to)
  <2>1. SUFFICES ASSUME r \in Period(T, from, to) PROVE FALSE
    OBVIOUS
  <2>2. /\ from <= r.mts /\ r.mts < to /\ r.mts <= tr
        /\ tr = to \/ Returns(T, from, to, r.id, tr)
    BY <1>1, <2>1, MovesIs
  <2>3. Returns(T, from, to, r.id, tr)
    BY <1>4, <1>5, <1>6, <2>2
  <2>4. PICK d \in T : /\ d.id = r.id /\ d.mts = tr /\ d.next = MinusInfinity
                       /\ from <= d.mts /\ d.mts < to
    BY <2>3 DEF Returns, Period
  <2>5. r # d
    <3>1. r.nextNo = Null => c.next = r.next
      BY <1>4 DEF Merges
    <3>2. r.next = MinusInfinity => r.nextNo = Null
      BY <1>1, LoadedLast, TimesAre DEF IsFinite
    <3>3. MinusInfinity < 0 /\ MinusInfinity \in Int
      BY TimesAre
    <3>. QED
      BY <1>4, <1>5, <2>4, <3>1, <3>2, <3>3
  <2>6. r.mts < d.mts
    BY <1>1, <1>5, <2>2, <2>4, <2>5 DEF OnePerInstant
  <2>7. SameEra(ers, r.mts, d.mts)
    <3>1. SameEra(ers, r.mts, to)
      BY <1>1, <1>5, <2>2, EraBetween
    <3>. QED
      BY <1>1, <1>5, <2>4, <2>6, <3>1, EraBetween
  <2>8. c.next <= MovesTo(T, from, to, d)
    BY <2>4, <2>6, <2>7, MergedApart DEF c
  <2>9. MovesTo(T, from, to, d) <= tr
    <3>1. d \in Period(T, from, to)
      BY <2>4 DEF Period
    <3>2. d.mts <= tr
      BY <1>5, <2>4
    <3>. QED
      BY <1>1, <2>3, <2>4, <3>1, <3>2, MovesIs
  <2>10. c.next \in Int
    BY <1>4, RowTimes DEF Merges
  <2>. QED
    BY <1>4, <1>5, <1>6, <2>8, <2>9, <2>10
<1>8. tr = r.mts /\ r.mts < from
  <2>1. tr = r.mts
    BY <1>1, <1>7, MovesIs
  <2>. QED
    BY <1>4, <1>5, <1>6, <1>7, <2>1 DEF Period
<1>9. r.next > from - 1
  <2>1. CASE r.nextNo = Null
    <3>1. c.next = r.next /\ r.next \in Int
      BY <1>1, <1>4, <2>1, RowTimes DEF Merges
    <3>. QED
      BY <1>4, <1>5, <3>1
  <2>2. CASE r.nextNo # Null
    <3>1. PICK s \in T : PointsAt(r, s) /\ s.mts = r.next
      BY <1>1, <2>2, LoadedFollower
    <3>2. c.next = MovesTo(T, from, to, s)
      BY <1>4, <3>1 DEF Merges
    <3>3. s.mts < from => MovesTo(T, from, to, s) = s.mts
      <4>1. s.mts < from => s \notin Period(T, from, to)
        BY <1>5 DEF Period
      <4>. QED
        BY <1>1, <4>1, MovesIs
    <3>. QED
      BY <1>4, <1>5, <3>1, <3>2, <3>3
  <2>. QED
    BY <2>1, <2>2
<1>10. from - 1 \in Times /\ r.mts <= from - 1 /\ from - 1 <= t
  BY <1>5, <1>8, TimesAre
<1>11. SameEra(ers, r.mts, from - 1)
  <2>1. SameEra(ers, r.mts, t) /\ r.mts \in Int /\ from - 1 \in Int /\ t \in Int
    BY <1>4, <1>5, <1>6, <1>8
  <2>. QED
    BY <1>1, <1>10, <2>1, EraBetween
<1>. QED
  BY <1>1, <1>9, <1>10, <1>11, LiveIs
MergeKeepsAt(T, new, ers, from, to) ==
    \A t \in Times :
        IF t < from \/ t >= to THEN Shown(LiveAt(new, ers, t)) = Shown(LiveAt(T, ers, t))
        ELSE Shown(LiveAt(new, ers, t)) \subseteq Shown(LiveAt(T, ers, from - 1))

LEMMA MergedBooks ==
    ASSUME NEW T, NEW ers, NEW now, NEW from \in Times, NEW to \in Times,
           MergeStarts(T, ers, now, from, to), from < to
    PROVE  MergeKeepsAt(T, MergedTable(T, from, to), ers, from, to)
<1> DEFINE new == MergedTable(T, from, to)
           row(r) == MergedRow(T, from, to, r)
<1>1. ASSUME NEW r \in T
      PROVE  row(r).id = r.id /\ row(r).price = r.price /\ row(r).amount = r.amount
  <2>1. Merges(T, from, to, r, MergedRow(T, from, to, r))
    BY MergesSound
  <2>. QED
    BY <2>1 DEF Merges
<1>2. new = {row(r) : r \in T}
  BY DEF MergedTable
<1>3. SUFFICES ASSUME NEW t \in Times
      PROVE  IF t < from \/ t >= to THEN Shown(LiveAt(new, ers, t)) = Shown(LiveAt(T, ers, t))
             ELSE Shown(LiveAt(new, ers, t)) \subseteq Shown(LiveAt(T, ers, from - 1))
  BY DEF MergeKeepsAt
<1>4. LiveAt(new, ers, t) \subseteq new /\ LiveAt(T, ers, t) \subseteq T
  BY DEF LiveAt
<1>5. CASE t < from \/ t >= to
  <2>1. \A r \in T : row(r) \in LiveAt(new, ers, t) <=> r \in LiveAt(T, ers, t)
    BY <1>5, MergedOutside
  <2> HIDE DEF row, new
  <2>2. \A c \in LiveAt(new, ers, t) : \E r \in LiveAt(T, ers, t) :
          c.id = r.id /\ c.price = r.price /\ c.amount = r.amount
    BY <1>1, <1>2, <1>4, <2>1
  <2>3. \A r \in LiveAt(T, ers, t) : \E c \in LiveAt(new, ers, t) :
          c.id = r.id /\ c.price = r.price /\ c.amount = r.amount
    BY <1>1, <1>4, <2>1
  <2>4. Shown(LiveAt(new, ers, t)) = Shown(LiveAt(T, ers, t))
    BY <2>2, <2>3 DEF Shown
  <2>. QED
    BY <1>5, <2>4
<1>6. CASE ~(t < from \/ t >= to)
  <2>0. from <= t /\ t < to
    BY <1>6, TimesAre
  <2>1. \A r \in T : row(r) \in LiveAt(new, ers, t) => r \in LiveAt(T, ers, from - 1)
    BY <2>0, MergedWithin
  <2> HIDE DEF row, new
  <2>2. \A c \in LiveAt(new, ers, t) : \E r \in LiveAt(T, ers, from - 1) :
          c.id = r.id /\ c.price = r.price /\ c.amount = r.amount
    BY <1>1, <1>2, <1>4, <2>1
  <2>3. Shown(LiveAt(new, ers, t)) \subseteq Shown(LiveAt(T, ers, from - 1))
    BY <2>2 DEF Shown
  <2>. QED
    BY <1>6, <2>3
<1>. QED
  BY <1>5, <1>6

LEMMA ErasAreTimes ==
    ASSUME NEW T, T \subseteq Rows, NEW ers, ErasFollow(T, ers)
    PROVE  \A e \in DOMAIN ers : ers[e] \in Times \union {Null}
<1>1. TAKE e \in DOMAIN ers
<1>2. ers[e] = LastEvent(RowsOfEra(T, ers, e)) /\ RowsOfEra(T, ers, e) \subseteq Rows
  BY DEF ErasFollow, RowsOfEra
<1>3. \A r \in RowsOfEra(T, ers, e) : r.mts \in Times
  BY <1>2, RowFields
<1>. QED
  BY <1>2, <1>3, LastEventIs

LEMMA MergeKeeps ==
    ASSUME RepairInv, NEW from \in Times, NEW to \in Times, Merge(from, to)
    PROVE  /\ RepairInv'
           /\ MergeKeepsAt(level3, level3', eras, from, to)
           /\ call' = Call("merge", from, to) /\ eras' = eras
<1> DEFINE db == MergeEpisodes(Database, from, to)
<1>1. /\ Idle /\ call = NoCall /\ Loaded(level3, eras, clock) /\ clock \in 0..MaxTime
  BY DEF RepairInv, Merge, CanRepair
<1>2. /\ from < to /\ SameEra(eras, from, to)
      /\ Commits(db) /\ level3' = db.level3 /\ eras' = db.eras
      /\ call' = Call("merge", from, to) /\ clock' = clock /\ fix' = fix
  BY DEF Merge, WithinEra, Commit, SameEra
<1>3. /\ db.level3 = MergedTable(level3, from, to) /\ db.eras = eras
      /\ db.raised = (FALSE \/ ~KeysApart(level3, MergeNew(level3, from, to)))
  <2>1. /\ Database.level3 = level3 /\ Database.eras = eras /\ Database.raised = FALSE
        /\ Database = [level3 |-> Database.level3, eras |-> Database.eras,
                       ok |-> Database.ok, raised |-> Database.raised]
    BY DEF Database
  <2>. QED
    BY <2>1, MergeEpisodesIs
<1>4. MergeStarts(level3, eras, clock, from, to)
  BY <1>1, <1>2, <1>3 DEF MergeStarts, Commits
<1> HIDE DEF db
<1>5. /\ Linked(level3', eras) /\ PricesKept(level3') /\ LiveOnce(level3', eras)
      /\ MergeKeepsAt(level3, level3', eras, from, to)
  BY <1>2, <1>3, <1>4, MergedLinked, MergedPrices, MergedOnce, MergedBooks
<1>6. level3' \subseteq Rows
  <2>1. \A r \in level3 : MergedRow(level3, from, to, r) \in Rows
    BY <1>4, MergesSound DEF Merges
  <2>. QED
    BY <1>2, <1>3, <2>1 DEF MergedTable
<1>7. DOMAIN eras \subseteq Times /\ \A e \in DOMAIN eras : eras[e] \in Times \union {Null}
  BY <1>1, LoadedParts, ErasAreTimes DEF ErasTyped
<1>8. Repaired(level3, eras, "merge")'
  BY <1>2, <1>3, <1>5, <1>6, <1>7 DEF Repaired
<1>9. call'.name = "merge" /\ call' # NoCall
  BY <1>2 DEF Call, NoCall
<1>. QED
  BY <1>1, <1>2, <1>3, <1>5, <1>8, <1>9 DEF RepairInv, Idle
-----------------------------------------------------------------------------
(***************************************************************************)
(* The trigger: events of one instant continue the chains of their orders. *)
(***************************************************************************)
InsertsUpTo(g, n, table, ers, rows) ==
    g = [t \in 0..n |-> IF t = 0 THEN table
                        ELSE InsertInstant(g[t - 1], ers, {r \in rows : r.mts = t})]

LEMMA InsertsUpToExists ==
    ASSUME NEW table, NEW ers, NEW rows, NEW n \in Nat
    PROVE  \E g : InsertsUpTo(g, n, table, ers, rows)
<1> DEFINE T == {m \in Nat : ~ \E g : InsertsUpTo(g, m, table, ers, rows)}
<1>1. SUFFICES ASSUME T # {} PROVE FALSE
  OBVIOUS
<1>2. PICK m \in T : \A k \in T : m <= k
  BY <1>1, NatMinimum
<1>3. m \in Nat /\ ~ \E g : InsertsUpTo(g, m, table, ers, rows)
  OBVIOUS
<1>4. CASE m = 0
  <2> DEFINE h == [t \in 0..0 |-> table]
  <2>1. h = [t \in 0..0 |-> IF t = 0 THEN table
                            ELSE InsertInstant(h[t - 1], ers, {r \in rows : r.mts = t})]
    OBVIOUS
  <2>. QED
    BY <1>3, <1>4, <2>1 DEF InsertsUpTo
<1>5. CASE m # 0
  <2>1. m - 1 \in Nat /\ m - 1 \notin T
    BY <1>2, <1>3, <1>5
  <2>2. PICK g : InsertsUpTo(g, m - 1, table, ers, rows)
    BY <2>1
  <2> DEFINE h == [t \in 0..m |->
                     IF t = m THEN InsertInstant(g[m - 1], ers, {r \in rows : r.mts = m})
                     ELSE g[t]]
  <2>3. \A t \in 0..m : h[t] = IF t = 0 THEN table
                               ELSE InsertInstant(h[t - 1], ers, {r \in rows : r.mts = t})
    <3>1. TAKE t \in 0..m
    <3>2. CASE t = m
      <4>1. m - 1 \in 0..m /\ m - 1 # m
        BY <1>3, <1>5
      <4>2. h[t - 1] = g[m - 1]
        BY <3>2, <4>1
      <4>. QED
        BY <1>5, <3>2, <4>2
    <3>3. CASE t # m
      <4>1. t \in 0..(m - 1)
        BY <1>3, <3>3
      <4>2. g[t] = IF t = 0 THEN table
                   ELSE InsertInstant(g[t - 1], ers, {r \in rows : r.mts = t})
        BY <2>2, <4>1 DEF InsertsUpTo
      <4>3. t # 0 => t - 1 \in 0..m /\ t - 1 # m
        BY <1>3, <4>1
      <4>4. t # 0 => h[t - 1] = g[t - 1]
        BY <4>3
      <4>5. h[t] = g[t]
        BY <3>3
      <4>. QED
        BY <4>2, <4>4, <4>5
    <3>. QED
      BY <3>2, <3>3
  <2>4. InsertsUpTo(h, m, table, ers, rows)
    BY <2>3 DEF InsertsUpTo
  <2>. QED
    BY <1>3, <2>4
<1>. QED
  BY <1>4, <1>5

Instant(rows, t) == {r \in rows : r.mts = t}
InsertSteps(g, table, ers, rows) ==
    /\ g[0] = table
    /\ \A t \in Times : g[t] = InsertInstant(g[t - 1], ers, Instant(rows, t))
    /\ InsertRows(table, ers, rows) = g[MaxTime]

LEMMA InsertsInSteps ==
    ASSUME NEW table, NEW ers, NEW rows
    PROVE  \E g : InsertSteps(g, table, ers, rows)
<1> DEFINE g == CHOOSE g : InsertsUpTo(g, MaxTime, table, ers, rows)
<1>1. MaxTime \in Nat
  BY TableAssumption
<1>2. InsertsUpTo(g, MaxTime, table, ers, rows)
  BY <1>1, InsertsUpToExists
<1>3. InsertRows(table, ers, rows) = g[MaxTime]
  BY Zenon DEF InsertRows, InsertsUpTo
<1> HIDE DEF g
<1>4. \A t \in 0..MaxTime :
        g[t] = IF t = 0 THEN table ELSE InsertInstant(g[t - 1], ers, {r \in rows : r.mts = t})
  BY <1>2 DEF InsertsUpTo
<1>5. g[0] = table
  <2>1. 0 \in 0..MaxTime
    BY <1>1
  <2>. QED
    BY <1>4, <2>1
<1>6. ASSUME NEW t \in Times
      PROVE  g[t] = InsertInstant(g[t - 1], ers, Instant(rows, t))
  BY <1>1, <1>4 DEF Times, Instant
<1>7. InsertSteps(g, table, ers, rows)
  BY <1>3, <1>5, <1>6 DEF InsertSteps
<1>. QED
  BY <1>7

LEMMA InsertNothing ==
    ASSUME NEW table, NEW ers
    PROVE  InsertInstant(table, ers, {}) = table
BY DEF InsertInstant

LEMMA InsertsAtOnce ==
    ASSUME NEW table, NEW ers, NEW rows, NEW at \in Times, \A r \in rows : r.mts = at
    PROVE  InsertRows(table, ers, rows) = InsertInstant(table, ers, rows)
<1>1. PICK g : InsertSteps(g, table, ers, rows)
  BY InsertsInSteps
<1>2. /\ g[0] = table
      /\ \A t \in Times : g[t] = InsertInstant(g[t - 1], ers, Instant(rows, t))
      /\ InsertRows(table, ers, rows) = g[MaxTime]
  BY <1>1 DEF InsertSteps
<1>3. at \in Nat /\ 1 <= at /\ at <= MaxTime /\ MaxTime \in Nat
  BY TimesAre
<1>4. \A t \in Times : Instant(rows, t) = IF t = at THEN rows ELSE {}
  BY DEF Instant
<1> DEFINE now(t) == IF t < at THEN table ELSE InsertInstant(table, ers, rows)
           Wrong == {t \in Nat : t <= MaxTime /\ g[t] # now(t)}
<1>5. Wrong = {}
  <2>1. SUFFICES ASSUME Wrong # {} PROVE FALSE
    OBVIOUS
  <2>2. Wrong \in SUBSET Nat
    OBVIOUS
  <2>3. PICK m \in Wrong : \A k \in Wrong : m <= k
    BY <2>1, <2>2, NatMinimum
  <2>4. m \in Nat /\ m <= MaxTime /\ g[m] # now(m)
    OBVIOUS
  <2>5. m # 0
    BY <1>2, <1>3, <2>4
  <2>6. m \in Times /\ m - 1 \in Nat /\ m - 1 <= MaxTime /\ m - 1 < m
    BY <1>3, <2>4, <2>5, TimesAre
  <2>7. g[m - 1] = now(m - 1)
    BY <2>3, <2>6
  <2>8. g[m] = InsertInstant(now(m - 1), ers, IF m = at THEN rows ELSE {})
    BY <1>2, <1>4, <2>6, <2>7
  <2>9. CASE m = at
    BY <1>3, <2>4, <2>8, <2>9
  <2>10. CASE m # at
    <3>1. now(m - 1) = now(m)
      BY <1>3, <2>4, <2>6, <2>10
    <3>2. g[m] = InsertInstant(now(m), ers, {})
      BY <2>8, <2>10, <3>1
    <3>. QED
      BY <2>4, <3>2, InsertNothing
  <2>. QED
    BY <2>9, <2>10
<1>6. g[MaxTime] = now(MaxTime)
  BY <1>3, <1>5
<1>. QED
  BY <1>2, <1>3, <1>6

\* A row that an event follows, and the row that follows it.
Event(t, o, price, amount, next) ==
    [ mts |-> t, id |-> o, no |-> Null, price |-> price, amount |-> amount,
      next |-> next, nextNo |-> Null, pmts |-> Null, pno |-> Null ]
Ended(p, t) == [p EXCEPT !.next = t, !.nextNo = p.no + 1]
PriceNow(p, price) == IF price = 0 THEN p.price ELSE price
Continued(p, t, price, amount, next) ==
    [ mts |-> t, id |-> p.id, no |-> p.no + 1, price |-> PriceNow(p, price),
      amount |-> IF price = 0 THEN p.amount ELSE amount, next |-> next, nextNo |-> Null,
      pmts |-> IF PriceNow(p, price) = p.price THEN p.pmts ELSE t,
      pno |-> IF PriceNow(p, price) = p.price THEN p.pno ELSE p.no + 1 ]

LEMMA ContinueIs ==
    ASSUME NEW P, NEW p, NEW t, NEW price, NEW amount, NEW next
    PROVE  Continue(P, p, Event(t, p.id, price, amount, next))
             = (P \ {p}) \union {Ended(p, t), Continued(p, t, price, amount, next)}
<1> DEFINE new == Event(t, p.id, price, amount, next)
           event == IF new.price = 0
                    THEN [new EXCEPT !.price = p.price, !.amount = p.amount]
                    ELSE new
           no == p.no + 1
           same == SamePrice(event, new, p)
           b == [event EXCEPT !.no = no,
                              !.pmts = IF same THEN p.pmts ELSE new.mts,
                              !.pno  = IF same THEN p.pno  ELSE no]
<1>1. Continue(P, p, new) = (P \ {p}) \union {[p EXCEPT !.next = new.mts, !.nextNo = no], b}
  BY DEF Continue
<1>2. new.mts = t /\ new.price = price
  BY DEF Event
<1>3. event = [ mts |-> t, id |-> p.id, no |-> Null, price |-> PriceNow(p, price),
                amount |-> IF price = 0 THEN p.amount ELSE amount,
                next |-> next, nextNo |-> Null, pmts |-> Null, pno |-> Null ]
  BY DEF Event, PriceNow
<1> HIDE DEF event
<1>4. same <=> PriceNow(p, price) = p.price
  BY <1>3 DEF SamePrice
<1> HIDE DEF same, no, new
<1>5. b = [ mts |-> t, id |-> p.id, no |-> no, price |-> PriceNow(p, price),
            amount |-> IF price = 0 THEN p.amount ELSE amount,
            next |-> next, nextNo |-> Null,
            pmts |-> IF same THEN p.pmts ELSE t, pno |-> IF same THEN p.pno ELSE no ]
  <2> DEFINE pmts == IF same THEN p.pmts ELSE t
             pno == IF same THEN p.pno ELSE no
             shown == IF price = 0 THEN p.amount ELSE amount
  <2>1. b = [event EXCEPT !.no = no, !.pmts = pmts, !.pno = pno]
    BY <1>2
  <2> HIDE DEF pmts, pno, shown, b
  <2>2. b = [ mts |-> t, id |-> p.id, no |-> no, price |-> PriceNow(p, price),
              amount |-> shown, next |-> next, nextNo |-> Null, pmts |-> pmts, pno |-> pno ]
    BY <1>3, <2>1 DEF shown
  <2>. QED
    BY <2>2 DEF pmts, pno, shown
<1>6. b = Continued(p, t, price, amount, next)
  BY <1>4, <1>5 DEF Continued, no
<1> HIDE DEF b
<1>. QED
  BY <1>1, <1>2, <1>6 DEF Ended, no, new

\* Events of an instant of different orders, each of which follows a row of X.
Inserts(T, ers, X, d, a, b) ==
    /\ X \subseteq T /\ \A x, y \in X : x.id = y.id => x = y
    /\ \A x \in X : d[x].id = x.id /\ d[x].pmts = Null /\ Previous(T, ers, d[x]) = {x}
    /\ \A x \in X : \A P : Continue(P, x, d[x]) = (P \ {x}) \union {a[x], b[x]}
InsertsTo(T, ers, X, d, a, b) ==
    InsertInstant(T, ers, {d[x] : x \in X})
      = (T \ X) \union {a[x] : x \in X} \union {b[x] : x \in X}

LEMMA InsertInstantIs ==
    ASSUME NEW T, NEW ers, NEW X, NEW d, NEW a, NEW b, Inserts(T, ers, X, d, a, b)
    PROVE  InsertsTo(T, ers, X, d, a, b)
<1> SUFFICES ASSUME
               X \subseteq T, \A x, y \in X : x.id = y.id => x = y,
               \A x \in X : d[x].id = x.id /\ d[x].pmts = Null /\ Previous(T, ers, d[x]) = {x},
               \A x \in X : \A P : Continue(P, x, d[x]) = (P \ {x}) \union {a[x], b[x]}
             PROVE  InsertInstant(T, ers, {d[x] : x \in X})
                      = (T \ X) \union {a[x] : x \in X} \union {b[x] : x \in X}
  BY DEF Inserts, InsertsTo
<1> DEFINE D == {d[x] : x \in X}
           part(o) == {y \in T : y.id = o}
<1>1. InsertInstant(T, ers, D) = {x \in T : \A r \in D : r.id # x.id} \union
                                 UNION {Incorporate(part(r.id), ers, r) : r \in D}
  BY DEF InsertInstant
<1>2. ASSUME NEW x \in X
      PROVE  Incorporate(part(d[x].id), ers, d[x]) = (part(x.id) \ {x}) \union {a[x], b[x]}
  <2> DEFINE prev == Previous(part(d[x].id), ers, d[x])
  <2>1. prev = Previous(T, ers, d[x])
    BY DEF Previous
  <2>2. prev = {x}
    BY <2>1
  <2>3. Cardinality(prev) = 1
    BY <2>2, FS_Singleton
  <2>4. (CHOOSE r \in prev : TRUE) = x /\ prev # {}
    BY <2>2
  <2>5. Incorporate(part(d[x].id), ers, d[x]) = Continue(part(d[x].id), x, d[x])
    <3>1. /\ d[x].pmts = Null
          /\ ~(Cardinality(prev) > 1)
      BY <2>3
    <3>. QED
      BY Zenon, <2>4, <3>1 DEF Incorporate
  <2>6. d[x].id = x.id
    OBVIOUS
  <2>7. Continue(part(x.id), x, d[x]) = (part(x.id) \ {x}) \union {a[x], b[x]}
    OBVIOUS
  <2> HIDE DEF prev, part
  <2>. QED
    BY <2>5, <2>6, <2>7
<1>3. UNION {Incorporate(part(r.id), ers, r) : r \in D}
        = UNION {(part(x.id) \ {x}) \union {a[x], b[x]} : x \in X}
  <2>1. \A x \in X : Incorporate(part(d[x].id), ers, d[x])
                       = (part(x.id) \ {x}) \union {a[x], b[x]}
    BY <1>2
  <2> DEFINE inc(r) == Incorporate(part(r.id), ers, r)
             res(x) == (part(x.id) \ {x}) \union {a[x], b[x]}
  <2>2. \A x \in X : inc(d[x]) = res(x)
    BY <2>1
  <2> HIDE DEF inc, res
  <2>3. {inc(r) : r \in D} = {res(x) : x \in X}
    BY <2>2
  <2>. QED
    BY <2>3 DEF inc, res
<1>4. ASSUME NEW y
      PROVE  y \in InsertInstant(T, ers, D) <=>
               y \in (T \ X) \union {a[x] : x \in X} \union {b[x] : x \in X}
  <2>1. y \in UNION {(part(x.id) \ {x}) \union {a[x], b[x]} : x \in X} <=>
          \/ \E x \in X : y \in T /\ y.id = x.id /\ y # x
          \/ \E x \in X : y = a[x] \/ y = b[x]
    OBVIOUS
  <2>2. (\A r \in D : r.id # y.id) <=> \A x \in X : x.id # y.id
    OBVIOUS
  <2>3. y \in InsertInstant(T, ers, D) <=>
          \/ y \in T /\ \A x \in X : x.id # y.id
          \/ \E x \in X : y \in T /\ y.id = x.id /\ y # x
          \/ \E x \in X : y = a[x] \/ y = b[x]
    BY <1>1, <1>3, <2>1, <2>2
  <2>4. \A x \in X : y.id = x.id => (y # x <=> y \notin X)
    OBVIOUS
  <2>. QED
    BY <2>3, <2>4
<1>. QED
  BY <1>4
-----------------------------------------------------------------------------
(***************************************************************************)
(* level3_eras when rows are inserted.                                     *)
(***************************************************************************)
SameTimes(T, new) ==
    /\ \A x \in T : \E y \in new : y.mts = x.mts
    /\ \A y \in new : \E x \in T : x.mts = y.mts

LEMMA ErasFollowSame ==
    ASSUME NEW T, T \subseteq Rows, NEW new, new \subseteq Rows, NEW ers, ErasTyped(ers),
           ErasFollow(T, ers), SameTimes(T, new)
    PROVE  ErasFollow(new, ers)
<1>1. SUFFICES ASSUME NEW e \in DOMAIN ers PROVE ers[e] = LastEvent(RowsOfEra(new, ers, e))
  BY DEF ErasFollow
<1> DEFINE S == RowsOfEra(T, ers, e)
           N == RowsOfEra(new, ers, e)
<1>2. S \subseteq Rows /\ N \subseteq Rows /\ S \subseteq T /\ N \subseteq new
  BY DEF RowsOfEra
<1>3. /\ \A x \in S : \E y \in N : y.mts = x.mts
      /\ \A y \in N : \E x \in S : x.mts = y.mts
  BY DEF RowsOfEra, SameTimes
<1>4. \/ S = {} /\ ers[e] = Null
      \/ \E r \in S : r.mts = ers[e] /\ \A x \in S : x.mts <= ers[e]
  BY <1>2, LastEventIs DEF ErasFollow
<1> HIDE DEF S, N
<1>5. \/ N = {} /\ ers[e] = Null
      \/ \E r \in N : r.mts = ers[e] /\ \A x \in N : x.mts <= ers[e]
  <2>1. CASE S = {} /\ ers[e] = Null
    BY <1>3, <2>1
  <2>2. CASE \E r \in S : r.mts = ers[e] /\ \A x \in S : x.mts <= ers[e]
    <3>1. PICK r \in S : r.mts = ers[e] /\ \A x \in S : x.mts <= ers[e]
      BY <2>2
    <3>2. PICK y \in N : y.mts = ers[e]
      BY <1>3, <3>1
    <3>3. \A x \in N : x.mts <= ers[e]
      BY <1>3, <3>1
    <3>. QED
      BY <3>2, <3>3
  <2>. QED
    BY <1>4, <2>1, <2>2
<1>. QED
  BY <1>2, <1>5, LastEventIs DEF N

LEMMA LatestEra ==
    ASSUME NEW ers, ErasTyped(ers), NEW t \in Times
    PROVE  LET e == Max(ErasUpTo(ers, t))
           IN  /\ ErasUpTo(ers, t) # {}
               /\ e \in ErasUpTo(ers, t) /\ \A x \in ErasUpTo(ers, t) : x <= e
               /\ e \in DOMAIN ers /\ e <= t
<1>1. ErasUpTo(ers, t) \in SUBSET (0..MaxTime)
  BY EraNumbers, TimesAre DEF ErasUpTo
<1>2. 1 \in ErasUpTo(ers, t)
  BY TimesAre DEF ErasUpTo, ErasTyped
<1>3. Max(ErasUpTo(ers, t)) \in ErasUpTo(ers, t)
      /\ \A x \in ErasUpTo(ers, t) : x <= Max(ErasUpTo(ers, t))
  BY <1>1, <1>2, MaxIsGreatest, TimesAre
<1>. QED
  BY <1>2, <1>3 DEF ErasUpTo

LEMMA UpdateErasIs ==
    ASSUME NEW ers, ErasTyped(ers), NEW t \in Times, NEW D, D # {}, \A d \in D : d.mts = t
    PROVE  LET last == Max(ErasUpTo(ers, t))
           IN  UpdateEras(ers, D)
                 = [e \in DOMAIN ers |-> IF e = last /\ ers[e] < t THEN t ELSE ers[e]]
<1>1. {d.mts : d \in D} = {t}
  OBVIOUS
<1>2. Max({t}) = t
  <2>1. {t} \in SUBSET (0..MaxTime) /\ t \in {t} /\ \A y \in {t} : y <= t
    BY TimesAre
  <2>. QED
    BY <2>1, MaxIs, TimesAre
<1>3. ErasUpTo(ers, t) # {}
  BY LatestEra
<1>. QED
  BY <1>1, <1>2, <1>3 DEF UpdateEras

LEMMA SameDomain ==
    ASSUME NEW ers, NEW new, DOMAIN new = DOMAIN ers
    PROVE  /\ \A t : ErasUpTo(new, t) = ErasUpTo(ers, t)
           /\ \A a, b : SameEra(new, a, b) <=> SameEra(ers, a, b)
           /\ \A T, e : RowsOfEra(T, new, e) = RowsOfEra(T, ers, e)
           /\ \A t, m : InEraOf(new, t, m) <=> InEraOf(ers, t, m)
           /\ \A T, t : LiveAt(T, new, t) = LiveAt(T, ers, t)
BY DEF ErasUpTo, SameEra, RowsOfEra, InEraOf, LiveAt

Extends(T, new, now) ==
    /\ T \subseteq Rows /\ new \subseteq Rows
    /\ now \in Nat /\ now + 1 \in Times
    /\ \A x \in T : x.mts <= now
    /\ \A x \in T : \E y \in new : y.mts = x.mts
    /\ \A y \in new : y.mts = now + 1 \/ \E x \in T : x.mts = y.mts
    /\ \E y \in new : y.mts = now + 1

LEMMA ErasGrow ==
    ASSUME NEW T, NEW new, NEW now, Extends(T, new, now), NEW ers, ErasTyped(ers),
           ErasFollow(T, ers), NEW d, d.mts = now + 1, NEW upd, upd = UpdateEras(ers, {d})
    PROVE  DOMAIN upd = DOMAIN ers /\ ErasTyped(upd) /\ ErasFollow(new, upd)
<1> SUFFICES ASSUME
               T \subseteq Rows, new \subseteq Rows, now \in Nat, now + 1 \in Times,
               \A x \in T : x.mts <= now,
               \A x \in T : \E y \in new : y.mts = x.mts,
               \A y \in new : y.mts = now + 1 \/ \E x \in T : x.mts = y.mts,
               \E y \in new : y.mts = now + 1
             PROVE  DOMAIN upd = DOMAIN ers /\ ErasTyped(upd) /\ ErasFollow(new, upd)
  BY DEF Extends
<1> DEFINE t == now + 1
           last == Max(ErasUpTo(ers, t))
<1>1. upd = [e \in DOMAIN ers |-> IF e = last /\ ers[e] < t THEN t ELSE ers[e]]
  <2>1. t \in Times /\ {d} # {} /\ \A x \in {d} : x.mts = t
    OBVIOUS
  <2> HIDE DEF t
  <2>. QED
    BY <2>1, UpdateErasIs
<1>2. DOMAIN upd = DOMAIN ers /\ ErasTyped(upd)
  BY <1>1 DEF ErasTyped
<1>3. last \in ErasUpTo(ers, t) /\ \A x \in ErasUpTo(ers, t) : x <= last
  BY LatestEra
<1> HIDE DEF last
<1>4. \A e \in DOMAIN ers : e \in Nat
  BY EraNumbers
<1>5. t \in Nat /\ (\A x \in new : x.mts \in Nat) /\ \A x \in T : x.mts \in Nat
  BY RowTimes, TimesAre
<1>6. ASSUME NEW e \in DOMAIN ers PROVE upd[e] = LastEvent(RowsOfEra(new, upd, e))
  <2> DEFINE S == RowsOfEra(T, ers, e)
             N == RowsOfEra(new, ers, e)
  <2>1. /\ S \subseteq Rows /\ N \subseteq Rows /\ S \subseteq T /\ N \subseteq new
        /\ RowsOfEra(new, upd, e) = N
    BY <1>2, SameDomain DEF RowsOfEra
  <2>2. /\ \A x \in S : \E y \in N : y.mts = x.mts
        /\ \A y \in N : y.mts = t \/ \E x \in S : x.mts = y.mts
    BY DEF RowsOfEra
  <2>3. \A y \in N : e \in ErasUpTo(ers, y.mts) /\ \A x \in ErasUpTo(ers, y.mts) : x <= e
    BY <2>1, RowsOfEraIs
  <2>4. \/ S = {} /\ ers[e] = Null
        \/ \E r \in S : r.mts = ers[e] /\ \A x \in S : x.mts <= ers[e]
    BY <2>1, LastEventIs DEF ErasFollow
  <2>5. CASE e = last
    <3>1. PICK y \in new : y.mts = t
      OBVIOUS
    <3>2. y \in N
      BY <1>3, <2>5, <3>1, RowsOfEraIs
    <3>3. \A x \in N : x.mts <= t
      BY <1>5, <2>1, <2>2
    <3>4. ers[e] < t
      BY <1>5, <2>1, <2>4 DEF Null
    <3>5. upd[e] = t
      BY <1>1, <2>5, <3>4
    <3> HIDE DEF t
    <3>. QED
      BY <2>1, <3>1, <3>2, <3>3, <3>5, LastEventIs
  <2>6. CASE e # last
    <3>1. upd[e] = ers[e]
      BY <1>1, <2>6
    <3>2. \A y \in N : y.mts # t
      <4>1. SUFFICES ASSUME NEW y \in N, y.mts = t PROVE FALSE
        OBVIOUS
      <4>2. e \in ErasUpTo(ers, t) /\ \A x \in ErasUpTo(ers, t) : x <= e
        BY <2>3, <4>1
      <4>3. e <= last /\ last <= e /\ last \in Nat /\ e \in Nat
        BY <1>3, <1>4, <4>2 DEF ErasUpTo
      <4>. QED
        BY <2>6, <4>3
    <3> HIDE DEF S, N
    <3>3. CASE S = {} /\ ers[e] = Null
      <4>1. N = {}
        BY <2>2, <3>2, <3>3
      <4>. QED
        BY <2>1, <3>1, <3>3, <4>1, LastEventIs
    <3>4. CASE \E r \in S : r.mts = ers[e] /\ \A x \in S : x.mts <= ers[e]
      <4>1. PICK r \in S : r.mts = ers[e] /\ \A x \in S : x.mts <= ers[e]
        BY <3>4
      <4>2. PICK y \in N : y.mts = ers[e]
        BY <2>2, <4>1
      <4>3. \A x \in N : x.mts <= ers[e]
        BY <2>2, <3>2, <4>1
      <4>. QED
        BY <2>1, <3>1, <4>2, <4>3, LastEventIs
    <3>. QED
      BY <2>4, <3>3, <3>4
  <2>. QED
    BY <2>5, <2>6
<1>7. ErasFollow(new, upd)
  BY <1>2, <1>6 DEF ErasFollow
<1>. QED
  BY <1>2, <1>7
-----------------------------------------------------------------------------
(***************************************************************************)
(* Loading: an event of an instant after all others.                       *)
(***************************************************************************)
\* The row since which a row has its price.
PriceFrom(T, r) == {x \in T : PointsAt(x, r) /\ x.price = r.price}

LEMMA PricesAre ==
    ASSUME NEW T
    PROVE  PricesKept(T) <=>
             \A r \in T :
               /\ \A x \in PriceFrom(T, r) : r.pmts = x.pmts /\ r.pno = x.pno
               /\ PriceFrom(T, r) = {} => r.pmts = r.mts /\ r.pno = r.no
BY DEF PricesKept, PriceFrom

Loads(T, ers, now, new) ==
    /\ Loaded(T, ers, now) /\ now \in Nat /\ now + 1 \in Times
    /\ new.id \in Orders /\ new.mts = now + 1
    /\ \/ /\ new.price \in Prices /\ new.amount \in Amounts
          /\ new = Event(now + 1, new.id, new.price, new.amount, Infinity)
       \/ /\ new.price = 0
          /\ new = Event(now + 1, new.id, 0, new.amount, MinusInfinity)

\* Only the last row of a chain is live after the last instant.
LEMMA LastIsOpen ==
    ASSUME NEW T, NEW ers, NEW now \in Nat, Loaded(T, ers, now), NEW r \in T, r.next > now
    PROVE  r.nextNo = Null /\ r.next = Infinity
<1>1. /\ T \subseteq Rows /\ Followed(T, ers) /\ RowsSound(T)
      /\ \A x \in T : x.mts <= now
  BY LoadedParts DEF Loaded
<1>2. r.nextNo = Null
  <2>1. SUFFICES ASSUME r.nextNo # Null PROVE FALSE
    OBVIOUS
  <2>2. PICK s \in T : s.mts = r.next
    BY <1>1, <2>1, LoadedFollower
  <2>3. s.mts <= now /\ s.mts \in Nat
    BY <1>1, RowTimes
  <2>. QED
    BY <2>2, <2>3
<1>3. r.next \in {Infinity, MinusInfinity}
  BY <1>1, <1>2, LoadedLast
<1>. QED
  BY <1>2, <1>3, TimesAre

LEMMA PreviousIs ==
    ASSUME NEW T, NEW ers, NEW now, NEW new, Loads(T, ers, now, new)
    PROVE  /\ \A r : r \in Previous(T, ers, new) <=>
                       /\ r \in T /\ SameEra(ers, r.mts, now + 1)
                       /\ r.id = new.id /\ r.next > now + 1
           /\ \A r \in Previous(T, ers, new) : r.nextNo = Null /\ r.next = Infinity /\ r.mts <= now
           /\ \A a, b \in Previous(T, ers, new) : a = b
<1>1. /\ Loaded(T, ers, now) /\ T \subseteq Rows /\ ErasTyped(ers) /\ OnePerInstant(T)
      /\ LivesApart(T, ers)
      /\ now \in Nat /\ now + 1 \in Times /\ new.mts = now + 1
      /\ \A x \in T : x.mts <= now
  BY LoadedParts DEF Loads, Loaded
<1>2. \A r \in T : /\ r.mts \in Nat /\ r.mts \in Int /\ r.next \in Int /\ r.mts <= now + 1
                   /\ InEraOf(ers, now + 1, r.mts) <=> SameEra(ers, r.mts, now + 1)
  <2>1. \A r \in T : r.mts \in Nat /\ r.mts \in Int /\ r.next \in Int /\ r.mts <= now + 1
    BY <1>1, RowTimes
  <2>. QED
    BY <1>1, <2>1, InEraIs
<1>3. \A r : r \in Previous(T, ers, new) <=> /\ r \in T /\ SameEra(ers, r.mts, now + 1)
                                             /\ r.id = new.id /\ r.next > now + 1
  BY <1>1, <1>2 DEF Previous
<1>4. \A r \in Previous(T, ers, new) : r.nextNo = Null /\ r.next = Infinity /\ r.mts <= now
  <2>1. TAKE r \in Previous(T, ers, new)
  <2>2. r \in T /\ r.next > now
    BY <1>1, <1>2, <1>3
  <2>. QED
    BY <1>1, <2>2, LastIsOpen
<1>5. ASSUME NEW a \in Previous(T, ers, new), NEW b \in Previous(T, ers, new), a.mts < b.mts
      PROVE  FALSE
  <2>1. a.id = b.id /\ SameEra(ers, a.mts, b.mts) /\ a \in T /\ b \in T
    BY <1>3, EraTransitive
  <2>2. a.next <= b.mts
    BY <1>1, <1>5, <2>1 DEF LivesApart
  <2>. QED
    BY <1>1, <1>2, <1>3, <1>4, <2>1, <2>2, TimesAre
<1>6. \A a, b \in Previous(T, ers, new) : a = b
  <2>1. TAKE a \in Previous(T, ers, new), b \in Previous(T, ers, new)
  <2>2. a \in T /\ b \in T /\ a.mts \in Nat /\ b.mts \in Nat
    BY <1>2, <1>3
  <2>3. ~(a.mts < b.mts) /\ ~(b.mts < a.mts)
    BY <1>5
  <2>. QED
    BY <1>1, <2>2, <2>3 DEF OnePerInstant
<1>. QED
  BY <1>3, <1>4, <1>6

\* Nothing refers to a row later than all others.
LEMMA NothingRefers ==
    ASSUME NEW T, NEW ers, NEW now, Loaded(T, ers, now), NEW x \in T, x.nextNo # Null
    PROVE  x.next <= now /\ \E s \in T : PointsAt(x, s)
<1>1. /\ T \subseteq Rows /\ Followed(T, ers) /\ RowsSound(T)
      /\ \A y \in T : y.mts <= now
  BY LoadedParts DEF Loaded
<1>2. PICK s \in T : PointsAt(x, s) /\ s.mts = x.next
  BY <1>1, LoadedFollower
<1>. QED
  BY <1>1, <1>2

\* A chain starts.
LoadStarts(T, ers, now, new, c) ==
    /\ Loads(T, ers, now, new) /\ Previous(T, ers, new) = {}
    /\ new.price # 0
    /\ c = [new EXCEPT !.no = 1, !.pmts = new.mts, !.pno = 1]

LoadStarted(T, ers, now, new, c) ==
    /\ InsertRows(T, ers, {new}) = T \union {c}
    /\ c \in Rows /\ c.mts = now + 1 /\ c.id = new.id /\ c.no = 1 /\ c.next = Infinity
    /\ c.nextNo = Null /\ c.pmts = now + 1 /\ c.pno = 1

LEMMA LoadStartIs ==
    ASSUME NEW T, NEW ers, NEW now, NEW new, NEW c, LoadStarts(T, ers, now, new, c)
    PROVE  LoadStarted(T, ers, now, new, c)
<1>1. /\ new = Event(now + 1, new.id, new.price, new.amount, Infinity)
      /\ new.id \in Orders /\ new.price \in Prices /\ new.amount \in Amounts
      /\ now + 1 \in Times
  BY DEF LoadStarts, Loads
<1>2. c = [ mts |-> now + 1, id |-> new.id, no |-> 1, price |-> new.price, amount |-> new.amount,
            next |-> Infinity, nextNo |-> Null, pmts |-> now + 1, pno |-> 1 ]
  <2>1. new.mts = now + 1
    BY DEF LoadStarts, Loads
  <2>2. c = [new EXCEPT !.no = 1, !.pmts = now + 1, !.pno = 1]
    BY <2>1 DEF LoadStarts
  <2>3. new = [ mts |-> now + 1, id |-> new.id, no |-> Null, price |-> new.price,
                amount |-> new.amount, next |-> Infinity, nextNo |-> Null,
                pmts |-> Null, pno |-> Null ]
    BY <1>1 DEF Event
  <2> DEFINE t == now + 1
             price == new.price
             amount == new.amount
             o == new.id
  <2> HIDE DEF t, price, amount, o
  <2>4. new = [ mts |-> t, id |-> o, no |-> Null, price |-> price, amount |-> amount,
                next |-> Infinity, nextNo |-> Null, pmts |-> Null, pno |-> Null ]
    BY <2>3 DEF t, price, amount, o
  <2>5. c = [ mts |-> t, id |-> o, no |-> 1, price |-> price, amount |-> amount,
              next |-> Infinity, nextNo |-> Null, pmts |-> t, pno |-> 1 ]
    BY <2>2, <2>4 DEF t
  <2>. QED
    BY <2>5 DEF t, price, amount, o
<1>3. c \in Rows
  BY <1>1, <1>2 DEF Rows, Null
<1>4. InsertRows(T, ers, {new}) = InsertInstant(T, ers, {new})
  <2>1. \A r \in {new} : r.mts = now + 1
    BY DEF LoadStarts, Loads
  <2>. QED
    BY <1>1, <2>1, InsertsAtOnce
<1> DEFINE part == {x \in T : x.id = new.id}
<1>5. Incorporate(part, ers, new) = part \union {c}
  <2>1. Previous(part, ers, new) = {}
    BY DEF LoadStarts, Previous
  <2>2. new.pmts = Null /\ new.price > 0
    BY <1>1, TableAssumption DEF Event
  <2>3. ~(Cardinality(Previous(part, ers, new)) > 1)
    BY <2>1, FS_EmptySet
  <2> HIDE DEF part
  <2>. QED
    BY Zenon, <2>1, <2>2, <2>3 DEF Incorporate, LoadStarts
<1>6. InsertInstant(T, ers, {new})
        = {x \in T : \A r \in {new} : r.id # x.id} \union
          UNION {Incorporate({x \in T : x.id = r.id}, ers, r) : r \in {new}}
  BY DEF InsertInstant
<1>7. InsertInstant(T, ers, {new}) = {x \in T : new.id # x.id} \union Incorporate(part, ers, new)
  BY <1>6
<1>8. InsertInstant(T, ers, {new}) = T \union {c}
  BY <1>5, <1>7
<1>. QED
  BY <1>2, <1>3, <1>4, <1>8 DEF LoadStarted

LEMMA LoadStartKeeps ==
    ASSUME NEW T, NEW ers, NEW now, NEW new, NEW c, LoadStarts(T, ers, now, new, c),
           Consistent(T \union {c})
    PROVE  Loaded(T \union {c}, UpdateEras(ers, {new}), now + 1)
<1> DEFINE N == T \union {c}
           upd == UpdateEras(ers, {new})
           t == now + 1
<1>1. /\ InsertRows(T, ers, {new}) = T \union {c}
      /\ c \in Rows /\ c.mts = t /\ c.id = new.id /\ c.no = 1 /\ c.next = Infinity
      /\ c.nextNo = Null /\ c.pmts = t /\ c.pno = 1
  <2>1. LoadStarted(T, ers, now, new, c)
    BY LoadStartIs
  <2>2. QED
    BY <2>1 DEF LoadStarted
<1>2. /\ Loads(T, ers, now, new) /\ Loaded(T, ers, now) /\ now \in Nat /\ t \in Times
      /\ new.mts = t /\ Previous(T, ers, new) = {}
      /\ \A x \in T : x.mts <= now
  BY DEF LoadStarts, Loads, Loaded
<1>3. /\ T \subseteq Rows /\ RowsSound(T) /\ ErasTyped(ers) /\ Followed(T, ers)
      /\ Preceded(T) /\ PricesKept(T) /\ ErasFollow(T, ers)
      /\ OnePerInstant(T) /\ LivesApart(T, ers)
  BY <1>2, LoadedParts
<1> HIDE DEF upd
<1>4. \A x \in T : ~PointsAt(x, c)
  <2>1. TAKE x \in T
  <2>2. SUFFICES ASSUME PointsAt(x, c) PROVE FALSE
    OBVIOUS
  <2>3. x.next = t /\ x.nextNo # Null
    BY <1>1, <2>2, PointsIs DEF Null
  <2>4. x.next <= now
    BY <1>2, <2>3, NothingRefers
  <2>. QED
    BY <1>2, <2>3, <2>4
<1>5. \A x : ~PointsAt(c, x) \/ x.no = Null
  BY <1>1, PointsIs
<1>6. \A x \in N : x.no # Null
  BY <1>1, <1>3 DEF RowsSound, Null
<1>7. \A r \in N : ~PointsAt(c, r)
  BY <1>5, <1>6
<1>8. \A x \in T : x.mts < t /\ x.mts \in Nat /\ x.next \in Int
  BY <1>2, <1>3, RowTimes
<1>9. RowsSound(N)
  <2>1. IsFiniteSet(N)
    BY <1>3, FS_AddElement DEF RowsSound
  <2>. QED
    BY <1>1, <1>3, <1>6, <2>1 DEF RowsSound, Null
<1>10. \A x \in N : x.mts <= t
  BY <1>1, <1>2, <1>8
<1>11. OnePerInstant(N)
  BY <1>1, <1>2, <1>3, <1>8 DEF OnePerInstant
<1>12. /\ DOMAIN upd = DOMAIN ers /\ ErasTyped(upd) /\ ErasFollow(N, upd)
  <2>1. \A x \in T : \E y \in N : y.mts = x.mts
    OBVIOUS
  <2>2. \A y \in N : y.mts = t \/ \E x \in T : x.mts = y.mts
    BY <1>1
  <2>3. \E y \in N : y.mts = t
    BY <1>1
  <2>4. N \subseteq Rows
    BY <1>1, <1>3
  <2>5. Extends(T, N, now)
    BY <1>2, <1>3, <2>1, <2>2, <2>3, <2>4 DEF Extends
  <2>6. upd = UpdateEras(ers, {new})
    BY DEF upd
  <2> HIDE DEF N
  <2>. QED
    BY <1>2, <1>3, <2>5, <2>6, ErasGrow
<1>13. \A a, b : SameEra(upd, a, b) <=> SameEra(ers, a, b)
  BY <1>12, SameDomain
<1>14. Followed(N, upd)
  BY <1>1, <1>3, <1>13 DEF Followed
<1>15. Preceded(N)
  BY <1>1, <1>3 DEF Preceded
<1>16. LivesApart(N, upd)
  <2>1. ASSUME NEW a \in N, NEW b \in N, a.id = b.id, a.mts < b.mts, SameEra(upd, a.mts, b.mts)
        PROVE  a.next <= b.mts
    <3>1. a \in T
      BY <1>1, <1>2, <1>10, <1>8, <2>1
    <3>2. CASE b \in T
      BY <1>3, <1>13, <2>1, <3>1, <3>2 DEF LivesApart
    <3>3. CASE b = c
      <4>1. a \notin Previous(T, ers, new) /\ a.id = new.id /\ SameEra(ers, a.mts, t)
        BY <1>1, <1>2, <1>13, <2>1, <3>3
      <4>2. ~(a.next > t)
        BY <1>2, <3>1, <4>1, PreviousIs
      <4>. QED
        BY <1>1, <1>2, <1>8, <3>1, <3>3, <4>2
    <3>. QED
      BY <3>2, <3>3
  <2>. QED
    BY <2>1 DEF LivesApart
<1>17. PricesKept(N)
  <2>1. ASSUME NEW r \in N
        PROVE  /\ \A x \in PriceFrom(N, r) : r.pmts = x.pmts /\ r.pno = x.pno
               /\ PriceFrom(N, r) = {} => r.pmts = r.mts /\ r.pno = r.no
    <3>1. CASE r = c
      <4>1. PriceFrom(N, r) = {}
        BY <1>4, <1>7, <3>1 DEF PriceFrom
      <4>. QED
        BY <1>1, <3>1, <4>1
    <3>2. CASE r \in T
      <4>1. PriceFrom(N, r) = PriceFrom(T, r)
        BY <1>7 DEF PriceFrom
      <4>. QED
        BY <1>3, <3>2, <4>1, PricesAre
    <3>. QED
      BY <3>1, <3>2
  <2> HIDE DEF N
  <2>. QED
    BY <2>1, PricesAre
<1>. QED
  BY Zenon, <1>9, <1>10, <1>11, <1>12, <1>14, <1>15, <1>16, <1>17 DEF Loaded, upd

\* A chain goes on.
LoadContinues(T, ers, now, new, p, a, b) ==
    /\ Loads(T, ers, now, new) /\ p \in Previous(T, ers, new)
    /\ a = Ended(p, now + 1)
    /\ b = Continued(p, now + 1, new.price, new.amount, new.next)

LoadContinued(T, ers, now, new, p, a, b) ==
    /\ InsertRows(T, ers, {new}) = (T \ {p}) \union {a, b}
    /\ p \in T /\ p.next = Infinity /\ p.nextNo = Null /\ p.id = new.id
    /\ a \in Rows /\ a.mts = p.mts /\ a.id = p.id /\ a.no = p.no /\ a.price = p.price
    /\ a.next = now + 1 /\ a.nextNo = p.no + 1 /\ a.pmts = p.pmts /\ a.pno = p.pno
    /\ b \in Rows /\ b.mts = now + 1 /\ b.id = p.id /\ b.no = p.no + 1
    /\ b.next \in {Infinity, MinusInfinity} /\ b.nextNo = Null
    /\ IF b.price = p.price THEN b.pmts = p.pmts /\ b.pno = p.pno
       ELSE b.pmts = b.mts /\ b.pno = b.no

LEMMA LoadContinueIs ==
    ASSUME NEW T, NEW ers, NEW now, NEW new, NEW p, NEW a, NEW b,
           LoadContinues(T, ers, now, new, p, a, b)
    PROVE  LoadContinued(T, ers, now, new, p, a, b)
<1> DEFINE t == now + 1
<1>1. /\ Loads(T, ers, now, new) /\ Loaded(T, ers, now) /\ T \subseteq Rows /\ t \in Times
      /\ new = Event(t, new.id, new.price, new.amount, new.next)
      /\ new.next \in {Infinity, MinusInfinity} /\ new.mts = t
      /\ new.price = 0 \/ (new.price \in Prices /\ new.amount \in Amounts)
  <2>1. Loads(T, ers, now, new)
    BY DEF LoadContinues
  <2>2. \/ /\ new.price \in Prices /\ new.amount \in Amounts
           /\ new = Event(now + 1, new.id, new.price, new.amount, Infinity)
        \/ /\ new.price = 0
           /\ new = Event(now + 1, new.id, 0, new.amount, MinusInfinity)
    BY <2>1 DEF Loads
  <2>3. \A u, o, pr, am, nx : Event(u, o, pr, am, nx).next = nx
    BY DEF Event
  <2>4. /\ new.price = 0 \/ (new.price \in Prices /\ new.amount \in Amounts)
        /\ new.next \in {Infinity, MinusInfinity}
        /\ new = Event(t, new.id, new.price, new.amount, new.next)
    <3>1. CASE /\ new.price \in Prices /\ new.amount \in Amounts
               /\ new = Event(now + 1, new.id, new.price, new.amount, Infinity)
      <4>1. new.next = Infinity
        BY <2>3, <3>1
      <4>. QED
        BY <3>1, <4>1
    <3>2. CASE /\ new.price = 0
               /\ new = Event(now + 1, new.id, 0, new.amount, MinusInfinity)
      <4>1. new.next = MinusInfinity
        BY <2>3, <3>2
      <4>. QED
        BY <3>2, <4>1
    <3>. QED
      BY <2>2, <3>1, <3>2
  <2>. QED
    BY <2>1, <2>4, LoadedParts DEF Loads
<1>2. p \in T /\ p.next = Infinity /\ p.nextNo = Null /\ p.id = new.id /\ p \in Rows
  BY <1>1, PreviousIs DEF LoadContinues
<1>3. Previous(T, ers, new) = {p}
  BY <1>1, PreviousIs DEF LoadContinues
<1> HIDE DEF t
<1>4. a = [p EXCEPT !.next = t, !.nextNo = p.no + 1]
  BY DEF LoadContinues, Ended, t
<1>5. /\ a \in Rows /\ a.mts = p.mts /\ a.id = p.id /\ a.no = p.no /\ a.price = p.price
      /\ a.next = t /\ a.nextNo = p.no + 1 /\ a.pmts = p.pmts /\ a.pno = p.pno
  <2> DEFINE k == p.no + 1
  <2>1. k \in Nat
    BY <1>2, RowFields
  <2> HIDE DEF k
  <2>2. a = [p EXCEPT !.next = t, !.nextNo = k]
    BY <1>4 DEF k
  <2>3. p \in Rows /\ t \in Times
    BY <1>1, <1>2
  <2>4. /\ a \in Rows /\ a.mts = p.mts /\ a.id = p.id /\ a.no = p.no /\ a.price = p.price
        /\ a.next = t /\ a.nextNo = k /\ a.pmts = p.pmts /\ a.pno = p.pno
    BY <2>1, <2>2, <2>3 DEF Rows
  <2>. QED
    BY <2>4 DEF k
<1>6. b = Continued(p, t, new.price, new.amount, new.next)
  BY DEF LoadContinues, t
<1>7. /\ b.mts = t /\ b.id = p.id /\ b.no = p.no + 1 /\ b.price = PriceNow(p, new.price)
      /\ b.next \in {Infinity, MinusInfinity} /\ b.nextNo = Null
      /\ IF b.price = p.price THEN b.pmts = p.pmts /\ b.pno = p.pno
         ELSE b.pmts = b.mts /\ b.pno = b.no
  BY <1>1, <1>6 DEF Continued
<1>8. b \in Rows
  <2> DEFINE price == PriceNow(p, new.price)
             amount == IF new.price = 0 THEN p.amount ELSE new.amount
             pmts == IF price = p.price THEN p.pmts ELSE t
             pno == IF price = p.price THEN p.pno ELSE p.no + 1
  <2>1. b = [ mts |-> t, id |-> p.id, no |-> p.no + 1, price |-> price, amount |-> amount,
              next |-> new.next, nextNo |-> Null, pmts |-> pmts, pno |-> pno ]
    BY <1>6 DEF Continued
  <2>2. /\ p.id \in Orders /\ p.no + 1 \in Nat /\ p.pmts \in Times /\ p.pno \in Nat
        /\ p.price \in Prices /\ p.amount \in Amounts
    BY <1>2, RowFields
  <2>3. /\ price \in Prices /\ amount \in Amounts /\ pmts \in Times /\ pno \in Nat
        /\ new.next \in Times \union {Infinity, MinusInfinity}
    BY <1>1, <2>2 DEF PriceNow
  <2> HIDE DEF price, amount, pmts, pno
  <2>. QED
    BY <1>1, <2>1, <2>2, <2>3 DEF Rows, Null
<1>9. InsertRows(T, ers, {new}) = (T \ {p}) \union {a, b}
  <2>1. InsertRows(T, ers, {new}) = InsertInstant(T, ers, {new})
    BY <1>1, InsertsAtOnce
  <2> DEFINE X == {p}
             d == [x \in X |-> new]
             fa == [x \in X |-> a]
             fb == [x \in X |-> b]
  <2>2. d[p].id = p.id /\ d[p].pmts = Null /\ Previous(T, ers, d[p]) = {p}
    <3>1. new.pmts = Null
      BY <1>1 DEF Event
    <3>. QED
      BY <1>2, <1>3, <3>1
  <2>3. \A P : Continue(P, p, d[p]) = (P \ {p}) \union {fa[p], fb[p]}
    <3>1. TAKE P
    <3>2. Continue(P, p, Event(t, p.id, new.price, new.amount, new.next))
            = (P \ {p}) \union {Ended(p, t), Continued(p, t, new.price, new.amount, new.next)}
      BY ContinueIs
    <3>3. a = Ended(p, t)
      BY DEF LoadContinues, t
    <3>. QED
      BY <1>1, <1>2, <1>6, <3>2, <3>3
  <2>4. {d[x] : x \in X} = {new} /\ {fa[x] : x \in X} = {a} /\ {fb[x] : x \in X} = {b}
    OBVIOUS
  <2> HIDE DEF d, fa, fb
  <2>5. Inserts(T, ers, X, d, fa, fb)
    BY <1>2, <2>2, <2>3 DEF Inserts
  <2>6. InsertsTo(T, ers, X, d, fa, fb)
    BY <2>5, InsertInstantIs
  <2>7. InsertInstant(T, ers, {new}) = (T \ {p}) \union {a} \union {b}
    BY <2>4, <2>6 DEF InsertsTo, X
  <2>. QED
    BY <2>1, <2>7
<1>. QED
  BY <1>2, <1>5, <1>7, <1>8, <1>9 DEF t, LoadContinued

LEMMA LoadContinueKeeps ==
    ASSUME NEW T, NEW ers, NEW now, NEW new, NEW p, NEW a, NEW b,
           LoadContinues(T, ers, now, new, p, a, b), Consistent((T \ {p}) \union {a, b})
    PROVE  Loaded((T \ {p}) \union {a, b}, UpdateEras(ers, {new}), now + 1)
<1> DEFINE N == (T \ {p}) \union {a, b}
           upd == UpdateEras(ers, {new})
           t == now + 1
<1>1. /\ p \in T /\ p.next = Infinity /\ p.nextNo = Null /\ p.id = new.id
      /\ a \in Rows /\ a.mts = p.mts /\ a.id = p.id /\ a.no = p.no /\ a.price = p.price
      /\ a.next = t /\ a.nextNo = p.no + 1 /\ a.pmts = p.pmts /\ a.pno = p.pno
      /\ b \in Rows /\ b.mts = t /\ b.id = p.id /\ b.no = p.no + 1
      /\ b.next \in {Infinity, MinusInfinity} /\ b.nextNo = Null
      /\ IF b.price = p.price THEN b.pmts = p.pmts /\ b.pno = p.pno
         ELSE b.pmts = b.mts /\ b.pno = b.no
  <2>1. LoadContinued(T, ers, now, new, p, a, b)
    BY LoadContinueIs
  <2>. QED
    BY <2>1 DEF LoadContinued
<1>2. /\ Loads(T, ers, now, new) /\ Loaded(T, ers, now) /\ now \in Nat /\ t \in Times
      /\ new.mts = t /\ p \in Previous(T, ers, new)
      /\ \A x \in T : x.mts <= now
  BY DEF LoadContinues, Loads, Loaded
<1>3. /\ T \subseteq Rows /\ RowsSound(T) /\ ErasTyped(ers) /\ Followed(T, ers)
      /\ Preceded(T) /\ PricesKept(T) /\ ErasFollow(T, ers)
      /\ OnePerInstant(T) /\ LivesApart(T, ers) /\ PrimaryKey(T)
  BY <1>2, LoadedParts
<1> HIDE DEF upd
<1>4. \A x \in T : x.nextNo = Null \/ x.next # t
  <2>1. TAKE x \in T
  <2>2. x.nextNo # Null => x.next <= now
    BY <1>2, NothingRefers
  <2>. QED
    BY <1>2, <2>2
<1>5. \A x \in N : x.no # Null /\ x.no \in Nat
  BY <1>1, <1>3, RowFields DEF RowsSound, Null
<1>6. \A x \in T : x.mts < t /\ x.mts \in Nat /\ x.next \in Int /\ x.no \in Nat /\ x.no # Null
  BY <1>2, <1>3, RowTimes DEF RowsSound, Null
<1>7. /\ \A r \in N : ~PointsAt(b, r)
      /\ \A r \in T : ~PointsAt(p, r)
      /\ \A x \in T : ~PointsAt(x, b)
      /\ \A r \in T : ~PointsAt(a, r)
      /\ ~PointsAt(a, a)
      /\ PointsAt(a, b)
  <2>1. (\A r \in N : ~PointsAt(b, r)) /\ \A r \in T : ~PointsAt(p, r)
    BY <1>1, <1>5, <1>6, PointsIs
  <2>2. \A x \in T : ~PointsAt(x, b)
    BY <1>1, <1>4, <1>6, PointsIs DEF Null
  <2>3. \A r \in T : ~PointsAt(a, r)
    BY <1>1, <1>6, PointsIs
  <2>4. ~PointsAt(a, a) /\ PointsAt(a, b)
    BY <1>1, <1>6, PointsIs
  <2>. QED
    BY <2>1, <2>2, <2>3, <2>4
<1>8. \A x : PointsAt(x, a) <=> PointsAt(x, p)
  BY <1>1, PointsIs
<1>9. RowsSound(N)
  <2>1. IsFiniteSet(N)
    <3>1. N = ((T \ {p}) \union {a}) \union {b}
      OBVIOUS
    <3>2. IsFiniteSet(T \ {p})
      BY <1>3, FS_RemoveElement DEF RowsSound
    <3>3. IsFiniteSet((T \ {p}) \union {a})
      BY <3>2, FS_AddElement
    <3>. QED
      BY <3>1, <3>3, FS_AddElement
  <2>. QED
    BY <1>1, <1>3, <1>5, <2>1 DEF RowsSound, Null
<1>10. \A x \in N : x.mts <= t
  BY <1>1, <1>2, <1>6
<1>11. OnePerInstant(N)
  <2>1. \A x \in N : x = b \/ (x.mts < t /\ \E y \in T : y.mts = x.mts /\ IF x = a THEN y = p ELSE x = y)
    BY <1>1, <1>6
  <2>2. ASSUME NEW x \in N, NEW y \in N, x.mts = y.mts
        PROVE  x = y
    <3>1. CASE x = b
      BY <1>1, <1>2, <2>1, <2>2, <3>1
    <3>2. CASE x # b /\ y # b
      <4>1. PICK x1 \in T : x1.mts = x.mts /\ IF x = a THEN x1 = p ELSE x = x1
        BY <2>1, <3>2
      <4>2. PICK y1 \in T : y1.mts = y.mts /\ IF y = a THEN y1 = p ELSE y = y1
        BY <2>1, <3>2
      <4>3. x1 = y1
        BY <1>3, <2>2, <4>1, <4>2 DEF OnePerInstant
      <4>4. x = a \/ x \in T \ {p}
        BY <3>2
      <4>5. y = a \/ y \in T \ {p}
        BY <3>2
      <4>. QED
        BY <4>1, <4>2, <4>3, <4>4, <4>5
    <3>3. CASE y = b
      BY <1>1, <1>2, <2>1, <2>2, <3>3
    <3>. QED
      BY <3>1, <3>2, <3>3
  <2> HIDE DEF N
  <2>. QED
    BY <2>2 DEF OnePerInstant
<1>12. /\ DOMAIN upd = DOMAIN ers /\ ErasTyped(upd) /\ ErasFollow(N, upd)
  <2>1. \A x \in T : \E y \in N : y.mts = x.mts
    BY <1>1
  <2>2. \A y \in N : y.mts = t \/ \E x \in T : x.mts = y.mts
    BY <1>1
  <2>3. \E y \in N : y.mts = t
    BY <1>1
  <2>4. N \subseteq Rows
    BY <1>1, <1>3
  <2>5. Extends(T, N, now)
    BY <1>2, <1>3, <2>1, <2>2, <2>3, <2>4 DEF Extends
  <2>6. upd = UpdateEras(ers, {new})
    BY DEF upd
  <2> HIDE DEF N
  <2>. QED
    BY <1>2, <1>3, <2>5, <2>6, ErasGrow
<1>13. \A x, y : SameEra(upd, x, y) <=> SameEra(ers, x, y)
  BY <1>12, SameDomain
<1>14. SameEra(ers, p.mts, t)
  BY <1>2, PreviousIs
<1>15. Followed(N, upd)
  <2>1. ASSUME NEW r \in T \ {p}
        PROVE  IF r.nextNo = Null THEN r.next \in {Infinity, MinusInfinity}
               ELSE /\ r.nextNo = r.no + 1 /\ r.mts < r.next
                    /\ SameEra(upd, r.mts, r.next)
                    /\ \E x \in N : PointsAt(r, x)
    <3>1. CASE r.nextNo = Null
      BY <1>3, <3>1 DEF Followed
    <3>2. CASE r.nextNo # Null
      <4>1. /\ r.nextNo = r.no + 1 /\ r.mts < r.next /\ SameEra(upd, r.mts, r.next)
            /\ \E x \in T : PointsAt(r, x)
        BY <1>3, <1>13, <3>2 DEF Followed
      <4>2. \E x \in N : PointsAt(r, x)
        BY <1>8, <4>1
      <4>. QED
        BY <3>2, <4>1, <4>2
    <3>. QED
      BY <3>1, <3>2
  <2>2. /\ a.nextNo # Null /\ a.nextNo = a.no + 1 /\ a.mts < a.next
        /\ SameEra(upd, a.mts, a.next) /\ \E x \in N : PointsAt(a, x)
    BY <1>1, <1>6, <1>7, <1>13, <1>14 DEF Null
  <2>. QED
    BY <1>1, <2>1, <2>2 DEF Followed
<1>16. Preceded(N)
  <2>1. ASSUME NEW x \in N, x.no # 1
        PROVE  \E r \in N : PointsAt(r, x)
    <3>1. CASE x = b
      BY <1>7, <3>1
    <3>2. CASE x # b
      <4>1. PICK y \in T : (\A r : PointsAt(r, x) <=> PointsAt(r, y)) /\ y.no = x.no
        BY <1>1, <1>8, <3>2
      <4>2. PICK r \in T : PointsAt(r, y)
        BY <1>3, <2>1, <4>1 DEF Preceded
      <4>3. r # p
        BY <1>7, <4>2
      <4>. QED
        BY <4>1, <4>2, <4>3
    <3>. QED
      BY <3>1, <3>2
  <2> HIDE DEF N
  <2>. QED
    BY <2>1 DEF Preceded
<1>17. LivesApart(N, upd)
  <2>1. ASSUME NEW x \in N, NEW y \in N, x.id = y.id, x.mts < y.mts, SameEra(upd, x.mts, y.mts)
        PROVE  x.next <= y.mts
    <3>1. x # b
      BY <1>1, <1>2, <1>6, <1>10, <2>1
    <3>2. CASE y = b
      <4>1. CASE x = a
        BY <1>1, <1>2, <3>2, <4>1
      <4>2. CASE x # a
        <5>1. x \in T /\ x # p /\ x.id = new.id /\ SameEra(ers, x.mts, t)
          BY <1>1, <1>2, <1>13, <2>1, <3>1, <3>2, <4>2
        <5>2. x \notin Previous(T, ers, new)
          BY <1>2, <5>1, PreviousIs
        <5>3. ~(x.next > t)
          BY <1>2, <5>1, <5>2, PreviousIs
        <5>. QED
          BY <1>1, <1>2, <1>6, <3>2, <5>1, <5>3
      <4>. QED
        BY <4>1, <4>2
    <3>3. CASE y # b
      <4>1. PICK y1 \in T : y1.mts = y.mts /\ y1.id = y.id
        BY <1>1, <3>3
      <4>2. PICK x1 \in T : x1.mts = x.mts /\ x1.id = x.id /\ (x = a => x1 = p) /\ (x # a => x1 = x)
        BY <1>1, <3>1
      <4>3. x1.next <= y1.mts
        BY <1>3, <1>13, <2>1, <4>1, <4>2 DEF LivesApart
      <4>4. x # a
        BY <1>1, <1>3, <4>1, <4>2, <4>3, RowTimes, TimesAre
      <4>. QED
        BY <4>1, <4>2, <4>3, <4>4
    <3>. QED
      BY <3>2, <3>3
  <2> HIDE DEF N
  <2>. QED
    BY <2>1 DEF LivesApart
<1>18. PricesKept(N)
  <2>1. ASSUME NEW r \in N
        PROVE  /\ \A x \in PriceFrom(N, r) : r.pmts = x.pmts /\ r.pno = x.pno
               /\ PriceFrom(N, r) = {} => r.pmts = r.mts /\ r.pno = r.no
    <3>1. CASE r = b
      <4>1. \A x \in N : PointsAt(x, b) <=> x = a
        BY <1>7
      <4>2. PriceFrom(N, r) = {x \in {a} : x.price = b.price}
        BY <3>1, <4>1 DEF PriceFrom
      <4>3. CASE b.price = p.price
        BY <1>1, <3>1, <4>2, <4>3
      <4>4. CASE b.price # p.price
        BY <1>1, <3>1, <4>2, <4>4
      <4>. QED
        BY <4>3, <4>4
    <3>2. CASE r = a
      <4>1. PriceFrom(N, a) = PriceFrom(T, p)
        BY <1>1, <1>7, <1>8 DEF PriceFrom
      <4>2. /\ \A x \in PriceFrom(T, p) : p.pmts = x.pmts /\ p.pno = x.pno
            /\ PriceFrom(T, p) = {} => p.pmts = p.mts /\ p.pno = p.no
        BY <1>1, <1>3, PricesAre
      <4>. QED
        BY <1>1, <3>2, <4>1, <4>2
    <3>3. CASE r \in T \ {p}
      <4>1. PriceFrom(N, r) = PriceFrom(T, r)
        BY <1>7, <3>3 DEF PriceFrom
      <4>. QED
        BY <1>3, <3>3, <4>1, PricesAre
    <3>. QED
      BY <3>1, <3>2, <3>3
  <2> HIDE DEF N
  <2>. QED
    BY <2>1, PricesAre
<1>. QED
  BY Zenon, <1>9, <1>10, <1>11, <1>12, <1>15, <1>16, <1>17, <1>18 DEF Loaded, upd

LEMMA EpisodeKeeps ==
    ASSUME RepairInv, NEW o \in Orders, NEW price \in Nat, NEW amount \in Nat,
           price # 0 => price \in Prices /\ amount \in Amounts, Episode(o, price, amount)
    PROVE  RepairInv' /\ call' = call /\ fix' = fix
<1> DEFINE t == clock + 1
           next == IF price = 0 THEN MinusInfinity ELSE Infinity
           new == Event(t, o, price, amount, next)
           c == [new EXCEPT !.no = 1, !.pmts = new.mts, !.pno = 1]
<1>1. /\ Idle /\ call = NoCall /\ clock < MaxTime
      /\ clock \in Nat /\ MaxTime \in Nat
  BY TableAssumption DEF Episode, Loading, RepairInv
<1>2. Loaded(level3, eras, clock)
  BY <1>1 DEF RepairInv
<1>3. /\ price = 0 => LiveNow(o) # {}
      /\ clock' = t
      /\ level3' = InsertRows(level3, eras, {new})
      /\ Consistent(level3')
      /\ eras' = UpdateEras(eras, {new})
      /\ fix' = fix /\ saved' = saved /\ call' = call
  BY Zenon DEF Episode, Event
<1>4. t \in Times /\ t \in 0..MaxTime
  BY <1>1 DEF Times
<1>5. new.id = o /\ new.mts = t /\ new.price = price /\ new.amount = amount /\ new.next = next
  BY DEF Event
<1> HIDE DEF new
<1>6. Loads(level3, eras, clock, new)
  <2>1. CASE price = 0
    <3>1. new = Event(clock + 1, new.id, 0, new.amount, MinusInfinity)
      BY <1>5, <2>1 DEF new
    <3>. QED
      BY <1>1, <1>2, <1>4, <1>5, <2>1, <3>1 DEF Loads
  <2>2. CASE price # 0
    <3>1. new = Event(clock + 1, new.id, new.price, new.amount, Infinity)
      BY <1>5, <2>2 DEF new
    <3>. QED
      BY <1>1, <1>2, <1>4, <1>5, <2>2, <3>1 DEF Loads
  <2>. QED
    BY <2>1, <2>2
<1>7. CASE Previous(level3, eras, new) = {}
  <2>1. price # 0
    <3>1. LiveNow(o) = Previous(level3, eras, new)
      BY <1>5 DEF LiveNow, LiveAt, Previous
    <3>. QED
      BY <1>3, <1>7, <3>1
  <2>2. LoadStarts(level3, eras, clock, new, c)
    BY <1>5, <1>6, <1>7, <2>1 DEF LoadStarts
  <2> HIDE DEF c
  <2>3. LoadStarted(level3, eras, clock, new, c)
    BY <2>2, LoadStartIs
  <2>4. level3' = level3 \union {c}
    BY <1>3, <2>3 DEF LoadStarted
  <2>5. Loaded(level3 \union {c}, UpdateEras(eras, {new}), clock + 1)
    BY <1>3, <2>2, <2>4, LoadStartKeeps
  <2>. QED
    BY <1>1, <1>3, <1>4, <2>4, <2>5 DEF RepairInv, Idle
<1>8. CASE Previous(level3, eras, new) # {}
  <2>1. PICK p : p \in Previous(level3, eras, new)
    BY <1>8
  <2> DEFINE a == Ended(p, clock + 1)
             b == Continued(p, clock + 1, new.price, new.amount, new.next)
  <2>2. LoadContinues(level3, eras, clock, new, p, a, b)
    BY <1>6, <2>1 DEF LoadContinues
  <2> HIDE DEF a, b
  <2>3. LoadContinued(level3, eras, clock, new, p, a, b)
    BY <2>2, LoadContinueIs
  <2>4. level3' = (level3 \ {p}) \union {a, b}
    BY <1>3, <2>3 DEF LoadContinued
  <2>5. Loaded((level3 \ {p}) \union {a, b}, UpdateEras(eras, {new}), clock + 1)
    BY <1>3, <2>2, <2>4, LoadContinueKeeps
  <2>. QED
    BY <1>1, <1>3, <1>4, <2>4, <2>5 DEF RepairInv, Idle
<1>. QED
  BY <1>7, <1>8, <1>3

LEMMA InitKeeps ==
    ASSUME Init
    PROVE  RepairInv
<1>1. clock = 0 /\ level3 = {} /\ eras = [e \in {1} |-> Null] /\ Idle /\ call = NoCall
  BY DEF Init, Idle
<1>2. 0 \in 0..MaxTime /\ 1 \in Times
  BY TableAssumption, RepairsAssumption DEF Times
<1>3. RowsSound({})
  BY FS_EmptySet DEF RowsSound
<1>4. ErasTyped(eras)
  BY <1>1, <1>2 DEF ErasTyped
<1>5. ErasFollow({}, eras)
  BY <1>1 DEF ErasFollow, RowsOfEra, LastEvent
<1>6. Consistent({})
  BY DEF Consistent, PrimaryKey, UniqueNext, NextKey, PriceKey, NextChecks
<1>7. Loaded(level3, eras, clock)
  BY <1>1, <1>3, <1>4, <1>5, <1>6
     DEF Loaded, OnePerInstant, Followed, Preceded, LivesApart, PricesKept
<1>. QED
  BY <1>1, <1>2, <1>7 DEF RepairInv

\* A new era leaves the eras of the rows before it alone.
LEMMA LaterEra ==
    ASSUME NEW ers, NEW new, NEW now \in Nat, DOMAIN new = DOMAIN ers \union {now + 1},
           NEW a \in Nat, NEW b \in Nat, a <= now, b <= now
    PROVE  SameEra(new, a, b) <=> SameEra(ers, a, b)
<1>1. ErasUpTo(new, a) = ErasUpTo(ers, a) /\ ErasUpTo(new, b) = ErasUpTo(ers, b)
  BY DEF ErasUpTo
<1>. QED
  BY <1>1 DEF SameEra

LEMMA StartEraKeeps ==
    ASSUME RepairInv, StartEra
    PROVE  RepairInv' /\ call' = call /\ fix' = fix
<1> DEFINE t == clock + 1
<1>1. /\ Idle /\ call = NoCall /\ clock < MaxTime /\ t \notin DOMAIN eras
      /\ clock \in Nat /\ MaxTime \in Nat
  BY TableAssumption DEF StartEra, Loading, RepairInv
<1>2. Loaded(level3, eras, clock)
  BY <1>1 DEF RepairInv
<1>3. /\ eras' = [e \in DOMAIN eras \union {t} |-> IF e \in DOMAIN eras THEN eras[e] ELSE Null]
      /\ level3' = level3 /\ clock' = clock /\ fix' = fix /\ saved' = saved /\ call' = call
  BY DEF StartEra
<1>4. /\ level3 \subseteq Rows /\ RowsSound(level3) /\ ErasTyped(eras) /\ Followed(level3, eras)
      /\ LivesApart(level3, eras) /\ ErasFollow(level3, eras)
      /\ \A x \in level3 : x.mts <= clock
  BY <1>2, LoadedParts DEF Loaded
<1>5. t \in Times
  BY <1>1 DEF Times
<1>6. ErasTyped(eras')
  BY <1>3, <1>4, <1>5 DEF ErasTyped
<1>7. \A a, b \in Nat : a <= clock /\ b <= clock => (SameEra(eras', a, b) <=> SameEra(eras, a, b))
  BY <1>1, <1>3, LaterEra
<1>8. \A x \in level3 : x.mts \in Nat /\ x.mts <= clock
  BY <1>4, RowTimes
<1>9. \A x \in level3 : x.nextNo # Null => x.next \in Nat /\ x.next <= clock
  <2>1. ASSUME NEW x \in level3, x.nextNo # Null
        PROVE  x.next \in Nat /\ x.next <= clock
    <3>1. x.next <= clock
      BY <1>2, <2>1, NothingRefers
    <3>2. x.next \in Times
      BY <1>4, <2>1, LoadedFollower
    <3>. QED
      BY <3>1, <3>2, TimesAre
  <2>. QED
    BY <2>1
<1>10. Followed(level3, eras')
  BY <1>4, <1>7, <1>8, <1>9 DEF Followed
<1>11. LivesApart(level3, eras')
  BY <1>4, <1>7, <1>8 DEF LivesApart
<1>12. ErasFollow(level3, eras')
  <2>1. ASSUME NEW e \in DOMAIN eras'
        PROVE  eras'[e] = LastEvent(RowsOfEra(level3, eras', e))
    <3>1. CASE e = t
      <4>1. RowsOfEra(level3, eras', e) = {}
        BY <1>1, <1>8, <3>1 DEF RowsOfEra
      <4>. QED
        BY <1>1, <1>3, <3>1, <4>1 DEF LastEvent
    <3>2. CASE e # t
      <4>1. e \in DOMAIN eras /\ eras'[e] = eras[e]
        BY <1>3, <3>2, <2>1
      <4>2. RowsOfEra(level3, eras', e) = RowsOfEra(level3, eras, e)
        BY <1>1, <1>3, <1>8 DEF RowsOfEra
      <4>. QED
        BY <1>4, <4>1, <4>2 DEF ErasFollow
    <3>. QED
      BY <3>1, <3>2
  <2>. QED
    BY <2>1 DEF ErasFollow
<1>13. Loaded(level3, eras', clock)
  BY Zenon, <1>2, <1>6, <1>10, <1>11, <1>12 DEF Loaded
<1>. QED
  BY <1>1, <1>3, <1>13 DEF RepairInv, Idle

LEMMA TickKeeps ==
    ASSUME RepairInv, Tick
    PROVE  RepairInv' /\ call' = call /\ fix' = fix
<1>1. /\ Idle /\ call = NoCall /\ clock < MaxTime
      /\ clock' = clock + 1 /\ level3' = level3 /\ eras' = eras
      /\ fix' = fix /\ saved' = saved /\ call' = call
      /\ clock \in Nat /\ MaxTime \in Nat
  BY TableAssumption DEF Tick, Loading, RepairInv
<1>2. Loaded(level3, eras, clock) /\ clock + 1 \in 0..MaxTime
  BY <1>1 DEF RepairInv
<1>3. \A x \in level3 : x.mts <= clock + 1
  <2>1. \A x \in level3 : x.mts <= clock /\ x.mts \in Nat
    BY <1>2, LoadedParts, RowTimes DEF Loaded
  <2>. QED
    BY <1>1, <2>1
<1>4. Loaded(level3, eras, clock + 1)
  BY <1>2, <1>3 DEF Loaded
<1>. QED
  BY <1>1, <1>2, <1>4 DEF RepairInv, Idle
-----------------------------------------------------------------------------
(***************************************************************************)
(* The rows after a row: those of its chain that are later.                *)
(***************************************************************************)
WithinSteps(W, n, T, r) ==
    W = [k \in 0..n |-> IF k = 0 THEN {}
                        ELSE LET before == {r} \union W[k - 1]
                             IN  {x \in T : \E y \in before : PointsAt(y, x)}]

LEMMA WithinStepsExists ==
    ASSUME NEW T, NEW r, NEW n \in Nat
    PROVE  \E W : WithinSteps(W, n, T, r)
<1> DEFINE Bad == {m \in Nat : ~ \E W : WithinSteps(W, m, T, r)}
           step(W, k) == {x \in T : \E y \in {r} \union W[k - 1] : PointsAt(y, x)}
<1>1. SUFFICES ASSUME Bad # {} PROVE FALSE
  OBVIOUS
<1>2. PICK m \in Bad : \A k \in Bad : m <= k
  BY <1>1, NatMinimum
<1>3. m \in Nat /\ ~ \E W : WithinSteps(W, m, T, r)
  OBVIOUS
<1>4. CASE m = 0
  <2> DEFINE h == [k \in 0..0 |-> {}]
  <2>1. \A k \in 0..0 : h[k] = IF k = 0 THEN {} ELSE step(h, k)
    OBVIOUS
  <2>2. WithinSteps(h, 0, T, r)
    BY <2>1 DEF WithinSteps
  <2>. QED
    BY <1>3, <1>4, <2>2
<1>5. CASE m # 0
  <2>1. m - 1 \in Nat /\ m - 1 \notin Bad
    BY <1>2, <1>3, <1>5
  <2>2. PICK g : WithinSteps(g, m - 1, T, r)
    BY <2>1
  <2> DEFINE h == [k \in 0..m |-> IF k = m THEN step(g, m) ELSE g[k]]
  <2>3. \A k \in 0..m : h[k] = IF k = 0 THEN {} ELSE step(h, k)
    <3>1. TAKE k \in 0..m
    <3>2. CASE k = m
      <4>1. m - 1 \in 0..m /\ m - 1 # m
        BY <1>3, <1>5
      <4>2. h[k - 1] = g[m - 1]
        BY <3>2, <4>1
      <4>. QED
        BY <1>5, <3>2, <4>2
    <3>3. CASE k # m
      <4>1. k \in 0..(m - 1)
        BY <1>3, <3>3
      <4>2. g[k] = IF k = 0 THEN {} ELSE step(g, k)
        BY <2>2, <4>1 DEF WithinSteps
      <4>3. k # 0 => k - 1 \in 0..m /\ k - 1 # m
        BY <1>3, <4>1
      <4>4. k # 0 => h[k - 1] = g[k - 1]
        BY <4>3
      <4>5. h[k] = g[k]
        BY <3>3
      <4>. QED
        BY <4>2, <4>4, <4>5
    <3>. QED
      BY <3>2, <3>3
  <2>4. WithinSteps(h, m, T, r)
    BY <2>3 DEF WithinSteps
  <2>. QED
    BY <1>3, <2>4
<1>. QED
  BY <1>4, <1>5

ChainSteps(W, T, r) ==
    /\ W[0] = {}
    /\ \A n \in Times : \A x : x \in W[n] <=>
         x \in T /\ (PointsAt(r, x) \/ \E y \in W[n - 1] : PointsAt(y, x))
    /\ ChainAfter(T, r) = W[MaxTime]

LEMMA ChainInSteps ==
    ASSUME NEW T, NEW r
    PROVE  \E W : ChainSteps(W, T, r)
<1> DEFINE W == CHOOSE W : WithinSteps(W, MaxTime, T, r)
<1>1. MaxTime \in Nat
  BY TableAssumption
<1>2. WithinSteps(W, MaxTime, T, r)
  BY <1>1, WithinStepsExists
<1>3. ChainAfter(T, r) = W[MaxTime]
  BY Zenon DEF ChainAfter, WithinSteps
<1> HIDE DEF W
<1>4. \A k \in 0..MaxTime : W[k] = IF k = 0 THEN {}
        ELSE {x \in T : \E y \in {r} \union W[k - 1] : PointsAt(y, x)}
  BY <1>2 DEF WithinSteps
<1>5. W[0] = {}
  <2>1. 0 \in 0..MaxTime
    BY <1>1
  <2>. QED
    BY <1>4, <2>1
<1>6. ASSUME NEW n \in Times
      PROVE  \A x : x \in W[n] <=>
               x \in T /\ (PointsAt(r, x) \/ \E y \in W[n - 1] : PointsAt(y, x))
  <2>1. n \in 0..MaxTime /\ n # 0
    BY <1>1 DEF Times
  <2>2. W[n] = {x \in T : \E y \in {r} \union W[n - 1] : PointsAt(y, x)}
    BY <1>4, <2>1
  <2>. QED
    BY <2>2
<1>7. ChainSteps(W, T, r)
  BY <1>3, <1>5, <1>6 DEF ChainSteps
<1>. QED
  BY <1>7

\* What a row of the chain after r is to r.
After(ers, r, x) ==
    x.id = r.id /\ r.mts < x.mts /\ r.no < x.no /\ SameEra(ers, r.mts, x.mts)

LEMMA PointsAfter ==
    ASSUME NEW T, NEW ers, RowsSound(T), Followed(T, ers), NEW y \in T, NEW x \in T, PointsAt(y, x)
    PROVE  After(ers, y, x) /\ x.no = y.no + 1 /\ x.mts = y.next /\ y.nextNo = x.no
<1>1. y.nextNo = x.no /\ x.no # Null /\ y.next = x.mts /\ y.id = x.id
  BY PointsIs DEF RowsSound, Null
<1>2. y.nextNo = y.no + 1 /\ y.mts < y.next /\ SameEra(ers, y.mts, y.next)
  BY <1>1 DEF Followed
<1>3. y.no \in Nat
  BY RowTimes DEF RowsSound
<1>. QED
  BY <1>1, <1>2, <1>3 DEF After

LEMMA AfterTransitive ==
    ASSUME NEW ers, NEW a \in Rows, NEW b \in Rows, NEW c \in Rows, After(ers, a, b), After(ers, b, c)
    PROVE  After(ers, a, c)
<1>1. /\ a.mts \in Nat /\ b.mts \in Nat /\ c.mts \in Nat
      /\ a.no \in Nat /\ b.no \in Nat /\ c.no \in Nat
  BY RowTimes
<1>. QED
  BY <1>1, EraTransitive DEF After

\* The chain after r is closed, and begins at r.
IsChainAfter(T, ers, r, C) ==
    /\ C \subseteq T /\ r \notin C
    /\ \A x \in C : After(ers, r, x)
    /\ \A x \in T : \A y \in {r} \union C : PointsAt(y, x) => x \in C
    /\ \A x \in C : \E y \in {r} \union C : PointsAt(y, x)

LEMMA ChainIs ==
    ASSUME NEW T, NEW ers, RowsSound(T), Followed(T, ers), NEW r \in T
    PROVE  IsChainAfter(T, ers, r, ChainAfter(T, r))
<1>1. PICK W : ChainSteps(W, T, r)
  BY ChainInSteps
<1>2. /\ W[0] = {}
      /\ \A n \in Times : \A x : x \in W[n] <=>
           x \in T /\ (PointsAt(r, x) \/ \E y \in W[n - 1] : PointsAt(y, x))
      /\ ChainAfter(T, r) = W[MaxTime]
  BY <1>1 DEF ChainSteps
<1>3. MaxTime \in Nat /\ \A n \in Nat : n # 0 /\ n <= MaxTime => n \in Times
  BY TimesAre
<1>4. \A x \in T : x \in Rows /\ x.mts \in Nat /\ 1 <= x.mts /\ x.mts <= MaxTime
  BY RowTimes DEF RowsSound
<1>5. ASSUME NEW n \in Nat, n <= MaxTime
      PROVE  W[n] \subseteq T /\ \A x \in W[n] : After(ers, r, x)
  <2> DEFINE Bad == {k \in Nat : k <= MaxTime /\ ~(W[k] \subseteq T /\ \A x \in W[k] : After(ers, r, x))}
  <2>1. SUFFICES ASSUME Bad # {} PROVE FALSE
    BY <1>5
  <2>2. PICK m \in Bad : \A k \in Bad : m <= k
    BY <2>1, NatMinimum
  <2>3. m # 0
    BY <1>2
  <2>4. m \in Times /\ m - 1 \in Nat /\ m - 1 <= MaxTime /\ m - 1 < m
    BY <1>3, <2>3
  <2>5. W[m - 1] \subseteq T /\ \A x \in W[m - 1] : After(ers, r, x)
    BY <2>2, <2>4
  <2>6. ASSUME NEW x \in W[m]
        PROVE  x \in T /\ After(ers, r, x)
    <3>1. x \in T /\ (PointsAt(r, x) \/ \E y \in W[m - 1] : PointsAt(y, x))
      BY <1>2, <2>4
    <3>2. CASE PointsAt(r, x)
      BY <3>1, <3>2, PointsAfter
    <3>3. CASE \E y \in W[m - 1] : PointsAt(y, x)
      <4>1. PICK y \in W[m - 1] : PointsAt(y, x)
        BY <3>3
      <4>2. y \in T /\ After(ers, r, y)
        BY <2>5
      <4>3. After(ers, y, x)
        BY <3>1, <4>1, <4>2, PointsAfter
      <4>. QED
        BY <1>4, <3>1, <4>2, <4>3, AfterTransitive
    <3>. QED
      BY <3>1, <3>2, <3>3
  <2>. QED
    BY <2>6
<1>6. ASSUME NEW i \in Nat, NEW n \in Nat, i <= n, n <= MaxTime
      PROVE  W[i] \subseteq W[n]
  <2>1. \A m \in Nat : m + 1 <= MaxTime => W[m] \subseteq W[m + 1]
    <3> DEFINE Bad == {m \in Nat : m + 1 <= MaxTime /\ ~(W[m] \subseteq W[m + 1])}
    <3>1. SUFFICES ASSUME Bad # {} PROVE FALSE
      OBVIOUS
    <3>2. PICK m \in Bad : \A k \in Bad : m <= k
      BY <3>1, NatMinimum
    <3>3. m # 0
      BY <1>2
    <3>4. /\ m - 1 \in Nat /\ (m - 1) + 1 = m /\ m - 1 < m /\ m <= MaxTime
          /\ m \in Times /\ m + 1 \in Times /\ (m + 1) - 1 = m
      BY <1>3, <3>3
    <3>5. W[m - 1] \subseteq W[m]
      BY <3>2, <3>4
    <3>6. ASSUME NEW x \in W[m]
          PROVE  x \in W[m + 1]
      <4>1. x \in T /\ (PointsAt(r, x) \/ \E y \in W[m - 1] : PointsAt(y, x))
        BY <1>2, <3>4
      <4>2. PointsAt(r, x) \/ \E y \in W[(m + 1) - 1] : PointsAt(y, x)
        BY <3>4, <3>5, <4>1
      <4>. QED
        BY <1>2, <3>4, <4>1, <4>2
    <3>. QED
      BY <3>6
  <2> DEFINE Bad == {m \in Nat : i <= m /\ m <= MaxTime /\ ~(W[i] \subseteq W[m])}
  <2>2. SUFFICES ASSUME Bad # {} PROVE FALSE
    BY <1>6
  <2>3. PICK m \in Bad : \A k \in Bad : m <= k
    BY <2>2, NatMinimum
  <2>4. m # i
    OBVIOUS
  <2>5. m - 1 \in Nat /\ i <= m - 1 /\ m - 1 <= MaxTime /\ m - 1 < m /\ (m - 1) + 1 = m
    BY <1>3, <2>4
  <2>6. W[i] \subseteq W[m - 1]
    BY <2>3, <2>5
  <2>7. W[m - 1] \subseteq W[m]
    BY <2>1, <2>5
  <2>. QED
    BY <2>6, <2>7
<1>7. ASSUME NEW n \in Nat, n <= MaxTime, NEW x \in W[n]
      PROVE  x \in W[x.mts]
  <2> DEFINE Bad == {k \in Nat : k <= MaxTime /\ \E z \in W[k] : z \notin W[z.mts]}
  <2>1. SUFFICES ASSUME Bad # {} PROVE FALSE
    BY <1>7
  <2>2. PICK m \in Bad : \A k \in Bad : m <= k
    BY <2>1, NatMinimum
  <2>3. PICK z \in W[m] : z \notin W[z.mts]
    BY <2>2
  <2>4. m # 0
    BY <1>2, <2>3
  <2>5. m \in Times /\ m - 1 \in Nat /\ m - 1 <= MaxTime /\ m - 1 < m
    BY <1>3, <2>4
  <2>6. z \in T /\ (PointsAt(r, z) \/ \E y \in W[m - 1] : PointsAt(y, z))
    BY <1>2, <2>3, <2>5
  <2>7. z.mts \in Times /\ z.mts \in Nat /\ 1 <= z.mts /\ z.mts <= MaxTime
    BY <1>3, <1>4, <2>6
  <2>8. CASE PointsAt(r, z)
    BY <1>2, <2>3, <2>6, <2>7, <2>8
  <2>9. CASE \E y \in W[m - 1] : PointsAt(y, z)
    <3>1. PICK y \in W[m - 1] : PointsAt(y, z)
      BY <2>9
    <3>2. y \in T
      BY <1>5, <2>5, <3>1
    <3>3. y \in W[y.mts]
      BY <2>2, <2>5, <3>1
    <3>4. y.mts < z.mts /\ y.mts \in Nat
      BY <1>4, <2>6, <3>1, <3>2, PointsAfter DEF After
    <3>5. y.mts <= z.mts - 1 /\ z.mts - 1 \in Nat /\ z.mts - 1 <= MaxTime
      BY <1>3, <2>7, <3>4
    <3>6. y \in W[z.mts - 1]
      BY <1>6, <3>3, <3>4, <3>5
    <3>. QED
      BY <1>2, <2>3, <2>6, <2>7, <3>1, <3>6
  <2>. QED
    BY <2>6, <2>8, <2>9
<1> DEFINE C == ChainAfter(T, r)
<1>8. C \subseteq T /\ \A x \in C : After(ers, r, x)
  BY <1>2, <1>3, <1>5
<1>9. r \notin C
  BY <1>4, <1>8 DEF After
<1>10. ASSUME NEW x \in T, NEW y \in {r} \union C, PointsAt(y, x)
       PROVE  x \in C
  <2>1. y \in T /\ y.mts < x.mts /\ y.mts \in Nat /\ x.mts \in Nat /\ x.mts <= MaxTime
    BY <1>4, <1>8, <1>10, PointsAfter DEF After
  <2>2. MaxTime \in Times /\ MaxTime - 1 \in Nat /\ y.mts <= MaxTime - 1 /\ MaxTime - 1 <= MaxTime
    BY <1>3, <2>1
  <2>3. CASE y = r
    BY <1>2, <1>10, <2>2, <2>3
  <2>4. CASE y \in C
    <3>1. y \in W[y.mts]
      BY <1>2, <1>3, <1>7, <2>4
    <3>2. y \in W[MaxTime - 1]
      BY <1>6, <2>1, <2>2, <3>1
    <3>. QED
      BY <1>2, <1>10, <2>2, <3>2
  <2>. QED
    BY <2>3, <2>4
<1>11. ASSUME NEW x \in C
       PROVE  \E y \in {r} \union C : PointsAt(y, x)
  <2>1. MaxTime # 0
    BY <1>2, <1>11
  <2>2. MaxTime \in Times /\ MaxTime - 1 \in Nat /\ MaxTime - 1 <= MaxTime
    BY <1>3, <2>1
  <2>3. PointsAt(r, x) \/ \E y \in W[MaxTime - 1] : PointsAt(y, x)
    BY <1>2, <1>11, <2>2
  <2>4. W[MaxTime - 1] \subseteq C
    BY <1>2, <1>3, <1>6, <2>2
  <2>. QED
    BY <2>3, <2>4
<1>. QED
  BY <1>8, <1>9, <1>10, <1>11 DEF IsChainAfter
-----------------------------------------------------------------------------
(***************************************************************************)
(* The deletion of a row.                                                  *)
(***************************************************************************)
Kept(T, r) == T \ ({r} \union ChainAfter(T, r))
DeletedRow(r, x) == IF PointsAt(x, r) THEN Open(x) ELSE x
Deleted(T, r) == {DeletedRow(r, x) : x \in Kept(T, r)}

LEMMA DeletedRowIs ==
    ASSUME NEW r, NEW x \in Rows
    PROVE  LET c == DeletedRow(r, x)
           IN  /\ c \in Rows /\ c.mts = x.mts /\ c.id = x.id /\ c.no = x.no /\ c.price = x.price
               /\ c.amount = x.amount /\ c.pmts = x.pmts /\ c.pno = x.pno
               /\ IF PointsAt(x, r) THEN c.next = Infinity /\ c.nextNo = Null ELSE c = x
BY DEF DeletedRow, Open, Rows, Null

\* In T the rows that refer to a row that is kept are kept as they are.
LEMMA KeptIs ==
    ASSUME NEW T, NEW ers, NEW now, Loaded(T, ers, now), NEW r \in T, NEW x \in Kept(T, r)
    PROVE  /\ x \in T /\ x # r
           /\ \A y \in T : PointsAt(y, x) => y \in Kept(T, r) /\ ~PointsAt(y, r)
           /\ \A y \in Kept(T, r) : PointsAt(DeletedRow(r, y), DeletedRow(r, x))
                                      <=> PointsAt(y, x)
<1>1. /\ T \subseteq Rows /\ RowsSound(T) /\ Followed(T, ers) /\ PrimaryKey(T)
  BY LoadedParts
<1> DEFINE C == ChainAfter(T, r)
<1>2. IsChainAfter(T, ers, r, C)
  BY <1>1, ChainIs
<1> HIDE DEF C
<1>3. Kept(T, r) = T \ ({r} \union C)
  BY DEF Kept, C
<1>4. ASSUME NEW y \in T, PointsAt(y, x)
      PROVE  y \in Kept(T, r) /\ ~PointsAt(y, r)
  <2>1. y \notin {r} \union C
    BY <1>2, <1>3, <1>4 DEF IsChainAfter
  <2>2. ~PointsAt(y, r)
    BY <1>1, <1>3, <1>4, PointsOnce
  <2>. QED
    BY <1>3, <2>1, <2>2
<1>5. ASSUME NEW y \in Kept(T, r)
      PROVE  PointsAt(DeletedRow(r, y), DeletedRow(r, x)) <=> PointsAt(y, x)
  <2>1. y \in T /\ x \in T /\ y \in Rows /\ x \in Rows /\ x.no # Null
    BY <1>1, <1>3 DEF RowsSound, Null
  <2>2. PointsAt(DeletedRow(r, y), DeletedRow(r, x)) <=> PointsAt(DeletedRow(r, y), x)
    BY <2>1, DeletedRowIs, PointsIs
  <2>3. CASE PointsAt(y, r)
    <3>1. ~PointsAt(DeletedRow(r, y), x)
      BY <2>1, <2>3, DeletedRowIs, PointsIs
    <3>. QED
      BY <1>4, <2>1, <2>2, <2>3, <3>1
  <2>4. CASE ~PointsAt(y, r)
    BY <2>2, <2>4 DEF DeletedRow
  <2>. QED
    BY <2>3, <2>4
<1>. QED
  BY <1>3, <1>4, <1>5

LEMMA DeletedLinked ==
    ASSUME NEW T, NEW ers, NEW now, Loaded(T, ers, now), NEW r \in T
    PROVE  Linked(Deleted(T, r), ers) /\ PricesKept(Deleted(T, r)) /\ Deleted(T, r) \subseteq Rows
<1> DEFINE N == Deleted(T, r)
           K == Kept(T, r)
           c(x) == DeletedRow(r, x)
<1>1. /\ T \subseteq Rows /\ RowsSound(T) /\ Followed(T, ers) /\ ErasTyped(ers)
      /\ Preceded(T) /\ PricesKept(T)
  BY LoadedParts
<1>2. K \subseteq T /\ N = {c(x) : x \in K}
  BY DEF Kept, Deleted
<1>3. \A x \in K : /\ c(x) \in Rows /\ c(x).mts = x.mts /\ c(x).id = x.id /\ c(x).no = x.no
                   /\ c(x).price = x.price /\ c(x).pmts = x.pmts /\ c(x).pno = x.pno
                   /\ ~PointsAt(x, r) => c(x) = x
  BY <1>1, <1>2, DeletedRowIs
<1>4. /\ \A x, y \in K : PointsAt(c(y), c(x)) <=> PointsAt(y, x)
      /\ \A x \in K : \A y \in T : PointsAt(y, x) => y \in K /\ c(y) = y
  BY <1>2, <1>3, KeptIs
<1>5. ASSUME NEW x \in K
      PROVE  LET before == {z \in N : PointsAt(z, c(x))}
             IN  IF c(x).no = 1 THEN before = {}
                 ELSE \E z \in before : z.no = c(x).no - 1 /\ InEraOf(ers, c(x).mts, z.mts)
  <2>1. CASE x.no = 1
    <3>1. ASSUME NEW y \in K PROVE ~PointsAt(c(y), c(x))
      <4>1. SUFFICES ASSUME PointsAt(y, x) PROVE FALSE
        BY <1>4
      <4>2. x.no = y.no + 1 /\ y.no # 0 /\ y.no \in Nat
        BY <1>1, <1>2, <4>1, PointsAfter, RowTimes DEF RowsSound
      <4>. QED
        BY <2>1, <4>2
    <3>. QED
      BY <1>2, <1>3, <2>1, <3>1
  <2>2. CASE x.no # 1
    <3>1. PICK y \in T : PointsAt(y, x)
      BY <1>1, <1>2, <2>2 DEF Preceded
    <3>2. y \in K /\ c(y) = y /\ y \in N /\ PointsAt(y, c(x))
      BY <1>2, <1>4, <3>1
    <3>3. x.no = y.no + 1 /\ y.no \in Nat /\ SameEra(ers, y.mts, x.mts) /\ y.mts < x.mts
      BY <1>1, <1>2, <3>1, PointsAfter, RowTimes DEF After
    <3>4. InEraOf(ers, x.mts, y.mts)
      <4>1. x.mts \in Times /\ x.mts \in Nat /\ y.mts \in Int
        BY <1>1, <1>2, <3>1, RowFields, RowTimes
      <4>. QED
        BY <1>1, <3>3, <4>1, InEraIs
    <3>. QED
      BY <1>3, <2>2, <3>2, <3>3, <3>4
  <2>. QED
    BY <2>1, <2>2
<1>6. ASSUME NEW x \in K
      PROVE  /\ \A z \in PriceFrom(N, c(x)) : c(x).pmts = z.pmts /\ c(x).pno = z.pno
             /\ PriceFrom(N, c(x)) = {} => c(x).pmts = c(x).mts /\ c(x).pno = c(x).no
  <2>1. PriceFrom(N, c(x)) = PriceFrom(T, x)
    <3>1. ASSUME NEW z \in PriceFrom(N, c(x)) PROVE z \in PriceFrom(T, x)
      <4>1. PICK y \in K : z = c(y)
        BY <1>2 DEF PriceFrom
      <4>2. PointsAt(y, x) /\ y.price = x.price
        BY <1>3, <1>4, <4>1 DEF PriceFrom
      <4>3. c(y) = y
        BY <1>2, <1>4, <4>2
      <4>. QED
        BY <1>2, <4>1, <4>2, <4>3 DEF PriceFrom
    <3>2. ASSUME NEW y \in PriceFrom(T, x) PROVE y \in PriceFrom(N, c(x))
      <4>1. y \in T /\ PointsAt(y, x) /\ y.price = x.price
        BY DEF PriceFrom
      <4>2. y \in K /\ c(y) = y
        BY <1>4, <4>1
      <4>. QED
        BY <1>2, <1>3, <1>4, <4>1, <4>2 DEF PriceFrom
    <3>. QED
      BY <3>1, <3>2
  <2>2. /\ \A z \in PriceFrom(T, x) : x.pmts = z.pmts /\ x.pno = z.pno
        /\ PriceFrom(T, x) = {} => x.pmts = x.mts /\ x.pno = x.no
    BY <1>1, <1>2, PricesAre
  <2>. QED
    BY <1>3, <2>1, <2>2
<1> HIDE DEF c, K, N
<1>7. Linked(N, ers)
  BY <1>2, <1>5 DEF Linked
<1>8. PricesKept(N)
  <2>1. ASSUME NEW z \in N
        PROVE  /\ \A y \in PriceFrom(N, z) : z.pmts = y.pmts /\ z.pno = y.pno
               /\ PriceFrom(N, z) = {} => z.pmts = z.mts /\ z.pno = z.no
    BY <1>2, <1>6
  <2>. QED
    BY <2>1, PricesAre
<1>9. N \subseteq Rows
  BY <1>2, <1>3
<1>. QED
  BY <1>7, <1>8, <1>9 DEF N

Others(book, o) == {x \in book : x[1] # o}
DeleteKeepsAt(T, new, ers, r) ==
    \A t \in Times :
        /\ Others(Shown(LiveAt(new, ers, t)), r.id) = Others(Shown(LiveAt(T, ers, t)), r.id)
        /\ t < r.mts => Shown(LiveAt(new, ers, t)) = Shown(LiveAt(T, ers, t))

LEMMA DeletedBooks ==
    ASSUME NEW T, NEW ers, NEW now, Loaded(T, ers, now), NEW r \in T
    PROVE  DeleteKeepsAt(T, Deleted(T, r), ers, r)
<1> DEFINE N == Deleted(T, r)
           C == ChainAfter(T, r)
           c(x) == DeletedRow(r, x)
<1>1. /\ T \subseteq Rows /\ RowsSound(T) /\ Followed(T, ers) /\ ErasTyped(ers)
  BY LoadedParts
<1>2. IsChainAfter(T, ers, r, C)
  BY <1>1, ChainIs
<1>3. N = {c(x) : x \in T \ ({r} \union C)}
  BY DEF Kept, Deleted
<1>4. \A x \in T : /\ c(x) \in Rows /\ c(x).mts = x.mts /\ c(x).id = x.id
                   /\ c(x).price = x.price /\ c(x).amount = x.amount
                   /\ IF PointsAt(x, r) THEN c(x).next = Infinity ELSE c(x) = x
  BY <1>1, DeletedRowIs
<1>5. \A x \in {r} \union C : x.id = r.id /\ r.mts <= x.mts
  BY <1>1, <1>2, RowTimes DEF IsChainAfter, After
<1>6. \A x \in T : PointsAt(x, r) => x.id = r.id /\ x.next = r.mts
  BY PointsIs
<1>7. N \subseteq Rows
  BY <1>3, <1>4
<1> HIDE DEF N, C, c
<1>8. ASSUME NEW t \in Times
      PROVE  /\ Others(Shown(LiveAt(N, ers, t)), r.id) = Others(Shown(LiveAt(T, ers, t)), r.id)
             /\ t < r.mts => Shown(LiveAt(N, ers, t)) = Shown(LiveAt(T, ers, t))
  <2>1. \A z \in N : z \in LiveAt(N, ers, t) <=> SameEra(ers, z.mts, t) /\ z.mts <= t /\ z.next > t
    BY <1>1, <1>7, LiveIs
  <2>2. \A z \in T : z \in LiveAt(T, ers, t) <=> SameEra(ers, z.mts, t) /\ z.mts <= t /\ z.next > t
    BY <1>1, LiveIs
  <2>3. LiveAt(N, ers, t) \subseteq N /\ LiveAt(T, ers, t) \subseteq T
    BY DEF LiveAt
  <2>4. \A z \in LiveAt(N, ers, t) : z.id # r.id => z \in LiveAt(T, ers, t)
    <3>1. TAKE z \in LiveAt(N, ers, t)
    <3>2. PICK x \in T : z = c(x)
      BY <1>3, <2>3
    <3>3. z.id # r.id => z = x
      BY <1>4, <1>6, <3>2
    <3>. QED
      BY <2>1, <2>2, <2>3, <3>2, <3>3
  <2>5. \A x \in LiveAt(T, ers, t) : x.id # r.id => x \in LiveAt(N, ers, t)
    <3>1. TAKE x \in LiveAt(T, ers, t)
    <3>2. x.id # r.id => x \in N
      BY <1>3, <1>4, <1>5, <1>6, <2>3
    <3>. QED
      BY <2>1, <2>2, <2>3, <3>2
  <2>6. Others(Shown(LiveAt(N, ers, t)), r.id) = Others(Shown(LiveAt(T, ers, t)), r.id)
    <3> DEFINE L == LiveAt(N, ers, t)
               M == LiveAt(T, ers, t)
    <3> HIDE DEF L, M
    <3>1. (\A z \in L : z.id # r.id => z \in M) /\ \A x \in M : x.id # r.id => x \in L
      BY <2>4, <2>5 DEF L, M
    <3>2. Others(Shown(L), r.id) = Others(Shown(M), r.id)
      BY <3>1 DEF Others, Shown
    <3>. QED
      BY <3>2 DEF L, M
  <2>7. ASSUME t < r.mts PROVE Shown(LiveAt(N, ers, t)) = Shown(LiveAt(T, ers, t))
    <3>1. ASSUME NEW x \in T \ ({r} \union C)
          PROVE  c(x) \in LiveAt(N, ers, t) <=> x \in LiveAt(T, ers, t)
      <4>1. PointsAt(x, r) => c(x).next > t /\ x.next > t
        BY <1>4, <1>6, <2>7, TimesAre
      <4>2. c(x).next > t <=> x.next > t
        BY <1>4, <4>1
      <4>3. c(x) \in N /\ x \in T
        BY <1>3
      <4>4. c(x).mts = x.mts
        BY <1>4
      <4>. QED
        BY <2>1, <2>2, <4>2, <4>3, <4>4
    <3>2. \A x \in {r} \union C : x \notin LiveAt(T, ers, t)
      <4>1. TAKE x \in {r} \union C
      <4>2. x \in T /\ r.mts <= x.mts /\ x.mts \in Nat /\ r.mts \in Nat
        BY <1>1, <1>2, <1>5, RowTimes DEF IsChainAfter
      <4>. QED
        BY <2>2, <2>7, <4>2, TimesAre
    <3>3. \A z \in LiveAt(N, ers, t) : \E x \in LiveAt(T, ers, t) :
            x.id = z.id /\ x.price = z.price /\ x.amount = z.amount
      BY <1>3, <1>4, <2>3, <3>1
    <3>4. \A x \in LiveAt(T, ers, t) : \E z \in LiveAt(N, ers, t) :
            x.id = z.id /\ x.price = z.price /\ x.amount = z.amount
      BY <1>3, <1>4, <2>3, <3>1, <3>2
    <3>. QED
      BY <3>3, <3>4 DEF Shown
  <2>. QED
    BY <2>6, <2>7
<1>. QED
  BY <1>8 DEF DeleteKeepsAt, N

LEMMA DeleteKeeps ==
    ASSUME RepairInv, NEW r \in level3, Delete(r)
    PROVE  /\ RepairInv'
           /\ DeleteKeepsAt(level3, level3', eras, r)
           /\ call' = Call("delete", r.mts, r.id) /\ eras' = eras /\ fix' = fix
<1> DEFINE removed == {r} \union ChainAfter(level3, r)
           before(x) == /\ r.no > 1
                        /\ InEraOf(eras, r.mts, x.mts) /\ x.mts <= r.mts
                        /\ PointsAt(x, r)
           new == {IF before(x) THEN Open(x) ELSE x : x \in level3 \ removed}
<1>1. /\ Idle /\ call = NoCall /\ Loaded(level3, eras, clock) /\ clock \in 0..MaxTime
  BY DEF RepairInv, Delete, CanRepair
<1>2. /\ level3' = new /\ eras' = eras /\ call' = Call("delete", r.mts, r.id)
      /\ clock' = clock /\ fix' = fix
  BY DEF Delete, Commit, Database
<1>3. /\ level3 \subseteq Rows /\ RowsSound(level3) /\ Followed(level3, eras)
      /\ ErasTyped(eras) /\ ErasFollow(level3, eras)
  BY <1>1, LoadedParts
<1>4. \A x \in level3 : before(x) <=> PointsAt(x, r)
  <2>1. TAKE x \in level3
  <2>2. SUFFICES ASSUME PointsAt(x, r) PROVE before(x)
    OBVIOUS
  <2>3. r.no = x.no + 1 /\ x.mts < r.mts /\ SameEra(eras, x.mts, r.mts)
    BY <1>3, <2>2, PointsAfter DEF After
  <2>4. x.no \in Nat /\ x.no # 0 /\ x.mts \in Int /\ x.mts \in Nat /\ r.mts \in Times /\ r.mts \in Nat
    BY <1>3, RowTimes, RowFields DEF RowsSound
  <2>5. InEraOf(eras, r.mts, x.mts)
    BY <1>3, <2>3, <2>4, InEraIs
  <2>. QED
    BY <2>2, <2>3, <2>4, <2>5
<1>5. new = Deleted(level3, r)
  <2>1. \A x \in level3 \ removed : (IF before(x) THEN Open(x) ELSE x) = DeletedRow(r, x)
    BY <1>4 DEF DeletedRow
  <2>2. Kept(level3, r) = level3 \ removed
    BY DEF Kept
  <2> DEFINE f(x) == IF before(x) THEN Open(x) ELSE x
             g(x) == DeletedRow(r, x)
  <2>3. \A x \in level3 \ removed : f(x) = g(x)
    BY <2>1
  <2> HIDE DEF f, g, removed
  <2>4. {f(x) : x \in level3 \ removed} = {g(x) : x \in level3 \ removed}
    BY <2>3
  <2>. QED
    BY <2>2, <2>4 DEF f, g, Deleted
<1> HIDE DEF new
<1>6. /\ Linked(level3', eras) /\ PricesKept(level3') /\ level3' \subseteq Rows
      /\ DeleteKeepsAt(level3, level3', eras, r)
  BY <1>1, <1>2, <1>5, DeletedLinked, DeletedBooks
<1>7. DOMAIN eras \subseteq Times /\ \A e \in DOMAIN eras : eras[e] \in Times \union {Null}
  BY <1>3, ErasAreTimes DEF ErasTyped
<1>8. Repaired(level3, eras, "delete")'
  BY <1>2, <1>6, <1>7 DEF Repaired
<1>9. call'.name = "delete" /\ call' # NoCall
  BY <1>2 DEF Call, NoCall
<1>. QED
  BY <1>1, <1>2, <1>6, <1>8, <1>9 DEF RepairInv, Idle
-----------------------------------------------------------------------------
(***************************************************************************)
(* The deletion of an era.                                                 *)
(***************************************************************************)
GoneWith(ers, e, r) == e <= r.mts /\ \A x \in DOMAIN ers : x > e => r.mts < x
EraLeft(T, ers, e) == {r \in T : ~GoneWith(ers, e, r)}
Without(ers, e, new) == DOMAIN new = DOMAIN ers \ {e}

LEMMA GoneTogether ==
    ASSUME NEW ers, ErasTyped(ers), NEW e \in DOMAIN ers, NEW a \in Rows, NEW b \in Rows,
           SameEra(ers, a.mts, b.mts)
    PROVE  GoneWith(ers, e, a) <=> GoneWith(ers, e, b)
<1>1. a.mts \in Nat /\ b.mts \in Nat /\ \A x \in DOMAIN ers : x \in Nat
  BY RowTimes, EraNumbers
<1>2. \A x \in DOMAIN ers : x <= a.mts <=> x <= b.mts
  BY DEF SameEra, ErasUpTo
<1>3. \A x \in DOMAIN ers : a.mts < x <=> b.mts < x
  BY <1>1, <1>2
<1>. QED
  BY <1>2, <1>3 DEF GoneWith

LEMMA EraLeftLinked ==
    ASSUME NEW T, NEW ers, NEW now, Loaded(T, ers, now), NEW e \in DOMAIN ers,
           NEW new, Without(ers, e, new)
    PROVE  Linked(EraLeft(T, ers, e), new) /\ PricesKept(EraLeft(T, ers, e))
<1> DEFINE N == EraLeft(T, ers, e)
<1>1. /\ T \subseteq Rows /\ RowsSound(T) /\ Followed(T, ers) /\ ErasTyped(ers)
      /\ Preceded(T) /\ PricesKept(T)
  BY LoadedParts
<1>2. N \subseteq T /\ \A r \in T : r \in N <=> ~GoneWith(ers, e, r)
  BY DEF EraLeft
<1>3. \A x \in N : \A y \in T : PointsAt(y, x) => y \in N
  <2>1. TAKE x \in N
  <2>2. TAKE y \in T
  <2>3. SUFFICES ASSUME PointsAt(y, x) PROVE y \in N
    OBVIOUS
  <2>4. SameEra(ers, y.mts, x.mts)
    BY <1>1, <1>2, <2>3, PointsAfter DEF After
  <2>. QED
    BY <1>1, <1>2, <2>4, GoneTogether
<1> HIDE DEF N
<1>4. ASSUME NEW x \in N
      PROVE  LET before == {z \in N : PointsAt(z, x)}
             IN  IF x.no = 1 THEN before = {}
                 ELSE \E z \in before : z.no = x.no - 1 /\ InEraOf(new, x.mts, z.mts)
  <2>1. CASE x.no = 1
    <3>1. ASSUME NEW y \in N PROVE ~PointsAt(y, x)
      <4>1. SUFFICES ASSUME PointsAt(y, x) PROVE FALSE
        OBVIOUS
      <4>2. x.no = y.no + 1 /\ y.no # 0 /\ y.no \in Nat
        BY <1>1, <1>2, <4>1, PointsAfter, RowTimes DEF RowsSound
      <4>. QED
        BY <2>1, <4>2
    <3>. QED
      BY <2>1, <3>1
  <2>2. CASE x.no # 1
    <3>1. PICK y \in T : PointsAt(y, x)
      BY <1>1, <1>2, <2>2 DEF Preceded
    <3>2. x.no = y.no + 1 /\ y.no \in Nat /\ SameEra(ers, y.mts, x.mts) /\ y.mts < x.mts
      BY <1>1, <1>2, <3>1, PointsAfter, RowTimes DEF After
    <3>3. \A z \in DOMAIN ers : z <= x.mts <=> z <= y.mts
      BY <3>2 DEF SameEra, ErasUpTo
    <3>4. ErasUpTo(new, x.mts) # {}
      <4>1. ~GoneWith(ers, e, x) /\ x.mts \in Nat /\ \A z \in DOMAIN ers : z \in Nat
        BY <1>1, <1>2, RowTimes, EraNumbers
      <4>2. CASE e <= x.mts
        <5>1. PICK z \in DOMAIN ers : z > e /\ ~(x.mts < z)
          BY <4>1, <4>2 DEF GoneWith
        <5>2. z \in ErasUpTo(new, x.mts)
          BY <4>1, <5>1 DEF ErasUpTo, Without
        <5>. QED
          BY <5>2
      <4>3. CASE ~(e <= x.mts)
        <5>1. 1 \in DOMAIN ers /\ 1 <= x.mts
          BY <1>1, <1>2, RowTimes DEF ErasTyped
        <5>2. 1 \in ErasUpTo(new, x.mts)
          BY <4>3, <5>1 DEF ErasUpTo, Without
        <5>. QED
          BY <5>2
      <4>. QED
        BY <4>2, <4>3
    <3>5. InEraOf(new, x.mts, y.mts)
      BY <3>3, <3>4 DEF InEraOf, ErasUpTo, Without
    <3>6. y \in N /\ y.no = x.no - 1
      BY <1>3, <3>1, <3>2
    <3>. QED
      BY <2>2, <3>1, <3>5, <3>6
  <2>. QED
    BY <2>1, <2>2
<1>5. ASSUME NEW x \in N
      PROVE  /\ \A z \in PriceFrom(N, x) : x.pmts = z.pmts /\ x.pno = z.pno
             /\ PriceFrom(N, x) = {} => x.pmts = x.mts /\ x.pno = x.no
  <2>1. PriceFrom(N, x) = PriceFrom(T, x)
    BY <1>2, <1>3 DEF PriceFrom
  <2>. QED
    BY <1>1, <1>2, <2>1, PricesAre
<1>6. Linked(N, new)
  BY <1>4 DEF Linked
<1>7. PricesKept(N)
  BY <1>5, PricesAre
<1>. QED
  BY <1>6, <1>7 DEF N

LEMMA EraLeftOnce ==
    ASSUME NEW T, NEW ers, NEW now, Loaded(T, ers, now), NEW e \in DOMAIN ers,
           NEW new, Without(ers, e, new)
    PROVE  LiveOnce(EraLeft(T, ers, e), new)
<1> DEFINE N == EraLeft(T, ers, e)
<1>1. T \subseteq Rows /\ ErasTyped(ers) /\ OnePerInstant(T) /\ LivesApart(T, ers)
  BY LoadedParts
<1>2. SUFFICES ASSUME NEW t \in Times, NEW a \in LiveAt(N, new, t), NEW b \in LiveAt(N, new, t),
                      a.id = b.id, a.mts < b.mts
               PROVE  FALSE
  <2>1. \A t \in Times : \A a, b \in LiveAt(N, new, t) : a.id = b.id => a = b
    <3>1. TAKE t \in Times
    <3>2. TAKE a \in LiveAt(N, new, t), b \in LiveAt(N, new, t)
    <3>3. SUFFICES ASSUME a.id = b.id PROVE a = b
      OBVIOUS
    <3>4. a \in T /\ b \in T /\ a.mts \in Nat /\ b.mts \in Nat
      BY <1>1, RowTimes DEF LiveAt, EraLeft
    <3>5. ~(a.mts < b.mts) /\ ~(b.mts < a.mts)
      BY <1>2, <3>3
    <3>. QED
      BY <1>1, <3>4, <3>5 DEF OnePerInstant
  <2>. QED
    BY <2>1 DEF LiveOnce
<1>3. /\ a \in T /\ b \in T /\ ~GoneWith(ers, e, a) /\ ~GoneWith(ers, e, b)
      /\ InEraOf(new, t, a.mts) /\ a.mts <= t /\ a.next > t
      /\ InEraOf(new, t, b.mts) /\ b.mts <= t
  BY DEF LiveAt, EraLeft
<1>4. /\ a.mts \in Nat /\ b.mts \in Nat /\ t \in Nat /\ a.next \in Int
      /\ \A x \in DOMAIN ers : x \in Nat
  BY <1>1, <1>3, RowTimes, EraNumbers, TimesAre
<1>5. \A x \in DOMAIN ers : x # e /\ x <= t => x <= a.mts /\ x <= b.mts
  BY <1>3 DEF InEraOf, ErasUpTo, Without
<1>6. e <= b.mts => e <= a.mts
  <2>1. SUFFICES ASSUME e <= b.mts, a.mts < e PROVE FALSE
    BY <1>4
  <2>2. PICK x \in DOMAIN ers : x > e /\ ~(b.mts < x)
    BY <1>3, <2>1 DEF GoneWith
  <2>3. x <= a.mts
    BY <1>3, <1>4, <1>5, <2>2
  <2>. QED
    BY <1>4, <2>1, <2>2, <2>3
<1>7. \A x \in DOMAIN ers : x <= a.mts <=> x <= b.mts
  BY <1>2, <1>3, <1>4, <1>5, <1>6
<1>8. SameEra(ers, a.mts, b.mts)
  BY <1>7 DEF SameEra, ErasUpTo
<1>9. a.next <= b.mts
  BY <1>1, <1>2, <1>3, <1>8 DEF LivesApart
<1>. QED
  BY <1>3, <1>4, <1>9

LEMMA DeleteEraKeeps ==
    ASSUME RepairInv, NEW era \in DOMAIN eras, DeleteEra(era)
    PROVE  RepairInv' /\ call' = Call("delete era", era, era) /\ fix' = fix
<1> DEFINE next == {e \in DOMAIN eras : e > era}
           gone(r) == era <= r.mts /\ \A e \in next : r.mts < e
<1>1. /\ Idle /\ call = NoCall /\ Loaded(level3, eras, clock) /\ clock \in 0..MaxTime
  BY DEF RepairInv, DeleteEra, CanRepair
<1>2. /\ level3' = {r \in level3 : ~gone(r)} /\ eras' = Restrict(eras, DOMAIN eras \ {era})
      /\ call' = Call("delete era", era, era) /\ clock' = clock /\ fix' = fix
  BY DEF DeleteEra, Commit, Database
<1>3. level3' = EraLeft(level3, eras, era)
  BY <1>2 DEF EraLeft, GoneWith
<1>4. Without(eras, era, eras') /\ \A e \in DOMAIN eras' : eras'[e] = eras[e]
  BY <1>2 DEF Restrict, Without
<1>5. /\ Linked(level3', eras') /\ PricesKept(level3') /\ LiveOnce(level3', eras')
  BY <1>1, <1>3, <1>4, EraLeftLinked, EraLeftOnce
<1>6. level3' \subseteq Rows
  BY <1>1, <1>2, LoadedParts
<1>7. DOMAIN eras' \subseteq Times /\ \A e \in DOMAIN eras' : eras'[e] \in Times \union {Null}
  <2>1. DOMAIN eras \subseteq Times /\ \A e \in DOMAIN eras : eras[e] \in Times \union {Null}
    BY <1>1, LoadedParts, ErasAreTimes DEF ErasTyped
  <2>. QED
    BY <1>4, <2>1 DEF Without
<1>8. Repaired(level3, eras, "delete era")'
  BY <1>5, <1>6, <1>7 DEF Repaired
<1>9. call'.name = "delete era" /\ call' # NoCall
  BY <1>2 DEF Call, NoCall
<1>. QED
  BY <1>1, <1>2, <1>8, <1>9 DEF RepairInv, Idle
-----------------------------------------------------------------------------
(***************************************************************************)
(* The split of an era.                                                    *)
(***************************************************************************)
InOld(ers, start, r) == Max(ErasUpTo(ers, start)) <= r.mts /\ r.mts < start
InNew(ers, start, r) == start <= r.mts /\ r.mts < Min({e \in DOMAIN ers : e >= start})
CrossesStart(ers, start, r) == InOld(ers, start, r) /\ GoesOn(r, start)
Heads(T, ers, start, x) ==
    {r \in T : CrossesStart(ers, start, r) /\ x \in ChainAfter(T, r)}
FirstOver(T, ers, start, x) == \E r \in T : CrossesStart(ers, start, r) /\ PointsAt(r, x)
Pred(T, x) == CHOOSE r \in T : PointsAt(r, x)
NumberOver(T, ers, start, x) == x.no - (CHOOSE r \in Heads(T, ers, start, x) : TRUE).no + 1
Renumber(T, ers, start, x) ==
    IF ~InNew(ers, start, x) \/ Heads(T, ers, start, x) = {} THEN x
    ELSE [x EXCEPT
            !.no   = NumberOver(T, ers, start, x),
            !.pmts = IF FirstOver(T, ers, start, x) \/ Pred(T, x).pmts < start THEN start
                     ELSE Pred(T, x).pmts,
            !.pno  = IF FirstOver(T, ers, start, x) THEN 1
                     ELSE IF Pred(T, x).pmts < start THEN Pred(T, x).pno ELSE Pred(T, x).no]
SplitNew(T, ers, start) == [x \in T |-> Renumber(T, ers, start, x)]
NumberNow(T, ers, start, x) == Renumber(T, ers, start, x).no

Splits(T, ers, now, start) ==
    /\ Loaded(T, ers, now)
    /\ start \in Times /\ start \notin DOMAIN ers
    /\ {e \in DOMAIN ers : e >= start} # {}

\* The era that is split, on both sides of the new one's start.
LEMMA EraSides ==
    ASSUME NEW T, NEW ers, NEW now, NEW start, Splits(T, ers, now, start), NEW r, r.mts \in Nat
    PROVE  /\ InOld(ers, start, r) <=> SameEra(ers, r.mts, start) /\ r.mts < start
           /\ InNew(ers, start, r) <=> SameEra(ers, r.mts, start) /\ start <= r.mts
<1>1. /\ ErasTyped(ers) /\ start \in Times /\ start \in Nat /\ start \notin DOMAIN ers
      /\ \A e \in DOMAIN ers : e \in Nat
  BY LoadedParts, EraNumbers, TimesAre DEF Splits
<1> DEFINE old == Max(ErasUpTo(ers, start))
           after == {e \in DOMAIN ers : e >= start}
<1>2. old \in ErasUpTo(ers, start) /\ (\A x \in ErasUpTo(ers, start) : x <= old)
  BY <1>1, LatestEra
<1>3. old \in DOMAIN ers /\ old <= start /\ \A e \in DOMAIN ers : e <= start => e <= old
  BY <1>2 DEF ErasUpTo
<1>4. Min(after) \in after /\ \A e \in after : Min(after) <= e
  <2>1. after \in SUBSET Nat /\ after # {}
    BY <1>1 DEF Splits
  <2>. QED
    BY <2>1, MinIsLeast
<1>5. Min(after) \in DOMAIN ers /\ Min(after) > start
      /\ \A e \in DOMAIN ers : e > start => Min(after) <= e
  BY <1>1, <1>4
<1> HIDE DEF old, after
<1>6. SameEra(ers, r.mts, start) <=> \A e \in DOMAIN ers : e <= r.mts <=> e <= start
  BY DEF SameEra, ErasUpTo
<1>7. SameEra(ers, r.mts, start) /\ r.mts < start <=> old <= r.mts /\ r.mts < start
  BY <1>1, <1>3, <1>6
<1>8. SameEra(ers, r.mts, start) /\ start <= r.mts <=> start <= r.mts /\ r.mts < Min(after)
  BY <1>1, <1>5, <1>6
<1>. QED
  BY <1>7, <1>8 DEF InOld, InNew, old, after

LEMMA CrossesIs ==
    ASSUME NEW T, NEW ers, NEW now, NEW start, Splits(T, ers, now, start), NEW r \in T
    PROVE  /\ CrossesStart(ers, start, r) <=> /\ SameEra(ers, r.mts, start) /\ r.mts < start
                                              /\ r.nextNo # Null /\ start <= r.next
           /\ CrossesStart(ers, start, r) <=> /\ SameEra(ers, r.mts, start) /\ r.mts < start
                                              /\ r.next # Infinity /\ start <= r.next
<1>1. T \subseteq Rows /\ RowsSound(T) /\ Followed(T, ers) /\ start \in Times /\ start \in Nat
  BY LoadedParts, TimesAre DEF Splits
<1>2. r.mts \in Nat /\ r.next \in Int /\ (r.next \in Times <=> r.next # Infinity /\ r.next # MinusInfinity)
  BY <1>1, RowTimes
<1>3. r.nextNo = Null <=> ~IsFinite(r.next)
  BY <1>1, LoadedLast
<1>4. ~(start <= MinusInfinity)
  BY <1>1, TimesAre
<1>5. InOld(ers, start, r) <=> SameEra(ers, r.mts, start) /\ r.mts < start
  BY <1>2, EraSides
<1>. QED
  BY <1>2, <1>3, <1>4, <1>5 DEF CrossesStart, GoesOn, IsFinite

\* Of an order one row at most goes on over the start.
LEMMA CrossesOnce ==
    ASSUME NEW T, NEW ers, NEW now, NEW start, Splits(T, ers, now, start),
           NEW a \in T, NEW b \in T, a.id = b.id,
           CrossesStart(ers, start, a), SameEra(ers, b.mts, start), b.mts < start, b.next >= start
    PROVE  a = b
<1>1. /\ T \subseteq Rows /\ OnePerInstant(T) /\ LivesApart(T, ers) /\ start \in Nat
  BY LoadedParts, TimesAre DEF Splits
<1>2. /\ a.mts \in Nat /\ b.mts \in Nat /\ a.next \in Int /\ b.next \in Int
  BY <1>1, RowTimes
<1>3. SameEra(ers, a.mts, b.mts) /\ SameEra(ers, b.mts, a.mts) /\ a.mts < start /\ start <= a.next
  BY CrossesIs, EraTransitive
<1>4. ~(a.mts < b.mts)
  BY <1>1, <1>2, <1>3 DEF LivesApart
<1>5. ~(b.mts < a.mts)
  BY <1>1, <1>2, <1>3 DEF LivesApart
<1>. QED
  BY <1>1, <1>2, <1>4, <1>5 DEF OnePerInstant

\* The rows of the chain after a row that goes on over the start.
LEMMA ChainOver ==
    ASSUME NEW T, NEW ers, NEW now, NEW start, Splits(T, ers, now, start),
           NEW h \in T, CrossesStart(ers, start, h), NEW x \in T, x \in ChainAfter(T, h)
    PROVE  /\ InNew(ers, start, x) /\ h.id = x.id /\ h.no < x.no
           /\ Heads(T, ers, start, x) = {h}
<1>1. /\ T \subseteq Rows /\ RowsSound(T) /\ Followed(T, ers) /\ start \in Nat
      /\ LivesApart(T, ers) /\ OnePerInstant(T)
  BY LoadedParts, TimesAre DEF Splits
<1>2. IsChainAfter(T, ers, h, ChainAfter(T, h))
  BY <1>1, ChainIs
<1>3. After(ers, h, x)
  BY <1>2 DEF IsChainAfter
<1>4. /\ SameEra(ers, h.mts, start) /\ h.mts < start /\ start <= h.next
      /\ SameEra(ers, h.mts, x.mts) /\ h.mts < x.mts /\ h.id = x.id /\ h.no < x.no
  BY <1>3, CrossesIs DEF After
<1>5. h.next <= x.mts /\ h.next \in Int /\ x.mts \in Nat
  BY <1>1, <1>4, RowTimes DEF LivesApart
<1>6. InNew(ers, start, x)
  <2>1. start <= x.mts
    BY <1>1, <1>4, <1>5
  <2>2. SameEra(ers, x.mts, start)
    BY <1>4, EraTransitive
  <2>. QED
    BY <1>5, <2>1, <2>2, EraSides
<1>7. ASSUME NEW g \in Heads(T, ers, start, x) PROVE g = h
  <2>1. g \in T /\ CrossesStart(ers, start, g) /\ x \in ChainAfter(T, g)
    BY DEF Heads
  <2>2. After(ers, g, x)
    BY <1>1, <2>1, ChainIs DEF IsChainAfter
  <2>3. g.id = x.id
    BY <2>2 DEF After
  <2>4. SameEra(ers, g.mts, start) /\ g.mts < start /\ start <= g.next
    BY <2>1, CrossesIs
  <2>. QED
    BY <1>4, <2>1, <2>3, <2>4, CrossesOnce
<1>8. h \in Heads(T, ers, start, x)
  BY DEF Heads
<1>. QED
  BY <1>4, <1>6, <1>7, <1>8

Renumbers(T, ers, start, x, n) ==
    /\ n \in Rows
    /\ n.mts = x.mts /\ n.id = x.id /\ n.price = x.price /\ n.amount = x.amount
    /\ n.next = x.next /\ n.nextNo = x.nextNo
    /\ Heads(T, ers, start, x) = {} => n.no = x.no
    /\ \A h \in Heads(T, ers, start, x) : n.no = x.no - h.no + 1 /\ 2 <= n.no

LEMMA RenumberIs ==
    ASSUME NEW T, NEW ers, NEW now, NEW start, Splits(T, ers, now, start), NEW x \in T
    PROVE  Renumbers(T, ers, start, x, Renumber(T, ers, start, x))
<1>1. /\ T \subseteq Rows /\ RowsSound(T) /\ Followed(T, ers) /\ start \in Times
  BY LoadedParts DEF Splits
<1>2. CASE Heads(T, ers, start, x) = {}
  <2>1. Renumber(T, ers, start, x) = x
    BY <1>2 DEF Renumber
  <2>. QED
    BY <1>1, <1>2, <2>1 DEF Renumbers
<1>3. CASE Heads(T, ers, start, x) # {}
  <2>1. PICK h \in T : CrossesStart(ers, start, h) /\ x \in ChainAfter(T, h)
    BY <1>3 DEF Heads
  <2>2. InNew(ers, start, x) /\ h.no < x.no /\ Heads(T, ers, start, x) = {h}
    BY <2>1, ChainOver
  <2>3. (CHOOSE r \in Heads(T, ers, start, x) : TRUE) = h
    BY <2>2
  <2> DEFINE no == x.no - h.no + 1
             first == FirstOver(T, ers, start, x)
             p == Pred(T, x)
             pmts == IF first \/ p.pmts < start THEN start ELSE p.pmts
             pno == IF first THEN 1 ELSE IF p.pmts < start THEN p.pno ELSE p.no
  <2>4. no \in Nat /\ 2 <= no
    BY <1>1, <2>2, RowFields
  <2>5. p \in T
    <3>1. IsChainAfter(T, ers, h, ChainAfter(T, h))
      BY <1>1, ChainIs
    <3>2. \E y \in T : PointsAt(y, x)
      BY <2>1, <3>1 DEF IsChainAfter
    <3>. QED
      BY <3>2 DEF Pred
  <2>6. pmts \in Times /\ pno \in Nat
    <3>1. p.pmts \in Times /\ p.pno \in Nat /\ p.no \in Nat
      BY <1>1, <2>5, RowFields
    <3> HIDE DEF p
    <3>. QED
      BY <1>1, <3>1
  <2>7. Renumber(T, ers, start, x) = [x EXCEPT !.no = no, !.pmts = pmts, !.pno = pno]
    <3>1. NumberOver(T, ers, start, x) = no
      BY <2>3 DEF NumberOver
    <3>. QED
      BY <1>3, <2>2, <3>1 DEF Renumber
  <2> HIDE DEF no, pmts, pno
  <2>8. x \in Rows
    BY <1>1
  <2> DEFINE n == [x EXCEPT !.no = no, !.pmts = pmts, !.pno = pno]
  <2>9. /\ n \in Rows /\ n.mts = x.mts /\ n.id = x.id /\ n.price = x.price /\ n.amount = x.amount
        /\ n.next = x.next /\ n.nextNo = x.nextNo /\ n.no = no
    BY <2>4, <2>6, <2>8 DEF Rows
  <2> HIDE DEF n
  <2>10. Renumbers(T, ers, start, x, n)
    BY <2>2, <2>4, <2>9 DEF Renumbers, no
  <2>. QED
    BY <2>7, <2>10 DEF n
<1>. QED
  BY <1>2, <1>3

LEMMA PointedOnce ==
    ASSUME NEW T, UniqueNext(T), NEW a \in T, NEW b \in T, NEW x, x.no # Null,
           PointsAt(a, x), PointsAt(b, x)
    PROVE  a = b
<1>1. a.nextNo # Null
  BY PointsIs
<1>2. << a.next, a.id, a.nextNo >> = << b.next, b.id, b.nextNo >>
  BY DEF PointsAt
<1>. QED
  BY <1>1, <1>2 DEF UniqueNext

\* A row that crosses the start is not renumbered.
LEMMA CrossesNoHead ==
    ASSUME NEW T, NEW ers, NEW now, NEW start, Splits(T, ers, now, start), NEW y \in T,
           CrossesStart(ers, start, y)
    PROVE  Heads(T, ers, start, y) = {}
<1>1. SUFFICES ASSUME NEW h \in Heads(T, ers, start, y) PROVE FALSE
  OBVIOUS
<1>2. h \in T /\ CrossesStart(ers, start, h) /\ y \in ChainAfter(T, h)
  BY DEF Heads
<1>3. InNew(ers, start, y)
  BY <1>2, ChainOver
<1>4. y.mts \in Nat /\ start \in Nat
  BY LoadedParts, RowTimes, TimesAre DEF Splits
<1>5. start <= y.mts /\ y.mts < start
  BY <1>3, <1>4, EraSides, CrossesIs
<1>. QED
  BY <1>4, <1>5

Numbers(T, ers, start, y, x) ==
    /\ NumberNow(T, ers, start, x) =
         IF CrossesStart(ers, start, y) THEN 2 ELSE NumberNow(T, ers, start, y) + 1
    /\ 2 <= NumberNow(T, ers, start, x) /\ NumberNow(T, ers, start, y) \in Nat

LEMMA NumbersFollow ==
    ASSUME NEW T, NEW ers, NEW now, NEW start, Splits(T, ers, now, start),
           NEW y \in T, NEW x \in T, PointsAt(y, x)
    PROVE  Numbers(T, ers, start, y, x)
<1>1. /\ T \subseteq Rows /\ RowsSound(T) /\ Followed(T, ers) /\ UniqueNext(T)
  BY LoadedParts DEF Splits, Consistent
<1>2. /\ x.no = y.no + 1 /\ y.no \in Nat /\ y.no # 0 /\ x.no \in Nat /\ x.no # Null
  BY <1>1, PointsAfter, RowFields DEF RowsSound, Null
<1>3. /\ Renumbers(T, ers, start, x, Renumber(T, ers, start, x))
      /\ Renumbers(T, ers, start, y, Renumber(T, ers, start, y))
  BY RenumberIs
<1>4. /\ Heads(T, ers, start, x) = {} => NumberNow(T, ers, start, x) = x.no
      /\ \A h \in Heads(T, ers, start, x) : NumberNow(T, ers, start, x) = x.no - h.no + 1
      /\ Heads(T, ers, start, y) = {} => NumberNow(T, ers, start, y) = y.no
      /\ \A h \in Heads(T, ers, start, y) : NumberNow(T, ers, start, y) = y.no - h.no + 1
  BY <1>3 DEF Renumbers, NumberNow
<1>5. ASSUME NEW h \in T, CrossesStart(ers, start, h), x \in ChainAfter(T, h)
      PROVE  h = y \/ y \in ChainAfter(T, h)
  <2>1. IsChainAfter(T, ers, h, ChainAfter(T, h))
    BY <1>1, ChainIs
  <2>2. PICK z \in {h} \union ChainAfter(T, h) : PointsAt(z, x)
    BY <1>5, <2>1 DEF IsChainAfter
  <2>3. z \in T
    BY <2>1, <2>2 DEF IsChainAfter
  <2>4. z = y
    BY <1>1, <1>2, <2>2, <2>3, PointedOnce
  <2>. QED
    BY <2>2, <2>4
<1>6. ASSUME NEW h \in T, CrossesStart(ers, start, h), h = y \/ y \in ChainAfter(T, h)
      PROVE  x \in ChainAfter(T, h)
  BY <1>1, <1>6, ChainIs DEF IsChainAfter
<1>7. \A h \in T : CrossesStart(ers, start, h) /\ x \in ChainAfter(T, h) =>
         Heads(T, ers, start, x) = {h} /\ h.no < x.no
  BY ChainOver
<1>8. CASE CrossesStart(ers, start, y)
  <2>1. Heads(T, ers, start, x) = {y}
    BY <1>6, <1>7, <1>8
  <2>2. NumberNow(T, ers, start, x) = 2
    BY <1>2, <1>4, <2>1
  <2>3. NumberNow(T, ers, start, y) = y.no
    BY <1>4, <1>8, CrossesNoHead
  <2>. QED
    BY <1>2, <1>8, <2>2, <2>3 DEF Numbers
<1>9. CASE ~CrossesStart(ers, start, y)
  <2>1. CASE Heads(T, ers, start, x) = {}
    <3>1. Heads(T, ers, start, y) = {}
      <4>1. SUFFICES ASSUME NEW h \in Heads(T, ers, start, y) PROVE FALSE
        OBVIOUS
      <4>2. h \in T /\ CrossesStart(ers, start, h) /\ y \in ChainAfter(T, h)
        BY DEF Heads
      <4>3. Heads(T, ers, start, x) = {h}
        BY <1>6, <1>7, <4>2
      <4>. QED
        BY <2>1, <4>3
    <3>2. /\ NumberNow(T, ers, start, x) = x.no /\ NumberNow(T, ers, start, y) = y.no
      BY <1>4, <2>1, <3>1
    <3>. QED
      BY <1>2, <1>9, <3>2 DEF Numbers
  <2>2. CASE Heads(T, ers, start, x) # {}
    <3>1. PICK h \in T : CrossesStart(ers, start, h) /\ x \in ChainAfter(T, h)
      BY <2>2 DEF Heads
    <3>2. y \in ChainAfter(T, h)
      BY <1>5, <1>9, <3>1
    <3>3. Heads(T, ers, start, x) = {h} /\ h.no < x.no
      BY <1>7, <3>1
    <3>4. Heads(T, ers, start, y) = {h} /\ h.no < y.no
      BY <3>1, <3>2, ChainOver
    <3>5. /\ NumberNow(T, ers, start, x) = x.no - h.no + 1
          /\ NumberNow(T, ers, start, y) = y.no - h.no + 1
      BY <1>4, <3>3, <3>4
    <3>6. h.no \in Nat
      BY <1>1, <3>1, RowFields
    <3>. QED
      BY <1>2, <1>9, <3>4, <3>5, <3>6 DEF Numbers
  <2>. QED
    BY <2>1, <2>2
<1>. QED
  BY <1>8, <1>9

LEMMA FirstKeepsNumber ==
    ASSUME NEW T, NEW ers, NEW now, NEW start, Splits(T, ers, now, start),
           NEW x \in T, NumberNow(T, ers, start, x) # 1
    PROVE  x.no # 1
<1>1. SUFFICES ASSUME x.no = 1 PROVE FALSE
  OBVIOUS
<1>2. Heads(T, ers, start, x) = {}
  <2>1. SUFFICES ASSUME NEW h \in Heads(T, ers, start, x) PROVE FALSE
    OBVIOUS
  <2>2. h \in T /\ CrossesStart(ers, start, h) /\ x \in ChainAfter(T, h)
    BY DEF Heads
  <2>3. h.no < x.no
    BY <2>2, ChainOver
  <2>4. h.no \in Nat /\ h.no # 0
    BY <2>2, LoadedParts, RowFields DEF Splits, RowsSound
  <2>. QED
    BY <1>1, <2>3, <2>4
<1>3. Renumbers(T, ers, start, x, Renumber(T, ers, start, x))
  BY RenumberIs
<1>. QED
  BY <1>1, <1>2, <1>3 DEF Renumbers, NumberNow

SplitRow(T, ers, start, x) == Updated(T, SplitNew(T, ers, start), x)
SplitsTo(T, ers, start, x, c) ==
    /\ c \in Rows
    /\ c.mts = x.mts /\ c.id = x.id /\ c.price = x.price /\ c.amount = x.amount
    /\ c.next = x.next /\ c.no = NumberNow(T, ers, start, x)
    /\ x.nextNo = Null => c.nextNo = Null
    /\ \A s \in T : PointsAt(x, s) => c.nextNo = NumberNow(T, ers, start, s)

LEMMA SplitRowIs ==
    ASSUME NEW T, NEW ers, NEW now, NEW start, Splits(T, ers, now, start), NEW x \in T
    PROVE  SplitsTo(T, ers, start, x, SplitRow(T, ers, start, x))
<1> DEFINE new == SplitNew(T, ers, start)
           c == SplitRow(T, ers, start, x)
<1>1. /\ T \subseteq Rows /\ RowsSound(T) /\ Followed(T, ers) /\ PrimaryKey(T)
  BY LoadedParts DEF Splits
<1>2. \A y \in T : Renumbers(T, ers, start, y, new[y]) /\ new[y].no = NumberNow(T, ers, start, y)
  <2>1. \A y \in T : new[y] = Renumber(T, ers, start, y)
    BY DEF SplitNew
  <2>. QED
    BY <2>1, RenumberIs DEF NumberNow
<1>3. Renewed(T, new)
  BY <1>2 DEF Renewed, Renumbers
<1>4. c = Updated(T, new, x)
  BY DEF SplitRow
<1> HIDE DEF new, c
<1>5. /\ c \in Rows
      /\ c.mts = new[x].mts /\ c.id = x.id /\ c.no = new[x].no
      /\ c.price = new[x].price /\ c.amount = new[x].amount
      /\ IF new[x].nextNo = Null THEN c.next = new[x].next /\ c.nextNo = Null
         ELSE Refer(T, new, x, new[x].next, new[x].nextNo, c.next, c.nextNo)
  BY <1>1, <1>3, <1>4, UpdatedIs
<1>6. /\ new[x].mts = x.mts /\ new[x].price = x.price /\ new[x].amount = x.amount
      /\ new[x].next = x.next /\ new[x].nextNo = x.nextNo
  BY <1>2 DEF Renumbers
<1>7. CASE x.nextNo = Null
  <2>1. \A s \in T : ~PointsAt(x, s)
    BY <1>1, <1>7, LoadedLast
  <2>. QED
    BY <1>2, <1>5, <1>6, <1>7, <2>1 DEF SplitsTo, c
<1>8. CASE x.nextNo # Null
  <2>1. PICK s \in T : PointsAt(x, s) /\ s.mts = x.next
    BY <1>1, <1>8, LoadedFollower
  <2>2. Key(s) = << x.next, x.id, x.nextNo >>
    BY <2>1 DEF PointsAt
  <2>3. Refer(T, new, x, x.next, x.nextNo, c.next, c.nextNo)
    BY <1>5, <1>6, <1>8
  <2>4. PICK y \in T : /\ Key(y) = << x.next, x.id, x.nextNo >>
                       /\ c.next = new[y].mts /\ c.nextNo = new[y].no
    BY <2>2, <2>3 DEF Refer
  <2>5. y = s
    BY <1>1, <2>2, <2>4 DEF PrimaryKey
  <2>6. c.next = x.next /\ c.nextNo = NumberNow(T, ers, start, s)
    BY <1>2, <2>1, <2>4, <2>5 DEF Renumbers
  <2>7. \A z \in T : PointsAt(x, z) => z = s
    BY <1>1, <2>1, PointsOnce
  <2>. QED
    BY <1>2, <1>5, <1>6, <1>8, <2>6, <2>7 DEF SplitsTo, c
<1>. QED
  BY <1>7, <1>8

\* What a row becomes: it stays, or it is open and starts a chain in the new era.
StaysAs(T, ers, start, x, z) ==
    /\ ~CrossesStart(ers, start, x) /\ z = SplitRow(T, ers, start, x)
    /\ z \in Rows
    /\ z.mts = x.mts /\ z.id = x.id /\ z.price = x.price /\ z.amount = x.amount
    /\ z.no = NumberNow(T, ers, start, x) /\ z.next = x.next
    /\ x.nextNo = Null => z.nextNo = Null
    /\ \A s \in T : PointsAt(x, s) => z.nextNo = NumberNow(T, ers, start, s)
OpensAs(T, ers, start, x, z) ==
    /\ CrossesStart(ers, start, x) /\ z = Open(SplitRow(T, ers, start, x))
    /\ z \in Rows
    /\ z.mts = x.mts /\ z.id = x.id /\ z.price = x.price /\ z.amount = x.amount
    /\ z.no = NumberNow(T, ers, start, x) /\ z.next = Infinity /\ z.nextNo = Null
StartsAs(T, ers, start, x, z) ==
    /\ CrossesStart(ers, start, x) /\ z = NewChain(SplitRow(T, ers, start, x), start)
    /\ z \in Rows
    /\ z.mts = start /\ z.id = x.id /\ z.price = x.price /\ z.amount = x.amount
    /\ z.no = 1 /\ z.next = x.next
    /\ \A s \in T : PointsAt(x, s) => z.nextNo = NumberNow(T, ers, start, s)

IsSplit(T, ers, start, N) ==
    /\ \A x \in T : IF CrossesStart(ers, start, x)
                    THEN /\ \E z \in N : OpensAs(T, ers, start, x, z)
                         /\ \E z \in N : StartsAs(T, ers, start, x, z)
                    ELSE \E z \in N : StaysAs(T, ers, start, x, z)
    /\ \A z \in N : \E x \in T : \/ StaysAs(T, ers, start, x, z)
                                 \/ OpensAs(T, ers, start, x, z)
                                 \/ StartsAs(T, ers, start, x, z)

SplitTable(T, ers, start) ==
    LET table == Update(T, SplitNew(T, ers, start))
    IN  Split(table, {r \in table : CrossesStart(ers, start, r)}, start)

LEMMA BecomesIs ==
    ASSUME NEW T, NEW ers, NEW now, NEW start, Splits(T, ers, now, start), NEW x \in T
    PROVE  LET c == SplitRow(T, ers, start, x)
           IN  /\ CrossesStart(ers, start, c) <=> CrossesStart(ers, start, x)
               /\ ~CrossesStart(ers, start, x) => StaysAs(T, ers, start, x, c)
               /\ CrossesStart(ers, start, x) => /\ OpensAs(T, ers, start, x, Open(c))
                                                 /\ StartsAs(T, ers, start, x, NewChain(c, start))
<1> DEFINE c == SplitRow(T, ers, start, x)
<1>1. SplitsTo(T, ers, start, x, c) /\ start \in Times
  BY SplitRowIs DEF Splits
<1>2. c.mts = x.mts /\ c.next = x.next
  BY <1>1 DEF SplitsTo
<1>3. CrossesStart(ers, start, c) <=> CrossesStart(ers, start, x)
  BY <1>2 DEF CrossesStart, InOld, GoesOn, IsFinite
<1>4. c \in Rows
  BY <1>1 DEF SplitsTo
<1> HIDE DEF c
<1>5. LET o == Open(c)
      IN  /\ o \in Rows /\ o.mts = c.mts /\ o.id = c.id /\ o.price = c.price
          /\ o.amount = c.amount /\ o.no = c.no /\ o.next = Infinity /\ o.nextNo = Null
  BY <1>4 DEF Open, Rows, Null
<1>6. LET n == NewChain(c, start)
      IN  /\ n \in Rows /\ n.mts = start /\ n.id = c.id /\ n.price = c.price
          /\ n.amount = c.amount /\ n.no = 1 /\ n.next = c.next /\ n.nextNo = c.nextNo
  BY <1>1, <1>4 DEF NewChain, Rows
<1>7. ~CrossesStart(ers, start, x) => StaysAs(T, ers, start, x, c)
  BY <1>1 DEF StaysAs, SplitsTo, c
<1>8. CrossesStart(ers, start, x) => OpensAs(T, ers, start, x, Open(c))
  BY <1>1, <1>5 DEF OpensAs, SplitsTo, c
<1>9. CrossesStart(ers, start, x) => StartsAs(T, ers, start, x, NewChain(c, start))
  BY <1>1, <1>6 DEF StartsAs, SplitsTo, c
<1>. QED
  BY <1>3, <1>7, <1>8, <1>9 DEF c

LEMMA SplitTableIs ==
    ASSUME NEW T, NEW ers, NEW now, NEW start, Splits(T, ers, now, start)
    PROVE  IsSplit(T, ers, start, SplitTable(T, ers, start))
<1> DEFINE c(x) == SplitRow(T, ers, start, x)
           crosses(r) == CrossesStart(ers, start, r)
           table == {c(x) : x \in T}
           over == {r \in table : crosses(r)}
           N == (table \ over) \union {Open(r) : r \in over}
                               \union {NewChain(r, start) : r \in over}
<1>1. SplitTable(T, ers, start) = N
  <2>1. Update(T, SplitNew(T, ers, start)) = table
    BY UpdateIs DEF SplitRow
  <2> HIDE DEF table, crosses
  <2>. QED
    BY <2>1 DEF SplitTable, Split, crosses
<1>2. \A x \in T : /\ crosses(c(x)) <=> crosses(x)
                   /\ ~crosses(x) => StaysAs(T, ers, start, x, c(x))
                   /\ crosses(x) => /\ OpensAs(T, ers, start, x, Open(c(x)))
                                    /\ StartsAs(T, ers, start, x, NewChain(c(x), start))
  BY BecomesIs
<1> HIDE DEF c
<1>3. \A x \in T : /\ crosses(x) => Open(c(x)) \in N /\ NewChain(c(x), start) \in N
                   /\ ~crosses(x) => c(x) \in N
  BY <1>2
<1>4. \A z \in N : \E x \in T : \/ ~crosses(x) /\ z = c(x)
                                \/ crosses(x) /\ z = Open(c(x))
                                \/ crosses(x) /\ z = NewChain(c(x), start)
  BY <1>2
<1> HIDE DEF N
<1>5. \A z \in N : \E x \in T : \/ StaysAs(T, ers, start, x, z)
                                \/ OpensAs(T, ers, start, x, z)
                                \/ StartsAs(T, ers, start, x, z)
  BY <1>2, <1>4
<1>6. ASSUME NEW x \in T
      PROVE  IF CrossesStart(ers, start, x)
             THEN /\ \E z \in N : OpensAs(T, ers, start, x, z)
                  /\ \E z \in N : StartsAs(T, ers, start, x, z)
             ELSE \E z \in N : StaysAs(T, ers, start, x, z)
  BY <1>2, <1>3
<1>. QED
  BY <1>1, <1>5, <1>6 DEF IsSplit

SplitsEras(ers, start, ersn) ==
    /\ DOMAIN ersn = DOMAIN ers \union {start}
    /\ ersn = [e \in DOMAIN ersn |-> ersn[e]]

LEMMA SplitEraIs ==
    ASSUME NEW T, NEW ers, NEW now, NEW start, Splits(T, ers, now, start),
           NEW ersn, SplitsEras(ers, start, ersn)
    PROVE  /\ ErasTyped(ersn)
           /\ \A a, b : SameEra(ersn, a, b) <=> SameEra(ers, a, b) /\ (start <= a <=> start <= b)
<1>1. ErasTyped(ers) /\ start \in Times
  BY LoadedParts DEF Splits
<1>2. ErasTyped(ersn)
  BY <1>1 DEF ErasTyped, SplitsEras
<1>3. ASSUME NEW a, NEW b
      PROVE  SameEra(ersn, a, b) <=> SameEra(ers, a, b) /\ (start <= a <=> start <= b)
  <2>1. SameEra(ersn, a, b) <=> \A e \in DOMAIN ersn : e <= a <=> e <= b
    BY DEF SameEra, ErasUpTo
  <2>2. SameEra(ers, a, b) <=> \A e \in DOMAIN ers : e <= a <=> e <= b
    BY DEF SameEra, ErasUpTo
  <2>. QED
    BY <2>1, <2>2 DEF SplitsEras
<1>. QED
  BY <1>2, <1>3

SplitRows(T, ers, now, start, N, ersn) ==
    /\ Splits(T, ers, now, start)
    /\ IsSplit(T, ers, start, N)
    /\ SplitsEras(ers, start, ersn)

LEMMA SplitParts ==
    ASSUME NEW T, NEW ers, NEW now, NEW start, NEW N, NEW ersn,
           SplitRows(T, ers, now, start, N, ersn)
    PROVE  /\ Loaded(T, ers, now) /\ T \subseteq Rows /\ ErasTyped(ers) /\ ErasTyped(ersn)
           /\ RowsSound(T) /\ Followed(T, ers) /\ Preceded(T) /\ LivesApart(T, ers)
           /\ OnePerInstant(T) /\ ErasFollow(T, ers) /\ UniqueNext(T) /\ PrimaryKey(T)
           /\ start \in Times /\ start \in Nat /\ start \notin DOMAIN ers
           /\ N \subseteq Rows
           /\ Splits(T, ers, now, start) /\ IsSplit(T, ers, start, N)
           /\ SplitsEras(ers, start, ersn)
<1>1. /\ Splits(T, ers, now, start) /\ IsSplit(T, ers, start, N) /\ SplitsEras(ers, start, ersn)
  BY DEF SplitRows
<1>2. N \subseteq Rows
  BY <1>1 DEF IsSplit, StaysAs, OpensAs, StartsAs
<1>3. Loaded(T, ers, now) /\ start \in Times /\ start \notin DOMAIN ers
  BY <1>1 DEF Splits
<1>4. ErasTyped(ersn)
  BY <1>1, SplitEraIs
<1>. QED
  BY <1>1, <1>2, <1>3, <1>4, LoadedParts, TimesAre DEF Consistent

\* References count from 2.
LEMMA SplitRefers ==
    ASSUME NEW T, NEW ers, NEW now, NEW start, NEW N, NEW ersn,
           SplitRows(T, ers, now, start, N, ersn), NEW z \in N, NEW w, w.no = 1
    PROVE  ~PointsAt(z, w)
<1>1. /\ T \subseteq Rows /\ RowsSound(T) /\ Followed(T, ers) /\ IsSplit(T, ers, start, N)
      /\ Splits(T, ers, now, start)
  BY SplitParts
<1>2. PICK x \in T : \/ StaysAs(T, ers, start, x, z)
                     \/ OpensAs(T, ers, start, x, z)
                     \/ StartsAs(T, ers, start, x, z)
  BY <1>1 DEF IsSplit
<1>3. CASE z.nextNo = Null
  BY <1>3, PointsIs DEF Null
<1>4. CASE z.nextNo # Null
  <2>1. x.nextNo # Null
    BY <1>1, <1>2, <1>4, CrossesIs DEF StaysAs, OpensAs, StartsAs
  <2>2. PICK s \in T : PointsAt(x, s)
    BY <1>1, <2>1, LoadedFollower
  <2>3. z.nextNo = NumberNow(T, ers, start, s)
    BY <1>2, <1>4, <2>2 DEF StaysAs, OpensAs, StartsAs
  <2>4. Numbers(T, ers, start, x, s)
    BY <1>1, <2>2, NumbersFollow
  <2>5. 2 <= z.nextNo
    BY <2>3, <2>4 DEF Numbers
  <2>. QED
    BY <2>5, PointsIs
<1>. QED
  BY <1>3, <1>4

LEMMA SplitLinked ==
    ASSUME NEW T, NEW ers, NEW now, NEW start, NEW N, NEW ersn,
           SplitRows(T, ers, now, start, N, ersn)
    PROVE  Linked(N, ersn)
<1>1. /\ T \subseteq Rows /\ RowsSound(T) /\ Followed(T, ers) /\ Preceded(T)
      /\ ErasTyped(ers) /\ ErasTyped(ersn) /\ start \in Times /\ start \in Nat
      /\ IsSplit(T, ers, start, N) /\ Splits(T, ers, now, start)
      /\ SplitsEras(ers, start, ersn) /\ N \subseteq Rows
  BY SplitParts
<1>2. ASSUME NEW z \in N, z.no # 1
      PROVE  \E w \in N : PointsAt(w, z) /\ w.no = z.no - 1 /\ InEraOf(ersn, z.mts, w.mts)
  <2>1. PICK x \in T : StaysAs(T, ers, start, x, z) \/ OpensAs(T, ers, start, x, z)
    BY <1>1, <1>2 DEF IsSplit, StartsAs
  <2>2. z.mts = x.mts /\ z.id = x.id /\ z.no = NumberNow(T, ers, start, x)
    BY <2>1 DEF StaysAs, OpensAs
  <2>3. x.no # 1
    BY <1>1, <1>2, <2>2, FirstKeepsNumber
  <2>4. PICK y \in T : PointsAt(y, x)
    BY <1>1, <2>3 DEF Preceded
  <2>5. /\ y.next = x.mts /\ y.id = x.id /\ y.nextNo # Null /\ y.mts < x.mts
        /\ SameEra(ers, y.mts, x.mts)
    BY <1>1, <2>4, PointsAfter DEF After, RowsSound, Null
  <2>6. Numbers(T, ers, start, y, x)
    BY <1>1, <2>4, NumbersFollow
  <2>7. x.mts \in Times /\ x.mts \in Nat /\ y.mts \in Nat /\ x.mts \in Int /\ y.mts \in Int
    BY <1>1, RowTimes, RowFields
  <2>8. /\ CrossesStart(ers, start, y) <=> SameEra(ers, y.mts, start) /\ y.mts < start /\ start <= x.mts
    BY <1>1, <2>5, CrossesIs
  <2>9. CASE CrossesStart(ers, start, y)
    <3>1. PICK w \in N : StartsAs(T, ers, start, y, w)
      BY <1>1, <2>9 DEF IsSplit
    <3>2. /\ w.mts = start /\ w.id = y.id /\ w.no = 1 /\ w.next = y.next
          /\ w.nextNo = NumberNow(T, ers, start, x)
      BY <2>4, <3>1 DEF StartsAs
    <3>3. NumberNow(T, ers, start, x) = 2
      BY <2>6, <2>9 DEF Numbers
    <3>4. PointsAt(w, z) /\ w.no = z.no - 1
      BY <2>2, <2>5, <3>2, <3>3, PointsIs
    <3>5. SameEra(ers, start, x.mts) /\ start <= x.mts
      BY <2>5, <2>8, <2>9, EraTransitive
    <3>6. SameEra(ersn, start, x.mts)
      <4>1. start <= start
        BY <1>1
      <4>. QED
        BY <1>1, <3>5, <4>1, SplitEraIs
    <3>7. InEraOf(ersn, x.mts, start)
      BY <1>1, <2>7, <3>5, <3>6, InEraIs
    <3>. QED
      BY <2>2, <3>2, <3>4, <3>7
  <2>10. CASE ~CrossesStart(ers, start, y)
    <3>1. PICK w \in N : StaysAs(T, ers, start, y, w)
      BY <1>1, <2>10 DEF IsSplit
    <3>2. /\ w.mts = y.mts /\ w.id = y.id /\ w.no = NumberNow(T, ers, start, y)
          /\ w.next = y.next /\ w.nextNo = NumberNow(T, ers, start, x)
      BY <2>4, <3>1 DEF StaysAs
    <3>3. PointsAt(w, z) /\ w.no = z.no - 1
      <4>1. /\ NumberNow(T, ers, start, x) = NumberNow(T, ers, start, y) + 1
            /\ NumberNow(T, ers, start, y) \in Nat
        BY <2>6, <2>10 DEF Numbers
      <4>. QED
        BY <2>2, <2>5, <3>2, <4>1, PointsIs
    <3>4. start <= y.mts <=> start <= x.mts
      <4>1. SUFFICES ASSUME y.mts < start, start <= x.mts PROVE FALSE
        BY <1>1, <2>5, <2>7
      <4>2. SameEra(ers, y.mts, start)
        <5>1. y.mts <= start /\ start \in Int
          BY <1>1, <2>7, <4>1
        <5>. QED
          BY <1>1, <2>5, <2>7, <4>1, <5>1, EraBetween
      <4>. QED
        BY <2>8, <2>10, <4>1, <4>2
    <3>5. SameEra(ersn, y.mts, x.mts)
      BY <1>1, <2>5, <3>4, SplitEraIs
    <3>6. InEraOf(ersn, x.mts, y.mts)
      <4>1. y.mts <= x.mts
        BY <2>5, <2>7
      <4>. QED
        BY <1>1, <2>7, <3>5, <4>1, InEraIs
    <3>. QED
      BY <2>2, <3>2, <3>3, <3>6
  <2>. QED
    BY <2>9, <2>10
<1>3. ASSUME NEW z \in N
      PROVE  LET before == {w \in N : PointsAt(w, z)}
             IN  IF z.no = 1 THEN before = {}
                 ELSE \E w \in before : w.no = z.no - 1 /\ InEraOf(ersn, z.mts, w.mts)
  <2>1. z.no = 1 => \A w \in N : ~PointsAt(w, z)
    BY SplitRefers
  <2>. QED
    BY <1>2, <2>1
<1>. QED
  BY <1>3 DEF Linked

\* Where a row's orders are live, before and after.
LEMMA SplitLive ==
    ASSUME NEW T, NEW ers, NEW now, NEW start, NEW N, NEW ersn,
           SplitRows(T, ers, now, start, N, ersn),
           NEW t \in Times, NEW x \in T, NEW z \in N
    PROVE  /\ StaysAs(T, ers, start, x, z) =>
                (z \in LiveAt(N, ersn, t) <=>
                   x \in LiveAt(T, ers, t) /\ (t < start \/ start <= x.mts))
           /\ OpensAs(T, ers, start, x, z) =>
                (z \in LiveAt(N, ersn, t) <=> x \in LiveAt(T, ers, t) /\ t < start)
           /\ StartsAs(T, ers, start, x, z) =>
                (z \in LiveAt(N, ersn, t) <=> x \in LiveAt(T, ers, t) /\ start <= t)
<1>1. /\ T \subseteq Rows /\ ErasTyped(ers) /\ ErasTyped(ersn) /\ start \in Times /\ start \in Nat
      /\ Splits(T, ers, now, start) /\ SplitsEras(ers, start, ersn) /\ N \subseteq Rows
  BY SplitParts
<1>2. x.mts \in Nat /\ x.next \in Int /\ t \in Nat /\ t < Infinity /\ Infinity \in Nat
  BY <1>1, RowTimes, TimesAre
<1>3. x \in LiveAt(T, ers, t) <=> SameEra(ers, x.mts, t) /\ x.mts <= t /\ x.next > t
  BY <1>1, LiveIs
<1>4. z \in LiveAt(N, ersn, t) <=> SameEra(ersn, z.mts, t) /\ z.mts <= t /\ z.next > t
  BY <1>1, LiveIs
<1>5. SameEra(ersn, z.mts, t) <=> SameEra(ers, z.mts, t) /\ (start <= z.mts <=> start <= t)
  BY <1>1, SplitEraIs
<1>6. CrossesStart(ers, start, x) => SameEra(ers, x.mts, start) /\ x.mts < start /\ start <= x.next
  BY <1>1, CrossesIs
<1>7. ASSUME StaysAs(T, ers, start, x, z)
      PROVE  z \in LiveAt(N, ersn, t) <=>
               x \in LiveAt(T, ers, t) /\ (t < start \/ start <= x.mts)
  <2>1. z.mts = x.mts /\ z.next = x.next
    BY <1>7 DEF StaysAs
  <2>. QED
    BY <1>1, <1>2, <1>3, <1>4, <1>5, <2>1
<1>8. ASSUME OpensAs(T, ers, start, x, z)
      PROVE  z \in LiveAt(N, ersn, t) <=> x \in LiveAt(T, ers, t) /\ t < start
  <2>1. z.mts = x.mts /\ z.next = Infinity /\ x.mts < start /\ start <= x.next
    BY <1>6, <1>8 DEF OpensAs
  <2>. QED
    BY <1>1, <1>2, <1>3, <1>4, <1>5, <2>1
<1>9. ASSUME StartsAs(T, ers, start, x, z)
      PROVE  z \in LiveAt(N, ersn, t) <=> x \in LiveAt(T, ers, t) /\ start <= t
  <2>1. z.mts = start /\ z.next = x.next /\ x.mts < start /\ SameEra(ers, x.mts, start)
    BY <1>6, <1>9 DEF StartsAs
  <2>2. SameEra(ers, start, t) <=> SameEra(ers, x.mts, t)
    BY <2>1, EraTransitive
  <2>. QED
    BY <1>1, <1>2, <1>3, <1>4, <1>5, <2>1, <2>2
<1>. QED
  BY <1>7, <1>8, <1>9

LEMMA LoadedOnce ==
    ASSUME NEW T, NEW ers, NEW now, Loaded(T, ers, now)
    PROVE  LiveOnce(T, ers)
<1>1. T \subseteq Rows /\ ErasTyped(ers) /\ OnePerInstant(T) /\ LivesApart(T, ers)
  BY LoadedParts
<1>2. ASSUME NEW t \in Times, NEW a \in LiveAt(T, ers, t), NEW b \in LiveAt(T, ers, t), a.id = b.id
      PROVE  ~(a.mts < b.mts)
  <2>1. /\ a \in T /\ SameEra(ers, a.mts, t) /\ a.next > t
        /\ b \in T /\ SameEra(ers, b.mts, t) /\ b.mts <= t
    BY <1>1, LiveIs
  <2>2. a.next \in Int /\ b.mts \in Nat /\ t \in Nat
    BY <1>1, <2>1, RowTimes, TimesAre
  <2>3. a.mts < b.mts => a.next <= b.mts
    BY <1>1, <1>2, <2>1, EraTransitive DEF LivesApart
  <2>. QED
    BY <2>1, <2>2, <2>3
<1>3. ASSUME NEW t \in Times, NEW a \in LiveAt(T, ers, t), NEW b \in LiveAt(T, ers, t), a.id = b.id
      PROVE  a = b
  <2>1. a \in T /\ b \in T /\ a.mts \in Nat /\ b.mts \in Nat
    BY <1>1, RowTimes DEF LiveAt
  <2>2. ~(a.mts < b.mts) /\ ~(b.mts < a.mts)
    BY <1>2, <1>3
  <2>. QED
    BY <1>1, <2>1, <2>2 DEF OnePerInstant
<1>. QED
  BY <1>3 DEF LiveOnce

\* The row that a live one comes from.
LEMMA SplitOrigin ==
    ASSUME NEW T, NEW ers, NEW now, NEW start, NEW N, NEW ersn,
           SplitRows(T, ers, now, start, N, ersn),
           NEW t \in Times, NEW z \in LiveAt(N, ersn, t)
    PROVE  \E x \in LiveAt(T, ers, t) :
             /\ x \in T /\ x.id = z.id /\ x.price = z.price /\ x.amount = z.amount
             /\ IF t < start THEN StaysAs(T, ers, start, x, z) \/ OpensAs(T, ers, start, x, z)
                ELSE \/ StaysAs(T, ers, start, x, z) /\ start <= x.mts
                     \/ StartsAs(T, ers, start, x, z)
<1>1. IsSplit(T, ers, start, N) /\ z \in N /\ start \in Nat /\ t \in Nat
  BY SplitParts, TimesAre DEF LiveAt
<1>2. PICK x \in T : \/ StaysAs(T, ers, start, x, z)
                     \/ OpensAs(T, ers, start, x, z)
                     \/ StartsAs(T, ers, start, x, z)
  BY <1>1 DEF IsSplit
<1>3. x.id = z.id /\ x.price = z.price /\ x.amount = z.amount
  BY <1>2 DEF StaysAs, OpensAs, StartsAs
<1>4. CASE StaysAs(T, ers, start, x, z)
  <2>1. x \in LiveAt(T, ers, t) /\ (t < start \/ start <= x.mts)
    BY <1>1, <1>4, SplitLive
  <2>. QED
    BY <1>3, <1>4, <2>1
<1>5. CASE OpensAs(T, ers, start, x, z)
  <2>1. x \in LiveAt(T, ers, t) /\ t < start
    BY <1>1, <1>5, SplitLive
  <2>. QED
    BY <1>3, <1>5, <2>1
<1>6. CASE StartsAs(T, ers, start, x, z)
  <2>1. x \in LiveAt(T, ers, t) /\ start <= t
    BY <1>1, <1>6, SplitLive
  <2>2. ~(t < start)
    BY <1>1, <2>1
  <2>. QED
    BY <1>3, <1>6, <2>1, <2>2
<1>. QED
  BY <1>2, <1>4, <1>5, <1>6

LEMMA SplitOnce ==
    ASSUME NEW T, NEW ers, NEW now, NEW start, NEW N, NEW ersn,
           SplitRows(T, ers, now, start, N, ersn)
    PROVE  LiveOnce(N, ersn)
<1>1. LiveOnce(T, ers)
  BY SplitParts, LoadedOnce
<1>2. ASSUME NEW t \in Times, NEW a \in LiveAt(N, ersn, t), NEW b \in LiveAt(N, ersn, t), a.id = b.id
      PROVE  a = b
  <2>1. PICK x \in LiveAt(T, ers, t) :
          /\ x.id = a.id
          /\ IF t < start THEN StaysAs(T, ers, start, x, a) \/ OpensAs(T, ers, start, x, a)
             ELSE StaysAs(T, ers, start, x, a) \/ StartsAs(T, ers, start, x, a)
    BY SplitOrigin
  <2>2. PICK y \in LiveAt(T, ers, t) :
          /\ y.id = b.id
          /\ IF t < start THEN StaysAs(T, ers, start, y, b) \/ OpensAs(T, ers, start, y, b)
             ELSE StaysAs(T, ers, start, y, b) \/ StartsAs(T, ers, start, y, b)
    BY SplitOrigin
  <2>3. x = y
    BY <1>1, <1>2, <2>1, <2>2 DEF LiveOnce
  <2>. QED
    BY <2>1, <2>2, <2>3 DEF StaysAs, OpensAs, StartsAs
<1>. QED
  BY <1>2 DEF LiveOnce

Lost(T, ers, start) == Shown({r \in LiveAt(T, ers, start - 1) : r.next = Infinity})
SplitKeepsAt(T, ers, new, ersn, start) ==
    \A t \in Times :
        Shown(LiveAt(new, ersn, t)) =
          IF t < start \/ \E e \in DOMAIN ers : start < e /\ e <= t THEN Shown(LiveAt(T, ers, t))
          ELSE Shown(LiveAt(T, ers, t)) \ Lost(T, ers, start)

LEMMA SplitBooks ==
    ASSUME NEW T, NEW ers, NEW now, NEW start, NEW N, NEW ersn,
           SplitRows(T, ers, now, start, N, ersn)
    PROVE  SplitKeepsAt(T, ers, N, ersn, start)
<1>1. /\ T \subseteq Rows /\ ErasTyped(ers) /\ ErasTyped(ersn) /\ start \in Times /\ start \in Nat
      /\ start \notin DOMAIN ers /\ LivesApart(T, ers)
      /\ Splits(T, ers, now, start) /\ IsSplit(T, ers, start, N)
  BY SplitParts
<1>2. \A e \in DOMAIN ers : e \in Nat
  BY <1>1, EraNumbers
<1>3. start - 1 \in Times /\ start - 1 \in Nat
  <2>1. 1 \in DOMAIN ers
    BY <1>1 DEF ErasTyped
  <2>2. start # 1
    BY <1>1, <2>1
  <2>. QED
    BY <1>1, <2>2, TimesAre
<1>4. SameEra(ers, start - 1, start)
  <2>1. \A e \in DOMAIN ers : e <= start - 1 <=> e <= start
    BY <1>1, <1>2
  <2>. QED
    BY <2>1 DEF SameEra, ErasUpTo
<1>5. ASSUME NEW y \in LiveAt(T, ers, start - 1)
      PROVE  y \in T /\ SameEra(ers, y.mts, start) /\ y.mts < start
  <2>1. y \in T /\ SameEra(ers, y.mts, start - 1) /\ y.mts <= start - 1
    BY <1>1, <1>3, LiveIs
  <2>2. y.mts \in Nat
    BY <1>1, <2>1, RowTimes
  <2>. QED
    BY <1>1, <1>4, <2>1, <2>2, EraTransitive
<1>6. ASSUME NEW t \in Times
      PROVE  Shown(LiveAt(N, ersn, t)) =
               IF t < start \/ \E e \in DOMAIN ers : start < e /\ e <= t
               THEN Shown(LiveAt(T, ers, t))
               ELSE Shown(LiveAt(T, ers, t)) \ Lost(T, ers, start)
  <2> DEFINE L == LiveAt(N, ersn, t)
             M == LiveAt(T, ers, t)
             late == \E e \in DOMAIN ers : start < e /\ e <= t
  <2>1. t \in Nat
    BY TimesAre
  <2>2. ASSUME NEW z \in L
        PROVE  \E x \in M : x.id = z.id /\ x.price = z.price /\ x.amount = z.amount
    BY SplitOrigin
  <2>3. \A x \in T : x \in M <=> SameEra(ers, x.mts, t) /\ x.mts <= t /\ x.next > t
    BY <1>1, LiveIs
  <2>4. M \subseteq T
    BY DEF LiveAt
  <2>5. \A x \in T : x.mts \in Nat /\ x.next \in Int
    BY <1>1, RowTimes
  <2>6. ASSUME NEW x \in M,
               t < start \/ start <= x.mts \/ CrossesStart(ers, start, x)
        PROVE  \E z \in L : x.id = z.id /\ x.price = z.price /\ x.amount = z.amount
    <3>1. x \in T /\ x.mts \in Nat
      BY <2>4, <2>5
    <3>2. CASE ~CrossesStart(ers, start, x)
      <4>1. PICK z \in N : StaysAs(T, ers, start, x, z)
        BY <1>1, <3>1, <3>2 DEF IsSplit
      <4>2. z \in L
        BY <2>6, <3>1, <3>2, <4>1, SplitLive
      <4>. QED
        BY <4>1, <4>2 DEF StaysAs
    <3>3. CASE CrossesStart(ers, start, x) /\ t < start
      <4>1. PICK z \in N : OpensAs(T, ers, start, x, z)
        BY <1>1, <3>1, <3>3 DEF IsSplit
      <4>2. z \in L
        BY <3>1, <3>3, <4>1, SplitLive
      <4>. QED
        BY <4>1, <4>2 DEF OpensAs
    <3>4. CASE CrossesStart(ers, start, x) /\ ~(t < start)
      <4>1. PICK z \in N : StartsAs(T, ers, start, x, z)
        BY <1>1, <3>1, <3>4 DEF IsSplit
      <4>2. start <= t
        BY <1>1, <2>1, <3>4
      <4>3. z \in L
        BY <3>1, <4>1, <4>2, SplitLive
      <4>. QED
        BY <4>1, <4>3 DEF StartsAs
    <3>. QED
      BY <3>2, <3>3, <3>4
  <2>7. CASE t < start \/ late
    <3>1. ASSUME NEW x \in M
          PROVE  t < start \/ start <= x.mts
      <4>1. CASE late
        <5>1. PICK e \in DOMAIN ers : start < e /\ e <= t
          BY <4>1
        <5>2. SameEra(ers, x.mts, t) /\ x.mts \in Nat
          BY <2>3, <2>4, <2>5
        <5>3. e <= x.mts
          BY <5>1, <5>2 DEF SameEra, ErasUpTo
        <5>. QED
          BY <1>1, <1>2, <5>1, <5>2, <5>3
      <4>. QED
        BY <2>7, <4>1
    <3>2. \A x \in M : \E z \in L : x.id = z.id /\ x.price = z.price /\ x.amount = z.amount
      BY <2>6, <3>1
    <3> HIDE DEF L, M
    <3>3. Shown(L) = Shown(M)
      BY <2>2, <3>2 DEF Shown
    <3>. QED
      BY <2>7, <3>3 DEF L, M
  <2>8. CASE ~(t < start \/ late)
    <3>1. start <= t /\ SameEra(ers, start, t)
      <4>1. start <= t /\ \A e \in DOMAIN ers : e <= start <=> e <= t
        BY <1>1, <1>2, <2>1, <2>8
      <4>. QED
        BY <4>1 DEF SameEra, ErasUpTo
    <3>2. \A x \in M : /\ x \in T /\ SameEra(ers, x.mts, start) /\ x.mts <= t /\ x.next > t
                       /\ x.mts \in Nat /\ x.next \in Int
      BY <2>3, <2>4, <2>5, <3>1, EraTransitive
    <3>3. ASSUME NEW x \in M, ~(start <= x.mts), ~CrossesStart(ers, start, x)
          PROVE  x \in LiveAt(T, ers, start - 1) /\ x.next = Infinity
      <4>1. x.mts < start /\ start <= x.next /\ start - 1 < x.next /\ x.mts <= start - 1
        BY <1>1, <2>1, <3>1, <3>2, <3>3
      <4>2. x.next = Infinity
        BY <1>1, <3>2, <3>3, <4>1, CrossesIs
      <4>3. SameEra(ers, x.mts, start - 1)
        BY <1>4, <3>2, EraTransitive
      <4>4. x \in LiveAt(T, ers, start - 1)
        BY <1>1, <1>3, <3>2, <4>1, <4>3, LiveIs
      <4>. QED
        BY <4>2, <4>4
    <3> DEFINE F == {r \in LiveAt(T, ers, start - 1) : r.next = Infinity}
    <3>4. ASSUME NEW z \in L, NEW y \in F
          PROVE  y.id # z.id
      <4>1. SUFFICES ASSUME y.id = z.id PROVE FALSE
        OBVIOUS
      <4>2. PICK x \in M : /\ x.id = z.id
                           /\ \/ StaysAs(T, ers, start, x, z) /\ start <= x.mts
                              \/ StartsAs(T, ers, start, x, z)
        BY <2>8, SplitOrigin
      <4>3. y \in T /\ SameEra(ers, y.mts, start) /\ y.mts < start /\ y.next = Infinity
        BY <1>5
      <4>4. y.mts \in Nat /\ Infinity >= start /\ Infinity \in Nat
        BY <1>1, <2>5, <4>3, TimesAre
      <4>5. CASE start <= x.mts
        <5>1. y.mts < x.mts /\ SameEra(ers, y.mts, x.mts) /\ x.mts \in Times
          BY <1>1, <3>2, <4>3, <4>4, <4>5, EraTransitive, RowFields
        <5>2. y.next <= x.mts
          BY <1>1, <3>2, <4>1, <4>2, <4>3, <5>1 DEF LivesApart
        <5>. QED
          BY <4>3, <5>1, <5>2, TimesAre
      <4>6. CASE StartsAs(T, ers, start, x, z)
        <5>1. CrossesStart(ers, start, x)
          BY <4>6 DEF StartsAs
        <5>2. x = y
          BY <1>1, <3>2, <4>1, <4>2, <4>3, <4>4, <5>1, CrossesOnce
        <5>3. x.next # Infinity
          BY <1>1, <3>2, <5>1, CrossesIs
        <5>. QED
          BY <4>3, <5>2, <5>3
      <4>. QED
        BY <4>2, <4>5, <4>6
    <3>5. \A x \in M : x \in F \/ \E z \in L : x.id = z.id /\ x.price = z.price /\ x.amount = z.amount
      BY <2>6, <3>3
    <3> HIDE DEF L, M, F
    <3>6. Shown(L) = Shown(M) \ Shown(F)
      <4>1. ASSUME NEW s \in Shown(L) PROVE s \in Shown(M) /\ s \notin Shown(F)
        <5>1. PICK z \in L : s = << z.id, z.price, z.amount >>
          BY DEF Shown
        <5>2. s \in Shown(M)
          BY <2>2, <5>1 DEF Shown
        <5>3. s \notin Shown(F)
          BY <3>4, <5>1 DEF Shown
        <5>. QED
          BY <5>2, <5>3
      <4>2. ASSUME NEW s \in Shown(M), s \notin Shown(F) PROVE s \in Shown(L)
        <5>1. PICK x \in M : s = << x.id, x.price, x.amount >>
          BY DEF Shown
        <5>2. x \notin F
          BY <4>2, <5>1 DEF Shown
        <5>. QED
          BY <3>5, <5>1, <5>2 DEF Shown
      <4>. QED
        BY <4>1, <4>2
    <3>. QED
      BY <2>8, <3>6 DEF L, M, F, Lost
  <2>. QED
    BY <2>7, <2>8
<1>. QED
  BY <1>6 DEF SplitKeepsAt

SplitErasOf(T, ers, start) ==
    LET rows == SplitTable(T, ers, start)
    IN  [e \in DOMAIN ers \union {start} |->
           IF e = start THEN LastEvent({r \in rows : InNew(ers, start, r)})
           ELSE IF e = Max(ErasUpTo(ers, start)) THEN LastEvent({r \in rows : InOld(ers, start, r)})
           ELSE ers[e]]

\* Rows at the same times have the same last event.
LEMMA LastEventSame ==
    ASSUME NEW A, A \subseteq Rows, NEW B, B \subseteq Rows,
           \A a \in A : \E b \in B : b.mts = a.mts, \A b \in B : \E a \in A : a.mts = b.mts
    PROVE  LastEvent(A) = LastEvent(B)
<1>1. {r.mts : r \in A} = {r.mts : r \in B} /\ (A = {} <=> B = {})
  OBVIOUS
<1>. QED
  BY <1>1 DEF LastEvent

LEMMA SplitErasFollow ==
    ASSUME NEW T, NEW ers, NEW now, NEW start, NEW N, NEW ersn,
           SplitRows(T, ers, now, start, N, ersn),
           N = SplitTable(T, ers, start), ersn = SplitErasOf(T, ers, start)
    PROVE  ErasFollow(N, ersn)
<1> DEFINE old == Max(ErasUpTo(ers, start))
<1>1. /\ T \subseteq Rows /\ ErasTyped(ers) /\ ErasFollow(T, ers) /\ start \in Times /\ start \in Nat
      /\ start \notin DOMAIN ers /\ N \subseteq Rows
      /\ Splits(T, ers, now, start) /\ IsSplit(T, ers, start, N)
  BY SplitParts
<1>2. /\ DOMAIN ersn = DOMAIN ers \union {start}
      /\ ersn[start] = LastEvent({r \in N : InNew(ers, start, r)})
      /\ \A e \in DOMAIN ers : ersn[e] = IF e = old THEN LastEvent({r \in N : InOld(ers, start, r)})
                                         ELSE ers[e]
  BY <1>1 DEF SplitErasOf
<1>3. /\ old \in DOMAIN ers /\ old <= start /\ \A e \in DOMAIN ers : e <= start => e <= old
  <2>1. /\ old \in ErasUpTo(ers, start) /\ \A x \in ErasUpTo(ers, start) : x <= old
    BY <1>1, LatestEra
  <2>. QED
    BY <2>1 DEF ErasUpTo
<1>4. \A e \in DOMAIN ers : e \in Nat
  BY <1>1, EraNumbers
<1>5. \A r \in N : r.mts \in Nat
  BY <1>1, RowTimes
<1>6. \A r \in T : r.mts \in Nat
  BY <1>1, RowTimes
<1>7. \A r \in N : InNew(ers, start, r) <=> start <= r.mts /\ \A x \in DOMAIN ers : x <= r.mts <=> x <= start
  BY <1>1, <1>5, EraSides DEF SameEra, ErasUpTo
<1>8. \A r \in N : InOld(ers, start, r) <=> old <= r.mts /\ r.mts < start
  BY DEF InOld
<1> HIDE DEF old
<1>9. RowsOfEra(N, ersn, start) = {r \in N : InNew(ers, start, r)}
  BY <1>1, <1>2, <1>4, <1>5, <1>7 DEF RowsOfEra
<1>10. RowsOfEra(N, ersn, old) = {r \in N : InOld(ers, start, r)}
  BY <1>1, <1>2, <1>3, <1>4, <1>5, <1>8 DEF RowsOfEra
<1>11. ASSUME NEW e \in DOMAIN ers, e # old
       PROVE  ersn[e] = LastEvent(RowsOfEra(N, ersn, e))
  <2> DEFINE A == RowsOfEra(T, ers, e)
             B == RowsOfEra(N, ersn, e)
  <2>1. e \in Nat /\ old \in Nat /\ e # start
    BY <1>1, <1>3, <1>4
  <2>2. \A m \in Nat : (m >= e /\ \A x \in DOMAIN ersn : x > e => m < x)
                         <=> (m >= e /\ \A x \in DOMAIN ers : x > e => m < x)
    <3>1. TAKE m \in Nat
    <3>2. SUFFICES ASSUME m >= e, \A x \in DOMAIN ers : x > e => m < x, start > e
                   PROVE  m < start
      BY <1>2
    <3>3. e < old
      BY <1>1, <1>3, <1>4, <1>11, <2>1, <3>2
    <3>. QED
      BY <1>1, <1>3, <2>1, <3>2, <3>3
  <2>3. \A r \in N : r \in B <=> r.mts >= e /\ \A x \in DOMAIN ers : x > e => r.mts < x
    BY <1>5, <2>2 DEF RowsOfEra
  <2>4. \A r \in T : r \in A <=> r.mts >= e /\ \A x \in DOMAIN ers : x > e => r.mts < x
    BY DEF RowsOfEra
  <2>5. A \subseteq T /\ B \subseteq N
    BY DEF RowsOfEra
  <2>6. \A a \in A : \E b \in B : b.mts = a.mts
    <3>1. TAKE a \in A
    <3>2. \E z \in N : z.mts = a.mts
      BY <1>1, <2>5 DEF IsSplit, StaysAs, OpensAs
    <3>. QED
      BY <2>3, <2>4, <2>5, <3>2
  <2>7. \A b \in B : \E a \in A : a.mts = b.mts
    <3>1. TAKE b \in B
    <3>2. b.mts # start
      <4>1. SUFFICES ASSUME b.mts = start PROVE FALSE
        OBVIOUS
      <4>2. start >= e /\ \A x \in DOMAIN ers : x > e => start < x
        BY <2>3, <2>5, <4>1
      <4>. QED
        BY <1>1, <1>3, <1>11, <2>1, <4>2
    <3>3. PICK x \in T : StaysAs(T, ers, start, x, b) \/ OpensAs(T, ers, start, x, b)
      BY <1>1, <2>5, <3>2 DEF IsSplit, StartsAs
    <3>4. x.mts = b.mts
      BY <3>3 DEF StaysAs, OpensAs
    <3>. QED
      BY <2>3, <2>4, <2>5, <3>4
  <2>8. LastEvent(A) = LastEvent(B)
    <3>1. A \subseteq Rows /\ B \subseteq Rows
      BY <1>1, <2>5
    <3> HIDE DEF A, B
    <3>. QED
      BY <2>6, <2>7, <3>1, LastEventSame
  <2>. QED
    BY <1>1, <1>2, <1>11, <2>8 DEF ErasFollow
<1>12. \A e \in DOMAIN ersn : ersn[e] = LastEvent(RowsOfEra(N, ersn, e))
  <2>1. TAKE e \in DOMAIN ersn
  <2>2. CASE e = start
    BY <1>2, <1>9, <2>2
  <2>3. CASE e = old
    BY <1>2, <1>3, <1>10, <2>3
  <2>4. CASE e # start /\ e # old
    BY <1>2, <1>11, <2>4
  <2>. QED
    BY <2>2, <2>3, <2>4
<1>. QED
  BY <1>12 DEF ErasFollow

LEMMA InsertEraKeeps ==
    ASSUME RepairInv, NEW start \in Times, InsertEra(start)
    PROVE  /\ RepairInv'
           /\ SplitKeepsAt(level3, eras, level3', eras', start)
           /\ call' = Call("split", Max(ErasUpTo(eras, start)), start) /\ fix' = fix
<1>1. /\ Idle /\ call = NoCall /\ Loaded(level3, eras, clock) /\ clock \in 0..MaxTime
  BY DEF RepairInv, InsertEra, CanRepair
<1>2. /\ {e \in DOMAIN eras : e >= start} # {} /\ start \notin DOMAIN eras
  BY DEF InsertEra
<1>3. /\ level3' = SplitTable(level3, eras, start)
      /\ eras' = SplitErasOf(level3, eras, start)
      /\ call' = Call("split", Max(ErasUpTo(eras, start)), start)
      /\ clock' = clock /\ fix' = fix
  BY Zenon DEF InsertEra, Commit, Database, SplitErasOf, SplitTable, SplitNew, Renumber, NumberOver,
         FirstOver, Pred, Heads, CrossesStart, InOld, InNew
<1>4. Splits(level3, eras, clock, start)
  BY <1>1, <1>2 DEF Splits
<1>5. SplitsEras(eras, start, eras')
  BY <1>3 DEF SplitsEras, SplitErasOf
<1>6. SplitRows(level3, eras, clock, start, level3', eras')
  BY <1>3, <1>4, <1>5, SplitTableIs DEF SplitRows
<1>7. /\ Linked(level3', eras') /\ LiveOnce(level3', eras') /\ ErasFollow(level3', eras')
      /\ SplitKeepsAt(level3, eras, level3', eras', start)
  BY <1>3, <1>6, SplitLinked, SplitOnce, SplitErasFollow, SplitBooks
<1>8. level3' \subseteq Rows /\ ErasTyped(eras')
  BY <1>6, SplitParts
<1>9. DOMAIN eras' \subseteq Times /\ \A e \in DOMAIN eras' : eras'[e] \in Times \union {Null}
  BY <1>7, <1>8, ErasAreTimes DEF ErasTyped
<1>10. Repaired(level3, eras, "split")'
  BY <1>7, <1>8, <1>9 DEF Repaired
<1>11. call'.name = "split" /\ call' # NoCall
  BY <1>3 DEF Call, NoCall
<1>. QED
  BY <1>1, <1>3, <1>7, <1>10, <1>11 DEF RepairInv, Idle
-----------------------------------------------------------------------------
(***************************************************************************)
(* What a fix keeps: as many references to rows as rows to refer to.       *)
(***************************************************************************)
LEMMA LoadedLinked ==
    ASSUME NEW T, NEW ers, NEW now, Loaded(T, ers, now)
    PROVE  Linked(T, ers)
<1>1. /\ T \subseteq Rows /\ RowsSound(T) /\ ErasTyped(ers) /\ Followed(T, ers)
      /\ Preceded(T) /\ PrimaryKey(T)
  BY LoadedParts
<1> SUFFICES ASSUME NEW r \in T
             PROVE  LET before == {x \in T : PointsAt(x, r)}
                    IN  IF r.no = 1 THEN before = {}
                        ELSE \E x \in before : x.no = r.no - 1 /\ InEraOf(ers, r.mts, x.mts)
  BY DEF Linked
<1>2. ASSUME NEW x \in T, PointsAt(x, r)
      PROVE  /\ x.no = r.no - 1 /\ r.no # 1
             /\ InEraOf(ers, r.mts, x.mts)
  <2>1. x.nextNo # Null
    BY <1>1, <1>2, PointsIs DEF RowsSound, Null
  <2>2. PICK s \in T : PointsAt(x, s) /\ s.no = x.no + 1 /\ x.mts < s.mts
                       /\ SameEra(ers, x.mts, s.mts)
    BY <1>1, <2>1, LoadedFollower
  <2>3. s = r
    BY <1>1, <1>2, <2>2, PointsOnce
  <2>4. x.no \in Nat /\ x.no # 0 /\ x.mts \in Nat /\ r.mts \in Nat
    BY <1>1, RowTimes DEF RowsSound
  <2>5. r.no = x.no + 1 /\ x.mts < r.mts /\ SameEra(ers, x.mts, r.mts)
    BY <2>2, <2>3
  <2>6. r.mts \in Times
    BY <1>1, RowFields
  <2>. QED
    BY <1>1, <2>4, <2>5, <2>6, InEraIs
<1>3. CASE r.no = 1
  BY <1>2, <1>3
<1>4. CASE r.no # 1
  <2>1. PICK x \in T : PointsAt(x, r)
    BY <1>1, <1>4 DEF Preceded
  <2>. QED
    BY <1>2, <1>4, <2>1
<1>. QED
  BY <1>3, <1>4

LEMMA LoadedInRepair ==
    ASSUME NEW T, NEW ers, NEW now, Loaded(T, ers, now)
    PROVE  InRepair(T, ers)
<1>1. /\ T \subseteq Rows /\ RowsSound(T) /\ ErasTyped(ers) /\ Followed(T, ers)
      /\ Preceded(T) /\ PrimaryKey(T) /\ ErasFollow(T, ers)
  BY LoadedParts
<1>2. Numbered(T, ers)
  <2> SUFFICES ASSUME NEW r \in T
               PROVE  IF r.nextNo = Null THEN r.next \in {Infinity, MinusInfinity}
                      ELSE /\ r.nextNo = r.no + 1 /\ r.next \in Times
                           /\ SameEra(ers, r.mts, r.next) /\ Reached(T, ers, r.next)
    BY DEF Numbered
  <2>1. CASE r.nextNo = Null
    BY <1>1, <2>1 DEF Followed
  <2>2. CASE r.nextNo # Null
    <3>1. PICK s \in T : /\ s.mts = r.next /\ s.no = r.no + 1 /\ r.nextNo = s.no
                         /\ SameEra(ers, r.mts, s.mts) /\ r.next \in Times
      BY <1>1, <2>2, LoadedFollower
    <3>2. Reached(T, ers, r.next)
      BY <3>1, TimesAre, EraTransitive DEF Reached
    <3>. QED
      BY <2>2, <3>1, <3>2
  <2>. QED
    BY <2>1, <2>2
<1>3. Cardinality(Following(T)) <= Cardinality(Referring(T))
  <2> DEFINE f == [r \in Referring(T) |-> CHOOSE s \in T : PointsAt(r, s)]
             I == {f[r] : r \in Referring(T)}
  <2>1. IsFiniteSet(Referring(T))
    BY <1>1, FS_Subset DEF Referring, RowsSound
  <2>2. ASSUME NEW s \in Following(T)
        PROVE  s \in I
    <3>1. s \in T /\ s.no # 1 /\ s.no # 0
      BY <1>1, <2>2 DEF Following, RowsSound
    <3>2. PICK r \in T : PointsAt(r, s)
      BY <1>1, <3>1 DEF Preceded
    <3>3. r \in Referring(T)
      BY <3>1, <3>2, PointsIs DEF Referring, Null
    <3>4. f[r] = CHOOSE y \in T : PointsAt(r, y)
      BY <3>3
    <3>5. f[r] \in T /\ PointsAt(r, f[r])
      BY <3>1, <3>2, <3>4
    <3>6. f[r] = s
      BY <1>1, <3>1, <3>2, <3>5, PointsOnce
    <3>. QED
      BY <3>3, <3>6
  <2> HIDE DEF f
  <2>3. /\ IsFiniteSet(I) /\ Cardinality(I) \in Nat /\ Cardinality(Referring(T)) \in Nat
        /\ Cardinality(I) <= Cardinality(Referring(T))
    BY <2>1, ImageNumber
  <2>4. Following(T) \in SUBSET I
    BY <2>2
  <2>5. Cardinality(Following(T)) <= Cardinality(I) /\ Cardinality(Following(T)) \in Nat
    BY <2>3, <2>4, FS_Subset, FS_CardinalityType
  <2>. QED
    BY <2>3, <2>5
<1>. QED
  BY <1>1, <1>2, <1>3 DEF InRepair

\* If they all refer to rows, no row is left without one.
LEMMA RepairedLinked ==
    ASSUME NEW T, NEW ers, InRepair(T, ers), Consistent(T)
    PROVE  Linked(T, ers)
<1>1. /\ T \subseteq Rows /\ RowsSound(T) /\ ErasTyped(ers) /\ Numbered(T, ers)
      /\ PrimaryKey(T) /\ UniqueNext(T) /\ NextKey(T) /\ NextChecks(T)
      /\ Cardinality(Following(T)) <= Cardinality(Referring(T))
  BY DEF InRepair, RowsSound, Consistent
<1> DEFINE f == [r \in Referring(T) |-> CHOOSE s \in T : PointsAt(r, s)]
           I == {f[r] : r \in Referring(T)}
<1>2. ASSUME NEW r \in Referring(T)
      PROVE  f[r] \in Following(T) /\ PointsAt(r, f[r])
  <2>1. r \in T /\ r.nextNo # Null
    BY <1>2 DEF Referring
  <2>2. PICK s \in T : Key(s) = << r.next, r.id, r.nextNo >>
    BY <1>1, <2>1 DEF NextKey, Refers
  <2>3. PointsAt(r, s)
    BY <2>2 DEF PointsAt
  <2>4. f[r] = CHOOSE y \in T : PointsAt(r, y)
    BY <1>2
  <2>5. f[r] \in T /\ PointsAt(r, f[r])
    BY <2>2, <2>3, <2>4
  <2>6. r.nextNo = r.no + 1 /\ r.no \in Nat /\ r.no # 0
    BY <1>1, <2>1, RowTimes DEF Numbered, RowsSound
  <2>7. f[r].no = r.nextNo
    BY <2>5, PointsIs
  <2>8. f[r].no # 1
    BY <2>6, <2>7
  <2>. QED
    BY <2>5, <2>8 DEF Following
<1>3. ASSUME NEW x \in Referring(T), NEW y \in Referring(T), f[x] = f[y]
      PROVE  x = y
  <2>1. << x.next, x.id, x.nextNo >> = << y.next, y.id, y.nextNo >>
    BY <1>2, <1>3 DEF PointsAt
  <2>. QED
    BY <1>1, <2>1 DEF UniqueNext, Referring
<1>4. IsFiniteSet(Referring(T)) /\ IsFiniteSet(Following(T))
  BY <1>1, FS_Subset DEF Referring, Following, RowsSound
<1> HIDE DEF f
<1>5. Cardinality(I) = Cardinality(Referring(T))
  BY <1>3, <1>4, ImageNumber
<1>6. I \in SUBSET Following(T)
  BY <1>2
<1>7. /\ Cardinality(I) <= Cardinality(Following(T))
      /\ Cardinality(Following(T)) = Cardinality(I) => Following(T) = I
      /\ Cardinality(I) \in Nat /\ Cardinality(Following(T)) \in Nat
  <2>1. IsFiniteSet(I)
    BY <1>4, <1>6, FS_Subset
  <2>. QED
    BY <1>4, <1>6, <2>1, FS_Subset, FS_CardinalityType
<1>8. Following(T) = I
  BY <1>1, <1>5, <1>7
<1> SUFFICES ASSUME NEW r \in T
             PROVE  LET before == {x \in T : PointsAt(x, r)}
                    IN  IF r.no = 1 THEN before = {}
                        ELSE \E x \in before : x.no = r.no - 1 /\ InEraOf(ers, r.mts, x.mts)
  BY DEF Linked
<1>9. CASE r.no = 1
  <2>1. ASSUME NEW x \in T, PointsAt(x, r)
        PROVE  FALSE
    <3>1. x.nextNo = 1
      BY <1>9, <2>1, PointsIs
    <3>2. x.nextNo = x.no + 1 /\ x.no \in Nat /\ x.no # 0
      BY <1>1, <3>1, RowTimes DEF Numbered, RowsSound, Null
    <3>. QED
      BY <3>1, <3>2
  <2>. QED
    BY <1>9, <2>1
<1>10. CASE r.no # 1
  <2>1. PICK x \in Referring(T) : f[x] = r
    BY <1>8, <1>10 DEF Following
  <2>2. x \in T /\ x.nextNo # Null /\ PointsAt(x, r)
    BY <1>2, <2>1 DEF Referring
  <2>3. x.next = r.mts /\ x.nextNo = r.no
    BY <2>2, PointsIs
  <2>4. x.nextNo = x.no + 1 /\ SameEra(ers, x.mts, x.next)
    BY <1>1, <2>2 DEF Numbered
  <2>5. /\ x.no \in Nat /\ r.mts \in Nat /\ x.mts \in Nat /\ r.mts \in Times
        /\ r.mts # MinusInfinity
    BY <1>1, <2>2, RowTimes, RowFields, TimesAre
  <2>6. x.mts <= r.mts
    BY <1>1, <2>2, <2>3, <2>5 DEF NextChecks
  <2>7. InEraOf(ers, r.mts, x.mts)
    BY <1>1, <2>3, <2>4, <2>5, <2>6, InEraIs
  <2>8. x.no = r.no - 1
    BY <2>3, <2>4, <2>5
  <2>. QED
    BY <1>10, <2>2, <2>7, <2>8
<1>. QED
  BY <1>9, <1>10
LEMMA RollbackKeeps ==
    ASSUME RepairInv, ~Idle, Rollback, clock' = clock
    PROVE  RepairInv' /\ call'.name = "failed" /\ fix' = NotFixing
<1>1. /\ Loaded(saved.level3, saved.eras, clock) /\ clock \in 0..MaxTime
      /\ level3' = saved.level3 /\ eras' = saved.eras /\ fix' = NotFixing
      /\ call' = Call("failed", fix.from, fix.to)
  BY DEF RepairInv, Rollback
<1>2. /\ level3' \subseteq Rows /\ Linked(level3', eras') /\ PricesKept(level3')
      /\ LiveOnce(level3', eras') /\ ErasTyped(eras') /\ ErasFollow(level3', eras')
  BY <1>1, LoadedParts, LoadedLinked, LoadedOnce
<1>3. DOMAIN eras' \subseteq Times /\ \A e \in DOMAIN eras' : eras'[e] \in Times \union {Null}
  BY <1>2, ErasAreTimes DEF ErasTyped
<1>4. Repaired(level3, eras, "failed")'
  BY <1>2, <1>3 DEF Repaired
<1>5. call'.name = "failed" /\ call' # NoCall
  BY <1>1 DEF Call, NoCall
<1>. QED
  BY <1>1, <1>4, <1>5 DEF RepairInv, Idle

\* A period within an era.
LEMMA EraWithin ==
    ASSUME NEW ers, ErasTyped(ers), NEW from \in Int, NEW to \in Int, SameEra(ers, from, to),
           NEW a \in Int, NEW b \in Int, from <= a, a <= to, from <= b, b <= to
    PROVE  SameEra(ers, a, b)
<1>1. SameEra(ers, from, a) /\ SameEra(ers, from, b)
  BY EraBetween
<1>. QED
  BY <1>1 DEF SameEra

LEMMA PieceEnd ==
    ASSUME NEW a \in Times, NEW to \in Times, a <= to
    PROVE  LET end == Min({a + ProcessingInterval, to})
           IN  end \in Times /\ a <= end /\ end <= to
<1> DEFINE end == Min({a + ProcessingInterval, to})
<1>1. /\ a \in Nat /\ 1 <= a /\ to \in Nat /\ to <= MaxTime /\ MaxTime \in Nat
      /\ ProcessingInterval \in Nat
  BY TimesAre, RepairsAssumption
<1>2. end \in {a + ProcessingInterval, to} /\ end <= to
  BY <1>1, MinIsLeast
<1> HIDE DEF end
<1>3. end \in Nat /\ a <= end /\ end <= to
  BY <1>1, <1>2
<1>4. 1 <= end /\ end <= MaxTime
  BY <1>1, <1>3
<1>. QED
  BY <1>3, <1>4, TimesAre DEF end

LEMMA FixCrossedBooksKeeps ==
    ASSUME RepairInv, NEW from \in Times, NEW to \in Times, FixCrossedBooks(from, to)
    PROVE  RepairInv' /\ call' = call
<1> DEFINE end == Min({from + ProcessingInterval, to})
<1>1. /\ Idle /\ call = NoCall /\ Loaded(level3, eras, clock) /\ clock \in 0..MaxTime
  BY DEF RepairInv, FixCrossedBooks, CanRepair
<1>2. /\ from < to /\ SameEra(eras, from, to)
      /\ fix' = [ phase |-> "repair", start |-> from, crossed |-> from, from |-> from, to |-> to,
                  end |-> end, ok |-> TRUE, repairs |-> 0 ]
      /\ saved' = Tables(level3, eras)
      /\ clock' = clock /\ level3' = level3 /\ eras' = eras /\ call' = call
  BY DEF FixCrossedBooks, WithinEra, SameEra
<1>3. from \in Nat /\ to \in Nat /\ from <= to
  BY <1>2, TimesAre
<1>4. end \in Times /\ from <= end /\ end <= to
  BY <1>3, PieceEnd
<1> HIDE DEF end
<1>5. FixTyped'
  <2>1. fix' \in [ phase : {"repair", "merge"}, start : Times, crossed : Times, from : Times,
                   to : Times, end : Times, ok : BOOLEAN, repairs : Nat ]
    BY <1>2, <1>4
  <2>. QED
    BY <1>2, <1>3, <1>4, <2>1 DEF FixTyped
<1>6. InRepair(level3', eras')
  BY <1>1, <1>2, LoadedInRepair
<1>7. saved'.level3 = level3 /\ saved'.eras = eras
  BY <1>2 DEF Tables
<1>8. fix' # NotFixing
  <2>1. fix'.phase = "repair" /\ NotFixing.phase = "idle"
    BY <1>2 DEF NotFixing
  <2>. QED
    BY <2>1
<1>. QED
  BY <1>1, <1>2, <1>5, <1>6, <1>7, <1>8 DEF RepairInv, Idle
-----------------------------------------------------------------------------
(***************************************************************************)
(* A merge while level3 is fixed.                                          *)
(***************************************************************************)
Fixes(T, ers, from, to) ==
    /\ InRepair(T, ers)
    /\ SameEra(ers, from, to) /\ Reached(T, ers, to)
    /\ KeysApart(T, MergeNew(T, from, to))

LEMMA FixParts ==
    ASSUME NEW T, NEW ers, InRepair(T, ers)
    PROVE  /\ T \subseteq Rows /\ IsFiniteSet(T) /\ RowsSound(T) /\ ErasTyped(ers) /\ PrimaryKey(T)
           /\ Numbered(T, ers) /\ ErasFollow(T, ers)
           /\ Cardinality(Following(T)) <= Cardinality(Referring(T))
BY DEF InRepair, RowsSound

\* A row and where it points stay in its era, before a row of it.
LEMMA FixMoves ==
    ASSUME NEW T, NEW ers, NEW from \in Times, NEW to \in Times, Fixes(T, ers, from, to),
           NEW r \in T
    PROVE  LET c == MergedRow(T, from, to, r)
           IN  /\ c \in Rows /\ c.id = r.id /\ c.no = r.no /\ c.nextNo = r.nextNo
               /\ c.mts = MovesTo(T, from, to, r) /\ r.mts <= c.mts
               /\ SameEra(ers, r.mts, c.mts)
               /\ c.mts = r.mts \/ (from <= r.mts /\ r.mts < to /\ c.mts <= to)
<1> DEFINE c == MergedRow(T, from, to, r)
<1>1. T \subseteq Rows /\ ErasTyped(ers) /\ PrimaryKey(T) /\ SameEra(ers, from, to)
  BY FixParts DEF Fixes
<1>2. /\ c \in Rows /\ c.mts = MovesTo(T, from, to, r) /\ c.id = r.id /\ c.no = r.no
      /\ c.nextNo = r.nextNo
  BY <1>1, MergedRowIs
<1> HIDE DEF c
<1>3. r.mts <= c.mts /\ SameEra(ers, r.mts, c.mts)
  BY <1>1, <1>2, MovesForward
<1>4. c.mts = r.mts \/ (from <= r.mts /\ r.mts < to /\ c.mts <= to)
  BY <1>1, <1>2, MovesIs
<1>. QED
  BY <1>2, <1>3, <1>4 DEF c

LEMMA FixReaches ==
    ASSUME NEW T, NEW ers, NEW from \in Times, NEW to \in Times, Fixes(T, ers, from, to),
           NEW t \in Times, Reached(T, ers, t)
    PROVE  Reached(MergedTable(T, from, to), ers, t)
<1>1. PICK x \in T : SameEra(ers, x.mts, t) /\ t <= x.mts
  BY DEF Reached
<1> DEFINE c == MergedRow(T, from, to, x)
<1>2. c \in Rows /\ x.mts <= c.mts /\ SameEra(ers, x.mts, c.mts)
  BY FixMoves
<1>3. c \in MergedTable(T, from, to)
  BY DEF MergedTable
<1> HIDE DEF c
<1>4. t \in Nat /\ x.mts \in Nat /\ c.mts \in Nat
  BY <1>2, FixParts, RowTimes, TimesAre DEF Fixes
<1>5. SameEra(ers, c.mts, t) /\ t <= c.mts
  BY <1>1, <1>2, <1>4, EraTransitive
<1>. QED
  BY <1>3, <1>5 DEF Reached
LEMMA FixNumbered ==
    ASSUME NEW T, NEW ers, NEW from \in Times, NEW to \in Times, Fixes(T, ers, from, to)
    PROVE  Numbered(MergedTable(T, from, to), ers)
<1> DEFINE M == MergedTable(T, from, to)
<1>1. /\ T \subseteq Rows /\ ErasTyped(ers) /\ PrimaryKey(T) /\ Numbered(T, ers)
      /\ SameEra(ers, from, to) /\ Reached(T, ers, to)
  BY FixParts DEF Fixes
<1> SUFFICES ASSUME NEW r \in T
             PROVE  LET c == MergedRow(T, from, to, r)
                    IN  IF c.nextNo = Null THEN c.next \in {Infinity, MinusInfinity}
                        ELSE /\ c.nextNo = c.no + 1 /\ c.next \in Times
                             /\ SameEra(ers, c.mts, c.next) /\ Reached(M, ers, c.next)
  BY DEF Numbered, MergedTable
<1> DEFINE c == MergedRow(T, from, to, r)
           next == NextNow(T, from, to, r)
           moved == MovesTo(T, from, to, r)
<1>2. /\ c \in Rows /\ c.no = r.no /\ c.nextNo = r.nextNo /\ c.mts = moved
      /\ r.mts <= moved /\ SameEra(ers, r.mts, moved) /\ moved \in Times
  <2>1. /\ c \in Rows /\ c.no = r.no /\ c.nextNo = r.nextNo /\ c.mts = moved
        /\ r.mts <= c.mts /\ SameEra(ers, r.mts, c.mts)
    BY FixMoves
  <2> HIDE DEF c, moved
  <2>2. c.mts \in Times
    BY <2>1, RowFields
  <2>. QED
    BY <2>1, <2>2
<1>3. /\ r.nextNo = Null => c.next = next
      /\ r.nextNo # Null => Leads(T, from, to, r, next, r.nextNo, c.next)
  BY <1>1, MergedRowIs
<1>4. c \in M
  BY DEF MergedTable
<1> HIDE DEF c, M
<1>5. CASE r.nextNo = Null
  <2>1. r.next \in {Infinity, MinusInfinity} /\ ~IsFinite(r.next)
    BY <1>1, <1>5, TimesAre DEF Numbered, IsFinite
  <2>2. next = r.next
    BY <2>1 DEF NextNow, NextThen
  <2>. QED
    BY <1>2, <1>3, <1>5, <2>1, <2>2 DEF c, M
<1>6. CASE r.nextNo # Null
  <2>1. /\ r.nextNo = r.no + 1 /\ r.next \in Times
        /\ SameEra(ers, r.mts, r.next) /\ Reached(T, ers, r.next)
    BY <1>1, <1>6 DEF Numbered
  <2>2. next = r.next \/ next = moved \/ (next = to /\ from <= r.mts /\ r.mts < to)
    BY DEF NextNow, NextThen, Period
  <2>3. next \in Times /\ SameEra(ers, r.mts, next)
    <3>1. CASE next = r.next
      BY <2>1, <3>1
    <3>2. CASE next = moved
      BY <1>2, <3>2
    <3>3. CASE next = to /\ from <= r.mts /\ r.mts < to
      <4>1. from \in Int /\ to \in Int /\ r.mts \in Int /\ r.mts <= to
        BY <1>1, <3>3, RowTimes, TimesAre
      <4>. QED
        BY <1>1, <3>3, <4>1, EraBetween
    <3>. QED
      BY <2>2, <3>1, <3>2, <3>3
  <2>4. Reached(M, ers, next)
    <3>1. CASE next = r.next
      BY <2>1, <3>1, FixReaches DEF M
    <3>2. CASE next = moved
      <4>1. c.mts = next /\ next <= c.mts
        BY <1>2, <3>2, TimesAre
      <4>. QED
        BY <1>4, <4>1, EraTransitive DEF Reached
    <3>3. CASE next = to
      BY <1>1, <3>3, FixReaches DEF M
    <3>. QED
      BY <2>2, <3>1, <3>2, <3>3
  <2> HIDE DEF next, moved
  <2>5. c.next \in Times /\ SameEra(ers, r.mts, c.next) /\ Reached(M, ers, c.next)
    <3>1. CASE (\A x \in T : Key(x) # << next, r.id, r.nextNo >>) /\ c.next = next
      BY <2>3, <2>4, <3>1
    <3>2. CASE \E x \in T : Key(x) = << next, r.id, r.nextNo >> /\ c.next = MovesTo(T, from, to, x)
      <4>1. PICK x \in T : Key(x) = << next, r.id, r.nextNo >> /\ c.next = MovesTo(T, from, to, x)
        BY <3>2
      <4> DEFINE y == MergedRow(T, from, to, x)
      <4>2. y \in Rows /\ y.mts = c.next /\ SameEra(ers, x.mts, y.mts)
        BY <4>1, FixMoves
      <4>3. y \in M
        BY DEF MergedTable, M
      <4> HIDE DEF y
      <4>4. x.mts = next /\ y.mts \in Times
        BY <4>1, <4>2, RowFields DEF Key
      <4>5. SameEra(ers, r.mts, c.next)
        BY <2>3, <4>2, <4>4, EraTransitive
      <4>6. Reached(M, ers, c.next)
        BY <4>2, <4>3, <4>4, EraTransitive, TimesAre DEF Reached
      <4>. QED
        BY <4>2, <4>4, <4>5, <4>6
    <3>. QED
      BY <1>3, <1>6, <3>1, <3>2 DEF Leads
  <2>6. SameEra(ers, c.mts, c.next)
    BY <1>2, <2>5, EraTransitive DEF moved
  <2>. QED
    BY <1>2, <1>6, <2>1, <2>5, <2>6 DEF c, M
<1>. QED
  BY <1>5, <1>6 DEF c, M

LEMMA FixNumber ==
    ASSUME NEW T, NEW ers, NEW from \in Times, NEW to \in Times, Fixes(T, ers, from, to)
    PROVE  LET M == MergedTable(T, from, to)
           IN  /\ RowsSound(M) /\ PrimaryKey(M)
               /\ Cardinality(Following(M)) <= Cardinality(Referring(M))
<1> DEFINE M == MergedTable(T, from, to)
           f == [r \in T |-> MergedRow(T, from, to, r)]
<1>1. /\ T \subseteq Rows /\ IsFiniteSet(T) /\ RowsSound(T) /\ PrimaryKey(T)
      /\ KeysApart(T, MergeNew(T, from, to))
      /\ Cardinality(Following(T)) <= Cardinality(Referring(T))
  BY FixParts DEF Fixes
<1>2. ASSUME NEW r \in T
      PROVE  /\ f[r] \in Rows /\ f[r].id = r.id /\ f[r].no = r.no /\ f[r].nextNo = r.nextNo
             /\ f[r].mts = MovesTo(T, from, to, r)
  BY FixMoves
<1>3. M = {f[r] : r \in T}
  BY DEF MergedTable
<1> HIDE DEF f, M
<1>4. RowsSound(M)
  <2>1. IsFiniteSet(M)
    BY <1>1, <1>3, ImageNumber
  <2>. QED
    BY <1>1, <1>2, <1>3, <2>1 DEF RowsSound
<1>5. ASSUME NEW r \in T, NEW x \in T, Key(f[r]) = Key(f[x])
      PROVE  r = x
  <2>1. r.id = x.id /\ r.no = x.no /\ MovesTo(T, from, to, r) = MovesTo(T, from, to, x)
    BY <1>2, <1>5 DEF Key
  <2>. QED
    BY <1>1, <2>1, MergedKeys
<1>6. PrimaryKey(M)
  BY <1>3, <1>5 DEF PrimaryKey
<1>7. IsFiniteSet(Referring(T)) /\ IsFiniteSet(Following(T))
  BY <1>1, FS_Subset DEF Referring, Following
<1>8. Following(M) = {f[r] : r \in Following(T)} /\ Referring(M) = {f[r] : r \in Referring(T)}
  BY <1>2, <1>3 DEF Following, Referring
<1>9. /\ Cardinality(Following(M)) <= Cardinality(Following(T))
      /\ Cardinality(Following(M)) \in Nat /\ Cardinality(Following(T)) \in Nat
  BY <1>7, <1>8, ImageNumber
<1>10. /\ Cardinality(Referring(M)) = Cardinality(Referring(T))
       /\ Cardinality(Referring(T)) \in Nat
  <2> DEFINE R == Referring(T)
  <2>1. \A r, x \in R : f[r] = f[x] => r = x
    BY <1>5 DEF Referring
  <2>2. IsFiniteSet(R) /\ Referring(M) = {f[r] : r \in R}
    BY <1>7, <1>8
  <2> HIDE DEF R
  <2>3. Cardinality({f[r] : r \in R}) = Cardinality(R) /\ Cardinality(R) \in Nat
    BY <2>1, <2>2, ImageNumber
  <2>. QED
    BY <2>2, <2>3 DEF R
<1>11. Cardinality(Following(M)) <= Cardinality(Referring(M))
  BY <1>1, <1>9, <1>10
<1>. QED
  BY <1>4, <1>6, <1>11 DEF M

\* An era's last event stays: the episode that others move to is not later.
LEMMA FixEras ==
    ASSUME NEW T, NEW ers, NEW from \in Times, NEW to \in Times, Fixes(T, ers, from, to)
    PROVE  ErasFollow(MergedTable(T, from, to), ers)
<1> DEFINE M == MergedTable(T, from, to)
<1>1. /\ T \subseteq Rows /\ ErasTyped(ers) /\ ErasFollow(T, ers)
      /\ SameEra(ers, from, to) /\ Reached(T, ers, to)
  BY FixParts DEF Fixes
<1>2. M \subseteq Rows
  BY FixNumber DEF RowsSound
<1> SUFFICES ASSUME NEW e \in DOMAIN ers
             PROVE  ers[e] = LastEvent(RowsOfEra(M, ers, e))
  BY DEF ErasFollow
<1> DEFINE old == RowsOfEra(T, ers, e)
           new == RowsOfEra(M, ers, e)
           f(r) == MergedRow(T, from, to, r)
<1>3. old \subseteq T /\ new \subseteq M /\ ers[e] = LastEvent(old)
  BY <1>1 DEF RowsOfEra, ErasFollow
<1>4. ASSUME NEW r \in T
      PROVE  f(r) \in M /\ (f(r) \in new <=> r \in old)
  <2>1. f(r) \in M /\ SameEra(ers, r.mts, f(r).mts)
    BY FixMoves DEF MergedTable
  <2>2. ErasUpTo(ers, r.mts) = ErasUpTo(ers, f(r).mts)
    BY <2>1 DEF SameEra
  <2>. QED
    BY <1>1, <1>2, <2>1, <2>2, RowsOfEraIs
<1>5. \A y \in new : \E r \in old : y = f(r)
  <2>1. \A y \in M : \E r \in T : y = f(r)
    BY DEF MergedTable
  <2>. QED
    BY <1>3, <1>4, <2>1
<1> HIDE DEF old, new, M
<1>6. CASE old = {}
  <2>1. new = {}
    BY <1>5, <1>6
  <2>. QED
    BY <1>3, <1>6, <2>1 DEF LastEvent, new, M
<1>7. CASE old # {}
  <2>1. PICK z \in old : z.mts = ers[e] /\ \A x \in old : x.mts <= ers[e]
    BY <1>1, <1>3, <1>7, LastEventIs
  <2>2. z \in T /\ z.mts \in Nat
    BY <1>1, <1>3, <2>1, RowTimes
  <2>3. ASSUME NEW r \in old
        PROVE  f(r).mts <= z.mts /\ (r = z => f(r).mts = z.mts)
    <3>1. r \in T /\ r.mts \in Nat /\ r.mts <= z.mts /\ f(r) \in Rows
      BY <1>1, <1>3, <2>1, FixMoves, RowTimes
    <3>2. f(r).mts \in Nat
      BY <3>1, RowTimes
    <3>3. f(r).mts = r.mts \/ (from <= r.mts /\ r.mts < to /\ f(r).mts <= to)
      BY <3>1, FixMoves
    <3>4. ASSUME from <= r.mts, r.mts < to
          PROVE  to <= z.mts
      <4>1. PICK x \in T : SameEra(ers, x.mts, to) /\ to <= x.mts
        BY <1>1 DEF Reached
      <4>2. from \in Int /\ to \in Int /\ r.mts <= to /\ x.mts \in Nat
        BY <1>1, <3>1, <3>4, RowTimes, TimesAre
      <4>3. SameEra(ers, r.mts, to)
        BY <1>1, <3>1, <3>4, <4>2, EraBetween
      <4>4. ErasUpTo(ers, x.mts) = ErasUpTo(ers, r.mts)
        BY <4>1, <4>3 DEF SameEra
      <4>5. x \in old
        BY <1>1, <3>1, <4>4, RowsOfEraIs DEF old
      <4>. QED
        BY <2>1, <2>2, <4>1, <4>2, <4>5
    <3>5. to \in Nat
      BY TimesAre
    <3>. QED
      BY <2>2, <3>1, <3>2, <3>3, <3>4, <3>5
  <2>4. f(z) \in new /\ f(z).mts = ers[e]
    BY <1>4, <2>1, <2>2, <2>3
  <2>5. \A y \in new : y.mts <= ers[e]
    BY <1>5, <2>1, <2>3
  <2>6. new \subseteq Rows
    BY <1>2, <1>3
  <2>7. ers[e] = LastEvent(new)
    BY <2>4, <2>5, <2>6, LastEventIs
  <2>. QED
    BY <2>7 DEF new, M
<1>. QED
  BY <1>6, <1>7

LEMMA FixKeeps ==
    ASSUME NEW T, NEW ers, NEW from \in Times, NEW to \in Times, Fixes(T, ers, from, to)
    PROVE  InRepair(MergedTable(T, from, to), ers)
<1>1. ErasTyped(ers)
  BY FixParts DEF Fixes
<1>. QED
  BY <1>1, FixNumbered, FixNumber, FixEras DEF InRepair
-----------------------------------------------------------------------------
(***************************************************************************)
(* The crossed books of a period are in it, where a row stands.            *)
(***************************************************************************)
StandsIn(T, from, to, t) == t \in Times /\ from <= t /\ t <= to /\ \E x \in T : x.mts = t

LEMMA PeriodsWithin ==
    ASSUME NEW T, T \subseteq Rows, NEW ers, ErasTyped(ers), ErasFollow(T, ers),
           NEW from \in Times, NEW to \in Times, NEW p \in PeriodsWithinEras(ers, from, to)
    PROVE  p.start \in Nat /\ p.end \in Nat /\ from <= p.start /\ p.end <= to
<1> DEFINE last(e)  == IF ers[e] = Null THEN e ELSE ers[e]
           start(e) == Max({e, from})
           bounds(e) == {last(e), to} \union {x \in DOMAIN ers : x > e}
<1>1. PICK e \in DOMAIN ers : p = [start |-> start(e), end |-> Min(bounds(e))]
  BY DEF PeriodsWithinEras
<1>2. p.start = start(e) /\ p.end = Min(bounds(e))
  BY <1>1
<1>3. \A x \in DOMAIN ers : x \in Nat /\ 1 <= x /\ x <= MaxTime
  BY EraNumbers
<1>4. from \in Nat /\ from <= MaxTime /\ to \in Nat /\ MaxTime \in Nat
  BY TimesAre
<1>5. p.start \in Nat /\ from <= p.start
  <2>1. {e, from} \in SUBSET (0..MaxTime)
    BY <1>3, <1>4
  <2>2. start(e) \in {e, from} /\ \A y \in {e, from} : y <= start(e)
    BY <1>4, <2>1, MaxIsGreatest
  <2> HIDE DEF start
  <2>. QED
    BY <1>2, <1>3, <1>4, <2>2
<1>6. p.end \in Nat /\ p.end <= to
  <2>1. last(e) \in Nat
    <3>1. ers[e] \in Times \union {Null}
      BY ErasAreTimes
    <3>. QED
      BY <1>3, <3>1, TimesAre
  <2> HIDE DEF last
  <2>2. bounds(e) \in SUBSET Nat /\ bounds(e) # {} /\ to \in bounds(e)
    BY <1>3, <1>4, <2>1
  <2> HIDE DEF bounds
  <2>3. Min(bounds(e)) \in bounds(e) /\ \A y \in bounds(e) : Min(bounds(e)) <= y
    BY <2>2, MinIsLeast
  <2>. QED
    BY <1>2, <2>2, <2>3
<1>. QED
  BY <1>5, <1>6

LEMMA Level1Within ==
    ASSUME NEW T, T \subseteq Rows, NEW ers, ErasTyped(ers), ErasFollow(T, ers),
           NEW from \in Times, NEW to \in Times, NEW row \in Level1(T, ers, from, to)
    PROVE  StandsIn(T, from, to, row.mts)
<1> DEFINE periods == PeriodsWithinEras(ers, from, to)
           times   == {t \in {r.mts : r \in T} : \E p \in periods : t \in p.start..p.end}
           line(t, s) == [ mts |-> t,
                           bid |-> IF s.bid.price = Null THEN s.ask.price ELSE s.bid.price,
                           ask |-> IF s.ask.price = Null THEN s.bid.price ELSE s.ask.price ]
<1>1. \E t \in times : row = line(t, Spread(LiveAt(T, ers, t)))
  BY DEF Level1
<1>2. PICK t \in times : row.mts = t
  BY <1>1
<1>3. PICK p \in periods : t \in p.start..p.end
  BY <1>2
<1> HIDE DEF periods
<1>4. p.start \in Nat /\ p.end \in Nat /\ from <= p.start /\ p.end <= to
  BY <1>3, PeriodsWithin DEF periods
<1>5. PICK x \in T : x.mts = t
  BY <1>2
<1>6. t \in Times /\ from \in Nat /\ to \in Nat /\ t \in Nat
  BY <1>5, RowFields, TimesAre
<1>7. from <= t /\ t <= to
  BY <1>3, <1>4, <1>6
<1>. QED
  BY <1>2, <1>5, <1>6, <1>7 DEF StandsIn

LEMMA CrossedWithin ==
    ASSUME NEW T, T \subseteq Rows, NEW ers, ErasTyped(ers), ErasFollow(T, ers),
           NEW from \in Times, NEW to \in Times, NEW b \in CrossedBooks(T, ers, from, to)
    PROVE  /\ StandsIn(T, from, to, b.first_crossed)
           /\ b.next_uncrossed # Null => StandsIn(T, from, to, b.next_uncrossed)
<1> DEFINE rows == Level1(T, ers, from, to)
           before(r)  == {x \in rows : x.mts < r.mts}
           lag(r)     == {x \in before(r) : \A y \in before(r) : y.mts <= x.mts}
           crossed(r) == r.bid > r.ask
           cuts       == {r \in rows :
                           /\ r.bid # Null
                           /\ IF \E x \in lag(r) : x.bid # Null
                              THEN \E x \in lag(r) : crossed(x) # crossed(r)
                              ELSE crossed(r)}
           next(r)    == {x.mts : x \in {x \in cuts : x.mts > r.mts}}
<1>1. \E r \in cuts : b = [ first_crossed  |-> r.mts,
                            next_uncrossed |-> IF next(r) = {} THEN Null ELSE Min(next(r)) ]
  BY DEF CrossedBooks
<1>2. \A x \in cuts : StandsIn(T, from, to, x.mts)
  BY Level1Within
<1> HIDE DEF cuts
<1> DEFINE then(r) == IF next(r) = {} THEN Null ELSE Min(next(r))
<1>0. \E r \in cuts : b = [first_crossed |-> r.mts, next_uncrossed |-> then(r)]
  BY <1>1
<1> HIDE DEF then
<1>3. PICK r \in cuts : b.first_crossed = r.mts /\ b.next_uncrossed = then(r)
  BY <1>0
<1>4. ASSUME next(r) # {}
      PROVE  StandsIn(T, from, to, Min(next(r)))
  <2>1. \A t \in next(r) : StandsIn(T, from, to, t)
    BY <1>2
  <2> HIDE DEF next
  <2>2. next(r) \in SUBSET Nat
    BY <2>1, TimesAre DEF StandsIn
  <2>3. Min(next(r)) \in next(r)
    BY <1>4, <2>2, MinIsLeast
  <2>. QED
    BY <2>1, <2>3
<1>. QED
  BY <1>2, <1>3, <1>4 DEF then
-----------------------------------------------------------------------------
(***************************************************************************)
(* Orders are removed at the time of their book's latest event.            *)
(***************************************************************************)
Deletion(r, at) == Event(at, r.id, r.price, r.amount, MinusInfinity)
EndedAt(X, at) == {Ended(x, at) : x \in X}
DeletedAt(X, at) == {Continued(x, at, x.price, x.amount, MinusInfinity) : x \in X}

Removing(T, ers, t, at, X) ==
    /\ InRepair(T, ers) /\ t \in Times
    /\ at = Max({r.mts : r \in LiveAt(T, ers, t)})
    /\ X \subseteq LiveAt(T, ers, t) /\ X # {} /\ \A x \in X : x.next = Infinity
    /\ \A d \in Deletions(X, at) : ~(Cardinality(Previous(T, ers, d)) > 1)

\* All of them are open, in one era, and one row of the instant is there.
RemovedAt(T, ers, at, X) ==
    /\ at \in Times /\ \E y \in T : y.mts = at
    /\ X \subseteq T /\ X # {}
    /\ \A x \in X : SameEra(ers, x.mts, at) /\ x.next = Infinity /\ x.nextNo = Null

LEMMA LatestOfBook ==
    ASSUME NEW T, NEW ers, NEW t, NEW at, NEW X, Removing(T, ers, t, at, X)
    PROVE  /\ RemovedAt(T, ers, at, X)
           /\ \A r \in LiveAt(T, ers, t) : r.mts <= at
<1> DEFINE book == LiveAt(T, ers, t)
           M == {r.mts : r \in book}
<1>1. /\ T \subseteq Rows /\ ErasTyped(ers) /\ Numbered(T, ers)
      /\ t \in Times /\ at = Max(M) /\ X \subseteq book /\ X # {}
      /\ \A x \in X : x.next = Infinity
  BY FixParts DEF Removing
<1>2. \A r \in book : r \in T /\ SameEra(ers, r.mts, t)
  BY <1>1, LiveIs
<1>3. M \in SUBSET (0..MaxTime)
  <2>1. \A r \in book : r.mts \in 0..MaxTime
    BY <1>1, <1>2, RowTimes, TimesAre
  <2>. QED
    BY <2>1
<1>4. M # {}
  BY <1>1
<1>5. at \in M /\ \A y \in M : y <= at
  BY <1>1, <1>3, <1>4, MaxIsGreatest, TimesAre
<1>6. PICK y \in book : y.mts = at
  BY <1>5
<1>7. at \in Times /\ y \in T
  BY <1>1, <1>2, <1>6, RowFields
<1>8. \A x \in X : SameEra(ers, x.mts, at)
  BY <1>1, <1>2, <1>6, EraTransitive
<1>9. \A x \in X : x.nextNo = Null
  BY <1>1, <1>2, TimesAre DEF Numbered
<1>. QED
  BY <1>1, <1>2, <1>5, <1>6, <1>7, <1>8, <1>9 DEF RemovedAt

LEMMA DeletionsAre ==
    ASSUME NEW X, X \subseteq Rows, NEW at
    PROVE  Deletions(X, at) = {Deletion(x, at) : x \in X}
<1>1. ASSUME NEW r \in X
      PROVE  [r EXCEPT !.mts = at, !.no = Null, !.next = MinusInfinity, !.nextNo = Null,
                       !.pmts = Null, !.pno = Null] = Deletion(r, at)
  <2> DEFINE none == Null
             gone == MinusInfinity
             e == [r EXCEPT !.mts = at, !.no = none, !.next = gone, !.nextNo = none,
                            !.pmts = none, !.pno = none]
             R == [mts : {at}, id : Orders, no : {none}, price : Prices, amount : Amounts,
                   next : {gone}, nextNo : {none}, pmts : {none}, pno : {none}]
  <2>1. r \in Rows
    OBVIOUS
  <2> HIDE DEF none, gone
  <2>2. e \in R
    BY <2>1 DEF Rows
  <2>3. e.id = r.id /\ e.price = r.price /\ e.amount = r.amount
    BY <2>1 DEF Rows
  <2> HIDE DEF e
  <2>4. e = [mts |-> at, id |-> r.id, no |-> none, price |-> r.price, amount |-> r.amount,
             next |-> gone, nextNo |-> none, pmts |-> none, pno |-> none]
    BY <2>2, <2>3
  <2>. QED
    BY <2>4 DEF e, Deletion, Event, none, gone
<1>. QED
  BY <1>1 DEF Deletions

RemovedRows(T, ers, at, X) ==
    InsertRows(T, ers, Deletions(X, at)) = (T \ X) \union EndedAt(X, at) \union DeletedAt(X, at)

LEMMA RemovesRows ==
    ASSUME NEW T, NEW ers, NEW t, NEW at, NEW X, Removing(T, ers, t, at, X)
    PROVE  RemovedRows(T, ers, at, X)
<1> DEFINE d == [x \in X |-> Deletion(x, at)]
           a == [x \in X |-> Ended(x, at)]
           b == [x \in X |-> Continued(x, at, x.price, x.amount, MinusInfinity)]
<1>1. /\ T \subseteq Rows /\ IsFiniteSet(T) /\ ErasTyped(ers)
      /\ at \in Times /\ X \subseteq T /\ X \subseteq LiveAt(T, ers, t)
      /\ \A x \in X : SameEra(ers, x.mts, at) /\ x.next = Infinity
      /\ \A x \in X : x.mts <= at
      /\ \A y \in Deletions(X, at) : ~(Cardinality(Previous(T, ers, y)) > 1)
  <2>1. RemovedAt(T, ers, at, X) /\ \A r \in LiveAt(T, ers, t) : r.mts <= at
    BY LatestOfBook
  <2>2. T \subseteq Rows /\ IsFiniteSet(T) /\ ErasTyped(ers)
    BY FixParts DEF Removing
  <2>. QED
    BY <2>1, <2>2 DEF Removing, RemovedAt
<1>2. Deletions(X, at) = {d[x] : x \in X}
  BY <1>1, DeletionsAre
<1>3. ASSUME NEW x \in X
      PROVE  d[x].id = x.id /\ d[x].pmts = Null /\ d[x].mts = at
  BY DEF Deletion, Event
<1>4. ASSUME NEW x \in X
      PROVE  Previous(T, ers, d[x]) = {x}
  <2> DEFINE P == Previous(T, ers, d[x])
  <2>1. IsFiniteSet(P) /\ Cardinality(P) \in Nat
    BY <1>1, FS_Subset, FS_CardinalityType DEF Previous
  <2>2. x \in P
    <3>1. x.mts \in Int /\ x.mts <= at /\ x.next > at
      BY <1>1, RowTimes, TimesAre
    <3>2. InEraOf(ers, at, x.mts)
      BY <1>1, <3>1, InEraIs
    <3>. QED
      BY <1>1, <1>3, <3>1, <3>2 DEF Previous
  <2>3. ~(Cardinality(P) > 1)
    BY <1>1, <1>2
  <2> HIDE DEF P
  <2>4. Cardinality(P) # 0
    BY <2>1, <2>2, FS_EmptySet
  <2>5. Cardinality(P) = 1
    BY <2>1, <2>3, <2>4
  <2>6. \E z : P = {z}
    BY <2>1, <2>5, FS_Singleton
  <2>7. P = {x}
    BY <2>2, <2>6
  <2>. QED
    BY <2>7 DEF P
<1>5. ASSUME NEW x \in X, NEW y \in X, x.id = y.id
      PROVE  x = y
  <2>1. d[x].id = d[y].id /\ d[x].mts = d[y].mts
    BY <1>3, <1>5
  <2>2. Previous(T, ers, d[x]) = Previous(T, ers, d[y])
    BY <2>1 DEF Previous
  <2>. QED
    BY <1>4, <2>2
<1>6. ASSUME NEW x \in X, NEW P
      PROVE  Continue(P, x, d[x]) = (P \ {x}) \union {a[x], b[x]}
  <2>1. Continue(P, x, Event(at, x.id, x.price, x.amount, MinusInfinity))
          = (P \ {x}) \union {Ended(x, at), Continued(x, at, x.price, x.amount, MinusInfinity)}
    BY ContinueIs
  <2>. QED
    BY <2>1 DEF Deletion
<1>7. EndedAt(X, at) = {a[x] : x \in X} /\ DeletedAt(X, at) = {b[x] : x \in X}
  BY DEF EndedAt, DeletedAt
<1> HIDE DEF d, a, b
<1>8. Inserts(T, ers, X, d, a, b)
  BY <1>1, <1>3, <1>4, <1>5, <1>6 DEF Inserts
<1>9. InsertsTo(T, ers, X, d, a, b)
  BY <1>8, InsertInstantIs
<1>10. InsertRows(T, ers, {d[x] : x \in X}) = InsertInstant(T, ers, {d[x] : x \in X})
  <2>1. \A r \in {d[x] : x \in X} : r.mts = at
    BY <1>3
  <2>. QED
    BY <1>1, <2>1, InsertsAtOnce
<1>. QED
  BY <1>2, <1>7, <1>9, <1>10 DEF InsertsTo, RemovedRows

\* The era remembers a later event already.
LEMMA RemovesInEra ==
    ASSUME NEW T, NEW ers, NEW at, NEW X, InRepair(T, ers), RemovedAt(T, ers, at, X)
    PROVE  UpdateEras(ers, Deletions(X, at)) = ers
<1> DEFINE D == Deletions(X, at)
           last == Max(ErasUpTo(ers, at))
           rows == RowsOfEra(T, ers, last)
<1>1. T \subseteq Rows /\ ErasTyped(ers) /\ ErasFollow(T, ers) /\ at \in Times
  BY FixParts DEF RemovedAt
<1>2. D # {} /\ \A d \in D : d.mts = at
  <2>1. X \subseteq Rows /\ X # {}
    BY <1>1 DEF RemovedAt
  <2>2. D = {Deletion(x, at) : x \in X}
    BY <2>1, DeletionsAre
  <2>3. \A x \in X : Deletion(x, at).mts = at
    BY DEF Deletion, Event
  <2>. QED
    BY <2>1, <2>2, <2>3
<1> HIDE DEF D
<1>3. /\ last \in ErasUpTo(ers, at) /\ \A x \in ErasUpTo(ers, at) : x <= last
      /\ last \in DOMAIN ers
  BY <1>1, LatestEra
<1>4. UpdateEras(ers, D) = [e \in DOMAIN ers |-> IF e = last /\ ers[e] < at THEN at ELSE ers[e]]
  BY <1>1, <1>2, UpdateErasIs
<1>5. PICK y \in T : y.mts = at
  BY DEF RemovedAt
<1> HIDE DEF last
<1>6. y \in rows
  BY <1>1, <1>3, <1>5, RowsOfEraIs
<1>7. rows \subseteq Rows /\ ers[last] = LastEvent(rows)
  BY <1>1, <1>3 DEF ErasFollow, RowsOfEra
<1> HIDE DEF rows
<1>8. PICK z \in rows : z.mts = ers[last] /\ \A x \in rows : x.mts <= ers[last]
  <2>1. PICK v : v = ers[last]
    OBVIOUS
  <2>2. \E z \in rows : z.mts = v /\ \A x \in rows : x.mts <= v
    BY <1>6, <1>7, <2>1, LastEventIs
  <2>. QED
    BY <2>1, <2>2
<1>9. at <= ers[last] /\ ers[last] \in Nat /\ at \in Nat
  BY <1>1, <1>5, <1>6, <1>7, <1>8, RowTimes, TimesAre
<1>10. ~(ers[last] < at)
  BY <1>9
<1>11. UpdateEras(ers, D) = [e \in DOMAIN ers |-> ers[e]]
  BY <1>4, <1>10
<1>12. ers = [e \in DOMAIN ers |-> ers[e]]
  BY <1>1 DEF ErasTyped
<1>13. UpdateEras(ers, D) = ers
  BY <1>11, <1>12
<1>. QED
  BY <1>13 DEF D
Ending(T, ers, at, X, new) ==
    /\ InRepair(T, ers) /\ RemovedAt(T, ers, at, X)
    /\ new = (T \ X) \union EndedAt(X, at) \union DeletedAt(X, at)

EndedFields(x, a, at) ==
    /\ a \in Rows /\ a.mts = x.mts /\ a.id = x.id /\ a.no = x.no
    /\ a.next = at /\ a.nextNo = x.no + 1
DeletedFields(x, b, at) ==
    /\ b \in Rows /\ b.mts = at /\ b.no = x.no + 1
    /\ b.next = MinusInfinity /\ b.nextNo = Null

LEMMA EndingFields ==
    ASSUME NEW x \in Rows, NEW at \in Times
    PROVE  /\ EndedFields(x, Ended(x, at), at)
           /\ DeletedFields(x, Continued(x, at, x.price, x.amount, MinusInfinity), at)
<1> DEFINE k == x.no + 1
<1>1. /\ x.id \in Orders /\ x.no \in Nat /\ x.price \in Prices /\ x.amount \in Amounts
      /\ x.pmts \in Times /\ x.pno \in Nat /\ k \in Nat
  BY RowFields
<1> HIDE DEF k
<1>2. EndedFields(x, Ended(x, at), at)
  <2> DEFINE a == [x EXCEPT !.next = at, !.nextNo = k]
  <2>1. a \in Rows /\ a.mts = x.mts /\ a.id = x.id /\ a.no = x.no /\ a.next = at /\ a.nextNo = k
    BY <1>1 DEF Rows
  <2>2. Ended(x, at) = a
    BY DEF Ended, k
  <2> HIDE DEF a
  <2>. QED
    BY <2>1, <2>2 DEF EndedFields, k
<1>3. DeletedFields(x, Continued(x, at, x.price, x.amount, MinusInfinity), at)
  <2> DEFINE amount == IF x.price = 0 THEN x.amount ELSE x.amount
             pmts == IF x.price = x.price THEN x.pmts ELSE at
             pno == IF x.price = x.price THEN x.pno ELSE x.no + 1
             price == PriceNow(x, x.price)
             b == [ mts |-> at, id |-> x.id, no |-> k, price |-> price, amount |-> amount,
                    next |-> MinusInfinity, nextNo |-> Null, pmts |-> x.pmts, pno |-> x.pno ]
  <2>1. price = x.price /\ amount = x.amount
    BY DEF PriceNow
  <2>2. Continued(x, at, x.price, x.amount, MinusInfinity) = b
    BY <2>1 DEF Continued, k
  <2>3. price \in Prices /\ amount \in Amounts
    BY <1>1, <2>1
  <2> HIDE DEF price, amount
  <2>4. b \in Rows
    BY <1>1, <2>3 DEF Rows, Null
  <2>5. b.mts = at /\ b.no = k /\ b.next = MinusInfinity /\ b.nextNo = Null
    OBVIOUS
  <2> HIDE DEF b
  <2>. QED
    BY <2>2, <2>4, <2>5 DEF DeletedFields, k
<1>. QED
  BY <1>2, <1>3

\* What becomes of the rows.
EndingRow(X, at, x) == IF x \in X THEN Ended(x, at) ELSE x

LEMMA EndingIs ==
    ASSUME NEW T, NEW ers, NEW at, NEW X, NEW new, Ending(T, ers, at, X, new)
    PROVE  /\ \A x \in T : /\ EndingRow(X, at, x) \in new /\ EndingRow(X, at, x).mts = x.mts
                           /\ EndingRow(X, at, x).no = x.no /\ Key(EndingRow(X, at, x)) = Key(x)
           /\ \A y \in new : (\E x \in T : y = EndingRow(X, at, x)) \/ y \in DeletedAt(X, at)
           /\ \A y \in DeletedAt(X, at) : \E x \in X : DeletedFields(x, y, at)
<1>1. /\ T \subseteq Rows /\ X \subseteq T /\ at \in Times
      /\ new = (T \ X) \union EndedAt(X, at) \union DeletedAt(X, at)
  BY FixParts DEF Ending, RemovedAt
<1>2. ASSUME NEW x \in T
      PROVE  /\ EndingRow(X, at, x) \in new /\ EndingRow(X, at, x).mts = x.mts
             /\ EndingRow(X, at, x).no = x.no /\ Key(EndingRow(X, at, x)) = Key(x)
  <2>1. CASE x \in X
    <3>1. EndedFields(x, Ended(x, at), at)
      BY <1>1, EndingFields
    <3>2. Ended(x, at) \in EndedAt(X, at)
      BY <2>1 DEF EndedAt
    <3>. QED
      BY <1>1, <2>1, <3>1, <3>2 DEF EndedFields, EndingRow, Key
  <2>2. CASE x \notin X
    BY <1>1, <2>2 DEF EndingRow
  <2>. QED
    BY <2>1, <2>2
<1>3. ASSUME NEW y \in new
      PROVE  (\E x \in T : y = EndingRow(X, at, x)) \/ y \in DeletedAt(X, at)
  <2>1. CASE y \in T \ X
    BY <2>1 DEF EndingRow
  <2>2. CASE y \in EndedAt(X, at)
    BY <1>1, <2>2 DEF EndedAt, EndingRow
  <2>. QED
    BY <1>1, <2>1, <2>2
<1>4. \A y \in DeletedAt(X, at) : \E x \in X : DeletedFields(x, y, at)
  <2>1. \A x \in X : DeletedFields(x, Continued(x, at, x.price, x.amount, MinusInfinity), at)
    BY <1>1, EndingFields
  <2>. QED
    BY <2>1 DEF DeletedAt
<1>. QED
  BY <1>2, <1>3, <1>4

LEMMA EndingSound ==
    ASSUME NEW T, NEW ers, NEW at, NEW X, NEW new, Ending(T, ers, at, X, new)
    PROVE  RowsSound(new) /\ SameTimes(T, new)
<1>1. /\ T \subseteq Rows /\ IsFiniteSet(T) /\ RowsSound(T) /\ X \subseteq T /\ at \in Times
      /\ new = (T \ X) \union EndedAt(X, at) \union DeletedAt(X, at)
      /\ \E y \in T : y.mts = at
  BY FixParts DEF Ending, RemovedAt
<1>2. IsFiniteSet(new)
  <2> DEFINE a == [x \in X |-> Ended(x, at)]
             b == [x \in X |-> Continued(x, at, x.price, x.amount, MinusInfinity)]
  <2>1. IsFiniteSet(X) /\ IsFiniteSet(T \ X)
    BY <1>1, FS_Subset
  <2>2. EndedAt(X, at) = {a[x] : x \in X} /\ DeletedAt(X, at) = {b[x] : x \in X}
    BY DEF EndedAt, DeletedAt
  <2> HIDE DEF a, b
  <2>3. IsFiniteSet(EndedAt(X, at)) /\ IsFiniteSet(DeletedAt(X, at))
    BY <2>1, <2>2, ImageNumber
  <2>4. IsFiniteSet((T \ X) \union EndedAt(X, at))
    BY <2>1, <2>3, FS_Union
  <2>. QED
    BY <1>1, <2>3, <2>4, FS_Union
<1>3. ASSUME NEW y \in new
      PROVE  y \in Rows /\ y.no # 0 /\ \E x \in T : x.mts = y.mts
  <2>1. CASE \E x \in T : y = EndingRow(X, at, x)
    <3>1. PICK x \in T : y = EndingRow(X, at, x)
      BY <2>1
    <3>2. y.no = x.no /\ y.mts = x.mts
      BY <3>1, EndingIs
    <3>3. y \in Rows
      <4>1. EndedFields(x, Ended(x, at), at)
        BY <1>1, EndingFields
      <4>. QED
        BY <1>1, <3>1, <4>1 DEF EndedFields, EndingRow
    <3>. QED
      BY <1>1, <3>2, <3>3 DEF RowsSound
  <2>2. CASE y \in DeletedAt(X, at)
    <3>1. PICK x \in X : DeletedFields(x, y, at)
      BY <2>2, EndingIs
    <3>2. x.no \in Nat /\ y.no = x.no + 1
      BY <1>1, <3>1, RowTimes DEF DeletedFields
    <3>. QED
      BY <1>1, <3>1, <3>2 DEF DeletedFields
  <2>. QED
    BY <2>1, <2>2, EndingIs
<1>4. SameTimes(T, new)
  BY <1>3, EndingIs DEF SameTimes
<1>. QED
  BY <1>2, <1>3, <1>4 DEF RowsSound

LEMMA EndingNumbered ==
    ASSUME NEW T, NEW ers, NEW at, NEW X, NEW new, Ending(T, ers, at, X, new)
    PROVE  Numbered(new, ers)
<1>1. /\ T \subseteq Rows /\ Numbered(T, ers) /\ X \subseteq T /\ at \in Times
      /\ \A x \in X : SameEra(ers, x.mts, at)
      /\ \E y \in T : y.mts = at
  BY FixParts DEF Ending, RemovedAt
<1>2. ASSUME NEW t, Reached(T, ers, t)
      PROVE  Reached(new, ers, t)
  <2>1. PICK x \in T : SameEra(ers, x.mts, t) /\ t <= x.mts
    BY <1>2 DEF Reached
  <2>2. EndingRow(X, at, x) \in new /\ EndingRow(X, at, x).mts = x.mts
    BY EndingIs
  <2>. QED
    BY <2>1, <2>2 DEF Reached
<1>3. Reached(T, ers, at)
  BY <1>1, EraTransitive, TimesAre DEF Reached
<1> SUFFICES ASSUME NEW y \in new
             PROVE  IF y.nextNo = Null THEN y.next \in {Infinity, MinusInfinity}
                    ELSE /\ y.nextNo = y.no + 1 /\ y.next \in Times
                         /\ SameEra(ers, y.mts, y.next) /\ Reached(new, ers, y.next)
  BY DEF Numbered
<1>4. CASE y \in DeletedAt(X, at)
  BY <1>4, EndingIs DEF DeletedFields
<1>5. CASE \E x \in T : y = EndingRow(X, at, x)
  <2>1. PICK x \in T : y = EndingRow(X, at, x)
    BY <1>5
  <2>2. CASE x \notin X
    <3>1. y = x
      BY <2>1, <2>2 DEF EndingRow
    <3>2. CASE y.nextNo = Null
      BY <1>1, <3>1, <3>2 DEF Numbered
    <3>3. CASE y.nextNo # Null
      <4>1. /\ y.nextNo = y.no + 1 /\ y.next \in Times
            /\ SameEra(ers, y.mts, y.next) /\ Reached(T, ers, y.next)
        BY <1>1, <3>1, <3>3 DEF Numbered
      <4>. QED
        BY <1>2, <3>3, <4>1
    <3>. QED
      BY <3>2, <3>3
  <2>3. CASE x \in X
    <3>1. y = Ended(x, at)
      BY <2>1, <2>3 DEF EndingRow
    <3>2. /\ y.mts = x.mts /\ y.no = x.no /\ y.next = at /\ y.nextNo = x.no + 1
      BY <1>1, <3>1, EndingFields DEF EndedFields
    <3>3. y.nextNo # Null
      BY <1>1, <3>2, RowTimes DEF Null
    <3>. QED
      BY <1>1, <1>2, <1>3, <2>3, <3>2, <3>3
  <2>. QED
    BY <2>2, <2>3
<1>. QED
  BY <1>4, <1>5, EndingIs

\* Every order that ends refers to its deletion, which is one row more.
LEMMA EndingNumber ==
    ASSUME NEW T, NEW ers, NEW at, NEW X, NEW new, Ending(T, ers, at, X, new)
    PROVE  Cardinality(Following(new)) <= Cardinality(Referring(new))
<1>1. /\ T \subseteq Rows /\ IsFiniteSet(T) /\ PrimaryKey(T) /\ X \subseteq T /\ at \in Times
      /\ \A x \in X : x.nextNo = Null
      /\ Cardinality(Following(T)) <= Cardinality(Referring(T))
  BY FixParts DEF Ending, RemovedAt
<1> DEFINE f == [x \in T |-> EndingRow(X, at, x)]
           b == [x \in X |-> Continued(x, at, x.price, x.amount, MinusInfinity)]
           R == Referring(T) \union X
           F == Following(T)
           FI == {f[x] : x \in F}
           RI == {f[x] : x \in R}
           D == {b[x] : x \in X}
<1>2. IsFiniteSet(X) /\ IsFiniteSet(Referring(T)) /\ IsFiniteSet(F)
  BY <1>1, FS_Subset DEF Referring, Following
<1>3. /\ IsFiniteSet(R) /\ Cardinality(R) = Cardinality(Referring(T)) + Cardinality(X)
      /\ Cardinality(Referring(T)) \in Nat /\ Cardinality(X) \in Nat
  <2>1. Referring(T) \intersect X = {}
    BY <1>1 DEF Referring
  <2>2. Cardinality(Referring(T) \intersect X) = 0
    BY <2>1, FS_EmptySet
  <2>3. Cardinality(Referring(T)) \in Nat /\ Cardinality(X) \in Nat
    BY <1>2, FS_CardinalityType
  <2>4. /\ IsFiniteSet(R)
        /\ Cardinality(R) = Cardinality(Referring(T)) + Cardinality(X)
                            - Cardinality(Referring(T) \intersect X)
    BY <1>2, FS_Union
  <2>. QED
    BY <2>2, <2>3, <2>4
<1>4. R \subseteq T /\ F \subseteq T
  BY <1>1 DEF Referring, Following
<1>5. \A x, y \in R : f[x] = f[y] => x = y
  <2>1. ASSUME NEW x \in R, NEW y \in R, f[x] = f[y]
        PROVE  x = y
    <3>1. x \in T /\ y \in T
      BY <1>4
    <3>2. Key(f[x]) = Key(x) /\ Key(f[y]) = Key(y)
      BY <3>1, EndingIs
    <3>. QED
      BY <1>1, <2>1, <3>1, <3>2 DEF PrimaryKey
  <2>. QED
    BY <2>1
<1>6. ASSUME NEW x \in R
      PROVE  f[x] \in Referring(new)
  <2>1. f[x] = EndingRow(X, at, x) /\ f[x] \in new
    BY <1>4, EndingIs
  <2>2. f[x].nextNo # Null
    <3>1. CASE x \in X
      <4>1. f[x].nextNo = x.no + 1
        BY <1>1, <2>1, <3>1, EndingFields DEF EndedFields, EndingRow
      <4>2. x.no \in Nat
        BY <1>1, <3>1, RowTimes
      <4>. QED
        BY <4>1, <4>2 DEF Null
    <3>2. CASE x \notin X
      BY <2>1, <3>2 DEF EndingRow, Referring
    <3>. QED
      BY <3>1, <3>2
  <2>. QED
    BY <2>1, <2>2 DEF Referring
<1>7. ASSUME NEW y \in Following(new)
      PROVE  y \in FI \union D
  <2>1. y \in new /\ y.no # 1
    BY DEF Following
  <2>2. CASE y \in DeletedAt(X, at)
    BY <2>2 DEF DeletedAt
  <2>3. CASE \E x \in T : y = EndingRow(X, at, x)
    <3>1. PICK x \in T : y = EndingRow(X, at, x)
      BY <2>3
    <3>2. y.no = x.no
      BY <3>1, EndingIs
    <3>3. x \in F /\ y = f[x]
      BY <2>1, <3>1, <3>2 DEF Following
    <3>. QED
      BY <3>3
  <2>. QED
    BY <2>1, <2>2, <2>3, EndingIs
<1>8. IsFiniteSet(new)
  BY EndingSound DEF RowsSound
<1>9. IsFiniteSet(Referring(new))
  BY <1>8, FS_Subset DEF Referring
<1> HIDE DEF f, b, R, F
<1>10. Cardinality(RI) = Cardinality(R)
  BY <1>3, <1>5, ImageNumber
<1>11. /\ IsFiniteSet(FI) /\ Cardinality(FI) <= Cardinality(F) /\ Cardinality(FI) \in Nat
       /\ Cardinality(F) \in Nat
  BY <1>2, ImageNumber
<1>12. /\ IsFiniteSet(D) /\ Cardinality(D) <= Cardinality(X) /\ Cardinality(D) \in Nat
  BY <1>2, ImageNumber
<1>13. RI \in SUBSET Referring(new) /\ Following(new) \in SUBSET (FI \union D)
  BY <1>6, <1>7
<1> HIDE DEF FI, RI, D
<1>14. Cardinality(RI) <= Cardinality(Referring(new)) /\ Cardinality(Referring(new)) \in Nat
  BY <1>9, <1>13, FS_Subset, FS_CardinalityType
<1>15. /\ IsFiniteSet(FI \union D)
       /\ Cardinality(FI \union D) = Cardinality(FI) + Cardinality(D) - Cardinality(FI \intersect D)
       /\ Cardinality(FI \intersect D) \in Nat
  <2>1. IsFiniteSet(FI \intersect D)
    BY <1>11, FS_Subset
  <2>. QED
    BY <1>11, <1>12, <2>1, FS_Union, FS_CardinalityType
<1>16. /\ Cardinality(Following(new)) <= Cardinality(FI \union D)
       /\ Cardinality(Following(new)) \in Nat
  <2>1. IsFiniteSet(Following(new))
    BY <1>13, <1>15, FS_Subset
  <2>. QED
    BY <1>13, <1>15, <2>1, FS_Subset, FS_CardinalityType
<1>17. Cardinality(F) <= Cardinality(Referring(T))
  BY <1>1 DEF F
<1>. QED
  BY <1>3, <1>10, <1>11, <1>12, <1>14, <1>15, <1>16, <1>17

LEMMA EndingKeeps ==
    ASSUME NEW T, NEW ers, NEW at, NEW X, NEW new, Ending(T, ers, at, X, new), PrimaryKey(new)
    PROVE  InRepair(new, ers)
<1>1. T \subseteq Rows /\ ErasTyped(ers) /\ ErasFollow(T, ers)
  BY FixParts DEF Ending
<1>2. RowsSound(new) /\ SameTimes(T, new)
  BY EndingSound
<1>3. ErasFollow(new, ers)
  BY <1>1, <1>2, ErasFollowSame DEF RowsSound
<1>. QED
  BY <1>1, <1>2, <1>3, EndingNumbered, EndingNumber DEF InRepair
-----------------------------------------------------------------------------
(***************************************************************************)
(* The steps of a fix.                                                     *)
(***************************************************************************)
FixRecords == [ phase : {"repair", "merge"}, start : Times, crossed : Times, from : Times,
            to : Times, end : Times, ok : BOOLEAN, repairs : Nat ]

LEMMA FixingIs ==
    ASSUME RepairInv, ~Idle
    PROVE  /\ call = NoCall /\ clock \in 0..MaxTime
           /\ Loaded(saved.level3, saved.eras, clock) /\ eras = saved.eras
           /\ FixTyped /\ InRepair(level3, eras)
           /\ fix \in FixRecords
           /\ fix.from \in Times /\ fix.to \in Times /\ fix.start \in Times /\ fix.end \in Times
           /\ fix.crossed \in Times /\ fix.ok \in BOOLEAN /\ fix.repairs \in Nat
           /\ fix.from <= fix.start /\ fix.start <= fix.end /\ fix.end <= fix.to
           /\ fix.from <= fix.crossed
           /\ SameEra(eras, fix.from, fix.to)
<1>1. /\ call = NoCall /\ clock \in 0..MaxTime
      /\ Loaded(saved.level3, saved.eras, clock) /\ eras = saved.eras
      /\ FixTyped /\ InRepair(level3, eras)
  BY DEF RepairInv
<1>2. /\ fix \in FixRecords
      /\ fix.from <= fix.start /\ fix.start <= fix.end /\ fix.end <= fix.to
      /\ fix.from <= fix.crossed
      /\ SameEra(eras, fix.from, fix.to)
  BY <1>1 DEF FixTyped, FixRecords
<1>3. /\ fix.from \in Times /\ fix.to \in Times /\ fix.start \in Times /\ fix.end \in Times
      /\ fix.crossed \in Times /\ fix.ok \in BOOLEAN /\ fix.repairs \in Nat
  BY <1>2 DEF FixRecords
<1>. QED
  BY <1>1, <1>2, <1>3

\* A step of a fix leaves the eras alone and its own record typed.
LEMMA FixStepKeeps ==
    ASSUME RepairInv, ~Idle, clock' = clock, saved' = saved, eras' = eras, call' = call,
           InRepair(level3', eras), fix' \in FixRecords,
           fix'.from = fix.from, fix'.to = fix.to,
           fix'.from <= fix'.start, fix'.start <= fix'.end, fix'.end <= fix'.to,
           fix'.from <= fix'.crossed
    PROVE  RepairInv' /\ fix' # NotFixing
<1>1. /\ call = NoCall /\ clock \in 0..MaxTime
      /\ Loaded(saved.level3, saved.eras, clock) /\ eras = saved.eras
      /\ SameEra(eras, fix.from, fix.to)
  BY FixingIs
<1>2. FixTyped'
  BY <1>1 DEF FixTyped, FixRecords
<1>3. fix' # NotFixing
  <2>1. fix'.phase \in {"repair", "merge"} /\ NotFixing.phase = "idle"
    BY DEF FixRecords, NotFixing
  <2>. QED
    BY <2>1
<1>4. InRepair(level3, eras)'
  BY <1>1
<1>. QED
  BY <1>1, <1>2, <1>3, <1>4 DEF RepairInv, Idle

FixSays == call' = call \/ call'.name \in {"failed", "fix"}

\* A repair is made at t, where the books are looked at again.
LEMMA FixRepairKeeps ==
    ASSUME RepairInv, ~Idle, clock' = clock, saved' = saved, eras' = eras, call' = call,
           InRepair(level3', eras), NEW t \in Times, fix.from <= t, NEW ok \in BOOLEAN,
           fix' = [fix EXCEPT !.crossed = t, !.repairs = fix.repairs + 1, !.ok = ok]
    PROVE  RepairInv'
<1>1. /\ fix \in FixRecords /\ fix.repairs \in Nat
      /\ fix.from <= fix.start /\ fix.start <= fix.end /\ fix.end <= fix.to
  BY FixingIs
<1>2. fix.repairs + 1 \in Nat
  BY <1>1
<1> DEFINE n == fix.repairs + 1
<1> HIDE DEF n
<1>3. fix' = [fix EXCEPT !.crossed = t, !.repairs = n, !.ok = ok] /\ n \in Nat
  BY <1>2 DEF n
<1>4. /\ fix' \in FixRecords
      /\ fix'.from = fix.from /\ fix'.start = fix.start /\ fix'.end = fix.end /\ fix'.to = fix.to
      /\ fix'.crossed = t
  BY <1>1, <1>3 DEF FixRecords
<1>. QED
  BY <1>1, <1>4, FixStepKeeps

LEMMA DeleteOrdersKeeps ==
    ASSUME RepairInv, ~Idle, clock' = clock, saved' = saved,
           NEW t \in Times, fix.from <= t, NEW X, X \subseteq LiveAt(level3, eras, t), X # {},
           \A x \in X : x.next = Infinity,
           DeleteOrders(X, t, LiveAt(level3, eras, t))
    PROVE  RepairInv' /\ FixSays
<1> DEFINE at == Max({r.mts : r \in LiveAt(level3, eras, t)})
           new == InsertRows(level3, eras, Deletions(X, at))
           fails == \/ \E d \in Deletions(X, at) : Cardinality(Previous(level3, eras, d)) > 1
                    \/ ~PrimaryKey(new)
<1>1. /\ fails => Rollback
      /\ ~fails => /\ level3' = new /\ eras' = UpdateEras(eras, Deletions(X, at))
                   /\ fix' = [fix EXCEPT !.crossed = t, !.repairs = @ + 1]
                   /\ call' = call
  BY DEF DeleteOrders
<1> HIDE DEF at, new
<1>2. CASE fails
  BY <1>1, <1>2, RollbackKeeps DEF FixSays
<1>3. CASE ~fails
  <2>1. InRepair(level3, eras)
    BY FixingIs
  <2>2. Removing(level3, eras, t, at, X)
    BY <1>3, <2>1 DEF Removing, at
  <2>3. RemovedAt(level3, eras, at, X) /\ RemovedRows(level3, eras, at, X)
    BY <2>2, LatestOfBook, RemovesRows
  <2>4. Ending(level3, eras, at, X, new)
    BY <2>1, <2>3 DEF Ending, RemovedRows, new
  <2>5. InRepair(level3', eras)
    BY <1>1, <1>3, <2>4, EndingKeeps
  <2>6. eras' = eras
    BY <1>1, <1>3, <2>1, <2>3, RemovesInEra
  <2>7. /\ fix' = [fix EXCEPT !.crossed = t, !.repairs = fix.repairs + 1, !.ok = fix.ok]
        /\ fix.ok \in BOOLEAN
    <3>1. fix \in FixRecords /\ fix.ok \in BOOLEAN
      BY FixingIs
    <3> DEFINE n == fix.repairs + 1
    <3>2. fix' = [fix EXCEPT !.crossed = t, !.repairs = n]
      BY <1>1, <1>3
    <3> HIDE DEF n
    <3>3. fix' = [fix EXCEPT !.crossed = t, !.repairs = n, !.ok = fix.ok]
      BY <3>1, <3>2 DEF FixRecords
    <3>. QED
      BY <3>1, <3>3 DEF n
  <2>. QED
    BY <1>1, <1>3, <2>5, <2>6, <2>7, FixRepairKeeps DEF FixSays
<1>. QED
  BY <1>2, <1>3

LEMMA MergeToNextTakerKeeps ==
    ASSUME RepairInv, ~Idle, clock' = clock, saved' = saved,
           NEW t \in Times, fix.from <= t, MergeToNextTaker(t, LiveAt(level3, eras, t))
    PROVE  RepairInv' /\ FixSays
<1> DEFINE book == LiveAt(level3, eras, t)
           moves == TakersMove(book)
           to == Max(moves)
           db == MergeEpisodes(Database, t, to)
<1>1. /\ moves # {}
      /\ db.raised => Rollback
      /\ ~db.raised => /\ level3' = db.level3 /\ eras' = eras /\ call' = call
                       /\ fix' = [fix EXCEPT !.crossed = t, !.repairs = @ + 1, !.ok = @ /\ db.ok]
  BY DEF MergeToNextTaker
<1>2. InRepair(level3, eras) /\ fix.ok \in BOOLEAN
  BY FixingIs
<1>3. level3 \subseteq Rows /\ ErasTyped(eras) /\ Numbered(level3, eras)
  BY <1>2, FixParts
<1>4. \A v \in moves : v \in Times /\ SameEra(eras, t, v) /\ Reached(level3, eras, v)
  <2>1. ASSUME NEW r \in book, IsFinite(r.next)
        PROVE  r.next \in Times /\ SameEra(eras, t, r.next) /\ Reached(level3, eras, r.next)
    <3>1. r \in level3 /\ SameEra(eras, r.mts, t)
      BY <1>3, LiveIs
    <3>2. r.next \in Times /\ r.next \notin {Infinity, MinusInfinity}
      BY <2>1, TimesAre DEF IsFinite
    <3>3. SameEra(eras, r.mts, r.next) /\ Reached(level3, eras, r.next)
      BY <1>3, <3>1, <3>2 DEF Numbered
    <3>. QED
      BY <3>1, <3>2, <3>3, EraTransitive
  <2>. QED
    BY <2>1 DEF TakersMove
<1> HIDE DEF moves
<1>5. to \in moves
  <2>1. moves \in SUBSET (0..MaxTime)
    BY <1>4, TimesAre
  <2>. QED
    BY <1>1, <2>1, MaxIsGreatest, TimesAre
<1>6. to \in Times /\ SameEra(eras, t, to) /\ Reached(level3, eras, to)
  BY <1>4, <1>5
<1> HIDE DEF to
<1>7. /\ db.level3 = MergedTable(level3, t, to)
      /\ db.raised = (FALSE \/ ~KeysApart(level3, MergeNew(level3, t, to)))
  <2>1. /\ Database.level3 = level3 /\ Database.raised = FALSE
        /\ Database = [level3 |-> Database.level3, eras |-> Database.eras,
                       ok |-> Database.ok, raised |-> Database.raised]
    BY DEF Database
  <2>. QED
    BY <2>1, MergeEpisodesIs
<1> HIDE DEF db
<1>8. CASE db.raised
  BY <1>1, <1>8, RollbackKeeps DEF FixSays
<1>9. CASE ~db.raised
  <2>1. Fixes(level3, eras, t, to)
    BY <1>2, <1>6, <1>7, <1>9 DEF Fixes
  <2>2. InRepair(level3', eras)
    BY <1>1, <1>6, <1>7, <1>9, <2>1, FixKeeps
  <2> DEFINE ok == fix.ok /\ db.ok
  <2>3. ok \in BOOLEAN
    OBVIOUS
  <2>4. fix' = [fix EXCEPT !.crossed = t, !.repairs = fix.repairs + 1, !.ok = ok]
    BY <1>1, <1>9
  <2> HIDE DEF ok
  <2>5. RepairInv'
    BY <1>1, <1>9, <2>2, <2>3, <2>4, FixRepairKeeps
  <2>. QED
    BY <1>1, <1>9, <2>5 DEF FixSays
<1>. QED
  BY <1>8, <1>9
-----------------------------------------------------------------------------
(***************************************************************************)
(* The merges of a piece, one after the other.                             *)
(***************************************************************************)
MergeBook(db, b) ==
    [ MergeEpisodes(db, b.first_crossed, b.next_uncrossed) EXCEPT
        !.raised = @ \/ b.next_uncrossed > b.first_crossed + MaxChange ]
MergeAt(db, books, t) ==
    LET here == {b \in books : b.first_crossed = t}
    IN  IF here = {} THEN db ELSE MergeBook(db, CHOOSE b \in here : TRUE)
MergesUpTo(g, n, db, books) ==
    g = [t \in 0..n |-> IF t = 0 THEN db ELSE MergeAt(g[t - 1], books, t)]

LEMMA MergesUpToExists ==
    ASSUME NEW db, NEW books, NEW n \in Nat
    PROVE  \E g : MergesUpTo(g, n, db, books)
<1> DEFINE T == {m \in Nat : ~ \E g : MergesUpTo(g, m, db, books)}
<1>1. SUFFICES ASSUME T # {} PROVE FALSE
  OBVIOUS
<1>2. PICK m \in T : \A k \in T : m <= k
  BY <1>1, NatMinimum
<1>3. m \in Nat /\ ~ \E g : MergesUpTo(g, m, db, books)
  OBVIOUS
<1>4. CASE m = 0
  <2> DEFINE h == [t \in 0..0 |-> db]
  <2>1. h = [t \in 0..0 |-> IF t = 0 THEN db ELSE MergeAt(h[t - 1], books, t)]
    OBVIOUS
  <2>. QED
    BY <1>3, <1>4, <2>1 DEF MergesUpTo
<1>5. CASE m # 0
  <2>1. m - 1 \in Nat /\ m - 1 \notin T
    BY <1>2, <1>3, <1>5
  <2>2. PICK g : MergesUpTo(g, m - 1, db, books)
    BY <2>1
  <2> DEFINE h == [t \in 0..m |-> IF t = m THEN MergeAt(g[m - 1], books, m) ELSE g[t]]
  <2>3. \A t \in 0..m : h[t] = IF t = 0 THEN db ELSE MergeAt(h[t - 1], books, t)
    <3>1. TAKE t \in 0..m
    <3>2. CASE t = m
      <4>1. m - 1 \in 0..m /\ m - 1 # m
        BY <1>3, <1>5
      <4>2. h[t - 1] = g[m - 1]
        BY <3>2, <4>1
      <4>. QED
        BY <1>5, <3>2, <4>2
    <3>3. CASE t # m
      <4>1. t \in 0..(m - 1)
        BY <1>3, <3>3
      <4>2. g[t] = IF t = 0 THEN db ELSE MergeAt(g[t - 1], books, t)
        BY <2>2, <4>1 DEF MergesUpTo
      <4>3. t # 0 => t - 1 \in 0..m /\ t - 1 # m
        BY <1>3, <4>1
      <4>4. t # 0 => h[t - 1] = g[t - 1]
        BY <4>3
      <4>5. h[t] = g[t]
        BY <3>3
      <4>. QED
        BY <4>2, <4>4, <4>5
    <3>. QED
      BY <3>2, <3>3
  <2>4. MergesUpTo(h, m, db, books)
    BY <2>3 DEF MergesUpTo
  <2>. QED
    BY <1>3, <2>4
<1>. QED
  BY <1>4, <1>5

BooksEnding(T, ers, from, to) == {b \in CrossedBooks(T, ers, from, to) : b.next_uncrossed # Null}
DatabaseNow == [Database EXCEPT !.ok = fix.ok]
MergeSteps(g, from, to) ==
    /\ g[0] = DatabaseNow
    /\ \A t \in Times : g[t] = MergeAt(g[t - 1], BooksEnding(level3, eras, from, to), t)
    /\ MergeCrossedBooks(from, to) = g[MaxTime]

LEMMA MergesInSteps ==
    ASSUME NEW from, NEW to
    PROVE  \E g : MergeSteps(g, from, to)
<1> DEFINE books == BooksEnding(level3, eras, from, to)
           g == CHOOSE g : MergesUpTo(g, MaxTime, DatabaseNow, books)
<1>1. MaxTime \in Nat
  BY TableAssumption
<1>2. MergesUpTo(g, MaxTime, DatabaseNow, books)
  BY <1>1, MergesUpToExists
<1>3. MergeCrossedBooks(from, to) = g[MaxTime]
  BY Zenon DEF MergeCrossedBooks, MergesUpTo, MergeAt, MergeBook, BooksEnding, DatabaseNow
<1> HIDE DEF g
<1>4. \A t \in 0..MaxTime : g[t] = IF t = 0 THEN DatabaseNow ELSE MergeAt(g[t - 1], books, t)
  BY <1>2 DEF MergesUpTo
<1>5. g[0] = DatabaseNow
  <2>1. 0 \in 0..MaxTime
    BY <1>1
  <2>. QED
    BY <1>4, <2>1
<1>6. ASSUME NEW t \in Times
      PROVE  g[t] = MergeAt(g[t - 1], books, t)
  BY <1>1, <1>4 DEF Times
<1>7. MergeSteps(g, from, to)
  BY <1>3, <1>5, <1>6 DEF MergeSteps
<1>. QED
  BY <1>7

\* The tables between two merges: where a row was reached, one still is.
BetweenMerges(T, ers, db) ==
    /\ db = [level3 |-> db.level3, eras |-> db.eras, ok |-> db.ok, raised |-> db.raised]
    /\ db.ok \in BOOLEAN
    /\ ~db.raised => /\ InRepair(db.level3, ers)
                     /\ \A t \in Times : Reached(T, ers, t) => Reached(db.level3, ers, t)

Mergeable(T, ers, b) ==
    /\ b.first_crossed \in Times /\ b.next_uncrossed \in Times
    /\ SameEra(ers, b.first_crossed, b.next_uncrossed)
    /\ Reached(T, ers, b.next_uncrossed)

LEMMA MergeBookKeeps ==
    ASSUME NEW T, NEW ers, NEW db, BetweenMerges(T, ers, db), NEW b, Mergeable(T, ers, b)
    PROVE  BetweenMerges(T, ers, MergeBook(db, b))
<1> DEFINE from == b.first_crossed
           to == b.next_uncrossed
           m == MergeEpisodes(db, from, to)
           new == MergeBook(db, b)
           late == to > from + MaxChange
<1>1. db = [level3 |-> db.level3, eras |-> db.eras, ok |-> db.ok, raised |-> db.raised]
  BY DEF BetweenMerges
<1>2. /\ m.level3 = MergedTable(db.level3, from, to)
      /\ m.raised = (db.raised \/ ~KeysApart(db.level3, MergeNew(db.level3, from, to)))
      /\ m.ok = (db.ok /\ WithinMaxChange(db.level3, MergeNew(db.level3, from, to)))
      /\ m = [level3 |-> m.level3, eras |-> m.eras, ok |-> m.ok, raised |-> m.raised]
  BY <1>1, MergeEpisodesIs
<1>3. new = [m EXCEPT !.raised = @ \/ late]
  BY DEF MergeBook
<1> HIDE DEF m, late
<1>4. /\ new.level3 = m.level3 /\ new.ok = m.ok /\ new.raised = (m.raised \/ late)
      /\ new = [level3 |-> new.level3, eras |-> new.eras, ok |-> new.ok, raised |-> new.raised]
  <2> DEFINE raised == m.raised \/ late
  <2>1. new = [m EXCEPT !.raised = raised]
    BY <1>3
  <2> HIDE DEF raised, new
  <2>2. /\ new.level3 = m.level3 /\ new.ok = m.ok /\ new.raised = raised
        /\ new = [level3 |-> new.level3, eras |-> new.eras, ok |-> new.ok, raised |-> new.raised]
    BY <1>2, <2>1
  <2>. QED
    BY <2>2 DEF raised, new
<1> HIDE DEF new
<1>5. new.ok \in BOOLEAN
  BY <1>2, <1>4
<1>6. ASSUME ~new.raised
      PROVE  /\ InRepair(new.level3, ers)
             /\ \A t \in Times : Reached(T, ers, t) => Reached(new.level3, ers, t)
  <2>1. ~db.raised /\ KeysApart(db.level3, MergeNew(db.level3, from, to))
    BY <1>2, <1>4, <1>6
  <2>2. /\ InRepair(db.level3, ers)
        /\ \A t \in Times : Reached(T, ers, t) => Reached(db.level3, ers, t)
    BY <2>1 DEF BetweenMerges
  <2>3. from \in Times /\ to \in Times /\ Fixes(db.level3, ers, from, to)
    BY <2>1, <2>2 DEF Mergeable, Fixes
  <2> HIDE DEF from, to
  <2>4. InRepair(MergedTable(db.level3, from, to), ers)
    BY <2>3, FixKeeps
  <2>5. \A t \in Times : Reached(db.level3, ers, t) => Reached(MergedTable(db.level3, from, to), ers, t)
    BY <2>3, FixReaches
  <2>. QED
    BY <1>2, <1>4, <2>2, <2>4, <2>5
<1>7. BetweenMerges(T, ers, new)
  BY <1>4, <1>5, <1>6 DEF BetweenMerges
<1>. QED
  BY <1>7 DEF new

LEMMA MergesKeep ==
    ASSUME InRepair(level3, eras), fix.ok \in BOOLEAN, NEW from \in Times, NEW to \in Times,
           SameEra(eras, from, to)
    PROVE  BetweenMerges(level3, eras, MergeCrossedBooks(from, to))
<1> DEFINE books == BooksEnding(level3, eras, from, to)
<1>1. level3 \subseteq Rows /\ ErasTyped(eras) /\ ErasFollow(level3, eras)
  BY FixParts
<1>2. from \in Int /\ to \in Int
  BY TimesAre
<1>3. ASSUME NEW b \in books
      PROVE  Mergeable(level3, eras, b)
  <2>1. /\ StandsIn(level3, from, to, b.first_crossed)
        /\ StandsIn(level3, from, to, b.next_uncrossed)
    BY <1>1, CrossedWithin DEF BooksEnding
  <2>2. /\ b.first_crossed \in Times /\ from <= b.first_crossed /\ b.first_crossed <= to
        /\ b.next_uncrossed \in Times /\ from <= b.next_uncrossed /\ b.next_uncrossed <= to
        /\ \E x \in level3 : x.mts = b.next_uncrossed
    BY <2>1 DEF StandsIn
  <2>3. b.first_crossed \in Int /\ b.next_uncrossed \in Nat
    BY <2>2, TimesAre
  <2>4. SameEra(eras, b.first_crossed, b.next_uncrossed)
    BY <1>1, <1>2, <2>2, <2>3, EraWithin
  <2>5. Reached(level3, eras, b.next_uncrossed)
    BY <2>2, <2>3, EraTransitive DEF Reached
  <2>. QED
    BY <2>2, <2>4, <2>5 DEF Mergeable
<1>4. PICK g : MergeSteps(g, from, to)
  BY MergesInSteps
<1>5. /\ g[0] = DatabaseNow
      /\ \A t \in Times : g[t] = MergeAt(g[t - 1], books, t)
      /\ MergeCrossedBooks(from, to) = g[MaxTime]
  BY <1>4 DEF MergeSteps
<1>6. BetweenMerges(level3, eras, g[0])
  <2> DEFINE db == [level3 |-> level3, eras |-> eras, ok |-> fix.ok, raised |-> FALSE]
  <2>1. DatabaseNow = db
    <3> DEFINE yes == TRUE
               no == FALSE
               ok == fix.ok
    <3>1. DatabaseNow = [[level3 |-> level3, eras |-> eras, ok |-> yes, raised |-> no]
                          EXCEPT !.ok = ok]
      BY DEF DatabaseNow, Database
    <3>2. db = [level3 |-> level3, eras |-> eras, ok |-> ok, raised |-> no]
      OBVIOUS
    <3> HIDE DEF yes, no, ok, db
    <3>. QED
      BY <3>1, <3>2
  <2>2. /\ db.level3 = level3 /\ db.eras = eras /\ db.ok = fix.ok /\ db.raised = FALSE
        /\ db = [level3 |-> db.level3, eras |-> db.eras, ok |-> db.ok, raised |-> db.raised]
    OBVIOUS
  <2> HIDE DEF db
  <2>3. BetweenMerges(level3, eras, db)
    BY <2>2, Zenon DEF BetweenMerges
  <2>. QED
    BY <1>5, <2>1, <2>3
<1> HIDE DEF books
<1>7. ASSUME NEW t \in Times, BetweenMerges(level3, eras, g[t - 1])
      PROVE  BetweenMerges(level3, eras, g[t])
  <2> DEFINE here == {b \in books : b.first_crossed = t}
  <2>1. g[t] = IF here = {} THEN g[t - 1] ELSE MergeBook(g[t - 1], CHOOSE b \in here : TRUE)
    BY <1>5 DEF MergeAt
  <2>2. CASE here = {}
    BY <1>7, <2>1, <2>2
  <2>3. CASE here # {}
    <3>1. PICK b \in here : g[t] = MergeBook(g[t - 1], b)
      BY <2>1, <2>3
    <3>2. Mergeable(level3, eras, b)
      BY <1>3
    <3>. QED
      BY <1>7, <3>1, <3>2, MergeBookKeeps
  <2>. QED
    BY <2>2, <2>3
<1> DEFINE Wrong == {t \in Nat : t <= MaxTime /\ ~BetweenMerges(level3, eras, g[t])}
<1>8. Wrong = {}
  <2>1. SUFFICES ASSUME Wrong # {} PROVE FALSE
    OBVIOUS
  <2>2. Wrong \in SUBSET Nat
    OBVIOUS
  <2>3. PICK m \in Wrong : \A k \in Wrong : m <= k
    BY <2>1, <2>2, NatMinimum
  <2>4. m \in Nat /\ m <= MaxTime /\ ~BetweenMerges(level3, eras, g[m])
    OBVIOUS
  <2>5. m # 0
    BY <1>6, <2>4
  <2>6. m \in Times /\ m - 1 \in Nat /\ m - 1 <= MaxTime /\ m - 1 < m
    BY <2>4, <2>5, TimesAre
  <2>7. BetweenMerges(level3, eras, g[m - 1])
    BY <2>3, <2>6
  <2>. QED
    BY <1>7, <2>4, <2>6, <2>7
<1>9. BetweenMerges(level3, eras, g[MaxTime])
  <2>1. MaxTime \in Nat /\ MaxTime <= MaxTime
    BY TimesAre
  <2>. QED
    BY <1>8, <2>1
<1>. QED
  BY <1>5, <1>9
LEMMA RepairKeeps ==
    ASSUME RepairInv, Repair
    PROVE  RepairInv' /\ FixSays
<1> DEFINE crossed  == {b.first_crossed : b \in CrossedBooks(level3, eras, fix.crossed, fix.end)}
           toRepair == {t \in crossed : CanBeRepaired(LiveAt(level3, eras, t))}
           first == Min(toRepair)
           book == LiveAt(level3, eras, first)
<1>1. ~Idle
  <2>1. fix.phase = "repair" /\ NotFixing.phase = "idle"
    BY DEF Repair, NotFixing
  <2>. QED
    BY <2>1 DEF Idle
<1>2. /\ clock' = clock /\ saved' = saved
      /\ toRepair = {} => /\ fix' = [fix EXCEPT !.phase = "merge"]
                          /\ UNCHANGED << level3, eras, call >>
      /\ toRepair # {} => \/ RemoveEternalTakers(first, book)
                          \/ MergeToNextTaker(first, book)
                          \/ RemoveEternalCrossed(first, book)
  BY DEF Repair
<1>3. /\ InRepair(level3, eras) /\ fix \in FixRecords
      /\ fix.crossed \in Times /\ fix.end \in Times /\ fix.from \in Times
      /\ fix.from <= fix.start /\ fix.start <= fix.end /\ fix.end <= fix.to
      /\ fix.from <= fix.crossed
  BY <1>1, FixingIs
<1>4. level3 \subseteq Rows /\ ErasTyped(eras) /\ ErasFollow(level3, eras)
  BY <1>3, FixParts
<1>5. \A t \in crossed : t \in Times /\ fix.from <= t
  <2>1. ASSUME NEW t \in crossed
        PROVE  t \in Times /\ fix.from <= t
    <3>1. StandsIn(level3, fix.crossed, fix.end, t)
      BY <1>3, <1>4, CrossedWithin
    <3>2. t \in Times /\ fix.crossed <= t
      BY <3>1 DEF StandsIn
    <3>. QED
      BY <1>3, <3>2, TimesAre
  <2>. QED
    BY <2>1
<1> HIDE DEF crossed
<1>6. CASE toRepair = {}
  <2>1. /\ fix' = [fix EXCEPT !.phase = "merge"]
        /\ level3' = level3 /\ eras' = eras /\ call' = call
    BY <1>2, <1>6
  <2>2. /\ fix' \in FixRecords
        /\ fix'.from = fix.from /\ fix'.start = fix.start /\ fix'.end = fix.end
        /\ fix'.to = fix.to /\ fix'.crossed = fix.crossed
    BY <1>3, <2>1 DEF FixRecords
  <2>3. RepairInv'
    BY <1>1, <1>2, <1>3, <2>1, <2>2, FixStepKeeps
  <2>. QED
    BY <2>1, <2>3 DEF FixSays
<1>7. CASE toRepair # {}
  <2>1. first \in toRepair
    <3>1. toRepair \in SUBSET Nat
      BY <1>5, TimesAre
    <3> HIDE DEF toRepair
    <3>. QED
      BY <1>7, <3>1, MinIsLeast
  <2>2. first \in Times /\ fix.from <= first
    BY <1>5, <2>1
  <2> HIDE DEF first
  <2>3. CASE RemoveEternalTakers(first, book)
    <3> DEFINE X == EternalTakers(book)
    <3>1. X # {} /\ DeleteOrders(X, first, book)
      BY <2>3 DEF RemoveEternalTakers
    <3>2. X \subseteq book /\ \A x \in X : x.next = Infinity
      BY DEF EternalTakers
    <3> HIDE DEF X
    <3>. QED
      BY <1>1, <1>2, <2>2, <3>1, <3>2, DeleteOrdersKeeps
  <2>4. CASE MergeToNextTaker(first, book)
    BY <1>1, <1>2, <2>2, <2>4, MergeToNextTakerKeeps
  <2>5. CASE RemoveEternalCrossed(first, book)
    <3> DEFINE X == EternalCrossed(book)
    <3>1. X # {} /\ DeleteOrders(X, first, book)
      BY <2>5 DEF RemoveEternalCrossed
    <3>2. X \subseteq book /\ \A x \in X : x.next = Infinity
      BY DEF EternalCrossed
    <3> HIDE DEF X
    <3>. QED
      BY <1>1, <1>2, <2>2, <3>1, <3>2, DeleteOrdersKeeps
  <2>. QED
    BY <1>2, <1>7, <2>3, <2>4, <2>5 DEF first
<1>. QED
  BY <1>6, <1>7

LEMMA NextPieceKeeps ==
    ASSUME RepairInv, NextPiece
    PROVE  RepairInv' /\ FixSays
<1> DEFINE db == MergeCrossedBooks(fix.start, fix.end)
           last == fix.end = fix.to
           end == Min({fix.end + ProcessingInterval, fix.to})
<1>1. ~Idle
  <2>1. fix.phase = "merge" /\ NotFixing.phase = "idle"
    BY DEF NextPiece, NotFixing
  <2>. QED
    BY <2>1 DEF Idle
<1>2. /\ clock' = clock /\ saved' = saved
      /\ \/ Rollback
         \/ /\ ~last /\ ~db.raised
            /\ level3' = db.level3
            /\ fix' = [fix EXCEPT !.phase = "repair", !.start = fix.end, !.crossed = fix.end,
                                  !.end = end, !.ok = db.ok]
            /\ eras' = eras /\ call' = call
         \/ /\ last /\ Commits(db)
            /\ level3' = db.level3
            /\ fix' = NotFixing
            /\ call' = Call("fix", fix.from, fix.to)
            /\ eras' = eras
  BY DEF NextPiece
<1>3. /\ InRepair(level3, eras) /\ fix \in FixRecords /\ fix.ok \in BOOLEAN
      /\ fix.start \in Times /\ fix.end \in Times /\ fix.from \in Times /\ fix.to \in Times
      /\ fix.from <= fix.start /\ fix.start <= fix.end /\ fix.end <= fix.to
      /\ SameEra(eras, fix.from, fix.to) /\ clock \in 0..MaxTime
  BY <1>1, FixingIs
<1>4. ErasTyped(eras)
  BY <1>3, FixParts
<1>5. SameEra(eras, fix.start, fix.end)
  <2>1. /\ fix.from \in Int /\ fix.to \in Int /\ fix.start \in Int /\ fix.end \in Int
        /\ fix.start <= fix.to /\ fix.from <= fix.end
    BY <1>3, TimesAre
  <2>. QED
    BY <1>3, <1>4, <2>1, EraWithin
<1>6. BetweenMerges(level3, eras, db)
  BY <1>3, <1>5, MergesKeep
<1> HIDE DEF db
<1>7. db.ok \in BOOLEAN /\ (~db.raised => InRepair(db.level3, eras))
  BY <1>6 DEF BetweenMerges
<1>8. CASE Rollback
  BY <1>1, <1>2, <1>8, RollbackKeeps DEF FixSays
<1>9. CASE /\ ~last /\ ~db.raised
           /\ level3' = db.level3
           /\ fix' = [fix EXCEPT !.phase = "repair", !.start = fix.end, !.crossed = fix.end,
                                 !.end = end, !.ok = db.ok]
           /\ eras' = eras /\ call' = call
  <2>1. end \in Times /\ fix.end <= end /\ end <= fix.to
    BY <1>3, PieceEnd
  <2> HIDE DEF end
  <2>2. /\ fix' \in FixRecords
        /\ fix'.from = fix.from /\ fix'.start = fix.end /\ fix'.end = end
        /\ fix'.to = fix.to /\ fix'.crossed = fix.end
    <3> DEFINE ok == db.ok
               at == fix.end
               r == "repair"
    <3>1. fix' = [fix EXCEPT !.phase = r, !.start = at, !.crossed = at, !.end = end, !.ok = ok]
      BY <1>9
    <3>2. ok \in BOOLEAN /\ at \in Times /\ r \in {"repair", "merge"}
      BY <1>3, <1>7
    <3> HIDE DEF ok, at, r
    <3>3. /\ fix' \in FixRecords
          /\ fix'.from = fix.from /\ fix'.start = at /\ fix'.end = end
          /\ fix'.to = fix.to /\ fix'.crossed = at
      BY <1>3, <2>1, <3>1, <3>2 DEF FixRecords
    <3>. QED
      BY <3>3 DEF at
  <2>3. InRepair(level3', eras)
    BY <1>7, <1>9
  <2>4. fix.from <= fix.end
    BY <1>3, TimesAre
  <2>5. RepairInv'
    BY <1>1, <1>2, <1>9, <2>1, <2>2, <2>3, <2>4, FixStepKeeps
  <2>. QED
    BY <1>9, <2>5 DEF FixSays
<1>10. CASE /\ last /\ Commits(db)
            /\ level3' = db.level3
            /\ fix' = NotFixing
            /\ call' = Call("fix", fix.from, fix.to)
            /\ eras' = eras
  <2>1. InRepair(level3', eras) /\ Consistent(level3')
    BY <1>7, <1>10 DEF Commits
  <2>2. Linked(level3', eras')
    BY <1>10, <2>1, RepairedLinked
  <2>3. level3' \subseteq Rows /\ ErasFollow(level3', eras)
    BY <2>1, FixParts
  <2>4. DOMAIN eras \subseteq Times /\ \A e \in DOMAIN eras : eras[e] \in Times \union {Null}
    BY <1>4, <2>3, ErasAreTimes DEF ErasTyped
  <2>5. Repaired(level3, eras, "fix")'
    BY <1>10, <2>2, <2>3, <2>4 DEF Repaired
  <2>6. call'.name = "fix" /\ call' # NoCall
    BY <1>10 DEF Call, NoCall
  <2>. QED
    BY <1>2, <1>3, <1>10, <2>5, <2>6 DEF RepairInv, Idle, FixSays
<1>. QED
  BY <1>2, <1>8, <1>9, <1>10
-----------------------------------------------------------------------------
(***************************************************************************)
(* The invariant.                                                          *)
(***************************************************************************)
\* What a call has done, when a step has made it.
CallsKeep ==
    /\ Made("merge") =>
         \E from, to \in Times :
            /\ call' = Call("merge", from, to) /\ eras' = eras
            /\ MergeKeepsAt(level3, level3', eras, from, to)
    /\ Made("split") =>
         \E from, start : /\ call' = Call("split", from, start)
                          /\ SplitKeepsAt(level3, eras, level3', eras', start)
    /\ Made("delete") =>
         \E r \in level3 : /\ call' = Call("delete", r.mts, r.id) /\ eras' = eras
                           /\ DeleteKeepsAt(level3, level3', eras, r)

LEMMA OtherCalls ==
    ASSUME \/ call' = call
           \/ call'.name \in {"failed", "fix", "delete era"}
    PROVE  CallsKeep
<1>1. CASE call' = call
  <2>1. ASSUME call = NoCall
        PROVE  call'.name = "none"
    BY <1>1, <2>1 DEF NoCall
  <2>. QED
    BY <2>1 DEF CallsKeep, Made
<1>2. CASE call'.name \in {"failed", "fix", "delete era"}
  BY <1>2 DEF CallsKeep, Made
<1>. QED
  BY <1>1, <1>2

LEMMA StepKeeps ==
    ASSUME RepairInv, [Next]_vars
    PROVE  RepairInv' /\ CallsKeep
<1>1. CASE UNCHANGED vars
  <2>1. /\ clock' = clock /\ level3' = level3 /\ eras' = eras /\ fix' = fix /\ saved' = saved
        /\ call' = call
    BY <1>1 DEF vars
  <2>2. RepairInv'
    BY <2>1 DEF RepairInv, Idle, FixTyped
  <2>. QED
    BY <2>1, <2>2, OtherCalls
<1>2. ASSUME NEW o \in Orders, NEW price \in Prices, NEW amount \in Amounts,
             Episode(o, price, amount)
      PROVE  RepairInv' /\ CallsKeep
  <2>1. price \in Nat /\ amount \in Nat
    BY TableAssumption
  <2>2. RepairInv' /\ call' = call
    BY <1>2, <2>1, EpisodeKeeps
  <2>. QED
    BY <2>2, OtherCalls
<1>3. ASSUME NEW o \in Orders, Episode(o, 0, 1)
      PROVE  RepairInv' /\ CallsKeep
  <2>1. RepairInv' /\ call' = call
    BY <1>3, EpisodeKeeps
  <2>. QED
    BY <2>1, OtherCalls
<1>4. CASE StartEra
  BY <1>4, StartEraKeeps, OtherCalls
<1>5. CASE Tick
  BY <1>5, TickKeeps, OtherCalls
<1>6. ASSUME NEW from \in Times, NEW to \in Times, Merge(from, to)
      PROVE  RepairInv' /\ CallsKeep
  <2>1. /\ RepairInv' /\ MergeKeepsAt(level3, level3', eras, from, to)
        /\ call' = Call("merge", from, to) /\ eras' = eras
    BY <1>6, MergeKeeps
  <2>2. call'.name = "merge"
    BY <2>1 DEF Call
  <2>. QED
    BY <2>1, <2>2 DEF CallsKeep, Made
<1>7. ASSUME NEW from \in Times, NEW to \in Times, FixCrossedBooks(from, to)
      PROVE  RepairInv' /\ CallsKeep
  <2>1. RepairInv' /\ call' = call
    BY <1>7, FixCrossedBooksKeeps
  <2>. QED
    BY <2>1, OtherCalls
<1>8. ASSUME NEW start \in Times, InsertEra(start)
      PROVE  RepairInv' /\ CallsKeep
  <2>1. /\ RepairInv' /\ SplitKeepsAt(level3, eras, level3', eras', start)
        /\ call' = Call("split", Max(ErasUpTo(eras, start)), start)
    BY <1>8, InsertEraKeeps
  <2>2. call'.name = "split"
    BY <2>1 DEF Call
  <2>. QED
    BY <2>1, <2>2 DEF CallsKeep, Made
<1>9. ASSUME NEW r \in level3, Delete(r)
      PROVE  RepairInv' /\ CallsKeep
  <2>1. /\ RepairInv' /\ DeleteKeepsAt(level3, level3', eras, r)
        /\ call' = Call("delete", r.mts, r.id) /\ eras' = eras
    BY <1>9, DeleteKeeps
  <2>2. call'.name = "delete"
    BY <2>1 DEF Call
  <2>. QED
    BY <2>1, <2>2 DEF CallsKeep, Made
<1>10. ASSUME NEW era \in DOMAIN eras, DeleteEra(era)
       PROVE  RepairInv' /\ CallsKeep
  <2>1. RepairInv' /\ call' = Call("delete era", era, era)
    BY <1>10, DeleteEraKeeps
  <2>2. call'.name = "delete era"
    BY <2>1 DEF Call
  <2>. QED
    BY <2>1, <2>2, OtherCalls
<1>11. CASE Repair
  BY <1>11, RepairKeeps, OtherCalls DEF FixSays
<1>12. CASE NextPiece
  BY <1>12, NextPieceKeeps, OtherCalls DEF FixSays
<1>. QED
  BY <1>1, <1>2, <1>3, <1>4, <1>5, <1>6, <1>7, <1>8, <1>9, <1>10, <1>11, <1>12 DEF Next

(***************************************************************************)
(* The inductive invariant: what is loaded is sound, what a repair leaves  *)
(* is linked, and in the middle of a fix there are as many references as   *)
(* rows to refer to.                                                       *)
(***************************************************************************)
THEOREM RepairInvHolds == Spec => []RepairInv
<1>1. Init => RepairInv
  BY InitKeeps
<1>2. RepairInv /\ [Next]_vars => RepairInv'
  BY StepKeeps
<1>. QED
  BY <1>1, <1>2, PTL DEF Spec

-----------------------------------------------------------------------------
(***************************************************************************)
(* level3, its eras and the place of a fix have their types, whatever is   *)
(* loaded and repaired.                                                    *)
(***************************************************************************)
THEOREM TypesKept == Spec => []TypeOK
<1>1. RepairInv => TypeOK
  <2> SUFFICES ASSUME RepairInv PROVE TypeOK
    OBVIOUS
  <2>1. clock \in 0..MaxTime
    BY DEF RepairInv
  <2>2. ASSUME RowsSound(level3), ErasTyped(eras), ErasFollow(level3, eras)
        PROVE  /\ level3 \subseteq Rows /\ DOMAIN eras \subseteq Times
               /\ \A e \in DOMAIN eras : eras[e] \in Times \union {Null}
    BY <2>2, ErasAreTimes DEF RowsSound, ErasTyped
  <2>3. /\ level3 \subseteq Rows /\ DOMAIN eras \subseteq Times
        /\ \A e \in DOMAIN eras : eras[e] \in Times \union {Null}
    <3>1. CASE Idle /\ call = NoCall
      BY <2>2, <3>1, LoadedParts DEF RepairInv
    <3>2. CASE Idle /\ call # NoCall
      BY <3>2 DEF RepairInv, Repaired
    <3>3. CASE ~Idle
      BY <2>2, <3>3, FixingIs, FixParts
    <3>. QED
      BY <3>1, <3>2, <3>3
  <2>4. fix = NotFixing \/ fix.phase \in {"repair", "merge"}
    BY FixingIs DEF Idle, FixRecords
  <2>. QED
    BY <2>1, <2>3, <2>4 DEF TypeOK
<1>. QED
  BY <1>1, RepairInvHolds, PTL

(***************************************************************************)
(* Whatever is merged, split, deleted or fixed, every row of a chain is    *)
(* the next of the row numbered before it, in its era: nothing keeps the   *)
(* chains of a fix whole, but its end raises if one is broken.             *)
(***************************************************************************)
THEOREM ChainsKept == Spec => []ChainsLinked
<1>1. RepairInv => ChainsLinked
  <2> SUFFICES ASSUME RepairInv, Idle PROVE Linked(level3, eras)
    BY DEF ChainsLinked, Linked
  <2>1. CASE call = NoCall
    BY <2>1, LoadedLinked DEF RepairInv
  <2>2. CASE call # NoCall
    BY <2>2 DEF RepairInv, Repaired
  <2>. QED
    BY <2>1, <2>2
<1>. QED
  BY <1>1, RepairInvHolds, PTL

(***************************************************************************)
(* After loads, a split and a fix level3_eras tells how far level3 goes:   *)
(* the deletions that a fix inserts are not later than what it tells.      *)
(***************************************************************************)
THEOREM ErasKept == Spec => []ErasUpToDate
<1>1. RepairInv => ErasUpToDate
  <2> SUFFICES ASSUME RepairInv, call.name \in {"none", "split", "fix"}
               PROVE  ErasFollow(level3, eras)
    BY DEF ErasUpToDate, ErasFollow, RowsOfEra, LastEvent
  <2>1. CASE Idle /\ call = NoCall
    BY <2>1, LoadedParts DEF RepairInv
  <2>2. CASE Idle /\ call # NoCall
    <3>1. call.name # "none" /\ Repaired(level3, eras, call.name)
      BY <2>2 DEF RepairInv
    <3>. QED
      BY <3>1 DEF Repaired
  <2>3. CASE ~Idle
    BY <2>3, FixingIs, FixParts
  <2>. QED
    BY <2>1, <2>2, <2>3
<1>. QED
  BY <1>1, RepairInvHolds, PTL

(***************************************************************************)
(* merge_episodes() over [from, to) changes the books of that period only, *)
(* and leaves nothing in them that was not there before it.                *)
(***************************************************************************)
THEOREM MergesKeepBooks == Spec => MergeKeepsBooks
<1>1. RepairInv /\ [Next]_vars =>
        [Made("merge") =>
           \A t \in Times :
             IF t < call'.from \/ t >= call'.to THEN BookAt(t)' = BookAt(t)
             ELSE BookAt(t)' \subseteq BookAt(call'.from - 1)]_vars
  <2> SUFFICES ASSUME RepairInv, [Next]_vars, Made("merge"), NEW t \in Times
               PROVE  IF t < call'.from \/ t >= call'.to THEN BookAt(t)' = BookAt(t)
                      ELSE BookAt(t)' \subseteq BookAt(call'.from - 1)
    OBVIOUS
  <2>1. PICK from \in Times, to \in Times :
          /\ call' = Call("merge", from, to) /\ eras' = eras
          /\ MergeKeepsAt(level3, level3', eras, from, to)
    BY StepKeeps DEF CallsKeep
  <2>2. call'.from = from /\ call'.to = to
    BY <2>1 DEF Call
  <2>3. /\ BookAt(t) = Shown(LiveAt(level3, eras, t))
        /\ BookAt(t)' = Shown(LiveAt(level3', eras, t))
        /\ BookAt(from - 1) = Shown(LiveAt(level3, eras, from - 1))
    BY <2>1 DEF BookAt
  <2>. QED
    BY <2>1, <2>2, <2>3 DEF MergeKeepsAt
<1>. QED
  BY <1>1, RepairInvHolds, PTL DEF Spec, MergeKeepsBooks

(***************************************************************************)
(* insert_level3_era() keeps the books on both sides of the new era's      *)
(* start, but for the orders at the start that nothing follows: those are  *)
(* in the old era only.                                                    *)
(***************************************************************************)
THEOREM SplitsKeepBooks == Spec => SplitKeepsBooks
<1>1. RepairInv /\ [Next]_vars =>
        [Made("split") =>
           LET start == call'.to
               lost  == Shown({r \in LiveAt(level3, eras, start - 1) : r.next = Infinity})
           IN  \A t \in Times :
                 BookAt(t)' = IF t < start \/ \E e \in DOMAIN eras : start < e /\ e <= t
                              THEN BookAt(t) ELSE BookAt(t) \ lost]_vars
  <2> DEFINE lost(start) == Shown({r \in LiveAt(level3, eras, start - 1) : r.next = Infinity})
  <2> SUFFICES ASSUME RepairInv, [Next]_vars, Made("split"), NEW t \in Times
               PROVE  BookAt(t)' = IF \/ t < call'.to
                                      \/ \E e \in DOMAIN eras : call'.to < e /\ e <= t
                                   THEN BookAt(t) ELSE BookAt(t) \ lost(call'.to)
    OBVIOUS
  <2>1. PICK from, start : /\ call' = Call("split", from, start)
                           /\ SplitKeepsAt(level3, eras, level3', eras', start)
    BY StepKeeps DEF CallsKeep
  <2>2. call'.to = start
    BY <2>1 DEF Call
  <2>3. /\ BookAt(t) = Shown(LiveAt(level3, eras, t))
        /\ BookAt(t)' = Shown(LiveAt(level3', eras', t))
    BY DEF BookAt
  <2>4. lost(start) = Lost(level3, eras, start)
    BY DEF Lost
  <2> HIDE DEF lost
  <2>. QED
    BY <2>1, <2>2, <2>3, <2>4 DEF SplitKeepsAt
<1>. QED
  BY <1>1, RepairInvHolds, PTL DEF Spec, SplitKeepsBooks

(***************************************************************************)
(* The deletion of a row changes the books since its time only, and only   *)
(* what is said of its order.                                              *)
(***************************************************************************)
THEOREM DeletionsAreLocal == Spec => DeletionIsLocal
<1>1. RepairInv /\ [Next]_vars =>
        [Made("delete") =>
           LET others(book) == {x \in book : x[1] # call'.to}
           IN  \A t \in Times :
                 /\ others(BookAt(t)') = others(BookAt(t))
                 /\ t < call'.from => BookAt(t)' = BookAt(t)]_vars
  <2> SUFFICES ASSUME RepairInv, [Next]_vars, Made("delete"), NEW t \in Times
               PROVE  /\ {x \in BookAt(t)' : x[1] # call'.to} = {x \in BookAt(t) : x[1] # call'.to}
                      /\ t < call'.from => BookAt(t)' = BookAt(t)
    OBVIOUS
  <2>1. PICK r \in level3 : /\ call' = Call("delete", r.mts, r.id) /\ eras' = eras
                            /\ DeleteKeepsAt(level3, level3', eras, r)
    BY StepKeeps DEF CallsKeep
  <2>2. call'.from = r.mts /\ call'.to = r.id
    BY <2>1 DEF Call
  <2>3. /\ BookAt(t) = Shown(LiveAt(level3, eras, t))
        /\ BookAt(t)' = Shown(LiveAt(level3', eras, t))
    BY <2>1 DEF BookAt
  <2>4. \A book : Others(book, r.id) = {x \in book : x[1] # call'.to}
    BY <2>2 DEF Others
  <2>. QED
    BY <2>1, <2>2, <2>3, <2>4 DEF DeleteKeepsAt
<1>. QED
  BY <1>1, RepairInvHolds, PTL DEF Spec, DeletionIsLocal

(***************************************************************************)
(* Unless a fix goes on or has been made, an order is in a book once and   *)
(* rows keep the time their price is from: also after a merge of periods   *)
(* in which the order was deleted and came back, after the deletion of an  *)
(* era, and after a fix that failed.                                       *)
(***************************************************************************)
THEOREM OnceAndPricedOutsideFixes ==
    Spec => [](Idle /\ call.name # "fix" => OrdersOnce /\ PriceTimeKept)
<1>1. RepairInv => (Idle /\ call.name # "fix" => OrdersOnce /\ PriceTimeKept)
  <2> SUFFICES ASSUME RepairInv, Idle, call.name # "fix"
               PROVE  /\ call.name # "delete" => LiveOnce(level3, eras)
                      /\ call.name # "split" => PricesKept(level3)
    BY DEF OrdersOnce, PriceTimeKept, LiveOnce, PricesKept
  <2>1. CASE call = NoCall
    BY <2>1, LoadedParts, LoadedOnce DEF RepairInv
  <2>2. CASE call # NoCall
    BY <2>2 DEF RepairInv, Repaired
  <2>. QED
    BY <2>1, <2>2
<1>. QED
  BY <1>1, RepairInvHolds, PTL
=============================================================================
