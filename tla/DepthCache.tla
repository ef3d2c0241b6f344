------------------------------ MODULE DepthCache ------------------------------
(***************************************************************************)
(* depth() of the R client (src/R/obanalytics.R) and its cache             *)
(* (src/R/cache.R), while episodes are being loaded into the database.     *)
(*                                                                         *)
(* The cache keeps periods of whole seconds and the changes of depth in    *)
(* them.  A request that no cached period covers queries what is missing   *)
(* and makes one entry of it and of the cached periods it meets.  Only     *)
(* what is older than cache.bound (15 minutes) is cached; the rest of a    *)
(* request is queried directly.  The depth at its start is never cached.   *)
(*                                                                         *)
(* The client runs one call at a time.  A call is made of several queries, *)
(* and more episodes may be loaded between any two of them.  A cached      *)
(* period is taken out of the cache when it is put into the entry, so that *)
(* a query that raises loses what has been taken out before it.            *)
(*                                                                         *)
(* Requests are of whole seconds, as the client formats the times of its   *)
(* queries without fractions of a second; cache.bound is not.              *)
(***************************************************************************)
EXTENDS DepthQueries

CONSTANTS
    Second,       \* instants in a second
    MaxTime,      \* bound: the instants before it have episodes
    Histories     \* what the database may hold in the end: episodes and eras

(***************************************************************************)
(* Every episode opens an era or comes an instant after another one, and   *)
(* the eras are more than an instant apart.                                *)
(***************************************************************************)
IsHistory(h) ==
    /\ Times(h) \subseteq 0..(MaxTime - 1)
    /\ h.episodes \in [Times(h) -> Books]
    /\ h.eras \subseteq Times(h)
    /\ \A era \in h.eras : era - 1 \notin Times(h)
    /\ \A x \in Times(h) : x \in h.eras \/ x - 1 \in Times(h)

ASSUME CacheAssumption ==
    /\ Second \in Nat \ {0}
    /\ MaxTime \in Nat
    /\ \A h \in Histories : IsHistory(h)

VARIABLES
    history,    \* the database in the end
    loaded,     \* what is loaded: the episodes up to this instant
    cache,      \* cache$periods and the changes cached for each of them
    call        \* the call of depth() that is running or has just returned

vars == << history, loaded, cache, call >>

FloorDate(t) == t - (t % Second)
CeilingDate(t) == FloorDate(t + Second - 1)
Seconds == {t \in 0..CeilingDate(MaxTime) : FloorDate(t) = t}

DatabaseUpTo(t) ==
    [ episodes |-> [x \in {x \in Times(history) : x <= t} |-> history.episodes[x]],
      eras     |-> {e \in history.eras : e <= t} ]
database == DatabaseUpTo(loaded)

\* format() of a time: the fraction of the second is cut off.
Format(t) == FloorDate(t)
QueryDepthUpdates(start, end) == Depth(database, Format(start), Format(end))
QueryInitialDepth(start) == StartingDepth(database, Format(start))

-----------------------------------------------------------------------------
Period(s, e) == [s |-> s, e |-> e]
Without(p) == [q \in DOMAIN cache \ {p} |-> cache[q]]
Covers(p, q) == p.s <= q.s /\ q.e <= p.e
IsCached(q) == \E p \in DOMAIN cache : Covers(p, q)
CachedSeconds == UNION {{t \in Seconds : p.s <= t /\ t < p.e} : p \in DOMAIN cache}

\* The part of a request that may be cached, and its period in the cache.
CachesAll(end, bound) == end              \* a slip: what may still change is cached
CachedUntil(end, bound) == IF end <= bound THEN end ELSE bound
LoadCachedUnrounded(start, end) ==        \* a slip: the cached period is not rounded
    Period(start, end)
LoadCached(start, end) == Period(FloorDate(start), CeilingDate(end))
Until == CachedUntil(call.end, call.bound)
Requested == LoadCached(call.start, Until)

\* The cached periods that meet the request and have not been visited yet.
RelevantStrictly ==                       \* a slip: periods that touch the request
    {p \in DOMAIN cache : p.s < Requested.e /\ p.e > Requested.s}
Relevant == {p \in DOMAIN cache : p.s <= Requested.e /\ p.e >= Requested.s}
IsNext(p) ==
    /\ p \in Relevant
    /\ \A q \in Relevant : p.s < q.s \/ (p.s = q.s /\ p.e <= q.e)

-----------------------------------------------------------------------------
NoCall == [status |-> "none"]
Running == call.status \in {"update", "direct"}

Init ==
    /\ history \in Histories
    /\ loaded = 0
    /\ cache = << >>
    /\ call = NoCall

\* An instant is loaded.  A call that has returned is forgotten.
Load ==
    /\ loaded < MaxTime
    /\ loaded' = loaded + 1
    /\ call' = IF Running THEN call ELSE NoCall
    /\ UNCHANGED << history, cache >>

(***************************************************************************)
(* depth() is called: it fixes cache.bound and queries the depth at the    *)
(* start.  What is older than cache.bound, and the second it is in, is     *)
(* loaded: the client takes it that the loading is not 15 minutes late.    *)
(*                                                                         *)
(* The entry begun is of the instants from call.from to call.to, complete  *)
(* up to call.current.  What was loaded and what was cached when the call  *)
(* began (known, kept) are there for the properties only.                  *)
(***************************************************************************)
Begin(start, end, bound) ==
    /\ ~Running
    /\ CeilingDate(bound) <= loaded
    /\ LET entry == LoadCached(start, CachedUntil(end, bound))
       IN  call' = [ status  |-> IF start > bound THEN "direct" ELSE "update",
                     start   |-> start,
                     end     |-> end,
                     bound   |-> bound,
                     depth   |-> QueryInitialDepth(start),
                     from    |-> entry.s,
                     to      |-> entry.e,
                     current |-> entry.s,
                     changes |-> {},
                     known   |-> loaded,
                     kept    |-> CachedSeconds ]
    /\ UNCHANGED << history, loaded, cache >>

(***************************************************************************)
(* .update_cache(): the loop visits the cached periods that meet the       *)
(* request in their order.  If there is a gap before the next of them, it  *)
(* is queried and the entry may reach further than the request; otherwise  *)
(* the entry may begin earlier than the request.                           *)
(***************************************************************************)
Updating ==
    /\ call.status = "update"
    /\ ~IsCached(Requested)

VisitForgets(p, changes) ==               \* a slip: the period's changes are dropped
    /\ cache' = Without(p)
    /\ call' = [ call EXCEPT !.current = p.e,
                             !.from    = IF p.s < @ THEN p.s ELSE @,
                             !.to      = IF p.e > @ THEN p.e ELSE @,
                             !.changes = @ \union changes ]
    /\ UNCHANGED << history, loaded >>

Visit(p, changes) ==
    /\ cache' = Without(p)
    /\ call' = [ call EXCEPT !.current = p.e,
                             !.from    = IF call.current >= p.s /\ p.s < @ THEN p.s ELSE @,
                             !.to      = IF call.current < p.s /\ p.e > @ THEN p.e ELSE @,
                             !.changes = @ \union changes \union cache[p] ]
    /\ UNCHANGED << history, loaded >>

QueryGap(p) ==
    /\ Updating /\ call.current < call.to
    /\ IsNext(p) /\ call.current < p.s
    /\ Visit(p, QueryDepthUpdates(call.current, p.s))

TakeOver(p) ==
    /\ Updating /\ call.current < call.to
    /\ IsNext(p) /\ call.current >= p.s
    /\ Visit(p, {})

\* Nothing is left in the cache.
QueryRest ==
    /\ Updating /\ call.current < call.to
    /\ Relevant = {}
    /\ call' = [ call EXCEPT !.current = call.to,
                             !.changes = @ \union QueryDepthUpdates(call.current, call.to) ]
    /\ UNCHANGED << history, loaded, cache >>

\* The cache with the entry that the loop has made.
WithEntry ==
    LET entry == Period(call.from, call.to)
    IN  IF call.changes = {} THEN cache
        ELSE [p \in {entry} \union DOMAIN cache |->
                IF p = entry THEN call.changes ELSE cache[p]]

-----------------------------------------------------------------------------
\* .load_from_cache() from the cache c.
LoadFromCache(c, start, end) ==
    LET found == {p \in DOMAIN c : Covers(p, Period(start, end))}
    IN  IF found = {} THEN {}
        ELSE {x \in c[CHOOSE p \in found : TRUE] : start <= x.time /\ x.time < end}

Answer(changes) ==
    [ status |-> "returned", start |-> call.start, end |-> call.end,
      depth |-> call.depth, changes |-> changes,
      known |-> call.known, kept |-> call.kept ]

(***************************************************************************)
(* What may be cached is in the cache c, if there is any of it.  depth()   *)
(* returns it, or goes on to query the rest of the request.                *)
(***************************************************************************)
LoadUpdated(c) ==
    LET changes == LoadFromCache(c, call.start, Until)
    IN  /\ cache' = c
        /\ call' = IF call.end <= call.bound THEN Answer(changes)
                   ELSE [call EXCEPT !.status = "direct", !.changes = changes]
        /\ UNCHANGED << history, loaded >>

Served ==
    /\ call.status = "update"
    /\ IsCached(Requested)
    /\ LoadUpdated(cache)

Store ==
    /\ Updating /\ call.current >= call.to
    /\ LoadUpdated(WithEntry)

\* What cannot be cached, from cache.bound or from a later start.
Direct ==
    /\ call.status = "direct"
    /\ call' = Answer(call.changes \union
                         QueryDepthUpdates(Max({call.start, call.bound}), call.end))
    /\ UNCHANGED << history, loaded, cache >>

\* A query after the first raises.
Fail ==
    /\ \/ Updating /\ call.current < call.to
          /\ \A p \in Relevant : IsNext(p) => call.current < p.s
       \/ call.status = "direct"
    /\ call' = NoCall
    /\ UNCHANGED << history, loaded, cache >>

Next ==
    \/ Load
    \/ \E start, end \in Seconds, bound \in 0..MaxTime :
          start < end /\ Begin(start, end, bound)
    \/ Served \/ QueryRest \/ Store \/ Direct \/ Fail
    \/ \E p \in DOMAIN cache : QueryGap(p) \/ TakeOver(p)

Spec == Init /\ [][Next]_vars

-----------------------------------------------------------------------------
(***************************************************************************)
(* Type invariant.  A cached period is of whole seconds, as the name it is *)
(* kept under shows seconds only, and is never empty.                      *)
(***************************************************************************)
Changes == [time : Int, level : Levels, volume : Volumes]
CacheTypeOK ==
    \A p \in DOMAIN cache :
        /\ p \in [s : Seconds, e : Seconds]
        /\ p.s < p.e
        /\ cache[p] \subseteq Changes /\ cache[p] # {}
        /\ \A c \in cache[p] : p.s <= c.time /\ c.time < p.e
RunningCalls ==
    [ status : {"update", "direct"}, start : Seconds, end : Seconds, bound : 0..MaxTime,
      depth : SUBSET Changes, from : Seconds, to : Seconds, current : Seconds,
      changes : SUBSET Changes, known : 0..MaxTime, kept : SUBSET Seconds ]
Answers ==
    [ status : {"returned"}, start : Seconds, end : Seconds, depth : SUBSET Changes,
      changes : SUBSET Changes, known : 0..MaxTime, kept : SUBSET Seconds ]
TypeOK ==
    /\ IsHistory(history)
    /\ loaded \in 0..MaxTime
    /\ CacheTypeOK
    /\ call \in {NoCall} \union RunningCalls \union Answers

(***************************************************************************)
(* Cached periods are apart.  Periods that met would both stay, and the    *)
(* entry that a later request makes of them would be named too short.      *)
(***************************************************************************)
PeriodsApart ==
    \A p, q \in DOMAIN cache : p # q => p.e < q.s \/ q.e < p.s

\* The depth a client sees at t: the changes up to t applied to the depth.
Replayed(t) ==
    [ l \in Levels |->
        LET changes == {c \in call.changes : c.level = l /\ c.time <= t}
            initial == {c \in call.depth : c.level = l /\ c.time <= t}
            last(cs) == CHOOSE c \in cs : \A d \in cs : d.time <= c.time
        IN  IF changes # {} THEN last(changes).volume
            ELSE IF initial # {} THEN last(initial).volume ELSE 0 ]

\* What was loaded when the call began.
Known == DatabaseUpTo(call.known)

\* The instants of the answer within an era: up to the last episode known.
Asked == {t \in call.start..(call.end - 1) :
            ErasUpTo(Known, t) # {} /\ t < LastEpisode(Known, EraOf(Known, t))}

(***************************************************************************)
(* What depth() returns is the depth of the order book at every instant,   *)
(* whatever has been cached before, when and in which pieces, and whatever *)
(* is loaded between its queries: as long as no earlier era reaches into   *)
(* the request.                                                            *)
(***************************************************************************)
ServedExactly ==
    call.status = "returned" =>
        \A t \in Asked :
            (\A e \in ErasUpTo(Known, t) \ {EraOf(Known, t)} :
                LastEpisode(Known, e) < call.start)
            => Replayed(t) = OrderBook(database, t, FALSE)

(***************************************************************************)
(* The same over interruptions: "calculates depth volume updates over the  *)
(* interruptions" (src/R/obanalytics.R:194).  Eras of a single episode,    *)
(* which have no length, are left aside.                                   *)
(***************************************************************************)
ServedOverInterruptions ==
    call.status = "returned" /\ (\A e \in Known.eras : LastEpisode(Known, e) > e) =>
        \A t \in Asked : Replayed(t) = OrderBook(database, t, FALSE)

(***************************************************************************)
(* A call that returns has forgotten nothing that was cached when it       *)
(* began, although it takes periods out of the cache to put them together. *)
(***************************************************************************)
NothingForgotten ==
    call.status = "returned" => call.kept \subseteq CachedSeconds
=============================================================================
