----------------------------- MODULE DepthQueries -----------------------------
(***************************************************************************)
(* The functions of the database that serve depth for a period, without a  *)
(* frequency: get.depth() and get._starting_depth() of                     *)
(* src/db/get_schema.sql, level2_continuous() and _periods_within_eras()   *)
(* of src/db/obanalytics_schema.sql.                                       *)
(*                                                                         *)
(* What they read of level3 is, for every episode, the volumes it leaves   *)
(* at the price levels of the book: db.episodes maps the time of an        *)
(* episode to a book, db.eras is the set of the times at which eras begin. *)
(* The first episode of an era is at its begin.                            *)
(***************************************************************************)
EXTENDS FiniteSetsExt, Integers, SequencesExt

CONSTANTS
    Levels,     \* price levels: a side and a price
    Volumes     \* the volumes of a level

ASSUME VolumesAssumption == Volumes \subseteq Nat /\ 0 \in Volumes

Books == [Levels -> Volumes]
EmptyBook == [l \in Levels |-> 0]

\* A row of the result: a level's new volume.
Change(t, l, volume) == [time |-> t, level |-> l, volume |-> volume]

Times(db) == DOMAIN db.episodes
ErasUpTo(db, t) == {e \in db.eras : e <= t}
EraOf(db, t) == Max(ErasUpTo(db, t))
NextEras(db, era) == {e \in db.eras : e > era}

\* level3_eras.level3: the last episode of an era.
LastEpisode(db, era) ==
    Max({x \in Times(db) : x >= era /\ \A e \in NextEras(db, era) : x < e})

(***************************************************************************)
(* order_book(): nothing is live at or before the begin of an era.         *)
(***************************************************************************)
OrderBook(db, t, before) ==
    LET eras  == ErasUpTo(db, t)
        era   == Max(eras)
        shown == {x \in Times(db) : x \in era..t /\ (before => x < t)}
    IN  IF eras = {} \/ shown = {} THEN EmptyBook ELSE db.episodes[Max(shown)]

DepthChange(before, after, t) ==
    {Change(t, l, after[l]) : l \in {l \in Levels : before[l] # after[l]}}

\* depth_change_by_episode_fast(): see DepthChanges.
DepthChangeByEpisode(db, start, end) ==
    UNION { LET earlier == {y \in Times(db) : y \in start..(x - 1)}
                before  == IF earlier = {} THEN OrderBook(db, start, TRUE)
                           ELSE db.episodes[Max(earlier)]
            IN  DepthChange(before, db.episodes[x], x)
          : x \in {x \in Times(db) : x \in start..end} }

(***************************************************************************)
(* _periods_within_eras(): the parts of a period that are in eras, but     *)
(* those of no length.                                                     *)
(***************************************************************************)
PeriodsWithinEras(db, start, end) ==
    LET part(era) ==
            [ start |-> Max({era, start}),
              end   |-> Min({LastEpisode(db, era), end} \union NextEras(db, era)) ]
        eras == {era \in db.eras : start <= LastEpisode(db, era) /\ end >= era}
    IN  {p \in {part(era) : era \in eras} : p.end > p.start}

Before(periods, p) == {q \in periods : q.start < p.start}
PreviousEnd(periods, p) ==
    (CHOOSE q \in Before(periods, p) : \A r \in Before(periods, p) : r.start <= q.start).end

(***************************************************************************)
(* level2_continuous(): the changes in every era of the period and, an     *)
(* instant before an era begins, the changes that close the era before it. *)
(***************************************************************************)
StartingDepthChange(db, periods) ==
    UNION { DepthChange(OrderBook(db, PreviousEnd(periods, p), FALSE),
                        OrderBook(db, p.start, TRUE), p.start - 1)
          : p \in {p \in periods : Before(periods, p) # {}} }

Level2Continuous(db, start, end) ==
    LET periods == PeriodsWithinEras(db, start, end)
    IN  StartingDepthChange(db, periods)
        \union UNION {DepthChangeByEpisode(db, p.start, p.end) : p \in periods}

(***************************************************************************)
(* get.depth(), with the changes only and with the starting depth only.    *)
(* The first is exclusive of the period's end, the second is the order     *)
(* book just before the start.                                             *)
(***************************************************************************)
Depth(db, start, end) ==
    {c \in Level2Continuous(db, start, end) : c.time < end}

StartingDepth(db, start) ==
    LET periods == PeriodsWithinEras(db, start, start + 1)
        firsts  == {p \in periods : Before(periods, p) = {}}
    IN  UNION { LET book == OrderBook(db, p.start, TRUE)
                IN  {Change(p.start, l, book[l]) : l \in {l \in Levels : book[l] > 0}}
              : p \in firsts }
=============================================================================
