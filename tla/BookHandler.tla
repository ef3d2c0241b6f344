---------------------------- MODULE BookHandler -----------------------------
(***************************************************************************)
(* One book channel of the Bitfinex capture: the data handler created by   *)
(* the "subscribed" message, from its snapshot to its close.  Timestamps   *)
(* of successive events are arbitrary: the exchange gives no order.        *)
(* Heartbeats leave the handler as it is and are not actions here.         *)
(***************************************************************************)
EXTENDS BookEpisodes

CONSTANTS
    Timestamps,     \* the exchange timestamps messages carry
    MaxSnapshot,    \* bound: rows in the snapshot
    MaxEvents       \* bound: events a channel delivers, snapshot included

ASSUME ChannelAssumption ==
    /\ Timestamps \subseteq Nat
    /\ MaxSnapshot \in Nat \ {0}
    /\ MaxEvents \in Nat

VARIABLES
    status,     \* "subscribed" (no snapshot yet), "open", "closed", "failed"
    handler,    \* the handler's attributes
    db,         \* bitfinex.transient_raw_book_events, the rows of this channel
    received    \* history: the events received

vars == << status, handler, db, received >>

Init ==
    /\ status = "subscribed"
    /\ handler = NewHandler
    /\ db = << >>
    /\ received = << >>

(***************************************************************************)
(* A message is handled: the new state of the handler is h before the      *)
(* rows it may copy are taken out of it.  copy_records_to_table can raise; *)
(* the handler's task then ends without close().                           *)
(***************************************************************************)
Handled(h) ==
    \/ /\ handler' = Kept(h)
       /\ db' = db \o Copied(h)
       /\ status' = "open"
    \/ /\ Flushes(h)
       /\ status' = "failed"
       /\ handler' = h
       /\ UNCHANGED db

Snapshot(size, ts) ==
    LET events == [i \in 1..size |-> [n |-> i, kind |-> "snap", rts |-> ts]]
    IN  /\ status = "subscribed"
        /\ received' = events
        /\ Handled(OnSnapshot(handler, events, ts))

Event(kind, ts) ==
    LET e == [n |-> Len(received) + 1, kind |-> kind, rts |-> ts]
    IN  /\ status = "open"
        /\ Len(received) < MaxEvents
        /\ received' = Append(received, e)
        /\ Handled(OnEvent(handler, e))

(***************************************************************************)
(* close(): what is left of the records is saved, the incomplete episode   *)
(* is dropped (and logged).                                                *)
(***************************************************************************)
Close ==
    /\ status \in {"subscribed", "open"}
    /\ \/ /\ status' = "closed"
          /\ db' = db \o handler.records
          /\ handler' = [handler EXCEPT !.records = << >>]
       \/ /\ handler.records # << >>
          /\ status' = "failed"
          /\ UNCHANGED << db, handler >>
    /\ UNCHANGED received

Next ==
    \/ \E size \in 1..MaxSnapshot, ts \in Timestamps : Snapshot(size, ts)
    \/ \E kind \in {"add", "del"}, ts \in Timestamps : Event(kind, ts)
    \/ Close

Spec == Init /\ [][Next]_vars

-----------------------------------------------------------------------------
(***************************************************************************)
(* Type invariant.                                                         *)
(***************************************************************************)
TypeOK ==
    /\ status \in {"subscribed", "open", "closed", "failed"}
    /\ handler \in Handlers
    /\ db \in Seq(Rows)
    /\ received \in Seq(Events)

(***************************************************************************)
(* Nothing is lost, duplicated or reordered: as long as the channel is     *)
(* open, the rows saved and the rows kept are exactly the completed        *)
(* episodes of what was received, each row stamped with the latest         *)
(* timestamp up to its episode's end; after close() all of them are saved. *)
(***************************************************************************)
EpisodesKept ==
    /\ status = "open" => db \o handler.records = CompleteEpisodes(received)
    /\ status = "closed" => db = CompleteEpisodes(received)

(***************************************************************************)
(* The database never holds a part of an episode, not even after a failed  *)
(* COPY: what it holds ends where an episode ends.                         *)
(***************************************************************************)
WholeEpisodesOnly ==
    /\ Len(db) \in {0} \union EpisodeEnds(received)
    /\ db = SubSeq(CompleteEpisodes(received), 1, Len(db))

(***************************************************************************)
(* A row is never stamped with a time before its own exchange timestamp,   *)
(* and stamps never decrease along the table, whatever the order of the    *)
(* exchange's timestamps: consumers replay the table by episode_timestamp. *)
(***************************************************************************)
StampsInOrder ==
    /\ \A i \in DOMAIN db : db[i].ev.rts <= db[i].episode
    /\ \A i, j \in DOMAIN db : i <= j => db[i].episode <= db[j].episode

(***************************************************************************)
(* The channel implements a log of complete episodes with one session:     *)
(* what is saved is never changed, is added in whole episodes, and is      *)
(* stamped by the stream as it was when it was saved, whatever arrives     *)
(* afterwards.                                                             *)
(***************************************************************************)
Log == INSTANCE EpisodeLog WITH
    Sessions <- {1},
    received <- [s \in {1} |-> received],
    saved    <- [s \in {1} |-> Len(db)],
    log      <- [i \in DOMAIN db |-> [session |-> 1, row |-> db[i]]]

ImplementsLog == Log!Spec
=============================================================================
