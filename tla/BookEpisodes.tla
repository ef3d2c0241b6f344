---------------------------- MODULE BookEpisodes ----------------------------
(***************************************************************************)
(* The episode accumulation of BitfinexBookDataHandler                     *)
(* (src/python/obadiah/bitfinex.py) as operators on the state of one       *)
(* handler.  Raw book events arrive one at a time; the handler groups them *)
(* into episodes, stamps every row of an episode with one timestamp and    *)
(* keeps the rows until there are enough of them for a COPY.               *)
(*                                                                         *)
(* An event is a record [n, kind, rts]: its position in the channel, what  *)
(* it does to the book and its exchange timestamp.  A deletion is an event *)
(* whose price is 0.                                                       *)
(***************************************************************************)
EXTENDS Naturals, Sequences

CONSTANT MinSaveCount    \* MIN_SAVE_COUNT: a COPY carries more rows than this

ASSUME MinSaveCountAssumption == MinSaveCount \in Nat

Kinds  == {"snap", "add", "del"}
Events == [n : Nat, kind : Kinds, rts : Nat]
Rows   == [ev : Events, episode : Nat]

(***************************************************************************)
(* is_episode_started, accumulated_data, episode_rts and records.  The     *)
(* code's episode_rts is None before the snapshot; it is not read then.    *)
(***************************************************************************)
Handlers == [started : BOOLEAN, acc : Seq(Events), rts : Nat, records : Seq(Rows)]
NewHandler == [started |-> FALSE, acc |-> << >>, rts |-> 0, records |-> << >>]

Later(a, b) == IF a > b THEN a ELSE b
StampForgotten(events, ts) == [i \in DOMAIN events |-> [ev |-> events[i]]]
Stamped(events, ts) == [i \in DOMAIN events |-> [ev |-> events[i], episode |-> ts]]

(***************************************************************************)
(* Rows are copied to the database by the event that completes an episode, *)
(* when more than MinSaveCount of them have accumulated.                   *)
(***************************************************************************)
Flushes(h) == Len(h.records) > MinSaveCount
Copied(h)  == IF Flushes(h) THEN h.records ELSE << >>
Kept(h)    == IF Flushes(h) THEN [h EXCEPT !.records = << >>] ELSE h

(***************************************************************************)
(* The snapshot of a new subscription is an episode of its own.            *)
(***************************************************************************)
OnSnapshot(h, events, ts) ==
    [h EXCEPT !.rts = ts, !.records = @ \o Stamped(events, ts)]

(***************************************************************************)
(* A deletion after an addition completes the episode accumulated so far   *)
(* and is the first event of the next one.                                 *)
(***************************************************************************)
Completes(h, e) == e.kind = "del" /\ h.started

\* Slips an edit of data() could make, used to show that the properties of
\* the modules built on this one tell them from the code.
OnEventKeepsDeletion(h, e) ==
    [ started |-> e.kind = "add",
      acc     |-> IF Completes(h, e) THEN << >> ELSE Append(h.acc, e),
      rts     |-> Later(h.rts, e.rts),
      records |-> IF Completes(h, e)
                  THEN h.records \o Stamped(Append(h.acc, e), h.rts) ELSE h.records ]
OnEventForgets(h, e) ==
    [ started |-> e.kind = "add",
      acc     |-> IF Completes(h, e) THEN << >> ELSE Append(h.acc, e),
      rts     |-> Later(h.rts, e.rts),
      records |-> IF Completes(h, e) THEN h.records \o Stamped(h.acc, h.rts) ELSE h.records ]
OnEventLastStamp(h, e) ==
    [ started |-> e.kind = "add",
      acc     |-> IF Completes(h, e) THEN << e >> ELSE Append(h.acc, e),
      rts     |-> e.rts,
      records |-> IF Completes(h, e) THEN h.records \o Stamped(h.acc, h.rts) ELSE h.records ]

OnEvent(h, e) ==
    [ started |-> e.kind = "add",
      acc     |-> IF Completes(h, e) THEN << e >> ELSE Append(h.acc, e),
      rts     |-> Later(h.rts, e.rts),
      records |-> IF Completes(h, e) THEN h.records \o Stamped(h.acc, h.rts) ELSE h.records ]

-----------------------------------------------------------------------------
(***************************************************************************)
(* What the rows of a channel should be, computed from the events it has   *)
(* received and from nothing the handler keeps.  Position j ends an        *)
(* episode when it ends the snapshot or when a deletion follows an         *)
(* addition there.                                                         *)
(***************************************************************************)
EndsEpisode(events, j) ==
    \/ /\ events[j].kind = "snap"
       /\ j = Len(events) \/ events[j + 1].kind # "snap"
    \/ /\ events[j].kind = "add"
       /\ j < Len(events)
       /\ events[j + 1].kind = "del"

EpisodeEnds(events) == {j \in DOMAIN events : EndsEpisode(events, j)}

\* The number of events in completed episodes.
CompleteLength(events) ==
    CHOOSE m \in {0} \union EpisodeEnds(events) : \A j \in EpisodeEnds(events) : j <= m

\* The timestamp of the episode event i belongs to: the latest timestamp
\* received up to that episode's end.
EpisodeStamp(events, i) ==
    LET end == CHOOSE m \in EpisodeEnds(events) :
                  m >= i /\ \A j \in EpisodeEnds(events) : j >= i => m <= j
    IN  CHOOSE t \in {events[j].rts : j \in 1..end} : \A j \in 1..end : events[j].rts <= t

CompleteEpisodes(events) ==
    [i \in 1..CompleteLength(events) |->
        [ev |-> events[i], episode |-> EpisodeStamp(events, i)]]
=============================================================================
