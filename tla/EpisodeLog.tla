----------------------------- MODULE EpisodeLog -----------------------------
(***************************************************************************)
(* What the capture of a book promises to those who read                   *)
(* bitfinex.transient_raw_book_events, without handlers, tasks or          *)
(* connections: a log of complete episodes, written one session after      *)
(* another.                                                                *)
(*                                                                         *)
(*   - Rows are only ever added at the end of the log and stay as they     *)
(*     were written.                                                       *)
(*   - What is added at a time is one or more whole episodes of one        *)
(*     session, following those of the session already there, each row     *)
(*     with the stamp its episode has in the stream received.              *)
(*   - Once a session has rows, no earlier session gets any more.          *)
(*                                                                         *)
(* When rows are added, and whether at all, is not promised: handlers lag  *)
(* behind the network, and fail.                                           *)
(***************************************************************************)
EXTENDS BookEpisodes

CONSTANT Sessions    \* the sessions, in the order they are opened

VARIABLES
    received,   \* per session: the book events received from the exchange
    saved,      \* per session: how many of them are in the log
    log         \* the rows saved, each with its session

vars == << received, saved, log >>

Init ==
    /\ received = [s \in Sessions |-> << >>]
    /\ saved = [s \in Sessions |-> 0]
    /\ log = << >>

\* Session s receives some more events, or none.
Receives(s) ==
    /\ \A r \in Sessions \ {s} : received'[r] = received[r]
    /\ Len(received[s]) <= Len(received'[s])
    /\ received[s] = SubSeq(received'[s], 1, Len(received[s]))

\* The rows of the first n events of session s, less those saved.
NewRows(s, events, n) ==
    [i \in 1..(n - saved[s]) |->
        [session |-> s, row |-> CompleteEpisodes(events)[saved[s] + i]]]

\* Complete episodes of session s are saved.
Saves(s) ==
    \E n \in EpisodeEnds(received'[s]) :
        /\ n > saved[s]
        /\ \A r \in Sessions : r > s => saved[r] = 0
        /\ saved' = [saved EXCEPT ![s] = n]
        /\ log' = log \o NewRows(s, received'[s], n)

Next == \E s \in Sessions : Receives(s) /\ (Saves(s) \/ UNCHANGED << saved, log >>)

Spec == Init /\ [][Next]_vars
=============================================================================
