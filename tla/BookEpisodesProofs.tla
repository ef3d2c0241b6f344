------------------------- MODULE BookEpisodesProofs -------------------------
(***************************************************************************)
(* What the operators of BookEpisodes return: the lemmas the proofs about  *)
(* BookHandler and Capture rest on.                                        *)
(***************************************************************************)
EXTENDS BookEpisodes, SequenceTheorems, TLAPS

\* The fields of the rows of a sequence have their types.
LEMMA RowFields ==
    ASSUME NEW rows \in Seq(Rows), NEW i \in DOMAIN rows
    PROVE  rows[i].ev \in Events /\ rows[i].episode \in Nat
  <1>1. rows[i] \in Rows
    OBVIOUS
  <1>. QED
    BY <1>1 DEF Rows

\* What a concatenation is made of.
LEMMA Concat ==
    ASSUME NEW S, NEW a \in Seq(S), NEW b \in Seq(S)
    PROVE  /\ a \o b \in Seq(S)
           /\ DOMAIN a = 1..Len(a) /\ Len(a) \in Nat /\ Len(b) \in Nat
           /\ DOMAIN (a \o b) = 1..(Len(a) + Len(b))
           /\ \A i \in 1..(Len(a) + Len(b)) :
                 (a \o b)[i] = IF i <= Len(a) THEN a[i] ELSE b[i - Len(a)]
  <1>1. a \o b \in Seq(S) /\ Len(a \o b) = Len(a) + Len(b)
    BY ConcatProperties
  <1>. QED
    BY <1>1, ConcatProperties, LenProperties

\* Appending rows twice is appending them together.
LEMMA RowsAssociative ==
    ASSUME NEW a \in Seq(Rows), NEW b \in Seq(Rows), NEW c \in Seq(Rows)
    PROVE  (a \o b) \o c = a \o (b \o c)
  BY ConcatAssociative

\* Rows carry their events in order and the one stamp they are given.
LEMMA StampedRows ==
    ASSUME NEW events \in Seq(Events), NEW ts \in Nat
    PROVE  /\ Stamped(events, ts) \in Seq(Rows)
           /\ Len(Stamped(events, ts)) = Len(events)
           /\ \A i \in 1..Len(events) : /\ Stamped(events, ts)[i].ev = events[i]
                                        /\ Stamped(events, ts)[i].episode = ts
  <1>1. DOMAIN events = 1..Len(events) /\ Len(events) \in Nat
    OBVIOUS
  <1>2. \A i \in 1..Len(events) : [ev |-> events[i], episode |-> ts] \in Rows
    BY DEF Rows
  <1>. QED
    BY <1>1, <1>2 DEF Stamped

\* A new handler is one.
LEMMA NewHandlerType == NewHandler \in Handlers
  BY DEF NewHandler, Handlers

\* The later of two timestamps is one of them and not before the other.
LEMMA LaterProperties ==
    ASSUME NEW a \in Nat, NEW b \in Nat
    PROVE  Later(a, b) \in Nat /\ a <= Later(a, b) /\ b <= Later(a, b)
  BY DEF Later

\* The handler's fields have their types.
LEMMA HandlerFields ==
    ASSUME NEW h \in Handlers
    PROVE  /\ h.started \in BOOLEAN /\ h.rts \in Nat
           /\ h.acc \in Seq(Events) /\ h.records \in Seq(Rows)
  BY DEF Handlers

\* A snapshot leaves a handler.
LEMMA OnSnapshotType ==
    ASSUME NEW h \in Handlers, NEW events \in Seq(Events), NEW ts \in Nat
    PROVE  /\ OnSnapshot(h, events, ts) \in Handlers
           /\ OnSnapshot(h, events, ts).records = h.records \o Stamped(events, ts)
           /\ OnSnapshot(h, events, ts).rts = ts
           /\ OnSnapshot(h, events, ts).acc = h.acc
  <1>1. Stamped(events, ts) \in Seq(Rows)
    BY StampedRows
  <1>2. h.records \o Stamped(events, ts) \in Seq(Rows)
    BY <1>1, HandlerFields
  <1>. QED
    BY <1>2, HandlerFields DEF OnSnapshot, Handlers

\* An event leaves a handler.
LEMMA OnEventType ==
    ASSUME NEW h \in Handlers, NEW e \in Events
    PROVE  OnEvent(h, e) \in Handlers
  <1>1. e.rts \in Nat /\ (e.kind = "add") \in BOOLEAN
    BY DEF Events
  <1>2. Stamped(h.acc, h.rts) \in Seq(Rows)
    BY StampedRows, HandlerFields
  <1>3. Later(h.rts, e.rts) \in Nat
    BY <1>1, HandlerFields, LaterProperties
  <1>4. << e >> \in Seq(Events) /\ Append(h.acc, e) \in Seq(Events)
    BY HandlerFields
  <1>5. h.records \o Stamped(h.acc, h.rts) \in Seq(Rows)
    BY <1>2, HandlerFields
  <1>. QED
    BY <1>1, <1>3, <1>4, <1>5, HandlerFields DEF OnEvent, Handlers

\* What is copied and what is kept together are the records.
LEMMA CopiedAndKept ==
    ASSUME NEW h \in Handlers
    PROVE  /\ Kept(h) \in Handlers
           /\ Copied(h) \in Seq(Rows)
           /\ Kept(h).rts = h.rts /\ Kept(h).acc = h.acc /\ Kept(h).started = h.started
           /\ \/ Copied(h) = h.records /\ Kept(h).records = << >>
              \/ Copied(h) = << >> /\ Kept(h).records = h.records
  <1>1. << >> \in Seq(Rows)
    OBVIOUS
  <1>2. CASE Flushes(h)
    <2>1. Kept(h) = [h EXCEPT !.records = << >>] /\ Copied(h) = h.records
      BY <1>2 DEF Kept, Copied
    <2>2. [h EXCEPT !.records = << >>] \in Handlers
      BY <1>1 DEF Handlers
    <2>. QED
      BY <2>1, <2>2, HandlerFields DEF Handlers
  <1>3. CASE ~Flushes(h)
    <2>1. Kept(h) = h /\ Copied(h) = << >>
      BY <1>3 DEF Kept, Copied
    <2>. QED
      BY <2>1, <1>1
  <1>. QED
    BY <1>2, <1>3

-----------------------------------------------------------------------------
(***************************************************************************)
(* How far a handler is with the events it was given: the rows it has made *)
(* are the events up to the end of an episode, each stamped with the       *)
(* latest timestamp up to its own episode's end; the other events are      *)
(* accumulated.                                                            *)
(***************************************************************************)
IsLatest(events, n, t) ==
    /\ \E j \in 1..n : events[j].rts = t
    /\ \A j \in 1..n : events[j].rts <= t

IsEndOf(events, i, end) ==
    /\ end \in EpisodeEnds(events) /\ i <= end
    /\ \A j \in EpisodeEnds(events) : i <= j => end <= j

IsStamp(events, i, t) ==
    \E end \in EpisodeEnds(events) : IsEndOf(events, i, end) /\ IsLatest(events, end, t)

HasRows(events, rows) ==
    /\ Len(rows) \in {0} \union EpisodeEnds(events)
    /\ \A i \in 1..Len(rows) : rows[i].ev = events[i] /\ IsStamp(events, i, rows[i].episode)

Accumulates(events, rows, h) ==
    /\ events \in Seq(Events) /\ Len(events) > 0
    /\ HasRows(events, rows)
    /\ \A j \in EpisodeEnds(events) : j <= Len(rows)
    /\ Len(events) = Len(rows) + Len(h.acc)
    /\ \A i \in 1..Len(h.acc) : h.acc[i] = events[Len(rows) + i]
    /\ IsLatest(events, Len(events), h.rts)
    /\ h.started = (events[Len(events)].kind = "add")

\* The ends of episodes are positions of events.
LEMMA EndsArePositions ==
    ASSUME NEW events \in Seq(Events)
    PROVE  /\ DOMAIN events = 1..Len(events) /\ Len(events) \in Nat
           /\ EpisodeEnds(events) \subseteq 1..Len(events)
           /\ \A i \in 1..Len(events) : /\ events[i] \in Events
                                        /\ events[i].rts \in Nat
                                        /\ events[i].kind \in Kinds
  <1>1. DOMAIN events = 1..Len(events) /\ Len(events) \in Nat
    OBVIOUS
  <1>2. \A i \in 1..Len(events) : events[i] \in Events
    BY <1>1
  <1>. QED
    BY <1>1, <1>2 DEF EpisodeEnds, Events

\* A stamp is what EpisodeStamp() chooses.
LEMMA StampIsUnique ==
    ASSUME NEW events \in Seq(Events), NEW i \in Nat, NEW t \in Nat, IsStamp(events, i, t)
    PROVE  EpisodeStamp(events, i) = t
  <1>. DEFINE P(m) == m >= i /\ \A j \in EpisodeEnds(events) : j >= i => m <= j
              last == CHOOSE m \in EpisodeEnds(events) : P(m)
              stamps == {events[j].rts : j \in 1..last}
              Q(x) == \A j \in 1..last : events[j].rts <= x
  <1>1. PICK end \in EpisodeEnds(events) : IsEndOf(events, i, end) /\ IsLatest(events, end, t)
    BY DEF IsStamp
  <1>2. \A j \in EpisodeEnds(events) : j \in Nat
    BY EndsArePositions
  <1>3. P(end)
    BY <1>1, <1>2 DEF IsEndOf
  <1>4. last \in EpisodeEnds(events) /\ P(last)
    <2>. HIDE DEF P
    <2>. QED
      BY <1>1, <1>3
  <1>5. last = end
    BY <1>1, <1>2, <1>3, <1>4
  <1>. HIDE DEF last
  <1>6. t \in stamps /\ Q(t)
    BY <1>1, <1>5 DEF IsLatest
  <1>7. \A x \in stamps : x \in Nat
    BY <1>1, <1>5, EndsArePositions
  <1>8. (CHOOSE x \in stamps : Q(x)) \in stamps /\ Q(CHOOSE x \in stamps : Q(x))
    <2>. HIDE DEF Q, stamps
    <2>. QED
      BY <1>6
  <1>9. ASSUME NEW x \in stamps, Q(x)
        PROVE  x = t
    <2>1. x <= t
      BY <1>6
    <2>2. t <= x
      BY <1>6, <1>9
    <2>3. x \in Nat /\ t \in Nat
      BY <1>7
    <2>. HIDE DEF stamps, Q
    <2>. QED
      BY <2>1, <2>2, <2>3
  <1>10. EpisodeStamp(events, i) = CHOOSE x \in stamps : Q(x)
    BY DEF EpisodeStamp, last
  <1>. QED
    BY <1>8, <1>9, <1>10

\* Rows up to the last end of an episode are all the complete episodes.
LEMMA LastEndIsComplete ==
    ASSUME NEW events \in Seq(Events), NEW n \in {0} \union EpisodeEnds(events),
           \A j \in EpisodeEnds(events) : j <= n
    PROVE  CompleteLength(events) = n
  <1>. DEFINE S == {0} \union EpisodeEnds(events)
              P(m) == \A j \in EpisodeEnds(events) : j <= m
              m0 == CHOOSE m \in S : P(m)
  <1>1. S \subseteq Nat
    BY EndsArePositions
  <1>2. m0 \in S /\ P(m0)
    <2>. HIDE DEF P, S
    <2>1. n \in S /\ P(n)
      BY DEF P, S
    <2>. QED
      BY <2>1
  <1>3. CompleteLength(events) = m0
    BY DEF CompleteLength
  <1>. HIDE DEF m0
  <1>4. n \in Nat /\ m0 \in Nat
    BY <1>1, <1>2
  <1>5. m0 <= n
    BY <1>2, <1>4
  <1>6. n <= m0
    BY <1>2, <1>4
  <1>. QED
    BY <1>3, <1>4, <1>5, <1>6

\* Rows of all the complete episodes are CompleteEpisodes(events).
LEMMA AccumulatesComplete ==
    ASSUME NEW events, NEW rows \in Seq(Rows), NEW h, Accumulates(events, rows, h)
    PROVE  rows = CompleteEpisodes(events)
  <1>1. events \in Seq(Events) /\ CompleteLength(events) = Len(rows)
    BY LastEndIsComplete DEF Accumulates, HasRows
  <1>2. DOMAIN rows = 1..Len(rows) /\ Len(rows) \in Nat
    OBVIOUS
  <1>3. ASSUME NEW i \in 1..Len(rows)
        PROVE  rows[i] = [ev |-> events[i], episode |-> EpisodeStamp(events, i)]
    <2>1. rows[i].ev = events[i] /\ IsStamp(events, i, rows[i].episode)
      BY DEF Accumulates, HasRows
    <2>2. rows[i] \in Rows /\ rows[i].episode \in Nat
      BY <1>2, RowFields
    <2>3. rows[i].episode = EpisodeStamp(events, i)
      BY <2>1, <2>2, <1>1, <1>2, StampIsUnique
    <2>. QED
      BY <2>1, <2>2, <2>3 DEF Rows
  <1>4. CompleteEpisodes(events) = [i \in 1..Len(rows) |->
                [ev |-> events[i], episode |-> EpisodeStamp(events, i)]]
    BY <1>1 DEF CompleteEpisodes
  <1>. QED
    BY <1>2, <1>3, <1>4

-----------------------------------------------------------------------------
\* A snapshot is an episode.
LEMMA SnapshotAccumulates ==
    ASSUME NEW events \in Seq(Events), NEW ts \in Nat, Len(events) > 0,
           \A i \in 1..Len(events) : events[i].kind = "snap" /\ events[i].rts = ts,
           NEW h, h.acc = << >>, h.rts = ts, h.started = FALSE
    PROVE  Accumulates(events, Stamped(events, ts), h)
  <1>. DEFINE n == Len(events)
              rows == Stamped(events, ts)
  <1>1. /\ n \in Nat /\ n \in 1..n /\ DOMAIN events = 1..n
        /\ \A i \in 1..n : events[i] \in Events
    BY EndsArePositions
  <1>2. EpisodeEnds(events) = {n}
    BY <1>1 DEF EpisodeEnds, EndsEpisode
  <1>3. /\ rows \in Seq(Rows) /\ Len(rows) = n
        /\ \A i \in 1..n : rows[i].ev = events[i] /\ rows[i].episode = ts
    BY StampedRows
  <1>4. IsLatest(events, n, ts)
    BY <1>1 DEF IsLatest
  <1>5. \A i \in 1..n : IsStamp(events, i, ts)
    BY <1>1, <1>2, <1>4 DEF IsStamp, IsEndOf
  <1>. HIDE DEF rows
  <1>6. HasRows(events, rows)
    BY <1>2, <1>3, <1>5 DEF HasRows
  <1>7. Len(h.acc) = 0
    OBVIOUS
  <1>8. (events[n].kind = "add") = FALSE
    BY <1>1
  <1>9. n = Len(rows) + Len(h.acc) /\ \A i \in 1..Len(h.acc) : h.acc[i] = events[Len(rows) + i]
    BY <1>1, <1>3, <1>7
  <1>10. \A j \in EpisodeEnds(events) : j <= Len(rows)
    BY <1>1, <1>2, <1>3
  <1>11. h.started = (events[n].kind = "add") /\ IsLatest(events, n, h.rts)
    BY <1>4, <1>8
  <1>12. Accumulates(events, rows, h)
    BY <1>6, <1>9, <1>10, <1>11 DEF Accumulates
  <1>. QED
    BY <1>12 DEF rows

\* What one more event does to the ends of episodes.
LEMMA EndsAfterEvent ==
    ASSUME NEW events \in Seq(Events), Len(events) > 0,
           NEW e \in Events, e.kind \in {"add", "del"}
    PROVE  EpisodeEnds(Append(events, e)) =
             EpisodeEnds(events) \union
               (IF events[Len(events)].kind = "add" /\ e.kind = "del" THEN {Len(events)} ELSE {})
  <1>. DEFINE n == Len(events)
              longer == Append(events, e)
  <1>1. /\ n \in Nat /\ n \in 1..n /\ DOMAIN events = 1..n
        /\ \A i \in 1..n : events[i].kind \in Kinds
    BY EndsArePositions
  <1>2. /\ Len(longer) = n + 1 /\ DOMAIN longer = 1..(n + 1)
        /\ \A i \in 1..n : longer[i] = events[i]
        /\ longer[n + 1] = e
    BY <1>1
  <1>. HIDE DEF longer, n
  <1>3. ASSUME NEW j \in 1..(n - 1)
        PROVE  EndsEpisode(longer, j) <=> EndsEpisode(events, j)
    <2>1. j \in 1..n /\ j + 1 \in 1..n /\ j < n /\ j < n + 1 /\ j # n /\ j # n + 1
      BY <1>1
    <2>2. longer[j] = events[j] /\ longer[j + 1] = events[j + 1]
      BY <1>2, <2>1
    <2>3. /\ j < Len(events) /\ j < Len(longer)
          /\ j # Len(events) /\ j # Len(longer)
      BY <1>2, <2>1 DEF n
    <2>. QED
      BY <2>2, <2>3 DEF EndsEpisode
  <1>4. EndsEpisode(longer, n) <=>
          EndsEpisode(events, n) \/ (events[n].kind = "add" /\ e.kind = "del")
    <2>1. /\ longer[n] = events[n] /\ longer[n + 1] = e /\ n # n + 1 /\ n < Len(longer)
          /\ ~(n < Len(events)) /\ n = Len(events)
      <3>1. n = Len(events)
        BY DEF n
      <3>2. longer[n] = events[n] /\ longer[n + 1] = e /\ Len(longer) = n + 1 /\ n \in Nat
        BY <1>1, <1>2
      <3>3. \A k \in Nat : k # k + 1 /\ k < k + 1 /\ ~(k < k)
        OBVIOUS
      <3>. QED
        BY <3>1, <3>2, <3>3
    <2>2. EndsEpisode(events, n) <=> events[n].kind = "snap"
      BY <2>1 DEF EndsEpisode
    <2>3. EndsEpisode(longer, n) <=>
            events[n].kind = "snap" \/ (events[n].kind = "add" /\ e.kind = "del")
      BY <1>2, <2>1 DEF EndsEpisode
    <2>. QED
      BY <2>2, <2>3
  <1>5. ~EndsEpisode(longer, n + 1)
    BY <1>1, <1>2 DEF EndsEpisode
  <1>6. \A j \in 1..(n + 1) : j \in 1..(n - 1) \/ j = n \/ j = n + 1
    <2>1. \A k \in Nat : \A j \in 1..(k + 1) : j \in 1..(k - 1) \/ j = k \/ j = k + 1
      OBVIOUS
    <2>. QED
      BY <1>1, <2>1
  <1>7. ASSUME NEW j
        PROVE  j \in EpisodeEnds(longer) <=>
                 \/ j \in EpisodeEnds(events)
                 \/ j = n /\ events[n].kind = "add" /\ e.kind = "del"
    <2>1. /\ j \in EpisodeEnds(longer) <=> j \in 1..(n + 1) /\ EndsEpisode(longer, j)
          /\ j \in EpisodeEnds(events) <=> j \in 1..n /\ EndsEpisode(events, j)
      BY <1>1, <1>2 DEF EpisodeEnds, n
    <2>2. /\ j \in 1..(n - 1) => j \in 1..n /\ j \in 1..(n + 1) /\ j # n
          /\ n \in 1..(n + 1) /\ n + 1 \notin 1..n /\ n + 1 # n
          /\ j \in 1..n => j \in 1..(n + 1)
      BY <1>1
    <2>. QED
      BY <1>1, <1>3, <1>4, <1>5, <1>6, <2>1, <2>2
  <1>8. EpisodeEnds(longer) = EpisodeEnds(events) \union
          (IF events[n].kind = "add" /\ e.kind = "del" THEN {n} ELSE {})
    BY <1>7
  <1>. QED
    BY <1>8 DEF longer, n

\* Rows are not affected by events that follow.
LEMMA RowsStay ==
    ASSUME NEW events \in Seq(Events), Len(events) > 0,
           NEW e \in Events, e.kind \in {"add", "del"},
           NEW rows \in Seq(Rows), HasRows(events, rows)
    PROVE  HasRows(Append(events, e), rows)
  <1>. DEFINE n == Len(events)
              longer == Append(events, e)
  <1>1. /\ n \in Nat /\ Len(rows) \in Nat /\ Len(rows) <= n
        /\ EpisodeEnds(events) \subseteq 1..n
    BY EndsArePositions DEF HasRows
  <1>2. \A i \in 1..n : longer[i] = events[i]
    OBVIOUS
  <1>3. /\ EpisodeEnds(events) \subseteq EpisodeEnds(longer)
        /\ \A j \in EpisodeEnds(longer) : j \in EpisodeEnds(events) \/ j = n
    BY EndsAfterEvent
  <1>. HIDE DEF longer
  <1>4. ASSUME NEW i \in 1..Len(rows)
        PROVE  rows[i].ev = longer[i] /\ IsStamp(longer, i, rows[i].episode)
    <2>1. rows[i].ev = events[i] /\ i \in 1..n
      BY <1>1 DEF HasRows
    <2>2. PICK end \in EpisodeEnds(events) :
            IsEndOf(events, i, end) /\ IsLatest(events, end, rows[i].episode)
      BY DEF HasRows, IsStamp
    <2>3. IsLatest(longer, end, rows[i].episode)
      BY <1>1, <1>2, <2>2 DEF IsLatest
    <2>4. IsEndOf(longer, i, end)
      BY <1>1, <1>3, <2>2 DEF IsEndOf
    <2>. QED
      BY <1>2, <1>3, <2>1, <2>2, <2>3, <2>4 DEF IsStamp
  <1>. QED
    BY <1>3, <1>4 DEF HasRows, longer

\* Rows of the first part of a stream are rows of the stream.
LEMMA RowsOfFirst ==
    ASSUME NEW events \in Seq(Events), NEW n \in 1..Len(events),
           \A j \in (n + 1)..Len(events) : events[j].kind # "snap",
           NEW rows \in Seq(Rows), HasRows(SubSeq(events, 1, n), rows)
    PROVE  HasRows(events, rows)
  <1>. DEFINE first == SubSeq(events, 1, n)
  <1>1. /\ n \in Nat /\ n > 0 /\ Len(events) \in Nat /\ n <= Len(events)
        /\ DOMAIN events = 1..Len(events)
    BY EndsArePositions
  <1>2. first \in Seq(Events) /\ Len(first) = n /\ \A i \in 1..n : first[i] = events[i]
    BY <1>1
  <1>3. Len(rows) \in Nat /\ Len(rows) <= n /\ EpisodeEnds(first) \subseteq 1..n
    <2>1. EpisodeEnds(first) \subseteq 1..n
      BY <1>2, EndsArePositions
    <2>. QED
      BY <1>1, <2>1 DEF HasRows
  <1>4. DOMAIN first = 1..n
    BY <1>2
  <1>. HIDE DEF first
  <1>5. ASSUME NEW j \in 1..n, j # n
        PROVE  EndsEpisode(first, j) <=> EndsEpisode(events, j)
    <2>1. j + 1 \in 1..n /\ j < n /\ j < Len(events) /\ j # Len(events)
      <3>1. n \in Nat /\ Len(events) \in Nat /\ n <= Len(events)
        BY <1>1
      <3>2. \A a, b \in Nat : \A c \in 1..a :
              c # a /\ a <= b => c + 1 \in 1..a /\ c < a /\ c < b /\ c # b
        OBVIOUS
      <3>. QED
        BY <1>5, <3>1, <3>2
    <2>2. Len(first) = n /\ first[j] = events[j] /\ first[j + 1] = events[j + 1]
      BY <1>2, <2>1
    <2>. QED
      BY <1>5, <2>1, <2>2 DEF EndsEpisode
  <1>6. EndsEpisode(first, n) => EndsEpisode(events, n)
    <2>1. ASSUME EndsEpisode(first, n)
          PROVE  events[n].kind = "snap"
      BY <1>1, <1>2, <2>1 DEF EndsEpisode
    <2>2. n = Len(events) \/ events[n + 1].kind # "snap"
      BY <1>1
    <2>. QED
      BY <2>1, <2>2 DEF EndsEpisode
  <1>7. /\ EpisodeEnds(first) \subseteq EpisodeEnds(events)
        /\ \A j \in EpisodeEnds(events) : j \in EpisodeEnds(first) \/ n <= j
    <2>1. 1..n \subseteq DOMAIN events
      BY <1>1
    <2>2. \A j \in DOMAIN events : (j \in 1..n /\ j # n) \/ n <= j
      BY <1>1
    <2>. QED
      BY <1>4, <1>5, <1>6, <2>1, <2>2 DEF EpisodeEnds
  <1>8. ASSUME NEW i \in 1..Len(rows)
        PROVE  rows[i].ev = events[i] /\ IsStamp(events, i, rows[i].episode)
    <2>1. rows[i].ev = first[i] /\ i \in 1..n
      BY <1>3 DEF HasRows, first
    <2>2. PICK end \in EpisodeEnds(first) :
            IsEndOf(first, i, end) /\ IsLatest(first, end, rows[i].episode)
      BY DEF HasRows, IsStamp, first
    <2>3. IsLatest(events, end, rows[i].episode)
      BY <1>2, <1>3, <2>2 DEF IsLatest
    <2>4. IsEndOf(events, i, end)
      <3>1. end \in 1..n /\ \A j \in EpisodeEnds(events) : j \in Nat
        BY <1>3, <2>2, EndsArePositions
      <3>2. ASSUME NEW j \in EpisodeEnds(events), i <= j
            PROVE  end <= j
        BY <1>1, <1>7, <2>2, <3>1, <3>2 DEF IsEndOf
      <3>. QED
        BY <1>7, <2>2, <3>2 DEF IsEndOf
    <2>. QED
      BY <1>2, <1>7, <2>1, <2>2, <2>3, <2>4 DEF IsStamp
  <1>. QED
    BY <1>7, <1>8 DEF HasRows, first

\* The latest timestamp after one more event.
LEMMA LatestAfterEvent ==
    ASSUME NEW events \in Seq(Events), NEW e \in Events, NEW t \in Nat,
           IsLatest(events, Len(events), t)
    PROVE  /\ IsLatest(Append(events, e), Len(events), t)
           /\ IsLatest(Append(events, e), Len(events) + 1, Later(t, e.rts))
  <1>. DEFINE n == Len(events)
              longer == Append(events, e)
  <1>1. n \in Nat /\ e.rts \in Nat /\ \A i \in 1..n : events[i].rts \in Nat
    BY EndsArePositions DEF Events
  <1>2. (\A i \in 1..n : longer[i] = events[i]) /\ longer[n + 1] = e
    BY <1>1
  <1>3. (\E j \in 1..n : events[j].rts = t) /\ \A j \in 1..n : events[j].rts <= t
    BY DEF IsLatest
  <1>. HIDE DEF longer, n
  <1>4. IsLatest(longer, n, t)
    BY <1>2, <1>3 DEF IsLatest
  <1>5. \A j \in 1..(n + 1) : j \in 1..n \/ j = n + 1
    BY <1>1
  <1>6. n + 1 \in 1..(n + 1) /\ 1..n \subseteq 1..(n + 1)
    BY <1>1
  <1>7. \A j \in 1..(n + 1) : longer[j].rts <= Later(t, e.rts)
    BY <1>1, <1>2, <1>3, <1>5 DEF Later
  <1>8. \E j \in 1..(n + 1) : longer[j].rts = Later(t, e.rts)
    <2>1. CASE Later(t, e.rts) = t
      BY <2>1, <1>2, <1>3, <1>6
    <2>2. CASE Later(t, e.rts) = e.rts
      BY <2>2, <1>2, <1>6
    <2>. QED
      BY <2>1, <2>2 DEF Later
  <1>9. IsLatest(longer, n + 1, Later(t, e.rts))
    BY <1>7, <1>8 DEF IsLatest
  <1>. QED
    BY <1>4, <1>9 DEF longer, n

(***************************************************************************)
(* An event completes the accumulated episode or is accumulated.           *)
(***************************************************************************)
LEMMA EventCompletes ==
    ASSUME NEW events, NEW rows \in Seq(Rows), NEW h \in Handlers,
           Accumulates(events, rows, h),
           NEW e \in Events, e.kind \in {"add", "del"}, Completes(h, e)
    PROVE  Accumulates(Append(events, e), rows \o Stamped(h.acc, h.rts), OnEvent(h, e))
  <1>. DEFINE n == Len(events)
              longer == Append(events, e)
              new == Stamped(h.acc, h.rts)
              more == rows \o new
              g == OnEvent(h, e)
  <1>1. /\ events \in Seq(Events) /\ n > 0 /\ n \in Nat
        /\ h.acc \in Seq(Events) /\ h.rts \in Nat
        /\ Len(rows) \in Nat /\ Len(h.acc) \in Nat
        /\ n = Len(rows) + Len(h.acc)
        /\ events[n].kind = "add" /\ e.kind = "del"
    <2>1. h.acc \in Seq(Events) /\ h.rts \in Nat /\ Len(h.acc) \in Nat
      BY HandlerFields
    <2>2. /\ Len(rows) \in Nat
          /\ events \in Seq(Events) /\ n > 0 /\ n \in Nat /\ n = Len(rows) + Len(h.acc)
          /\ h.started = (events[n].kind = "add")
      BY DEF Accumulates
    <2>3. events[n].kind = "add" /\ e.kind = "del"
      BY <2>2 DEF Completes
    <2>. HIDE DEF n
    <2>. QED
      BY <2>1, <2>2, <2>3
  <1>2. /\ Len(longer) = n + 1 /\ longer[n + 1] = e /\ longer \in Seq(Events)
        /\ \A i \in 1..n : longer[i] = events[i]
    BY <1>1
  <1>3. EpisodeEnds(longer) = EpisodeEnds(events) \union {n}
    BY <1>1, EndsAfterEvent
  <1>4. /\ \A j \in EpisodeEnds(events) : j <= Len(rows) /\ j \in Nat
        /\ \A i \in 1..Len(h.acc) : h.acc[i] = events[Len(rows) + i]
        /\ IsLatest(events, n, h.rts)
    BY <1>1, EndsArePositions DEF Accumulates
  <1>5. IsLatest(longer, n, h.rts) /\ IsLatest(longer, n + 1, Later(h.rts, e.rts))
    BY <1>1, <1>4, LatestAfterEvent
  <1>6. HasRows(longer, rows)
    BY <1>1, RowsStay DEF Accumulates
  <1>7. /\ new \in Seq(Rows) /\ Len(new) = Len(h.acc)
        /\ \A i \in 1..Len(h.acc) : new[i].ev = h.acc[i] /\ new[i].episode = h.rts
    BY <1>1, StampedRows
  <1>. HIDE DEF longer, new
  <1>8. /\ Len(more) = n
        /\ \A i \in 1..n : more[i] = IF i <= Len(rows) THEN rows[i] ELSE new[i - Len(rows)]
    BY <1>1, <1>7, Concat
  <1>. HIDE DEF more, n
  <1>9. ASSUME NEW i \in 1..n
        PROVE  more[i].ev = longer[i] /\ IsStamp(longer, i, more[i].episode)
    <2>1. CASE i <= Len(rows)
      <3>1. i \in 1..Len(rows)
        BY <2>1, <1>1
      <3>. QED
        BY <2>1, <3>1, <1>6, <1>8 DEF HasRows
    <2>2. CASE ~(i <= Len(rows))
      <3>1. i - Len(rows) \in 1..Len(h.acc) /\ Len(rows) + (i - Len(rows)) = i
        BY <2>2, <1>1
      <3>2. /\ more[i] = new[i - Len(rows)]
            /\ new[i - Len(rows)].ev = h.acc[i - Len(rows)] /\ h.acc[i - Len(rows)] = events[i]
            /\ new[i - Len(rows)].episode = h.rts
        <4>1. more[i] = new[i - Len(rows)]
          BY <2>2, <1>8
        <4>2. /\ new[i - Len(rows)].ev = h.acc[i - Len(rows)]
              /\ new[i - Len(rows)].episode = h.rts
          BY <3>1, <1>7
        <4>3. h.acc[i - Len(rows)] = events[i]
          BY <3>1, <1>4
        <4>. QED
          BY <4>1, <4>2, <4>3
      <3>3. IsEndOf(longer, i, n)
        BY <2>2, <1>1, <1>3, <1>4 DEF IsEndOf
      <3>. QED
        BY <3>2, <3>3, <1>2, <1>3, <1>5 DEF IsStamp
    <2>. QED
      BY <2>1, <2>2
  <1>10. HasRows(longer, more)
    BY <1>3, <1>8, <1>9 DEF HasRows
  <1>11. \A j \in EpisodeEnds(longer) : j <= Len(more)
    BY <1>1, <1>3, <1>4, <1>8
  <1>12. g.acc = << e >> /\ g.rts = Later(h.rts, e.rts) /\ g.started = (e.kind = "add")
    BY DEF OnEvent
  <1>13. /\ Len(longer) = Len(more) + Len(g.acc)
         /\ \A i \in 1..Len(g.acc) : g.acc[i] = longer[Len(more) + i]
    BY <1>1, <1>2, <1>8, <1>12
  <1>14. Len(longer) > 0 /\ longer[Len(longer)] = e
    BY <1>1, <1>2
  <1>. HIDE DEF g
  <1>15. Accumulates(longer, more, g)
    BY <1>2, <1>5, <1>10, <1>11, <1>12, <1>13, <1>14 DEF Accumulates
  <1>. QED
    BY <1>15 DEF longer, more, new, g

LEMMA EventIsAccumulated ==
    ASSUME NEW events, NEW rows \in Seq(Rows), NEW h \in Handlers,
           Accumulates(events, rows, h),
           NEW e \in Events, e.kind \in {"add", "del"}, ~Completes(h, e)
    PROVE  Accumulates(Append(events, e), rows, OnEvent(h, e))
  <1>. DEFINE n == Len(events)
              longer == Append(events, e)
              g == OnEvent(h, e)
  <1>1. /\ events \in Seq(Events) /\ n > 0 /\ n \in Nat
        /\ h.acc \in Seq(Events) /\ h.rts \in Nat
        /\ Len(rows) \in Nat /\ Len(h.acc) \in Nat
        /\ n = Len(rows) + Len(h.acc)
        /\ ~(events[n].kind = "add" /\ e.kind = "del")
    <2>1. h.acc \in Seq(Events) /\ h.rts \in Nat /\ Len(h.acc) \in Nat
      BY HandlerFields
    <2>2. /\ Len(rows) \in Nat
          /\ events \in Seq(Events) /\ n > 0 /\ n \in Nat /\ n = Len(rows) + Len(h.acc)
          /\ h.started = (events[n].kind = "add")
      BY DEF Accumulates
    <2>3. ~(events[n].kind = "add" /\ e.kind = "del")
      BY <2>2 DEF Completes
    <2>. HIDE DEF n
    <2>. QED
      BY <2>1, <2>2, <2>3
  <1>2. /\ Len(longer) = n + 1 /\ longer[n + 1] = e /\ longer \in Seq(Events)
        /\ \A i \in 1..n : longer[i] = events[i]
    BY <1>1
  <1>3. EpisodeEnds(longer) = EpisodeEnds(events)
    BY <1>1, EndsAfterEvent
  <1>4. /\ \A j \in EpisodeEnds(events) : j <= Len(rows)
        /\ \A i \in 1..Len(h.acc) : h.acc[i] = events[Len(rows) + i]
        /\ IsLatest(events, n, h.rts)
    BY DEF Accumulates
  <1>5. IsLatest(longer, n + 1, Later(h.rts, e.rts))
    BY <1>1, <1>4, LatestAfterEvent
  <1>6. HasRows(longer, rows)
    BY <1>1, RowsStay DEF Accumulates
  <1>7. /\ g.acc = Append(h.acc, e) /\ g.rts = Later(h.rts, e.rts)
        /\ g.started = (e.kind = "add")
    BY DEF OnEvent
  <1>. HIDE DEF longer, g, n
  <1>8. /\ Len(g.acc) = Len(h.acc) + 1 /\ g.acc[Len(h.acc) + 1] = e
        /\ \A i \in 1..Len(h.acc) : g.acc[i] = h.acc[i]
    BY <1>1, <1>7
  <1>9. ASSUME NEW i \in 1..Len(g.acc)
        PROVE  g.acc[i] = longer[Len(rows) + i]
    <2>1. CASE i = Len(h.acc) + 1
      <3>1. Len(rows) + i = n + 1
        BY <2>1, <1>1
      <3>. QED
        BY <2>1, <3>1, <1>2, <1>8
    <2>2. CASE i # Len(h.acc) + 1
      <3>1. i \in 1..Len(h.acc)
        BY <2>2, <1>1, <1>8
      <3>2. Len(rows) + i \in 1..n
        BY <3>1, <1>1
      <3>. QED
        BY <3>1, <3>2, <1>2, <1>4, <1>8
    <2>. QED
      BY <2>1, <2>2
  <1>10. Len(longer) = Len(rows) + Len(g.acc) /\ Len(longer) > 0 /\ longer[Len(longer)] = e
    BY <1>1, <1>2, <1>8
  <1>11. Accumulates(longer, rows, g)
    BY <1>2, <1>3, <1>4, <1>5, <1>6, <1>7, <1>9, <1>10 DEF Accumulates
  <1>. QED
    BY <1>11 DEF longer, g

-----------------------------------------------------------------------------
(***************************************************************************)
(* What the rows made of a stream are, in the words of BookEpisodes.       *)
(***************************************************************************)
HasLastEnd(events) ==
    \E n \in {0} \union EpisodeEnds(events) : \A j \in EpisodeEnds(events) : j <= n

\* No events, no episodes.
LEMMA NoEvents ==
    /\ << >> = CompleteEpisodes(<< >>)
    /\ HasRows(<< >>, << >>) /\ HasLastEnd(<< >>)
  <1>1. << >> \in Seq(Events) /\ << >> \in Seq(Rows) /\ Len(<< >>) = 0
    OBVIOUS
  <1>2. EpisodeEnds(<< >>) = {}
    <2>1. DOMAIN << >> = {}
      OBVIOUS
    <2>. QED
      BY <2>1 DEF EpisodeEnds
  <1>3. CompleteLength(<< >>) = 0
    BY <1>1, <1>2, LastEndIsComplete
  <1>4. << >> = [i \in 1..0 |-> [ev |-> << >>[i], episode |-> EpisodeStamp(<< >>, i)]]
    OBVIOUS
  <1>. QED
    BY <1>1, <1>2, <1>3, <1>4 DEF CompleteEpisodes, HasRows, HasLastEnd

\* What a handler accumulates depends on three of its attributes.
LEMMA AccumulatesSame ==
    ASSUME NEW events, NEW rows, NEW h, NEW g, Accumulates(events, rows, h),
           g.acc = h.acc, g.rts = h.rts, g.started = h.started
    PROVE  Accumulates(events, rows, g) /\ HasRows(events, rows) /\ HasLastEnd(events)
  BY DEF Accumulates, HasRows, HasLastEnd

\* Rows made of a stream's episodes are the first of its complete ones.
LEMMA RowsAreComplete ==
    ASSUME NEW events \in Seq(Events), NEW rows \in Seq(Rows),
           HasRows(events, rows), HasLastEnd(events)
    PROVE  /\ Len(rows) \in {0} \union EpisodeEnds(events)
           /\ Len(rows) \in Nat /\ CompleteLength(events) \in Nat
           /\ Len(rows) <= CompleteLength(events)
           /\ \A i \in 1..Len(rows) : rows[i] = CompleteEpisodes(events)[i]
  <1>. DEFINE complete == CompleteEpisodes(events)
  <1>1. /\ Len(rows) \in {0} \union EpisodeEnds(events) /\ Len(rows) \in Nat
        /\ \A i \in 1..Len(rows) : rows[i].ev = events[i] /\ IsStamp(events, i, rows[i].episode)
    BY DEF HasRows
  <1>2. CompleteLength(events) \in Nat /\ Len(rows) <= CompleteLength(events)
    <2>1. PICK n \in {0} \union EpisodeEnds(events) : \A j \in EpisodeEnds(events) : j <= n
      BY DEF HasLastEnd
    <2>2. n \in Nat /\ CompleteLength(events) = n
      BY <2>1, LastEndIsComplete, EndsArePositions
    <2>. QED
      BY <1>1, <2>1, <2>2
  <1>3. ASSUME NEW i \in 1..Len(rows)
        PROVE  rows[i] = complete[i]
    <2>1. rows[i] \in Rows /\ rows[i].episode \in Nat
      BY <1>1, RowFields
    <2>2. rows[i].episode = EpisodeStamp(events, i)
      BY <1>1, <2>1, StampIsUnique
    <2>3. complete[i] = [ev |-> events[i], episode |-> EpisodeStamp(events, i)]
      BY <1>1, <1>2 DEF CompleteEpisodes
    <2>. QED
      BY <1>1, <2>1, <2>2, <2>3 DEF Rows
  <1>. QED
    BY <1>1, <1>2, <1>3
=============================================================================
