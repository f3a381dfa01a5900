--------------------------- MODULE TrackerProofs ---------------------------
(***************************************************************************)
(* The tracker: what the page holds, what is under way, what the handlers  *)
(* have in hand and what the session's map holds, for any number of        *)
(* batches, moves and samples.                                             *)
(***************************************************************************)
EXTENDS Tracker, FiniteSetTheorems, TLAPS

OnPage == [moves |-> moves, samples |-> samples]

\* A set of counts is finite; the empty one has no members to count.
LEMMA CountsAreFinite == \A S \in SUBSET Count : IsFiniteSet(S) /\ Cardinality(S) \in Nat
<1>1. IsFiniteSet(Count)
  BY FS_Interval, TrackerBounds DEF Count
<1> QED BY <1>1, FS_Subset, FS_CardinalityType

LEMMA NothingIsPast ==
  /\ Nothing \in Metrics /\ NoFlight \in Flight /\ Idle \in Handler
  /\ moves \in Nat => OfThePast(Nothing)
  /\ Coherent(Nothing)
  BY FS_EmptySet, TrackerBounds
     DEF Nothing, OfThePast, Coherent, NoFlight, Flight, Idle, Handler, Fields, Metrics, Count

\* What is of the past stays so: the page only counts up.
LEMMA PastStaysPast ==
  ASSUME NEW m \in Metrics, OfThePast(m), moves \in Count, moves' \in Count, moves <= moves'
  PROVE  OfThePast(m)'
  BY TrackerBounds DEF OfThePast, Metrics, Count

LEMMA MetricsOfPage == ASSUME Inv PROVE OnPage \in Metrics /\ OfThePast(OnPage) /\ Coherent(OnPage)
  BY DEF Inv, TypeOK, Metrics, OnPage, OfThePast, Coherent

LEMMA TrackerStarts == Init => Inv
<1> SUFFICES ASSUME Init PROVE Inv
  OBVIOUS
<1>1. TypeOK
  BY TrackerBounds, NothingIsPast DEF Init, TypeOK, Count
<1>2. OfThePast(Nothing) /\ Coherent(Nothing)
  BY NothingIsPast DEF Init
<1>3. Nothing = [moves |-> moves, samples |-> samples] /\ stored = Nothing
  BY DEF Init, Nothing
<1>4. \A f \in Flights : /\ flight[f].batch = Nothing /\ flight[f].pc = "none"
                         /\ handler[f].held = Nothing /\ handler[f].pc = "idle"
  BY DEF Init, NoFlight, Idle
<1> QED BY <1>1, <1>2, <1>3, <1>4 DEF Inv

-----------------------------------------------------------------------------
(* Steps that move no mouse.                                               *)

\* What a step may leave in the session's map or in a handler's hand: each key as
\* it was stored, in hand or under way, or empty.
Seen(m) ==
  \/ m = Nothing
  \/ m = stored
  \/ \E f \in Flights : m = flight[f].batch \/ m = handler[f].held
Mixed(m) == \E a, b \in Metrics : Seen(a) /\ Seen(b) /\ m.moves = a.moves /\ m.samples = b.samples

\* Metrics of several batches are of the past if each of the batches is.
LEMMA MixedIsPast ==
  ASSUME Inv, NEW m \in Metrics, Mixed(m)
  PROVE  OfThePast(m)
<1>1. moves \in Nat
  BY DEF Inv, TypeOK, Count
<1>2. ASSUME NEW a, Seen(a) PROVE OfThePast(a)
  BY <1>1, <1>2, NothingIsPast DEF Inv, Seen
<1>3. PICK a \in Metrics, b \in Metrics :
        Seen(a) /\ Seen(b) /\ m.moves = a.moves /\ m.samples = b.samples
  BY DEF Mixed
<1> QED BY <1>2, <1>3 DEF OfThePast

\* Nothing is sampled; each batch is as before, the page's own, or none; what is
\* stored and what is in hand is mixed of what there was.
LEMMA QuietStepKeeps ==
  ASSUME Inv, moves' = moves, samples' \in {samples, {}},
         page' \in {"open", "stopped", "gone"}, session' \in {"stored", "gone"},
         stored' \in Metrics, Mixed(stored'),
         flight' \in [Flights -> Flight], handler' \in [Flights -> Handler],
         \A f \in Flights : Mixed(handler'[f].held),
         \A f \in Flights :
           \/ flight'[f].batch = flight[f].batch
                /\ (flight'[f].pc # "none" => flight[f].pc # "none")
           \/ flight'[f].batch = OnPage
           \/ flight'[f] = NoFlight,
         \A f \in Flights : handler'[f].pc # "idle" => flight'[f].pc = "sent"
  PROVE  Inv'
<1>1. TypeOK'
  BY DEF Inv, TypeOK, Flight
<1>2. /\ moves \in Count /\ moves \in Nat
      /\ \A m \in Metrics : OfThePast(m)' <=> OfThePast(m)
  BY DEF Inv, TypeOK, OfThePast, Count
<1>3. /\ OnPage \in Metrics /\ NoFlight.batch = Nothing
      /\ \A f \in Flights : flight[f].batch \in Metrics /\ flight'[f].batch \in Metrics
      /\ \A f \in Flights : handler'[f].held \in Metrics
  BY MetricsOfPage DEF Inv, TypeOK, Flight, Handler, NoFlight
<1>4. OfThePast([moves |-> moves, samples |-> samples])'
  <2>1. CASE samples' = samples
    BY <2>1 DEF Inv, OfThePast
  <2>2. CASE samples' = {}
    <3>1. Cardinality({}) = 0
      BY FS_EmptySet
    <3> QED BY <1>2, <2>2, <3>1, TrackerBounds DEF OfThePast
  <2> QED BY <2>1, <2>2
<1>5. OfThePast(stored)' /\ \A f \in Flights : OfThePast(handler[f].held)'
  <2>1. OfThePast(stored') /\ \A f \in Flights : OfThePast(handler'[f].held)
    BY <1>3, MixedIsPast
  <2> QED BY <1>2, <1>3, <2>1 DEF OfThePast
<1>6. \A f \in Flights : OfThePast(flight[f].batch)' /\ Coherent(flight[f].batch)'
  <2> SUFFICES ASSUME NEW f \in Flights
               PROVE  OfThePast(flight[f].batch)' /\ Coherent(flight[f].batch)'
    OBVIOUS
  <2>1. OfThePast(flight'[f].batch) /\ Coherent(flight'[f].batch)
    BY <1>2, <1>3, MetricsOfPage, NothingIsPast DEF Inv
  <2> QED BY <1>2, <1>3, <2>1 DEF OfThePast, Coherent
<1>7. \A f \in Flights : (flight[f].pc # "none" => LacksOnlyLater(flight[f].batch))'
  <2> SUFFICES ASSUME NEW f \in Flights, flight'[f].pc # "none"
               PROVE  LacksOnlyLater(flight[f].batch)'
    OBVIOUS
  <2>1. samples' \subseteq samples
    OBVIOUS
  <2>2. CASE flight'[f].batch = flight[f].batch /\ flight[f].pc # "none"
    BY <2>1, <2>2 DEF Inv, LacksOnlyLater
  <2>3. CASE flight'[f].batch = OnPage
    BY <2>1, <2>3 DEF LacksOnlyLater, OnPage
  <2> QED BY <2>2, <2>3 DEF NoFlight
<1> QED BY <1>1, <1>4, <1>5, <1>6, <1>7 DEF Inv

\* What is as it was is mixed of what there was.
LEMMA SameIsMixed ==
  ASSUME Inv
  PROVE  /\ stored \in Metrics /\ Mixed(stored) /\ Mixed(Nothing)
         /\ \A f \in Flights : /\ handler[f].held \in Metrics /\ Mixed(handler[f].held)
                               /\ flight[f].batch \in Metrics /\ Mixed(flight[f].batch)
<1>1. \A m \in Metrics : Seen(m) => Mixed(m)
  BY DEF Mixed
<1>2. stored \in Metrics /\ \A f \in Flights : handler[f].held \in Metrics /\ flight[f].batch \in Metrics
  BY DEF Inv, TypeOK, Handler, Flight
<1> QED BY <1>1, <1>2, NothingIsPast DEF Seen

\* A step of the page or the network that leaves the handlers alone.
LEMMA PageStepKeeps ==
  ASSUME Inv, moves' = moves, samples' \in {samples, {}},
         page' \in {"open", "stopped", "gone"}, session' \in {"stored", "gone"},
         stored' \in {stored, Nothing}, handler' = handler,
         flight' \in [Flights -> Flight],
         \A f \in Flights :
           \/ flight'[f] = flight[f]
           \/ /\ handler[f].pc = "idle"
              /\ \/ flight'[f].batch = flight[f].batch
                      /\ (flight'[f].pc # "none" => flight[f].pc # "none")
                 \/ flight'[f].batch = OnPage
                 \/ flight'[f] = NoFlight
  PROVE  Inv'
<1>1. handler \in [Flights -> Handler]
  BY DEF Inv, TypeOK
<1>2. stored' \in Metrics /\ Mixed(stored') /\ \A f \in Flights : Mixed(handler'[f].held)
  BY SameIsMixed, NothingIsPast
<1>3. \A f \in Flights : handler'[f].pc # "idle" => flight'[f].pc = "sent"
  BY DEF Inv
<1>4. \A f \in Flights :
        \/ flight'[f].batch = flight[f].batch
             /\ (flight'[f].pc # "none" => flight[f].pc # "none")
        \/ flight'[f].batch = OnPage
        \/ flight'[f] = NoFlight
  OBVIOUS
<1> QED BY <1>1, <1>2, <1>3, <1>4, QuietStepKeeps

\* A step of the handler at work on f.
LEMMA HandlerStepKeeps ==
  ASSUME Inv, NEW f \in Flights, handler' \in [Flights -> Handler],
         \A g \in Flights : g # f => handler'[g] = handler[g],
         Mixed(handler'[f].held), stored' \in Metrics, Mixed(stored'),
         UNCHANGED <<page, moves, samples, session>>,
         flight[f].pc = "sent",
         UNCHANGED flight \/ (handler'[f] = Idle /\ Landed(f))
  PROVE  Inv'
<1>1. \A g \in Flights : Mixed(handler'[g].held)
  BY SameIsMixed
<1>2. \A g \in Flights : g # f => (handler'[g].pc # "idle" => flight[g].pc = "sent")
  BY DEF Inv
<1>3. page \in {"open", "stopped", "gone"} /\ session \in {"stored", "gone"}
      /\ flight \in [Flights -> Flight]
  BY DEF Inv, TypeOK
<1>4. CASE UNCHANGED flight
  <2>1. \A g \in Flights : handler'[g].pc # "idle" => flight'[g].pc = "sent"
    BY <1>2, <1>4
  <2> QED BY <1>1, <1>3, <1>4, <2>1, QuietStepKeeps
<1>5. CASE handler'[f] = Idle /\ Landed(f)
  <2>1. [flight[f] EXCEPT !.pc = "answered"] \in Flight
    BY <1>3 DEF Flight
  <2>2. [flight[f] EXCEPT !.pc = "answered"].batch = flight[f].batch
    BY <1>3 DEF Flight
  <2>3. PICK x \in {NoFlight, [flight[f] EXCEPT !.pc = "answered"]} :
          flight' = [flight EXCEPT ![f] = x]
    BY <1>5 DEF Landed
  <2>4. flight' \in [Flights -> Flight] /\ \A g \in Flights : flight'[g] = IF g = f THEN x ELSE flight[g]
    BY <1>3, <2>1, <2>3, NothingIsPast
  <2>5. \A g \in Flights : handler'[g].pc # "idle" => flight'[g].pc = "sent"
    BY <1>2, <1>5, <2>4 DEF Idle
  <2>6. ASSUME NEW g \in Flights
        PROVE  \/ flight'[g].batch = flight[g].batch
                    /\ (flight'[g].pc # "none" => flight[g].pc # "none")
               \/ flight'[g].batch = OnPage
               \/ flight'[g] = NoFlight
    <3>1. CASE g = f /\ x # NoFlight
      BY <3>1, <2>2, <2>3, <2>4
    <3>2. CASE g # f \/ x = NoFlight
      BY <3>2, <2>4
    <3> QED BY <3>1, <3>2
  <2> QED BY <1>1, <1>3, <2>4, <2>5, <2>6, QuietStepKeeps
<1> QED BY <1>4, <1>5

\* A sample bears a count that no batch under way has reached.
LEMMA MoveKeeps == ASSUME Inv, Move PROVE Inv'
<1>1. /\ moves \in Count /\ moves' = moves + 1 /\ moves' \in Count
      /\ samples \in SUBSET Count /\ samples' \in SUBSET Count
      /\ UNCHANGED <<page, flight, session, stored, handler>>
  BY TrackerBounds DEF Inv, TypeOK, Move, Count, server
<1>2. /\ stored \in Metrics
      /\ \A f \in Flights : flight[f].batch \in Metrics /\ handler[f].held \in Metrics
  BY DEF Inv, TypeOK, Flight, Handler
<1>3. moves <= moves'
  BY <1>1 DEF Count
<1>4. TypeOK'
  BY <1>1 DEF Inv, TypeOK
<1>5. /\ OfThePast(stored)'
      /\ \A f \in Flights : OfThePast(flight[f].batch)' /\ OfThePast(handler[f].held)'
  <2>1. \A m \in Metrics : OfThePast(m) => OfThePast(m)'
    BY <1>1, <1>3, PastStaysPast
  <2> QED BY <1>1, <1>2, <2>1 DEF Inv, OfThePast
<1>6. OfThePast([moves |-> moves, samples |-> samples])'
  <2>1. OfThePast([moves |-> moves, samples |-> samples])
    BY DEF Inv
  <2>2. IsFiniteSet(samples) /\ Cardinality(samples) \in Nat
    BY <1>1, CountsAreFinite
  <2>3. CASE Cardinality(samples) < MaxSamples
    <3>1. samples' = samples \cup {moves + 1}
      BY <2>3 DEF Move
    <3>2. Cardinality(samples') <= Cardinality(samples) + 1
      BY <2>2, <3>1, FS_AddElement
    <3>3. Cardinality(samples') <= MaxSamples
      <4>1. Cardinality(samples') \in Nat
        BY <1>1, CountsAreFinite
      <4> QED BY <2>2, <2>3, <3>2, <4>1, TrackerBounds
    <3>4. \A s \in samples' : s \in 1 .. moves'
      BY <1>1, <2>1, <3>1 DEF OfThePast, Count
    <3> QED BY <1>1, <3>3, <3>4 DEF OfThePast, Count
  <2>4. CASE ~(Cardinality(samples) < MaxSamples)
    <3>1. samples' = samples
      BY <2>4 DEF Move
    <3>2. \A s \in samples' : s \in 1 .. moves'
      BY <1>1, <2>1, <3>1 DEF OfThePast, Count
    <3> QED BY <1>1, <2>1, <3>1, <3>2 DEF OfThePast, Count
  <2> QED BY <2>3, <2>4
<1>7. \A f \in Flights : (flight[f].pc # "none" => LacksOnlyLater(flight[f].batch))'
  <2> SUFFICES ASSUME NEW f \in Flights, flight[f].pc # "none", NEW s \in samples'
               PROVE  s \in flight[f].batch.samples \/ s > flight[f].batch.moves
    BY <1>1 DEF LacksOnlyLater
  <2>1. CASE s \in samples
    BY <2>1 DEF Inv, LacksOnlyLater
  <2>2. CASE s = moves + 1
    <3>1. flight[f].batch.moves <= moves /\ flight[f].batch.moves \in Count
      BY <1>2 DEF Inv, OfThePast, Metrics
    <3> QED BY <1>1, <2>2, <3>1 DEF Count
  <2> QED BY <2>1, <2>2 DEF Move
<1>8. \A f \in Flights : /\ Coherent(flight[f].batch)'
                         /\ (handler[f].pc # "idle" => flight[f].pc = "sent")'
  BY <1>1 DEF Inv, Coherent
<1> QED BY <1>4, <1>5, <1>6, <1>7, <1>8 DEF Inv

LEMMA DepartKeeps ==
  ASSUME Inv, NEW f \in Flights, NEW kind \in {"fetch", "beacon"}, Depart(f, kind),
         moves' = moves, samples' = samples, page' \in {"open", "stopped", "gone"},
         UNCHANGED server
  PROVE  Inv'
<1>1. /\ OnPage \in Metrics /\ flight \in [Flights -> Flight]
      /\ session \in {"stored", "gone"} /\ handler[f].pc = "idle"
  BY MetricsOfPage DEF Inv, TypeOK, Depart, Handler
<1>2. [pc |-> "sent", kind |-> kind, batch |-> OnPage] \in Flight
  BY <1>1 DEF Flight
<1>3. flight' = [flight EXCEPT ![f] = [pc |-> "sent", kind |-> kind, batch |-> OnPage]]
  BY DEF Depart, BuildPayload, OnPage
<1>4. flight' \in [Flights -> Flight]
  BY <1>1, <1>2, <1>3
<1>5. \A g \in Flights : g # f => flight'[g] = flight[g]
  BY <1>1, <1>3
<1>6. flight'[f].batch = OnPage
  BY <1>1, <1>3
<1> QED BY <1>1, <1>4, <1>5, <1>6, PageStepKeeps DEF server

\* A batch is answered without having been handled, or lost.
LEMMA EndedFlights ==
  ASSUME Inv, NEW f \in Flights,
         Landed(f) \/ flight' = [flight EXCEPT ![f] = NoFlight],
         flight[f].pc # "none"
  PROVE  /\ flight' \in [Flights -> Flight]
         /\ \A g \in Flights :
              \/ flight'[g] = flight[g]
              \/ /\ g = f
                 /\ \/ flight'[g].batch = flight[g].batch
                         /\ (flight'[g].pc # "none" => flight[g].pc # "none")
                    \/ flight'[g] = NoFlight
<1>1. flight \in [Flights -> Flight]
  BY DEF Inv, TypeOK
<1>2. NoFlight \in Flight
  BY NothingIsPast
<1>3. [flight[f] EXCEPT !.pc = "answered"] \in Flight
  BY <1>1 DEF Flight
<1>4. [flight[f] EXCEPT !.pc = "answered"].batch = flight[f].batch
  BY <1>1 DEF Flight
<1>5. PICK x \in {NoFlight, [flight[f] EXCEPT !.pc = "answered"]} :
        flight' = [flight EXCEPT ![f] = x]
  <2>1. CASE Landed(f) /\ flight[f].kind = "beacon"
    BY <2>1 DEF Landed
  <2>2. CASE Landed(f) /\ flight[f].kind # "beacon"
    BY <2>2 DEF Landed
  <2> QED BY <2>1, <2>2
<1>6. flight' \in [Flights -> Flight]
  BY <1>1, <1>2, <1>3, <1>5
<1>7. \A g \in Flights : flight'[g] = IF g = f THEN x ELSE flight[g]
  BY <1>1, <1>5
<1> QED BY <1>4, <1>6, <1>7

\* What a write leaves is mixed of the map and of what is written.
LEMMA WriteMixes ==
  ASSUME Inv, NEW key, NEW m \in Metrics, Seen(m), Write(key, m)
  PROVE  stored' \in Metrics /\ Mixed(stored')
<1>1. stored \in Metrics /\ Seen(stored)
  BY DEF Inv, TypeOK, Seen
<1>2. CASE stored' = [stored EXCEPT !.moves = m.moves]
  <2>1. stored' \in Metrics /\ stored'.moves = m.moves /\ stored'.samples = stored.samples
    BY <1>1, <1>2 DEF Metrics
  <2> QED BY <1>1, <2>1 DEF Mixed
<1>3. CASE stored' = [stored EXCEPT !.samples = m.samples]
  <2>1. stored' \in Metrics /\ stored'.moves = stored.moves /\ stored'.samples = m.samples
    BY <1>1, <1>3 DEF Metrics
  <2> QED BY <1>1, <2>1 DEF Mixed
<1>4. CASE stored' = stored
  BY <1>1, <1>4 DEF Mixed
<1> QED BY <1>2, <1>3, <1>4 DEF Write

\* What a handler reads of the map is part of it.
LEMMA ReadMixes ==
  ASSUME Inv, NEW key
  PROVE  Only(key, stored) \in Metrics /\ Mixed(Only(key, stored))
<1>1. stored \in Metrics /\ Seen(stored) /\ Nothing \in Metrics /\ Seen(Nothing)
  BY NothingIsPast DEF Inv, TypeOK, Seen
<1>2. /\ Only(key, stored).moves \in {stored.moves, Nothing.moves}
      /\ Only(key, stored).samples \in {stored.samples, Nothing.samples}
  BY DEF Only, Nothing
<1>3. Only(key, stored) \in Metrics
  BY <1>1, TrackerBounds DEF Only, Metrics, Count
<1>4. \E a, b \in {stored, Nothing} :
        Only(key, stored).moves = a.moves /\ Only(key, stored).samples = b.samples
  BY <1>2
<1> QED BY <1>1, <1>3, <1>4 DEF Mixed

LEMMA HandleKeeps == ASSUME Inv, NEW f \in Flights, Handle(f) PROVE Inv'
<1>1. /\ handler \in [Flights -> Handler] /\ handler[f] \in Handler
      /\ handler[f].pc # "idle" => flight[f].pc = "sent"
      /\ flight[f].batch \in Metrics /\ Seen(flight[f].batch)
      /\ handler[f].held \in Metrics /\ Seen(handler[f].held) /\ Mixed(handler[f].held)
      /\ stored \in Metrics /\ Mixed(stored) /\ Mixed(Nothing) /\ Idle \in Handler
  BY SameIsMixed, NothingIsPast DEF Inv, TypeOK, Seen
<1>2. handler[f].pc # "idle" /\ UNCHANGED <<page, moves, samples, session>>
  BY DEF Handle, MergeKey, ReadKey, UpdateSessionMetrics, WriteKey
<1>3. ASSUME NEW h \in Handler, handler' = [handler EXCEPT ![f] = h]
      PROVE  /\ handler' \in [Flights -> Handler] /\ handler'[f] = h
             /\ \A g \in Flights : g # f => handler'[g] = handler[g]
  BY <1>1, <1>3
<1>4. stored' \in Metrics /\ Mixed(stored')
  <2>1. ASSUME NEW key \in Fields, MergeKey(f, key) PROVE stored' \in Metrics /\ Mixed(stored')
    BY <1>1, <2>1, WriteMixes DEF MergeKey
  <2>2. ASSUME WriteKey(f) PROVE stored' \in Metrics /\ Mixed(stored')
    BY <1>1, <2>2, WriteMixes DEF WriteKey
  <2>3. ASSUME NEW key \in Fields, ReadKey(f, key) \/ UpdateSessionMetrics(f)
        PROVE  stored' \in Metrics /\ Mixed(stored')
    BY <1>1, <2>3 DEF ReadKey, UpdateSessionMetrics
  <2> QED BY <2>1, <2>2, <2>3 DEF Handle, Fields
<1>5. PICK h \in Handler :
        /\ handler' = [handler EXCEPT ![f] = h] /\ Mixed(h.held)
        /\ UNCHANGED flight \/ (h = Idle /\ Landed(f))
  <2>1. ASSUME NEW key \in Fields, MergeKey(f, key)
        PROVE  \E h \in Handler : /\ handler' = [handler EXCEPT ![f] = h] /\ Mixed(h.held)
                                  /\ UNCHANGED flight \/ (h = Idle /\ Landed(f))
    <3> DEFINE h == [handler[f] EXCEPT !.left = @ \ {key}]
    <3>1. h \in Handler /\ h.held = handler[f].held
      BY <1>1 DEF Handler
    <3>2. handler' = [handler EXCEPT ![f] = h] /\ UNCHANGED flight
      BY <1>1, <2>1 DEF MergeKey
    <3> HIDE DEF h
    <3> QED BY <1>1, <3>1, <3>2
  <2>2. ASSUME NEW key \in Fields, ReadKey(f, key)
        PROVE  \E h \in Handler : /\ handler' = [handler EXCEPT ![f] = h] /\ Mixed(h.held)
                                  /\ UNCHANGED flight \/ (h = Idle /\ Landed(f))
    <3> DEFINE h == [handler[f] EXCEPT !.key = key, !.left = @ \ {key}, !.held = Only(key, stored)]
    <3>1. h \in Handler /\ h.held = Only(key, stored) /\ Mixed(Only(key, stored))
      BY <1>1, ReadMixes DEF Handler
    <3>2. handler' = [handler EXCEPT ![f] = h] /\ UNCHANGED flight
      BY <1>1, <2>2 DEF ReadKey
    <3> HIDE DEF h
    <3> QED BY <3>1, <3>2
  <2>3. ASSUME UpdateSessionMetrics(f), UNCHANGED flight
        PROVE  \E h \in Handler : /\ handler' = [handler EXCEPT ![f] = h] /\ Mixed(h.held)
                                  /\ UNCHANGED flight \/ (h = Idle /\ Landed(f))
    <3> DEFINE h == [handler[f] EXCEPT !.pc = "update", !.left = Fields]
    <3>1. h \in Handler /\ h.held = handler[f].held
      BY <1>1 DEF Handler
    <3>2. handler' = [handler EXCEPT ![f] = h] \/ (handler' = [handler EXCEPT ![f] = Idle] /\ Landed(f))
      BY <1>1, <2>3 DEF UpdateSessionMetrics
    <3> HIDE DEF h
    <3> QED BY <1>1, <2>3, <3>1, <3>2 DEF Idle
  <2>4. ASSUME WriteKey(f), UNCHANGED flight
        PROVE  \E h \in Handler : /\ handler' = [handler EXCEPT ![f] = h] /\ Mixed(h.held)
                                  /\ UNCHANGED flight \/ (h = Idle /\ Landed(f))
    <3> DEFINE h == [handler[f] EXCEPT !.key = "none", !.held = Nothing]
    <3>1. h \in Handler /\ h.held = Nothing
      BY <1>1, NothingIsPast DEF Handler
    <3>2. handler' = [handler EXCEPT ![f] = h] \/ (handler' = [handler EXCEPT ![f] = Idle] /\ Landed(f))
      BY <1>1, <2>4 DEF WriteKey
    <3> HIDE DEF h
    <3> QED BY <1>1, <2>4, <3>1, <3>2 DEF Idle
  <2>5. ASSUME handler' = [handler EXCEPT ![f] = Idle], Landed(f)
        PROVE  \E h \in Handler : /\ handler' = [handler EXCEPT ![f] = h] /\ Mixed(h.held)
                                  /\ UNCHANGED flight \/ (h = Idle /\ Landed(f))
    BY <1>1, <2>5 DEF Idle
  <2>6. UpdateSessionMetrics(f) \/ WriteKey(f) =>
          UNCHANGED flight \/ (handler' = [handler EXCEPT ![f] = Idle] /\ Landed(f))
    BY DEF UpdateSessionMetrics, WriteKey
  <2> QED BY <2>1, <2>2, <2>3, <2>4, <2>5, <2>6 DEF Handle
<1>6. /\ handler' \in [Flights -> Handler] /\ handler'[f] = h
      /\ \A g \in Flights : g # f => handler'[g] = handler[g]
  BY <1>3, <1>5
<1> QED BY <1>1, <1>2, <1>4, <1>5, <1>6, HandlerStepKeeps

LEMMA NextKeeps == Inv /\ [Next]_vars => Inv'
<1> SUFFICES ASSUME Inv, [Next]_vars PROVE Inv'
  OBVIOUS
<1>1. /\ page \in {"open", "stopped", "gone"} /\ session \in {"stored", "gone"}
      /\ flight \in [Flights -> Flight] /\ samples \in {samples, {}}
      /\ handler \in [Flights -> Handler]
  BY DEF Inv, TypeOK
<1>2. CASE Move
  BY <1>2, MoveKeeps
<1>3. CASE Stop
  BY <1>1, <1>3, PageStepKeeps DEF Stop, server
<1>4. ASSUME NEW f \in Flights, Flush(f) \/ FlushOnHide(f) \/ Leave(f) PROVE Inv'
  <2>1. CASE Flush(f)
    BY <1>1, <2>1, DepartKeeps DEF Flush
  <2>2. CASE FlushOnHide(f)
    BY <1>1, <2>2, DepartKeeps DEF FlushOnHide
  <2>3. CASE Leave(f)
    BY <1>1, <2>3, DepartKeeps DEF Leave
  <2> QED BY <1>4, <2>1, <2>2, <2>3
<1>5. ASSUME NEW f \in Flights, Resume(f) PROVE Inv'
  <2>1. /\ flight' = [flight EXCEPT ![f] = NoFlight] /\ flight[f].pc = "answered"
        /\ handler[f].pc = "idle"
    BY <1>5 DEF Resume, Inv
  <2>2. samples' \in {samples, {}} /\ UNCHANGED <<page, moves, session, stored, handler>>
    BY <1>5 DEF Resume, server
  <2> QED BY <1>1, <2>1, <2>2, EndedFlights, PageStepKeeps
<1>6. ASSUME NEW f \in Flights, RefuseBatch(f) \/ Lose(f) PROVE Inv'
  <2>1. /\ Landed(f) \/ flight' = [flight EXCEPT ![f] = NoFlight]
        /\ flight[f].pc # "none" /\ handler[f].pc = "idle"
    BY <1>6 DEF RefuseBatch, Lose
  <2>2. UNCHANGED <<page, moves, samples, session, stored, handler>>
    BY <1>6 DEF RefuseBatch, Lose, server
  <2> QED BY <1>1, <2>1, <2>2, EndedFlights, PageStepKeeps
<1>7. ASSUME NEW f \in Flights, ReceiveBatch(f) PROVE Inv'
  <2> DEFINE h == [Idle EXCEPT !.pc = "merge", !.left = Fields]
  <2>1. h \in Handler /\ h.held = Nothing
    BY NothingIsPast DEF Idle, Handler, Fields
  <2>2. handler' = [handler EXCEPT ![f] = h] /\ flight[f].pc = "sent" /\ UNCHANGED flight
        /\ stored' = stored /\ UNCHANGED <<page, moves, samples, session>>
    BY <1>7 DEF ReceiveBatch
  <2> HIDE DEF h
  <2>3. /\ handler' \in [Flights -> Handler] /\ handler'[f].held = Nothing
        /\ \A g \in Flights : g # f => handler'[g] = handler[g]
    BY <1>1, <2>1, <2>2
  <2> QED BY <2>2, <2>3, SameIsMixed, HandlerStepKeeps
<1>8. ASSUME NEW f \in Flights, Handle(f) PROVE Inv'
  BY <1>8, HandleKeeps
<1>9. CASE Lapse
  BY <1>1, <1>9, PageStepKeeps DEF Lapse
<1>10. CASE UNCHANGED vars
  BY <1>1, <1>10, PageStepKeeps DEF vars
<1> QED BY <1>2, <1>3, <1>4, <1>5, <1>6, <1>7, <1>8, <1>9, <1>10 DEF Next

\* behavior-tracker.ts:72 and :110, behaviour.go:102, session.go:131.  The page keeps no
\* more samples than it may, a batch is the page as it was, and although batches mix
\* in the session's map, key by key, each key holds what the page had at some time.
THEOREM TrackerInvariant == Spec => []Inv
  BY TrackerStarts, NextKeeps, PTL DEF Spec

\* behavior-tracker.ts:119.  Samples leave the page only with the answer to a batch
\* that held all but the later ones: only Resume clears them, and what is under
\* way lacks only later ones.
THEOREM SamplesLeaveWithAnswers == Spec => SamplesGoWithAnswers
<1> DEFINE Gone == \A s \in samples \ samples' :
                     \E f \in Flights :
                       /\ flight[f].pc = "answered" /\ flight'[f] # flight[f]
                       /\ s \in flight[f].batch.samples \/ s > flight[f].batch.moves
<1>1. Inv /\ [Next]_vars => [Gone]_vars
  <2> SUFFICES ASSUME Inv, Next, NEW s \in samples, s \notin samples'
               PROVE  \E f \in Flights :
                        /\ flight[f].pc = "answered" /\ flight'[f] # flight[f]
                        /\ s \in flight[f].batch.samples \/ s > flight[f].batch.moves
    OBVIOUS
  <2>1. ASSUME NEW f \in Flights,
               \/ Flush(f) \/ FlushOnHide(f) \/ Leave(f) \/ RefuseBatch(f) \/ Lose(f)
               \/ ReceiveBatch(f) \/ Handle(f)
        PROVE  FALSE
    BY <2>1 DEF Flush, FlushOnHide, Leave, RefuseBatch, Lose, ReceiveBatch, Handle, MergeKey,
                ReadKey, UpdateSessionMetrics, WriteKey
  <2>2. ~Move /\ ~Stop /\ ~Lapse
    BY DEF Move, Stop, Lapse
  <2>3. PICK f \in Flights : Resume(f)
    BY <2>1, <2>2 DEF Next
  <2>4. flight[f].pc = "answered" /\ flight'[f] = NoFlight
    BY <2>3 DEF Resume, Inv, TypeOK
  <2>5. flight'[f] # flight[f]
    BY <2>4 DEF NoFlight
  <2>6. LacksOnlyLater(flight[f].batch)
    BY <2>4 DEF Inv
  <2> QED BY <2>4, <2>5, <2>6 DEF LacksOnlyLater
<1>2. Spec => [][Gone]_vars
  BY <1>1, TrackerInvariant, PTL DEF Spec
<1> QED BY <1>2 DEF SamplesGoWithAnswers

\* handlers/behaviour.go:102, session.go:131.  A late batch, or a late write of one key,
\* may set the server back, but none makes it count what never happened.
THEOREM ServerIsNeverAhead == Spec => [](stored.moves <= moves)
<1>1. Inv => stored.moves <= moves
  BY DEF Inv, OfThePast
<1> QED BY <1>1, TrackerInvariant, PTL
=============================================================================
