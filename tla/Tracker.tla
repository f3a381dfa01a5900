------------------------------ MODULE Tracker ------------------------------
(***************************************************************************)
(* The behaviour tracker on a visitor's page and the metrics of the        *)
(* visitor's session: counters that are sent whole every five seconds,     *)
(* mouse samples that are sent once, batches that overtake each other and  *)
(* that the server writes into the session's map key by key, with no lock. *)
(*                                                                         *)
(* One counter stands for all, and a mouse move counts and is sampled: a   *)
(* sample is known by the count at which it was taken.  That Go may notice *)
(* two writers of a map and end the process is a way to lose the session.  *)
(***************************************************************************)
EXTENDS Naturals, FiniteSets

CONSTANTS
  Flights,    \* batches on their way together
  MaxSamples, \* maxMouseSamples
  MaxMoves    \* bound on the visitor's activity

ASSUME TrackerBounds == MaxSamples \in Nat /\ MaxMoves \in Nat

VARIABLES
  page,    \* "open", "stopped": destroyed, or "gone": unloaded
  moves,   \* metrics.mouseMoves
  samples, \* metrics.mouseSamples
  flight,  \* batches sent and not answered
  session, \* "stored", or "gone" from the server's memory
  stored,  \* session.Metrics, nothing once it is gone
  handler  \* SubmitBehavior at work on a batch

vars == <<page, moves, samples, flight, session, stored, handler>>

Count == 0 .. MaxMoves
Metrics == [moves : Count, samples : SUBSET Count]
Nothing == [moves |-> 0, samples |-> {}]

\* kind: flush() waits for the answer, a beacon does not.
Flight == [pc : {"none", "sent", "answered"}, kind : {"fetch", "beacon"}, batch : Metrics]
NoFlight == [pc |-> "none", kind |-> "fetch", batch |-> Nothing]

\* pc: "merge" in the handler's loop, "update" in that of UpdateSessionMetrics.
\* left: keys its loop has yet to come to.  key, held: what it has read.
Fields == {"moves", "samples"}
Handler == [pc : {"idle", "merge", "update"}, left : SUBSET Fields,
            key : Fields \cup {"none"}, held : Metrics]
Idle == [pc |-> "idle", left |-> {}, key |-> "none", held |-> Nothing]

TypeOK ==
  /\ page \in {"open", "stopped", "gone"}
  /\ moves \in Count
  /\ samples \in SUBSET Count
  /\ flight \in [Flights -> Flight]
  /\ session \in {"stored", "gone"}
  /\ stored \in Metrics
  /\ handler \in [Flights -> Handler]

Init ==
  /\ page = "open"
  /\ moves = 0
  /\ samples = {}
  /\ flight = [f \in Flights |-> NoFlight]
  /\ session = "stored"
  /\ stored = Nothing
  /\ handler = [f \in Flights |-> Idle]

server == <<session, stored, handler>>

-----------------------------------------------------------------------------
(* The page.                                                               *)

\* onMouseMove: samples beyond the limit are not taken.
Move ==
  /\ page = "open" /\ moves < MaxMoves
  /\ moves' = moves + 1
  /\ samples' = IF Cardinality(samples) < MaxSamples THEN samples \cup {moves + 1} ELSE samples
  /\ UNCHANGED <<page, flight, server>>

\* buildPayload: the counters since the page was opened, the samples since they
\* were last cleared.
\* (Mutation: counted since the last batch that arrived.)
DeltaPayload == [moves |-> moves - stored.moves, samples |-> samples]
BuildPayload == [moves |-> moves, samples |-> samples]

Depart(f, kind) ==
  /\ flight[f].pc = "none"
  /\ flight' = [flight EXCEPT ![f] = [pc |-> "sent", kind |-> kind, batch |-> BuildPayload]]

\* The timer, or the page's own call; the one before may still be under way.
Flush(f) ==
  /\ page = "open"
  /\ Depart(f, "fetch")
  /\ UNCHANGED <<page, moves, samples, server>>

\* flushOnHide: also when the page is shown again.
FlushOnHide(f) ==
  /\ page = "open"
  /\ Depart(f, "beacon")
  /\ UNCHANGED <<page, moves, samples, server>>

\* beforeunload; fetches and beacons on their way still arrive.
Leave(f) ==
  /\ page = "open"
  /\ Depart(f, "beacon")
  /\ page' = "gone"
  /\ UNCHANGED <<moves, samples, server>>

\* destroyed is set before the last flush(), which therefore sends nothing.
Stop ==
  /\ page = "open"
  /\ page' = "stopped"
  /\ UNCHANGED <<moves, samples, flight, server>>

Landed(f) ==
  flight' = [flight EXCEPT ![f] = IF @.kind = "beacon" THEN NoFlight
                                  ELSE [@ EXCEPT !.pc = "answered"]]

\* await fetch() is over, with whatever status: the samples are cleared, those
\* taken meanwhile included.
Resume(f) ==
  /\ flight[f].pc = "answered"
  /\ samples' = IF page = "gone" THEN samples ELSE {}
  /\ flight' = [flight EXCEPT ![f] = NoFlight]
  /\ UNCHANGED <<page, moves, server>>

-----------------------------------------------------------------------------
(* The network and the server.                                             *)

\* 404 once the session is gone; 429 or 500 at any time.
RefuseBatch(f) ==
  /\ flight[f].pc = "sent" /\ handler[f].pc = "idle"
  /\ Landed(f)
  /\ UNCHANGED <<page, moves, samples, server>>

\* The batch or its answer is lost: fetch() throws and nothing is cleared.
\* (Mutation: it is cleared all the same.)
LoseAndClear(f) ==
  /\ flight[f].pc # "none" /\ handler[f].pc = "idle"
  /\ flight' = [flight EXCEPT ![f] = NoFlight]
  /\ samples' = {}
  /\ UNCHANGED <<page, moves, server>>
Lose(f) ==
  /\ flight[f].pc # "none" /\ handler[f].pc = "idle"
  /\ flight' = [flight EXCEPT ![f] = NoFlight]
  /\ UNCHANGED <<page, moves, samples, server>>

\* GetSession and GetSessionMetrics: the session's own map.
ReceiveBatch(f) ==
  /\ flight[f].pc = "sent" /\ handler[f].pc = "idle" /\ session = "stored"
  /\ handler' = [handler EXCEPT ![f] = [Idle EXCEPT !.pc = "merge", !.left = Fields]]
  /\ UNCHANGED <<page, moves, samples, flight, session, stored>>

\* Into the map of a session that is gone nobody looks again.
Write(key, m) ==
  \/ session = "stored" /\ key = "moves" /\ stored' = [stored EXCEPT !.moves = m.moves]
  \/ session = "stored" /\ key = "samples" /\ stored' = [stored EXCEPT !.samples = m.samples]
  \/ session = "gone" /\ stored' = stored

Only(key, m) ==
  [moves |-> IF key = "moves" THEN m.moves ELSE 0,
   samples |-> IF key = "samples" THEN m.samples ELSE {}]

\* existingMetrics[k] = v, in whatever order the loop comes to the keys.
MergeKey(f, key) ==
  /\ handler[f].pc = "merge" /\ key \in handler[f].left
  /\ Write(key, flight[f].batch)
  /\ handler' = [handler EXCEPT ![f].left = @ \ {key}]
  /\ UNCHANGED <<page, moves, samples, flight, session>>

\* UpdateSessionMetrics: 500 if the session went away meanwhile.
UpdateSessionMetrics(f) ==
  /\ handler[f].pc = "merge" /\ handler[f].left = {}
  /\ \/ /\ session = "stored"
        /\ handler' = [handler EXCEPT ![f].pc = "update", ![f].left = Fields]
        /\ UNCHANGED flight
     \/ /\ session = "gone"
        /\ handler' = [handler EXCEPT ![f] = Idle]
        /\ Landed(f)
  /\ UNCHANGED <<page, moves, samples, session, stored>>

\* for k, v := range metrics { session.Metrics[k] = v }, where both are one map: a
\* value is written back to where it was read, over what was written meanwhile.
ReadKey(f, key) ==
  /\ handler[f].pc = "update" /\ handler[f].key = "none" /\ key \in handler[f].left
  /\ handler' = [handler EXCEPT ![f].key = key, ![f].left = @ \ {key},
                                ![f].held = Only(key, stored)]
  /\ UNCHANGED <<page, moves, samples, flight, session, stored>>

\* 202 after the last.
WriteKey(f) ==
  /\ handler[f].pc = "update"
  /\ Write(handler[f].key, handler[f].held)
  /\ \/ /\ handler[f].left # {}
        /\ handler' = [handler EXCEPT ![f].key = "none", ![f].held = Nothing]
        /\ UNCHANGED flight
     \/ /\ handler[f].left = {}
        /\ handler' = [handler EXCEPT ![f] = Idle]
        /\ Landed(f)
  /\ UNCHANGED <<page, moves, samples, session>>

\* Half an hour after the visitor's last check - batches do not prolong it - or
\* after its block the cleanup loop deletes the session; so does a restart.
Lapse ==
  /\ session = "stored"
  /\ session' = "gone"
  /\ stored' = Nothing
  /\ UNCHANGED <<page, moves, samples, flight, handler>>

Handle(f) ==
  \/ \E key \in Fields : MergeKey(f, key) \/ ReadKey(f, key)
  \/ UpdateSessionMetrics(f)
  \/ WriteKey(f)

Next ==
  \/ Move
  \/ Stop
  \/ \E f \in Flights :
       \/ Flush(f)
       \/ FlushOnHide(f)
       \/ Leave(f)
       \/ Resume(f)
       \/ RefuseBatch(f)
       \/ Lose(f)
       \/ ReceiveBatch(f)
       \/ Handle(f)
  \/ Lapse

\* The timer goes on; batches sent again and again are neither all lost nor all
\* refused while the session is stored; what the server has begun it ends.
Fairness ==
  /\ WF_vars(\E f \in Flights : Flush(f))
  /\ \A f \in Flights :
       /\ SF_vars(ReceiveBatch(f))
       /\ WF_vars(Handle(f)) /\ WF_vars(Resume(f))

Spec == Init /\ [][Next]_vars
FairSpec == Spec /\ Fairness

-----------------------------------------------------------------------------
(* Properties.                                                             *)

\* behavior-tracker.ts:110, session.go:131.  However batches overtake each other, are
\* lost or refused, and however two of them mix in the session's map, the server
\* ends with the count of the page: a late batch, or an old value written back,
\* sets it back only for a while - provided that the session stays, that the
\* server is without a batch at hand now and then, and that the page is neither
\* left nor its tracker stopped, whose last batches are overtaken or not sent.
Pause == \A f \in Flights : handler[f].pc = "idle"

CountsConverge ==
  []<>Pause => <>[](page # "open" \/ session = "gone" \/ stored.moves = moves)

\* A sample leaves the page unsent only if it was taken while a batch was under
\* way: others go with the answer to a batch that held them, and a batch that
\* is lost takes none along.
SamplesGoWithAnswers ==
  [][\A s \in samples \ samples' :
       \E f \in Flights :
         /\ flight[f].pc = "answered" /\ flight'[f] # flight[f]
         /\ s \in flight[f].batch.samples \/ s > flight[f].batch.moves]_vars

\* The inductive invariant.  behavior-tracker.ts:72 and :110, session.go:131: the page
\* keeps no more samples than it may, and each bears its own count.  A batch is the
\* page as it was, and of the samples the page still holds it lacks the later ones
\* only.  What is stored may be of several batches, the samples of one beside the
\* count of another, but each key holds what the page had at some time: the server
\* is never ahead of the page.
OfThePast(m) ==
  /\ m.moves <= moves
  /\ \A s \in m.samples : s \in 1 .. moves
  /\ Cardinality(m.samples) <= MaxSamples

Coherent(m) == \A s \in m.samples : s <= m.moves

LacksOnlyLater(m) == \A s \in samples : s \in m.samples \/ s > m.moves

Inv ==
  /\ TypeOK
  /\ OfThePast([moves |-> moves, samples |-> samples])
  /\ OfThePast(stored)
  /\ \A f \in Flights :
       /\ OfThePast(flight[f].batch) /\ Coherent(flight[f].batch)
       /\ OfThePast(handler[f].held)
       /\ flight[f].pc # "none" => LacksOnlyLater(flight[f].batch)
       /\ handler[f].pc # "idle" => flight[f].pc = "sent"
=============================================================================
