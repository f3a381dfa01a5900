------------------------- MODULE DetectorRunProofs -------------------------
(***************************************************************************)
(* The two promises of the detector - people pass, robots do not - and the *)
(* range of its score, for every user agent and every metrics a tracker    *)
(* can send.                                                               *)
(***************************************************************************)
EXTENDS DetectorRun, TLAPS

USE AgentsAreUserAgents, BatchesAreCounts

\* What the prefilter and the rules can come to.
LEMMA PrefilterRange ==
  ASSUME NEW ua \in UserAgents, NEW set \in AnalyzerSettings
  PROVE  /\ PrefilterRisk(set, ua) \in 0 .. MaxRisk
         /\ set.headless /\ ua.indicators >= 1 => PrefilterRisk(set, ua) >= 25
         /\ set.headless /\ ua.indicators >= 2 => PrefilterRisk(set, ua) >= 50
         /\ ua = [indicators |-> 0, short |-> FALSE, knownOs |-> TRUE] =>
              PrefilterRisk(set, ua) = 0
<1>1. ua.indicators \in 0 .. 8
  BY DEF UserAgents
<1>2. RateLimitScore(CallsOfFreshDetector) = 0
  BY DEF RateLimitScore, CallsOfFreshDetector
<1>3. /\ HeadlessScore(ua) \in 0 .. 100
      /\ ua.indicators >= 1 => HeadlessScore(ua) >= 25
      /\ ua.indicators >= 2 => HeadlessScore(ua) >= 50
  BY <1>1 DEF HeadlessScore, AtMost, MaxRisk, Points
<1>4. ua = [indicators |-> 0, short |-> FALSE, knownOs |-> TRUE] => HeadlessScore(ua) = 0
  BY DEF HeadlessScore, AtMost, MaxRisk, Points
<1> QED BY <1>2, <1>3, <1>4 DEF PrefilterRisk, MaxRisk

LEMMA EvidenceRange ==
  ASSUME NEW m \in Batches
  PROVE  /\ Evidence(m) \in Nat
         /\ Ordinary(m) => Evidence(m) <= 45
         /\ m.clicks = 0 /\ m.scrolls > 20 => Evidence(m) >= 25
<1>1. /\ m.mouse \in Nat /\ m.clicks \in Nat /\ m.scrolls \in Nat /\ m.keys \in Nat
      /\ m.duration \in Nat /\ m.load \in Nat
  OBVIOUS
<1>2. DevicePoints(m) \in 0 .. 45
  BY <1>1 DEF DevicePoints, Points
<1>3. CounterPoints(m) \in Nat
  BY DEF CounterPoints, Points
<1>4. Ordinary(m) => CounterPoints(m) = 0
  BY <1>1 DEF Ordinary, CounterPoints, Points
<1>5. m.clicks = 0 /\ m.scrolls > 20 => CounterPoints(m) >= 25
  BY DEF CounterPoints, Points
<1> QED BY <1>2, <1>3, <1>4, <1>5 DEF Evidence

\* The deep stage adds.
LEMMA DeepRange ==
  ASSUME NEW e \in Nat, NEW n \in 0 .. MaxRisk
  PROVE  /\ DeepRisk(e, n) \in 0 .. MaxRisk
         /\ DeepRisk(e, n) >= n
         /\ DeepRisk(e, n) <= n + e
         /\ n + e >= 50 => DeepRisk(e, n) >= 50
  BY DEF DeepRisk, AtMost, MaxRisk

LEMMA Starts == Init => Inv
  BY DEF Init, Inv

LEMMA StepKeeps == Inv /\ [Next]_vars => Inv'
<1> SUFFICES ASSUME Inv, [Next]_vars PROVE Inv'
  OBVIOUS
<1>1. CASE Prefilter
  <2>1. UNCHANGED <<agent, metrics, settings, blacklisted, answer>> /\ phase = "prefilter"
    BY <1>1 DEF Prefilter, inputs
  <2>2. CASE blacklisted
    BY <1>1, <2>1, <2>2 DEF Prefilter, Inv
  <2>3. CASE ~blacklisted
    <3>1. /\ risk' = PrefilterRisk(settings, agent)
          /\ phase' = IF NeedDeep(risk') THEN "deep" ELSE "scored"
      BY <1>1, <2>3 DEF Prefilter
    <3> QED BY <2>1, <2>3, <3>1 DEF Inv, FinalRisk
  <2> QED BY <2>2, <2>3
<1>2. CASE DeepFilter
  BY <1>2 DEF DeepFilter, inputs, Inv, FinalRisk
<1>3. CASE CheckRequest
  BY <1>3 DEF CheckRequest, inputs, Inv, FinalRisk
<1>4. CASE UNCHANGED vars
  BY <1>4 DEF vars, inputs, Inv, FinalRisk
<1> QED BY <1>1, <1>2, <1>3, <1>4 DEF Next

\* The score an analysis ends with, and its two promises.
LEMMA FinalRange ==
  ASSUME Inv
  PROVE  /\ FinalRisk \in 0 .. MaxRisk
         /\ PrefilterRisk(settings, agent) \in 0 .. MaxRisk
         /\ /\ agent = [indicators |-> 0, short |-> FALSE, knownOs |-> TRUE]
            /\ Ordinary(metrics)
            => FinalRisk < CaptchaRisk
         /\ /\ settings.headless
            /\ \/ agent.indicators >= 2
               \/ agent.indicators = 1 /\ metrics.clicks = 0 /\ metrics.scrolls > 20
            => FinalRisk >= CaptchaRisk
<1> DEFINE p == PrefilterRisk(settings, agent)
           e == Evidence(metrics)
<1>1. agent \in UserAgents /\ settings \in AnalyzerSettings /\ metrics \in Batches
  BY DEF Inv
<1>2. /\ p \in 0 .. MaxRisk
      /\ settings.headless /\ agent.indicators >= 1 => p >= 25
      /\ settings.headless /\ agent.indicators >= 2 => p >= 50
      /\ agent = [indicators |-> 0, short |-> FALSE, knownOs |-> TRUE] => p = 0
  BY <1>1, PrefilterRange
<1>3. /\ e \in Nat
      /\ Ordinary(metrics) => e <= 45
      /\ metrics.clicks = 0 /\ metrics.scrolls > 20 => e >= 25
  BY <1>1, EvidenceRange
<1>4. /\ DeepRisk(e, p) \in 0 .. MaxRisk
      /\ DeepRisk(e, p) >= p
      /\ DeepRisk(e, p) <= p + e
      /\ p + e >= 50 => DeepRisk(e, p) >= 50
  BY <1>2, <1>3, DeepRange
<1>5. FinalRisk = IF NeedDeep(p) THEN DeepRisk(e, p) ELSE p
  BY DEF FinalRisk
<1>6. agent.indicators \in 0 .. 8
  BY <1>1 DEF UserAgents
<1> HIDE DEF p, e
<1> QED BY <1>2, <1>3, <1>4, <1>5, <1>6 DEF NeedDeep, MaxRisk, CaptchaRisk, p

LEMMA InvAlways == Spec => []Inv
<1>1. Inv /\ [Next]_vars => Inv'
  BY StepKeeps
<1> QED BY Starts, <1>1, PTL DEF Spec

\* The score is a percentage at every stage (detector.go, Prefilter and
\* DeepFilter), for every user agent, metrics and setting.
THEOREM RiskStaysPercent == Spec => []RiskIsPercent
<1>1. Inv => RiskIsPercent
  BY FinalRange DEF Inv, RiskIsPercent, MaxRisk
<1> QED BY InvAlways, <1>1, PTL

\* A person with a complete browser is let through (detector.go,
\* visitor_session.go CheckRequest), whatever the metrics are within the limits.
THEOREM PeopleAreAllowed == Spec => []PersonIsAllowed
<1>1. Inv => PersonIsAllowed
  BY FinalRange DEF Inv, PersonIsAllowed, ActionFor, MaxRisk, CaptchaRisk, BlockRisk
<1> QED BY InvAlways, <1>1, PTL

\* An automated browser is not let through (detector.go, headlessScore and
\* DeepFilter), with any metrics.
THEOREM RobotsAreStopped == Spec => []RobotIsStopped
<1>1. Inv => RobotIsStopped
  BY FinalRange DEF Inv, RobotIsStopped, ActionFor, MaxRisk, CaptchaRisk, BlockRisk
<1> QED BY InvAlways, <1>1, PTL

\* No stage lowers the score of the one before (detector.go, AnalyzeAndUpdate).
THEOREM StagesOnlyAdd == Spec => EvidenceOnlyRaises
<1>1. Inv /\ [Next]_vars => [risk' >= risk]_vars
  <2> SUFFICES ASSUME Inv, Next PROVE risk' >= risk
    OBVIOUS
  <2>1. PrefilterRisk(settings, agent) \in 0 .. MaxRisk /\ FinalRisk \in 0 .. MaxRisk
    BY FinalRange
  <2>2. CASE Prefilter
    BY <2>1, <2>2 DEF Prefilter, Inv, MaxRisk
  <2>3. CASE DeepFilter
    <3>1. risk \in 0 .. MaxRisk /\ Evidence(metrics) \in Nat
      BY <2>1, <2>3, EvidenceRange DEF DeepFilter, Inv
    <3> QED BY <2>3, <3>1, DeepRange DEF DeepFilter
  <2>4. CASE CheckRequest
    <3>1. risk \in 0 .. MaxRisk
      BY <2>1, <2>4 DEF CheckRequest, Inv, MaxRisk
    <3> QED BY <2>4, <3>1 DEF CheckRequest, MaxRisk
  <2> QED BY <2>2, <2>3, <2>4 DEF Next
<1> QED BY InvAlways, <1>1, PTL DEF Spec, EvidenceOnlyRaises
=============================================================================
