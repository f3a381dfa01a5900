---------------------------- MODULE DetectorRun ----------------------------
(***************************************************************************)
(* One analysis of one visitor followed by one check of the same visitor,  *)
(* over every combination of user agent, metrics and settings of the       *)
(* configuration: Detector.AnalyzeAndUpdate (Prefilter, DeepFilter) and    *)
(* the answer of CheckRequest.  VisitorGate has the same steps interleaved *)
(* with everything else; here the inputs are detailed instead.             *)
(***************************************************************************)
EXTENDS RiskScoring

CONSTANTS
  Agents,      \* user agents of visitors, a subset of UserAgents
  Batches      \* metrics a visitor's tracker may have sent

ASSUME AgentsAreUserAgents == Agents \subseteq UserAgents

\* A tracker counts, and times itself.
ASSUME BatchesAreCounts ==
  \A m \in Batches :
    /\ {m.mouse, m.clicks, m.scrolls, m.keys, m.duration, m.load} \subseteq Nat
    /\ m.swiftshader \in BOOLEAN

VARIABLES
  agent, metrics, settings,             \* the visitor and the site, fixed
  blacklisted,                          \* is the visitor's address listed?
  phase,                                \* how far the run has come
  risk,                                 \* the score so far
  answer                                \* what the check said

inputs == <<agent, metrics, settings, blacklisted>>
vars   == <<inputs, phase, risk, answer>>

Init ==
  /\ agent \in Agents
  /\ metrics \in Batches
  /\ settings \in AnalyzerSettings
  /\ blacklisted \in BOOLEAN
  /\ phase = "prefilter"
  /\ risk = 0
  /\ answer = "none"

Prefilter ==
  /\ phase = "prefilter"
  /\ IF blacklisted
       THEN /\ risk' = MaxRisk
            /\ phase' = "scored"
       ELSE /\ risk' = PrefilterRisk(settings, agent)
            /\ phase' = IF NeedDeep(risk') THEN "deep" ELSE "scored"
  /\ UNCHANGED <<inputs, answer>>

DeepFilter ==
  /\ phase = "deep"
  /\ risk' = DeepRisk(Evidence(metrics), risk)
  /\ phase' = "scored"
  /\ UNCHANGED <<inputs, answer>>

CheckRequest ==
  /\ phase = "scored"
  /\ answer' = IF blacklisted THEN "block" ELSE ActionFor(risk)
  /\ phase' = "answered"
  /\ UNCHANGED <<inputs, risk>>

Next == Prefilter \/ DeepFilter \/ CheckRequest

Spec == Init /\ [][Next]_vars

-----------------------------------------------------------------------------
(* Properties.                                                             *)

\* The score stays a percentage at every stage (README.md: "0-100"), although
\* the prefilter adds two scores of up to 100 and does not clamp the sum.
RiskIsPercent == risk \in 0..MaxRisk

\* The stages only add evidence: a later stage never talks an earlier one down.
EvidenceOnlyRaises == [][risk' >= risk]_vars

\* A visitor who behaves like a person: some click and some key, an event rate
\* between the two limits, and no flood of mouse moves.
Ordinary(m) ==
  /\ m.clicks > 0
  /\ m.keys > 0
  /\ ~TooManyEvents(m)
  /\ ~TooFewEvents(m)
  /\ m.mouse <= 1000

\* No false positive: a person with a complete browser user agent is let
\* through undisturbed, whatever their graphics driver and connection are, as
\* long as the owner has not listed the address.
PersonIsAllowed ==
  (/\ phase = "answered"
   /\ ~blacklisted
   /\ agent = [indicators |-> 0, short |-> FALSE, knownOs |-> TRUE]
   /\ Ordinary(metrics)) => answer = "allow"

\* No false negative: with the headless test on, a user agent with two
\* automation words, or with one and a visitor who scrolls without ever
\* clicking, is not let through.
RobotIsStopped ==
  (/\ phase = "answered"
   /\ settings.headless
   /\ \/ agent.indicators >= 2
      \/ /\ agent.indicators = 1
         /\ metrics.clicks = 0
         /\ metrics.scrolls > 20) => answer # "allow"

\* The inductive invariant: the score is what the stages passed so far make of
\* the visitor, and the answer goes by the score.
FinalRisk ==
  LET prefilter == PrefilterRisk(settings, agent)
  IN IF NeedDeep(prefilter) THEN DeepRisk(Evidence(metrics), prefilter) ELSE prefilter

Inv ==
  /\ agent \in Agents /\ metrics \in Batches /\ settings \in AnalyzerSettings
  /\ blacklisted \in BOOLEAN
  /\ phase \in {"prefilter", "deep", "scored", "answered"}
  /\ phase = "prefilter" => risk = 0
  /\ phase = "deep" => /\ ~blacklisted
                       /\ risk = PrefilterRisk(settings, agent) /\ NeedDeep(risk)
  /\ phase \in {"scored", "answered"} => risk = IF blacklisted THEN MaxRisk ELSE FinalRisk
  /\ phase = "answered" => answer = IF blacklisted THEN "block" ELSE ActionFor(risk)
=============================================================================
