---------------------------- MODULE RiskScoring ----------------------------
(***************************************************************************)
(* The arithmetic of detector/detector.go and the thresholds of            *)
(* handlers/visitor_session.go, as operators on plain values.              *)
(*                                                                         *)
(* A user agent is the record                                              *)
(*     [indicators, short, knownOs]                                        *)
(* - how many of the eight automation words it contains, whether it has    *)
(* fewer than 20 characters, whether it names one of the six platforms.    *)
(* A batch of metrics is the record                                        *)
(*     [mouse, clicks, scrolls, keys, duration, swiftshader, load].        *)
(* A section the visitor did not send ("counters", "fingerprint",          *)
(* "timing") makes no rule fire, exactly like a section full of zeros, so  *)
(* the absent section is the zero section.                                 *)
(***************************************************************************)
EXTENDS Integers

MaxRisk == 100

\* Points a rule adds when its condition holds.
Points(condition, weight) == IF condition THEN weight ELSE 0

AtMost(bound, n) == IF n > bound THEN bound ELSE n

UserAgents == [indicators : 0..8, short : BOOLEAN, knownOs : BOOLEAN]

\* The user agent TriggerAnalysis passes: the empty string.
EmptyAgent == [indicators |-> 0, short |-> TRUE, knownOs |-> FALSE]

HeadlessScore(ua) ==
  AtMost(MaxRisk, 25 * ua.indicators + Points(ua.short, 20)
                                     + Points(~ua.knownOs, 15))

\* "calls" is the number of analyses of one address the detector has counted
\* in the last minute, the running one included.
RateLimitScore(calls) ==
  CASE calls > 100 -> 100
    [] calls > 60 /\ calls <= 100 -> 50
    [] calls > 30 /\ calls <= 60 -> 20
    [] OTHER -> 0

\* Every call site builds a detector of its own (detector.New), so its table
\* of request counts holds nothing but the running analysis.
\* (Mutation: one detector shared by all analyses of a busy address.)
CallsOfSharedDetector == 101
CallsOfFreshDetector == 1

\* The analyzer switches of a site that the detector reads.
AnalyzerSettings == [headless : BOOLEAN, rateLimiting : BOOLEAN]

\* The prefilter's score of an address that is not blacklisted.
PrefilterRisk(settings, ua) ==
  (IF settings.headless THEN HeadlessScore(ua) ELSE 0)
  + (IF settings.rateLimiting THEN RateLimitScore(CallsOfFreshDetector) ELSE 0)

\* From this score on the prefilter answers alone.
NeedDeep(risk) == risk < 70

Events(m) == m.mouse + m.clicks + m.scrolls + m.keys

\* events per minute > 300 and < 5, without the division: the code divides by
\* duration/60.  In float64 the quotient equals 300 exactly when the events do
\* for every whole duration up to 130 seconds; beyond that a few durations
\* (131, 247, ...) round just above it.
TooManyEvents(m) == m.duration > 0 /\ 60 * Events(m) > 300 * m.duration
TooFewEvents(m)  == m.duration > 60 /\ 60 * Events(m) < 5 * m.duration

\* (Mutation: the click test of the scroll rule is the wrong way round.)
CounterPointsSwapped(m) ==
    Points(m.mouse > 1000 /\ m.duration < 30, 15)
  + Points(m.clicks > 0 /\ m.scrolls > 20, 25)
  + Points(m.keys = 0 /\ m.mouse > 100, 20)
  + Points(TooManyEvents(m), 15)
  + Points(TooFewEvents(m), 30)
CounterPoints(m) ==
    Points(m.mouse > 1000 /\ m.duration < 30, 15)
  + Points(m.clicks = 0 /\ m.scrolls > 20, 25)
  + Points(m.keys = 0 /\ m.mouse > 100, 20)
  + Points(TooManyEvents(m), 15)
  + Points(TooFewEvents(m), 30)

DevicePoints(m) == Points(m.swiftshader, 25) + Points(m.load > 0 /\ m.load < 100, 20)

\* DeepFilter with metrics at hand: "evidence" is what the rules add up to.
Evidence(m) == CounterPoints(m) + DevicePoints(m)
\* (Mutation: the deep stage starts from zero instead of the prefilter's score.)
DeepRiskFromZero(evidence, risk) == AtMost(MaxRisk, evidence)
DeepRisk(evidence, risk) == AtMost(MaxRisk, risk + evidence)

\* AnalyzeAndUpdate blocks from this score on, and CheckRequest answers by
\* these two constants, whatever the site's settings say.
BlockRisk   == 80
CaptchaRisk == 50

ActionFor(risk) ==
  CASE risk >= BlockRisk -> "block"
    [] risk >= CaptchaRisk /\ risk < BlockRisk -> "captcha"
    [] OTHER -> "allow"
=============================================================================
