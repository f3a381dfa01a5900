------------------------- MODULE VisitorGateProofs -------------------------
(***************************************************************************)
(* Theorems about VisitorGate, for any sets of sites, addresses, sessions, *)
(* requests and analyses, any lifetimes, scores and bounds.                *)
(***************************************************************************)
EXTENDS VisitorGate, TLAPS

-----------------------------------------------------------------------------
(* The arithmetic of the scores.                                            *)

\* The score of the empty user agent (TriggerAnalysis) is 35.
LEMMA EmptyAgentScore == HeadlessScore(EmptyAgent) = 35
BY DEF HeadlessScore, EmptyAgent, AtMost, Points, MaxRisk

\* DeepFilter: whatever the metrics add up to, a percentage stays one.
LEMMA DeepRiskBounds ==
  ASSUME NEW e \in Nat, NEW r \in 0..MaxRisk
  PROVE  DeepRisk(e, r) \in 0..MaxRisk
BY DEF DeepRisk, AtMost, MaxRisk

\* DeepFilter on any natural score.
LEMMA DeepRiskNat ==
  ASSUME NEW e \in Nat, NEW r \in Nat
  PROVE  DeepRisk(e, r) \in Nat
BY DEF DeepRisk, AtMost, MaxRisk

\* CheckRequest always comes to one of the three actions.
LEMMA ActionIsAnswer ==
  ASSUME NEW r
  PROVE  ActionFor(r) \in {"allow", "captcha", "block"}
BY DEF ActionFor

-----------------------------------------------------------------------------
(* Types: what the building blocks of the actions leave behind.             *)

LEMMA DbType ==
  ASSUME TypeOK, DbFails \/ DbWorks
  PROVE  faults' \in Nat
BY DEF TypeOK, DbFails, DbWorks

LEMMA RefuseType ==
  ASSUME TypeOK, NEW r \in Reqs, NEW a \in Answers, Refuse(r, a)
  PROVE  check' \in [Reqs -> Check]
BY DEF TypeOK, Refuse, NoCheck, Check, CheckPc

LEMMA AnswerType ==
  ASSUME TypeOK, NEW r \in Reqs, NEW a \in Answers, Answer(r, a)
  PROVE  check' \in [Reqs -> Check]
BY DEF TypeOK, Answer, NoCheck, Check, CheckPc

LEMMA GotoType ==
  ASSUME TypeOK, NEW r \in Reqs, NEW p \in CheckPc, Goto(r, p)
  PROVE  check' \in [Reqs -> Check]
BY DEF TypeOK, Goto, Check

LEMMA GotoWithType ==
  ASSUME TypeOK, NEW r \in Reqs, NEW p \in CheckPc, NEW s \in Sids \cup {NoSid},
         GotoWith(r, p, s)
  PROVE  check' \in [Reqs -> Check]
<1>1. [check[r] EXCEPT !.pc = p, !.sid = s] \in Check
  BY DEF TypeOK, Check
<1> QED
  BY <1>1 DEF TypeOK, GotoWith

LEMMA JobGotoType ==
  ASSUME TypeOK, NEW j \in Jobs, NEW p \in JobPc, NEW n \in Nat, JobGoto(j, p, n)
  PROVE  job' \in [Jobs -> Job]
BY DEF TypeOK, JobGoto, Job

LEMMA JobEndsType ==
  ASSUME TypeOK, NEW j \in Jobs, JobEnds(j)
  PROVE  job' \in [Jobs -> Job]
BY DEF TypeOK, JobEnds, NoJob, Job, JobPc, MaxRisk

\* The four writes to a session object.
LEMMA SessionWriteType ==
  ASSUME TypeOK, NEW s,
         \/ UNCHANGED sess
         \/ \E n \in Nat : sess' = [sess EXCEPT ![s].risk = n]
         \/ \E n \in Nat : sess' = [sess EXCEPT ![s].metrics = n]
         \/ \E n \in Nat : sess' = [sess EXCEPT ![s].expires = n]
         \/ sess' = [sess EXCEPT ![s].blocked = TRUE, ![s].active = FALSE]
  PROVE  sess' \in [Sids -> Session]
<1>1. \A x \in Session, n \in Nat :
        /\ [x EXCEPT !.risk = n] \in Session
        /\ [x EXCEPT !.metrics = n] \in Session
        /\ [x EXCEPT !.expires = n] \in Session
        /\ [x EXCEPT !.blocked = TRUE, !.active = FALSE] \in Session
  BY DEF Session
<1>2. sess \in [Sids -> Session]
  BY DEF TypeOK
<1>3. CASE UNCHANGED sess
  BY <1>2, <1>3
<1>4. CASE \E n \in Nat : sess' = [sess EXCEPT ![s].risk = n]
  <2> PICK n \in Nat : sess' = [sess EXCEPT ![s].risk = n]
    BY <1>4
  <2>1. s \in Sids => [sess[s] EXCEPT !.risk = n] \in Session
    BY <1>1, <1>2
  <2> QED
    BY <1>2, <2>1
<1>5. CASE \E n \in Nat : sess' = [sess EXCEPT ![s].metrics = n]
  <2> PICK n \in Nat : sess' = [sess EXCEPT ![s].metrics = n]
    BY <1>5
  <2>1. s \in Sids => [sess[s] EXCEPT !.metrics = n] \in Session
    BY <1>1, <1>2
  <2> QED
    BY <1>2, <2>1
<1>6. CASE \E n \in Nat : sess' = [sess EXCEPT ![s].expires = n]
  <2> PICK n \in Nat : sess' = [sess EXCEPT ![s].expires = n]
    BY <1>6
  <2>1. s \in Sids => [sess[s] EXCEPT !.expires = n] \in Session
    BY <1>1, <1>2
  <2> QED
    BY <1>2, <2>1
<1>7. CASE sess' = [sess EXCEPT ![s].blocked = TRUE, ![s].active = FALSE]
  BY <1>1, <1>2, <1>7
<1> QED
  BY <1>3, <1>4, <1>5, <1>6, <1>7

LEMMA BlacklistType ==
  ASSUME TypeOK, NEW w, NEW i, NEW row \in Row, AddToBlacklist(w, i, row)
  PROVE  ban' \in [Sites \X (Ips \cup {NoIp}) -> Row]
BY DEF TypeOK, AddToBlacklist

LEMMA StoredType ==
  ASSUME TypeOK, NEW s \in Sids, Stored(s)
  PROVE  stored' \in SUBSET Sids /\ cleaner' \in Cleaner
BY DEF TypeOK, Stored, Cleaner

LEMMA InitType == Init => TypeOK
BY TimesAreNatural
   DEF Init, TypeOK, SiteStatus, Row, NoRow, Session, NoSession, Check, NoCheck,
       CheckPc, Answers, Job, NoJob, JobPc, Cleaner, CleanerWaiting, MaxRisk

LEMMA CheckType ==
  ASSUME TypeOK, NEW r \in Reqs, CheckArrives(r) \/ CheckStep(r)
  PROVE  TypeOK'
<1>1. CASE CheckArrives(r)
  <2> PICK w \in Sites, i \in Ips, s \in used \cup {NoSid}, b \in Bodies :
        check' = [check EXCEPT ![r] =
                   [pc |-> "site", site |-> w, ip |-> i, sid |-> s,
                    body |-> b, answer |-> "none"]]
    BY <1>1 DEF CheckArrives
  <2>1. check' \in [Reqs -> Check]
    BY BodiesAreKnown DEF TypeOK, Check, CheckPc, Answers
  <2> QED
    BY <1>1, <2>1 DEF CheckArrives, TypeOK, tables, memory
<1>2. CASE CheckGetSite(r)
  <2>1. DbFails \/ DbWorks
    BY <1>2 DEF CheckGetSite
  <2>2. check' \in [Reqs -> Check]
    BY <1>2, RefuseType, GotoType DEF CheckGetSite, CheckPc, Answers
  <2> QED
    BY <1>2, <2>1, <2>2, DbType DEF CheckGetSite, TypeOK, tables, memory
<1>3. CASE CheckIsBlacklisted(r)
  <2>1. DbFails \/ DbWorks
    BY <1>3 DEF CheckIsBlacklisted
  <2>2. check' \in [Reqs -> Check]
    BY <1>3, RefuseType, GotoType DEF CheckIsBlacklisted, AfterBlacklist, CheckPc, Answers
  <2> QED
    BY <1>3, <2>1, <2>2, DbType DEF CheckIsBlacklisted, TypeOK, tables, memory
<1>4. CASE CheckGetSession(r)
  <2>1. check' \in [Reqs -> Check]
    BY <1>4, RefuseType, GotoType, GotoWithType DEF CheckGetSession, CheckPc, Answers
  <2> QED
    BY <1>4, <2>1 DEF CheckGetSession, TypeOK, tables, memory
<1>5. CASE CheckCreateSession(r)
  <2> PICK s \in FreshSids, agent \in AgentScores :
        /\ used' = used \cup {s}
        /\ Stored(s)
        /\ sess' = [sess EXCEPT ![s] = NewSession(r, agent)]
        /\ GotoWith(r, "activity", s)
    BY <1>5 DEF CheckCreateSession
  <2>1. s \in Sids /\ agent \in 0..MaxRisk
    BY ScoresAreNatural DEF FreshSids
  <2>2. NewSession(r, agent) \in Session
    BY <2>1, TimesAreNatural DEF NewSession, Session, Check, MaxRisk, TypeOK
  <2>3. sess' \in [Sids -> Session] /\ used' \in SUBSET Sids
    BY <2>1, <2>2 DEF TypeOK
  <2>4. check' \in [Reqs -> Check]
    BY <2>1, GotoWithType DEF CheckPc
  <2> QED
    BY <1>5, <2>1, <2>3, <2>4, StoredType DEF CheckCreateSession, TypeOK, tables
<1>6. CASE CheckCreateFails(r)
  BY <1>6, RefuseType DEF CheckCreateFails, Answers, TypeOK, tables, memory
<1>7. CASE CheckUpdateActivity(r)
  <2>1. sess' \in [Sids -> Session]
    <3>1. now + Ttl \in Nat
      BY TimesAreNatural DEF TypeOK
    <3> QED
      BY <1>7, <3>1, SessionWriteType DEF CheckUpdateActivity
  <2> QED
    BY <1>7, <2>1, GotoType DEF CheckUpdateActivity, CheckPc, TypeOK, tables
<1>8. CASE CheckDecide(r)
  <2>1. ActionFor(sess[check[r].sid].risk) \in Answers
    BY ActionIsAnswer DEF Answers
  <2> QED
    BY <1>8, <2>1, AnswerType DEF CheckDecide, TypeOK, tables, memory
<1>9. CASE CheckCaptchaPassed(r)
  <2>1. sess' \in [Sids -> Session]
    BY <1>9, SessionWriteType DEF CheckCaptchaPassed
  <2>2. check' \in [Reqs -> Check]
    BY <1>9, AnswerType, RefuseType DEF CheckCaptchaPassed, Answers
  <2> QED
    BY <1>9, <2>1, <2>2 DEF CheckCaptchaPassed, TypeOK, tables
<1> QED
  BY <1>1, <1>2, <1>3, <1>4, <1>5, <1>6, <1>7, <1>8, <1>9 DEF CheckStep

LEMMA JobType ==
  ASSUME TypeOK, NEW j \in Jobs, SubmitBehavior(j) \/ TriggerAnalysis(j) \/ JobStep(j)
  PROVE  TypeOK'
<1>1. CASE SubmitBehavior(j)
  <2>1. job' \in [Jobs -> Job]
    BY <1>1 DEF SubmitBehavior, Job, JobPc, Session, TypeOK
  <2> QED
    BY <1>1, <2>1 DEF SubmitBehavior, TypeOK, tables, memory
<1>2. CASE TriggerAnalysis(j)
  <2>1. job' \in [Jobs -> Job]
    BY <1>2, EmptyAgentScore DEF TriggerAnalysis, Job, JobPc, MaxRisk, TypeOK
  <2> QED
    BY <1>2, <2>1 DEF TriggerAnalysis, TypeOK, tables, memory
<1>3. CASE SubmitMetrics(j)
  <2>1. sess' \in [Sids -> Session]
    BY <1>3, ScoresAreNatural, SessionWriteType DEF SubmitMetrics
  <2>2. job' \in [Jobs -> Job]
    <3>1. CASE job' = [job EXCEPT ![j].pc = "prefilter"]
      BY <3>1 DEF Job, JobPc, TypeOK
    <3>2. CASE job' = [job EXCEPT ![j] = NoJob]
      BY <3>2, JobEndsType DEF JobEnds
    <3> QED
      BY <1>3, <3>1, <3>2 DEF SubmitMetrics
  <2> QED
    BY <1>3, <2>1, <2>2 DEF SubmitMetrics, TypeOK, tables
<1>4. CASE Prefilter(j)
  <2>1. DbFails \/ DbWorks
    BY <1>4 DEF Prefilter
  <2>2. job[j].agent \in Nat /\ MaxRisk \in Nat
    BY DEF TypeOK, Job, MaxRisk
  <2>3. job' \in [Jobs -> Job]
    <3>1. CASE JobEnds(j) \/ JobGoto(j, "risk", MaxRisk)
      BY <3>1, <2>2, JobEndsType, JobGotoType DEF JobPc
    <3>2. CASE \E risk \in {0, job[j].agent} :
                 JobGoto(j, IF NeedDeep(risk) THEN "deep" ELSE "risk", risk)
      BY <3>2, <2>2, JobGotoType DEF JobPc
    <3> QED
      BY <1>4, <3>1, <3>2 DEF Prefilter
  <2> QED
    BY <1>4, <2>1, <2>3, DbType DEF Prefilter, TypeOK, tables, memory
<1>5. CASE DeepFilter(j)
  <2> DEFINE risk == IF job[j].sid \in stored
                       THEN DeepRisk(sess[job[j].sid].metrics, job[j].risk)
                       ELSE job[j].risk
  <2>1. risk \in Nat
    BY DeepRiskNat DEF TypeOK, Job, Session
  <2>2. JobGoto(j, "risk", risk)
    BY <1>5 DEF DeepFilter
  <2> QED
    BY <1>5, <2>1, <2>2, JobGotoType DEF DeepFilter, JobPc, TypeOK, tables, memory
<1>6. CASE UpdateRiskScore(j)
  <2>1. job[j].risk \in Nat
    BY DEF TypeOK, Job
  <2>2. sess' \in [Sids -> Session]
    BY <1>6, <2>1, SessionWriteType DEF UpdateRiskScore
  <2>3. job' \in [Jobs -> Job]
    BY <1>6, <2>1, JobEndsType, JobGotoType DEF UpdateRiskScore, JobPc
  <2> QED
    BY <1>6, <2>2, <2>3 DEF UpdateRiskScore, TypeOK, tables
<1>7. CASE ConfirmSession(j)
  <2>1. job[j].risk \in Nat
    BY DEF TypeOK, Job
  <2>2. job' \in [Jobs -> Job]
    BY <1>7, <2>1, JobEndsType, JobGotoType DEF ConfirmSession, JobPc
  <2> QED
    BY <1>7, <2>2 DEF ConfirmSession, TypeOK, tables, memory
<1>8. CASE BlockSession(j)
  <2>1. job[j].risk \in Nat
    BY DEF TypeOK, Job
  <2>2. sess' \in [Sids -> Session]
    BY <1>8, SessionWriteType DEF BlockSession
  <2>3. job' \in [Jobs -> Job]
    BY <1>8, <2>1, JobGotoType DEF BlockSession, JobPc
  <2> QED
    BY <1>8, <2>2, <2>3 DEF BlockSession, TypeOK, tables
<1>9. CASE BanAddress(j)
  <2>1. DbFails \/ DbWorks
    BY <1>9 DEF BanAddress
  <2>2. [until |-> Forever, by |-> "detector"] \in Row
    BY DEF Row
  <2>3. ban' \in [Sites \X (Ips \cup {NoIp}) -> Row]
    <3>1. CASE UNCHANGED ban
      BY <3>1 DEF TypeOK
    <3>2. CASE AddToBlacklist(sess[job[j].sid].site, sess[job[j].sid].ip,
                              [until |-> Forever, by |-> "detector"])
      BY <3>2, <2>2, BlacklistType
    <3> QED
      BY <1>9, <3>1, <3>2 DEF BanAddress
  <2> QED
    BY <1>9, <2>1, <2>3, DbType, JobEndsType DEF BanAddress, TypeOK, memory
<1> QED
  BY <1>1, <1>2, <1>3, <1>4, <1>5, <1>6, <1>7, <1>8, <1>9 DEF JobStep

LEMMA CleanerType ==
  ASSUME TypeOK, CleanerStep
  PROVE  TypeOK'
<1>1. CASE CleanupTick
  BY <1>1 DEF CleanupTick, Cleaner, TypeOK, tables, memory
<1>2. ASSUME NEW s \in Sids, CleanupInspect(s)
      PROVE  TypeOK'
  <2>1. cleaner' \in Cleaner
    <3>1. CASE cleaner' = [cleaner EXCEPT !.pc = "delete", !.key = s]
      BY <3>1 DEF Cleaner, TypeOK
    <3>2. CASE cleaner' = [cleaner EXCEPT !.todo = @ \ {s}]
      BY <3>2 DEF Cleaner, TypeOK
    <3> QED
      BY <1>2, <3>1, <3>2 DEF CleanupInspect
  <2> QED
    BY <1>2, <2>1 DEF CleanupInspect, TypeOK, tables, memory
<1>3. CASE CleanupDelete
  BY <1>3 DEF CleanupDelete, Cleaner, TypeOK, tables
<1>4. CASE CleanupDone
  BY <1>4 DEF CleanupDone, CleanerWaiting, Cleaner, TypeOK, tables, memory
<1> QED
  BY <1>1, <1>2, <1>3, <1>4 DEF CleanerStep

LEMMA SiteStepType ==
  ASSUME TypeOK, SiteStep
  PROVE  TypeOK'
<1>1. ASSUME NEW w \in Sites, SetSiteStatus(w)
      PROVE  TypeOK'
  BY <1>1 DEF SetSiteStatus, SiteStatus, TypeOK, memory
<1>2. ASSUME NEW w \in Sites, DeleteSite(w)
      PROVE  TypeOK'
  <2>1. NoRow \in Row
    BY DEF NoRow, Row
  <2> QED
    BY <1>2, <2>1 DEF DeleteSite, SiteStatus, TypeOK, memory
<1>3. ASSUME NEW w \in Sites, NEW i \in Ips, ListAddress(w, i)
      PROVE  TypeOK'
  <2> PICK until \in {Forever} \cup {now + d : d \in BanTimes} :
        AddToBlacklist(w, i, [until |-> until, by |-> "handler"])
    BY <1>3 DEF ListAddress
  <2>1. until \in {Forever} \cup Nat
    BY TimesAreNatural DEF TypeOK
  <2>2. [until |-> until, by |-> "handler"] \in Row
    BY <2>1 DEF Row
  <2> QED
    BY <1>3, <2>2, BlacklistType DEF ListAddress, TypeOK, memory
<1>4. ASSUME NEW w \in Sites, NEW i \in Ips, UnlistAddress(w, i)
      PROVE  TypeOK'
  <2>1. NoRow \in Row
    BY DEF NoRow, Row
  <2> QED
    BY <1>4, <2>1 DEF UnlistAddress, TypeOK, memory
<1> QED
  BY <1>1, <1>2, <1>3, <1>4 DEF SiteStep

LEMMA EnvironmentType ==
  ASSUME TypeOK, Tick \/ Restart
  PROVE  TypeOK'
<1>1. CASE Tick
  BY <1>1 DEF Tick, TypeOK, tables, memory
<1>2. CASE Restart
  <2>1. NoCheck \in Check
    BY DEF NoCheck, Check, CheckPc, Answers
  <2>2. NoJob \in Job
    BY DEF NoJob, Job, JobPc, MaxRisk
  <2>3. CleanerWaiting \in Cleaner
    BY DEF CleanerWaiting, Cleaner
  <2> QED
    BY <1>2, <2>1, <2>2, <2>3 DEF Restart, TypeOK, tables
<1> QED
  BY <1>1, <1>2

LEMMA StepType == TypeOK /\ [Next]_vars => TypeOK'
<1> SUFFICES ASSUME TypeOK, [Next]_vars PROVE TypeOK'
  OBVIOUS
<1>1. CASE UNCHANGED vars
  BY <1>1 DEF vars, TypeOK
<1> QED
  BY <1>1, CheckType, JobType, CleanerType, SiteStepType, EnvironmentType DEF Next

\* Every variable keeps its type, whatever the interleaving.
THEOREM TypeCorrect == Spec => []TypeOK
BY InitType, StepType, PTL DEF Spec

-----------------------------------------------------------------------------
(* What a step does to the sessions: one more of them, or writes that leave *)
(* the site and the address of each alone and reach stored sessions only.   *)

SameHome(s) == sess'[s].site = sess[s].site /\ sess'[s].ip = sess[s].ip

RunningRisks == {job[j].risk : j \in {k \in Jobs : job[k].pc # "idle"}}

QuietStep ==
  /\ UNCHANGED used
  /\ stored' \subseteq stored
  /\ \A s \in Sids :
       /\ SameHome(s)
       /\ s \notin stored => sess'[s] = sess[s]
       /\ sess'[s].risk \in {sess[s].risk, 0} \cup RunningRisks

LEMMA RiskWrite ==
  ASSUME TypeOK, NEW x \in Sids, NEW n, sess' = [sess EXCEPT ![x].risk = n]
  PROVE  \A s \in Sids : /\ SameHome(s)
                         /\ s # x => sess'[s] = sess[s]
                         /\ sess'[s].risk \in {sess[s].risk, n}
<1> TAKE s \in Sids
<1>1. sess[s] \in Session /\ sess[x] \in Session
  BY DEF TypeOK
<1>2. sess'[s] = IF s = x THEN [sess[x] EXCEPT !.risk = n] ELSE sess[s]
  BY DEF TypeOK
<1> QED
  BY <1>1, <1>2 DEF SameHome, Session

LEMMA OtherWrite ==
  ASSUME TypeOK, NEW x \in Sids,
         \/ \E n \in Nat : sess' = [sess EXCEPT ![x].metrics = n]
         \/ \E n \in Nat : sess' = [sess EXCEPT ![x].expires = n]
         \/ sess' = [sess EXCEPT ![x].blocked = TRUE, ![x].active = FALSE]
  PROVE  \A s \in Sids : /\ SameHome(s)
                         /\ s # x => sess'[s] = sess[s]
                         /\ sess'[s].risk = sess[s].risk
<1> TAKE s \in Sids
<1>1. sess[s] \in Session /\ sess[x] \in Session
  BY DEF TypeOK
<1>2. PICK n \in Nat :
        sess'[s] \in {sess[s], [sess[s] EXCEPT !.metrics = n],
                      [sess[s] EXCEPT !.expires = n],
                      [sess[s] EXCEPT !.blocked = TRUE, !.active = FALSE]}
  BY DEF TypeOK
<1>3. s # x => sess'[s] = sess[s]
  BY DEF TypeOK
<1> QED
  BY <1>1, <1>2, <1>3 DEF SameHome, Session

LEMMA NoWrite ==
  ASSUME UNCHANGED used, stored' \subseteq stored, UNCHANGED sess
  PROVE  QuietStep
BY DEF QuietStep, SameHome

LEMMA SessionSteps ==
  ASSUME TypeOK, [Next]_vars
  PROVE  QuietStep \/ \E r \in Reqs : CheckCreateSession(r)
<1>1. CASE UNCHANGED vars
  BY <1>1, NoWrite DEF vars
<1>2. ASSUME NEW r \in Reqs, CheckArrives(r) \/ CheckStep(r), ~CheckCreateSession(r)
      PROVE  QuietStep
  <2>1. CASE CheckUpdateActivity(r) /\ check[r].sid \in stored
    <3>1. now + Ttl \in Nat /\ check[r].sid \in Sids
      BY <2>1, TimesAreNatural DEF TypeOK
    <3> QED
      BY <2>1, <3>1, OtherWrite DEF CheckUpdateActivity, QuietStep
  <2>2. CASE CheckCaptchaPassed(r) /\ check[r].sid \in stored
    <3>1. check[r].sid \in Sids
      BY <2>2 DEF TypeOK
    <3>2. UNCHANGED <<used, stored>> /\ sess' = [sess EXCEPT ![check[r].sid].risk = 0]
      BY <2>2 DEF CheckCaptchaPassed
    <3> QED
      BY <2>2, <3>1, <3>2, RiskWrite DEF QuietStep
  <2>3. CASE ~ ((CheckUpdateActivity(r) \/ CheckCaptchaPassed(r)) /\ check[r].sid \in stored)
    <3>1. UNCHANGED memory
      BY <1>2, <2>3 DEF CheckStep, CheckArrives, CheckGetSite, CheckIsBlacklisted,
            CheckGetSession, CheckCreateFails, CheckUpdateActivity, CheckDecide,
            CheckCaptchaPassed, memory
    <3> QED
      BY <3>1, NoWrite DEF memory
  <2> QED
    BY <2>1, <2>2, <2>3
<1>3. ASSUME NEW j \in Jobs, SubmitBehavior(j) \/ TriggerAnalysis(j) \/ JobStep(j)
      PROVE  QuietStep
  <2>1. CASE SubmitMetrics(j) /\ ~ UNCHANGED sess
    <3>1. UNCHANGED <<used, stored>> /\ job[j].sid \in stored
      BY <2>1 DEF SubmitMetrics
    <3>2. \E n \in Nat : sess' = [sess EXCEPT ![job[j].sid].metrics = n]
      BY <2>1, ScoresAreNatural DEF SubmitMetrics
    <3> QED
      BY <3>1, <3>2, OtherWrite DEF QuietStep, TypeOK
  <2>2. CASE UpdateRiskScore(j) /\ ~ UNCHANGED sess
    <3>1. /\ UNCHANGED <<used, stored>>
          /\ job[j].sid \in stored
          /\ sess' = [sess EXCEPT ![job[j].sid].risk = job[j].risk]
          /\ job[j].risk \in RunningRisks
      BY <2>2 DEF UpdateRiskScore, RunningRisks
    <3> QED
      BY <3>1, RiskWrite DEF QuietStep, TypeOK
  <2>3. CASE BlockSession(j) /\ ~ UNCHANGED sess
    <3>1. /\ UNCHANGED <<used, stored>>
          /\ job[j].sid \in stored
          /\ sess' = [sess EXCEPT ![job[j].sid].blocked = TRUE, ![job[j].sid].active = FALSE]
      BY <2>3 DEF BlockSession
    <3> QED
      BY <3>1, OtherWrite DEF QuietStep, TypeOK
  <2>4. CASE UNCHANGED sess
    <3>1. UNCHANGED <<used, stored>>
      BY <1>3 DEF JobStep, SubmitBehavior, TriggerAnalysis, SubmitMetrics, Prefilter,
            DeepFilter, UpdateRiskScore, ConfirmSession, BlockSession, BanAddress, memory
    <3> QED
      BY <2>4, <3>1, NoWrite
  <2>5. ~ UNCHANGED sess => SubmitMetrics(j) \/ UpdateRiskScore(j) \/ BlockSession(j)
    BY <1>3 DEF JobStep, SubmitBehavior, TriggerAnalysis, Prefilter, DeepFilter,
          ConfirmSession, BanAddress, memory
  <2> QED
    BY <2>1, <2>2, <2>3, <2>4, <2>5
<1>4. CASE CleanerStep
  BY <1>4, NoWrite DEF CleanerStep, CleanupTick, CleanupInspect, CleanupDelete, CleanupDone,
     memory
<1>5. CASE SiteStep
  BY <1>5, NoWrite DEF SiteStep, SetSiteStatus, DeleteSite, ListAddress, UnlistAddress, memory
<1>6. CASE Tick \/ Restart
  BY <1>6, NoWrite DEF Tick, Restart, memory
<1> QED
  BY <1>1, <1>2, <1>3, <1>4, <1>5, <1>6 DEF Next

-----------------------------------------------------------------------------
(* The inductive invariant, one conjunct at a time.                         *)

LEMMA InitInv == Init => Inv
<1> SUFFICES ASSUME Init PROVE Inv
  OBVIOUS
<1> USE DEF Init, NoSession, NoCheck, NoJob, NoRow, MaxRisk
<1>1. SessionsHaveHomes
  BY DEF SessionsHaveHomes
<1>2. RequestsAreForSites /\ RequestsHoldTheirSession /\ AnswersNameOwnSite
  BY DEF RequestsAreForSites, RequestsHoldTheirSession, AnswersNameOwnSite
<1>3. AnalysesHoldASession /\ RiskIsPercent
  BY DEF AnalysesHoldASession, RiskIsPercent
<1>4. AutoBanNamesVisitor
  BY DEF AutoBanNamesVisitor
<1> QED
  BY <1>1, <1>2, <1>3, <1>4, InitType DEF Inv

\* What CreateSession does to the sessions.
LEMMA CreateEffect ==
  ASSUME TypeOK, Inv, NEW r \in Reqs, CheckCreateSession(r)
  PROVE  \E s \in Sids \ used :
           /\ used' = used \cup {s}
           /\ stored' = stored \cup {s}
           /\ sess'[s].site = check[r].site /\ sess'[s].ip = check[r].ip
           /\ sess'[s].site \in Sites /\ sess'[s].ip \in Ips
           /\ sess'[s].risk = 0
           /\ \A t \in Sids \ {s} : sess'[t] = sess[t]
           /\ GotoWith(r, "activity", s)
<1> PICK s \in FreshSids, agent \in AgentScores :
      /\ used' = used \cup {s}
      /\ Stored(s)
      /\ sess' = [sess EXCEPT ![s] = NewSession(r, agent)]
      /\ GotoWith(r, "activity", s)
  BY DEF CheckCreateSession
<1>1. s \in Sids \ used /\ sess'[s] = NewSession(r, agent)
  BY DEF FreshSids, TypeOK
<1>2. check[r].site \in Sites /\ check[r].ip \in Ips
  BY DEF CheckCreateSession, Inv, RequestsAreForSites
<1>3. \A t \in Sids \ {s} : sess'[t] = sess[t]
  BY DEF TypeOK
<1> QED
  BY <1>1, <1>2, <1>3 DEF NewSession, Stored

\* Sessions are never forgotten and never move to another site or address.
LEMMA HomesStay ==
  ASSUME TypeOK, Inv, [Next]_vars
  PROVE  \A s \in used : s \in used' /\ SameHome(s)
<1>1. CASE QuietStep
  BY <1>1 DEF QuietStep, TypeOK
<1>2. ASSUME NEW r \in Reqs, CheckCreateSession(r)
      PROVE  \A s \in used : s \in used' /\ SameHome(s)
  BY <1>2, CreateEffect DEF SameHome, TypeOK
<1> QED
  BY <1>1, <1>2, SessionSteps

LEMMA SessionsStep ==
  ASSUME TypeOK, Inv, [Next]_vars
  PROVE  SessionsHaveHomes' /\ RiskIsPercent'
<1>1. CASE QuietStep
  <2>1. SessionsHaveHomes'
    BY <1>1 DEF QuietStep, SameHome, TypeOK, Inv, SessionsHaveHomes
  <2>2. \A n \in RunningRisks : n <= MaxRisk
    BY DEF RunningRisks, Inv, AnalysesHoldASession
  <2>3. RiskIsPercent'
    BY <1>1, <2>2 DEF QuietStep, Inv, RiskIsPercent, MaxRisk
  <2> QED
    BY <2>1, <2>3
<1>2. ASSUME NEW r \in Reqs, CheckCreateSession(r)
      PROVE  SessionsHaveHomes' /\ RiskIsPercent'
  <2> PICK s \in Sids \ used :
           /\ used' = used \cup {s}
           /\ stored' = stored \cup {s}
           /\ sess'[s].site \in Sites /\ sess'[s].ip \in Ips
           /\ sess'[s].risk = 0
           /\ \A t \in Sids \ {s} : sess'[t] = sess[t]
    BY <1>2, CreateEffect
  <2>1. SessionsHaveHomes'
    BY DEF TypeOK, Inv, SessionsHaveHomes
  <2>2. RiskIsPercent'
    BY DEF Inv, RiskIsPercent, MaxRisk
  <2> QED
    BY <2>1, <2>2
<1> QED
  BY <1>1, <1>2, SessionSteps

\* The only steps that touch the blacklist.
LEMMA BanSteps ==
  ASSUME [Next]_vars
  PROVE  (\E j \in Jobs : BanAddress(j)) \/ SiteStep \/ UNCHANGED ban
BY DEF Next, CheckStep, CheckArrives, CheckGetSite, CheckIsBlacklisted, CheckGetSession,
   CheckCreateSession, CheckCreateFails, CheckUpdateActivity, CheckDecide,
   CheckCaptchaPassed, JobStep, SubmitBehavior, TriggerAnalysis, SubmitMetrics, Prefilter,
   DeepFilter, UpdateRiskScore, ConfirmSession, BlockSession, CleanerStep, CleanupTick,
   CleanupInspect, CleanupDelete, CleanupDone, Tick, Restart, vars, tables

LEMMA AutoBanStep ==
  ASSUME TypeOK, Inv, [Next]_vars
  PROVE  AutoBanNamesVisitor'
<1> SUFFICES ASSUME NEW w \in Sites, NEW i \in Ips \cup {NoIp},
                    ban'[<<w, i>>].by = "detector"
             PROVE  \E s \in used : sess[s].site = w /\ sess[s].ip = i
  BY HomesStay DEF AutoBanNamesVisitor, SameHome
<1>1. CASE ban'[<<w, i>>] = ban[<<w, i>>]
  BY <1>1 DEF Inv, AutoBanNamesVisitor
<1>2. ASSUME NEW j \in Jobs, BanAddress(j), ban'[<<w, i>>] # ban[<<w, i>>]
      PROVE  \E s \in used : sess[s].site = w /\ sess[s].ip = i
  <2> DEFINE s == job[j].sid
  <2>1. s \in used
    BY <1>2 DEF BanAddress, Inv, AnalysesHoldASession
  <2>2. AddToBlacklist(sess[s].site, sess[s].ip, [until |-> Forever, by |-> "detector"])
    BY <1>2 DEF BanAddress
  <2>3. <<w, i>> = <<sess[s].site, sess[s].ip>>
    BY <1>2, <2>2 DEF AddToBlacklist, TypeOK
  <2> QED
    BY <2>1, <2>3
<1>3. CASE SiteStep /\ ban'[<<w, i>>] # ban[<<w, i>>]
  <2>1. \/ ban'[<<w, i>>] = NoRow
        \/ \E until : ban'[<<w, i>>] = [until |-> until, by |-> "handler"]
    BY <1>3 DEF SiteStep, SetSiteStatus, DeleteSite, ListAddress, UnlistAddress, AddToBlacklist,
       TypeOK
  <2>2. ban'[<<w, i>>].by \in {"nobody", "handler"}
    <3>1. CASE ban'[<<w, i>>] = NoRow
      BY <3>1 DEF NoRow
    <3>2. ASSUME NEW until, ban'[<<w, i>>] = [until |-> until, by |-> "handler"]
          PROVE  ban'[<<w, i>>].by = "handler"
      BY <3>2
    <3> QED
      BY <2>1, <3>1, <3>2
  <2>3. "detector" \notin {"nobody", "handler"}
    OBVIOUS
  <2> QED
    BY <2>2, <2>3
<1> QED
  BY <1>1, <1>2, <1>3, BanSteps

LEMMA RequestsStep ==
  ASSUME TypeOK, Inv, [Next]_vars
  PROVE  RequestsAreForSites' /\ RequestsHoldTheirSession' /\ AnswersNameOwnSite'
<1> DEFINE Kept(q) ==
      /\ check'[q].pc # "idle" => /\ check'[q].site \in Sites
                                  /\ check'[q].ip \in Ips
                                  /\ check'[q].answer = "none"
      /\ \/ check'[q].pc \in {"activity", "decide"}
         \/ check'[q].answer \in {"allow", "captcha", "block"}
         => /\ check'[q].sid \in used'
            /\ sess'[check'[q].sid].site = check'[q].site
<1> SUFFICES ASSUME NEW q \in Reqs PROVE Kept(q)
  BY DEF RequestsAreForSites, RequestsHoldTheirSession, AnswersNameOwnSite
<1>0. /\ check[q] \in Check
      /\ check[q].sid \in used => /\ check[q].sid \in used'
                                  /\ sess'[check[q].sid].site = sess[check[q].sid].site
      /\ check[q].pc # "idle" => /\ check[q].site \in Sites
                                 /\ check[q].ip \in Ips
                                 /\ check[q].answer = "none"
  BY HomesStay DEF TypeOK, SameHome, Inv, RequestsAreForSites
<1>1. CASE check'[q] = check[q]
  BY <1>0, <1>1 DEF Inv, RequestsAreForSites, RequestsHoldTheirSession, AnswersNameOwnSite
<1>2. CASE check'[q] = NoCheck
  BY <1>2 DEF NoCheck
<1>3. CASE CheckArrives(q)
  <2> PICK w \in Sites, i \in Ips, s \in used \cup {NoSid}, b \in Bodies :
        check' = [check EXCEPT ![q] =
                   [pc |-> "site", site |-> w, ip |-> i, sid |-> s,
                    body |-> b, answer |-> "none"]]
    BY <1>3 DEF CheckArrives
  <2> QED
    BY DEF TypeOK
<1>4. ASSUME NEW p \in {"blacklist", "session"}, Goto(q, p), check[q].pc # "idle"
      PROVE  Kept(q)
  BY <1>0, <1>4 DEF Goto, TypeOK, Check
<1>5. ASSUME NEW a \in Answers \ {"allow", "captcha", "block"}, Refuse(q, a)
      PROVE  Kept(q)
  BY <1>5 DEF Refuse, NoCheck, TypeOK
<1>6. ASSUME NEW p \in {"activity", "decide"}, Goto(q, p), check[q].pc # "idle",
             check[q].sid \in used, sess[check[q].sid].site = check[q].site
      PROVE  Kept(q)
  BY <1>0, <1>6 DEF Goto, TypeOK, Check
<1>7. ASSUME NEW a \in Answers, Answer(q, a), check[q].pc = "decide"
      PROVE  Kept(q)
  <2>1. /\ check[q].sid \in used
        /\ sess[check[q].sid].site = check[q].site
    BY <1>7 DEF Inv, RequestsHoldTheirSession
  <2>2. check'[q] = [NoCheck EXCEPT !.answer = a, !.sid = check[q].sid, !.site = check[q].site]
    BY <1>7 DEF Answer, TypeOK
  <2>3. check'[q].pc = "idle" /\ check'[q].sid = check[q].sid /\ check'[q].site = check[q].site
    BY <2>2 DEF NoCheck
  <2> QED
    BY <1>0, <2>1, <2>3
<1>8. CASE CheckGetSession(q)
  <2>1. CASE Goto(q, "activity") /\ check[q].sid \in stored
               /\ sess[check[q].sid].site = check[q].site
    BY <1>6, <1>8, <2>1 DEF CheckGetSession, Inv, SessionsHaveHomes
  <2>2. CASE Refuse(q, "other site")
    BY <1>5, <2>2 DEF Answers
  <2>3. CASE GotoWith(q, "create", NoSid) /\ check[q].pc # "idle"
    BY <1>0, <2>3 DEF GotoWith, TypeOK, Check
  <2> QED
    BY <1>8, <2>1, <2>2, <2>3 DEF CheckGetSession
<1>9. CASE CheckCreateSession(q)
  <2> PICK s \in Sids \ used :
           /\ used' = used \cup {s}
           /\ sess'[s].site = check[q].site
           /\ GotoWith(q, "activity", s)
    BY <1>9, CreateEffect
  <2>1. check'[q] = [check[q] EXCEPT !.pc = "activity", !.sid = s] /\ check[q].pc # "idle"
    BY <1>9 DEF GotoWith, CheckCreateSession, TypeOK
  <2>2. /\ check'[q].sid = s
        /\ check'[q].site = check[q].site
        /\ check'[q].ip = check[q].ip
        /\ check'[q].answer = check[q].answer
    BY <1>0, <2>1 DEF Check
  <2> QED
    BY <1>0, <2>1, <2>2 DEF Check
<1>10. CASE CheckGetSite(q)
  BY <1>4, <1>5, <1>10 DEF CheckGetSite, Answers
<1>11. CASE CheckIsBlacklisted(q)
  BY <1>4, <1>5, <1>11 DEF CheckIsBlacklisted, AfterBlacklist, Answers
<1>12. CASE CheckCreateFails(q)
  BY <1>5, <1>12 DEF CheckCreateFails, Answers
<1>13. CASE CheckUpdateActivity(q)
  BY <1>6, <1>13 DEF CheckUpdateActivity, Inv, RequestsHoldTheirSession
<1>14. CASE CheckDecide(q)
  BY <1>7, <1>14, ActionIsAnswer DEF CheckDecide, Answers
<1>15. CASE CheckCaptchaPassed(q)
  BY <1>5, <1>7, <1>15 DEF CheckCaptchaPassed, Answers
<1>16. ASSUME NEW r \in Reqs \ {q}, CheckArrives(r) \/ CheckStep(r)
       PROVE  check'[q] = check[q]
  BY <1>16 DEF CheckStep, CheckArrives, CheckGetSite, CheckIsBlacklisted, AfterBlacklist,
     CheckGetSession, CheckCreateSession, CheckCreateFails, CheckUpdateActivity, CheckDecide,
     CheckCaptchaPassed, Refuse, Answer, Goto, GotoWith, TypeOK
<1>17. \/ \E r \in Reqs : CheckArrives(r) \/ CheckStep(r)
       \/ UNCHANGED check
       \/ Restart
  BY DEF Next, JobStep, SubmitBehavior, TriggerAnalysis, SubmitMetrics, Prefilter,
     DeepFilter, UpdateRiskScore, ConfirmSession, BlockSession, BanAddress, CleanerStep,
     CleanupTick, CleanupInspect, CleanupDelete, CleanupDone, SiteStep, SetSiteStatus,
     DeleteSite, ListAddress, UnlistAddress, Tick, vars
<1>18. CASE Restart
  BY <1>2, <1>18 DEF Restart
<1>19. CASE CheckStep(q)
  BY <1>8, <1>9, <1>10, <1>11, <1>12, <1>13, <1>14, <1>15, <1>19 DEF CheckStep
<1> QED
  BY <1>1, <1>3, <1>16, <1>17, <1>18, <1>19

LEMMA AnalysesStep ==
  ASSUME TypeOK, Inv, [Next]_vars
  PROVE  AnalysesHoldASession'
<1> DEFINE Kept(k) == job'[k].pc # "idle" => job'[k].sid \in used' /\ job'[k].risk <= MaxRisk
<1> SUFFICES ASSUME NEW k \in Jobs PROVE Kept(k)
  BY DEF AnalysesHoldASession
<1>0. /\ job[k] \in Job
      /\ job[k].pc # "idle" => job[k].sid \in used /\ job[k].risk <= MaxRisk
      /\ used \subseteq used'
      /\ stored \subseteq used
  BY HomesStay DEF TypeOK, Inv, AnalysesHoldASession, SessionsHaveHomes
<1>1. CASE job'[k] = job[k]
  BY <1>0, <1>1
<1>2. CASE job'[k] = NoJob
  BY <1>2 DEF NoJob
<1>3. ASSUME NEW p \in JobPc, NEW n \in 0..MaxRisk, JobGoto(k, p, n), job[k].pc # "idle"
      PROVE  Kept(k)
  <2>1. job'[k] = [job[k] EXCEPT !.pc = p, !.risk = n]
    BY <1>3 DEF JobGoto, TypeOK
  <2>2. job'[k].sid = job[k].sid /\ job'[k].risk = n
    BY <1>0, <2>1 DEF Job
  <2> QED
    BY <1>0, <1>3, <2>2 DEF MaxRisk
<1>4. CASE JobEnds(k)
  BY <1>2, <1>4 DEF JobEnds, TypeOK
<1>5. job[k].pc # "idle" => job[k].risk \in 0..MaxRisk /\ job[k].agent \in 0..MaxRisk
  BY <1>0 DEF Job, MaxRisk
<1>6. CASE SubmitBehavior(k)
  <2> PICK s \in stored :
        job' = [job EXCEPT ![k] = [pc |-> "metrics", sid |-> s, ip |-> sess[s].ip,
                                   agent |-> sess[s].agent, risk |-> 0]]
    BY <1>6 DEF SubmitBehavior
  <2> QED
    BY <1>0 DEF TypeOK, MaxRisk
<1>7. CASE TriggerAnalysis(k)
  <2> PICK s \in used :
        job' = [job EXCEPT ![k] = [pc |-> "prefilter", sid |-> s, ip |-> NoIp,
                                   agent |-> HeadlessScore(EmptyAgent), risk |-> 0]]
    BY <1>7 DEF TriggerAnalysis
  <2> QED
    BY <1>0 DEF TypeOK, MaxRisk
<1>8. CASE SubmitMetrics(k)
  <2>1. CASE job' = [job EXCEPT ![k].pc = "prefilter"]
    <3>1. job'[k].sid = job[k].sid /\ job'[k].risk = job[k].risk
      BY <1>0, <2>1 DEF TypeOK, Job
    <3> QED
      BY <1>0, <1>8, <3>1 DEF SubmitMetrics
  <2>2. CASE job' = [job EXCEPT ![k] = NoJob]
    BY <1>2, <2>2 DEF TypeOK
  <2> QED
    BY <1>8, <2>1, <2>2 DEF SubmitMetrics
<1>9. CASE Prefilter(k)
  <2>1. CASE JobGoto(k, "risk", MaxRisk)
    BY <1>3, <1>9, <2>1 DEF Prefilter, JobPc, MaxRisk
  <2>2. CASE \E risk \in {0, job[k].agent} :
               JobGoto(k, IF NeedDeep(risk) THEN "deep" ELSE "risk", risk)
    BY <1>3, <1>5, <1>9, <2>2 DEF Prefilter, JobPc, MaxRisk
  <2> QED
    BY <1>4, <1>9, <2>1, <2>2 DEF Prefilter
<1>10. CASE DeepFilter(k)
  <2> DEFINE risk == IF job[k].sid \in stored
                       THEN DeepRisk(sess[job[k].sid].metrics, job[k].risk)
                       ELSE job[k].risk
  <2>1. JobGoto(k, "risk", risk) /\ job[k].pc # "idle"
    BY <1>10 DEF DeepFilter
  <2>2. risk \in 0..MaxRisk
    BY <1>5, <2>1, DeepRiskBounds DEF TypeOK, Session
  <2> QED
    BY <1>3, <2>1, <2>2 DEF JobPc
<1>11. CASE UpdateRiskScore(k) \/ ConfirmSession(k) \/ BlockSession(k)
  BY <1>3, <1>4, <1>5, <1>11 DEF UpdateRiskScore, ConfirmSession, BlockSession, JobPc
<1>12. CASE BanAddress(k)
  BY <1>4, <1>12 DEF BanAddress
<1>13. ASSUME NEW j \in Jobs \ {k}, SubmitBehavior(j) \/ TriggerAnalysis(j) \/ JobStep(j)
       PROVE  job'[k] = job[k]
  BY <1>13 DEF JobStep, SubmitBehavior, TriggerAnalysis, SubmitMetrics, Prefilter,
     DeepFilter, UpdateRiskScore, ConfirmSession, BlockSession, BanAddress, JobGoto, JobEnds,
     TypeOK
<1>14. \/ \E j \in Jobs : SubmitBehavior(j) \/ TriggerAnalysis(j) \/ JobStep(j)
       \/ UNCHANGED job
       \/ Restart
  BY DEF Next, CheckStep, CheckArrives, CheckGetSite, CheckIsBlacklisted, CheckGetSession,
     CheckCreateSession, CheckCreateFails, CheckUpdateActivity, CheckDecide,
     CheckCaptchaPassed, CleanerStep, CleanupTick, CleanupInspect, CleanupDelete, CleanupDone,
     SiteStep, SetSiteStatus, DeleteSite, ListAddress, UnlistAddress, Tick, vars
<1>15. CASE Restart
  BY <1>2, <1>15 DEF Restart
<1>16. CASE JobStep(k)
  BY <1>8, <1>9, <1>10, <1>11, <1>12, <1>16 DEF JobStep
<1> QED
  BY <1>1, <1>6, <1>7, <1>13, <1>14, <1>15, <1>16

LEMMA InvStep == Inv /\ [Next]_vars => Inv'
<1> SUFFICES ASSUME TypeOK, Inv, [Next]_vars PROVE Inv'
  BY DEF Inv
<1> QED
  BY StepType, SessionsStep, RequestsStep, AnalysesStep, AutoBanStep DEF Inv

\* The inductive invariant holds of every reachable state.
THEOREM InvHolds == Spec => []Inv
BY InitInv, InvStep, PTL DEF Spec

\* A check is only ever answered with a session of the site that asked.
THEOREM AnswersStayOnSite == Spec => []AnswersNameOwnSite
<1>1. Inv => AnswersNameOwnSite
  BY DEF Inv
<1> QED
  BY <1>1, InvHolds, PTL

\* The detector bars an address for a site only if the address visited it.
THEOREM AutoBansNameVisitors == Spec => []AutoBanNamesVisitor
<1>1. Inv => AutoBanNamesVisitor
  BY DEF Inv
<1> QED
  BY <1>1, InvHolds, PTL

\* Scores are percentages, although analyses and captcha resets race.
THEOREM ScoresArePercent == Spec => []RiskIsPercent
<1>1. Inv => RiskIsPercent
  BY DEF Inv
<1> QED
  BY <1>1, InvHolds, PTL

-----------------------------------------------------------------------------
(* What a step may never do.                                                *)

\* The only steps that write to session objects.
LEMMA SessionWrites ==
  ASSUME [Next]_vars
  PROVE  \/ UNCHANGED sess
         \/ \E r \in Reqs : \/ CheckCreateSession(r)
                            \/ CheckUpdateActivity(r)
                            \/ CheckCaptchaPassed(r)
         \/ \E j \in Jobs : SubmitMetrics(j) \/ UpdateRiskScore(j) \/ BlockSession(j)
BY DEF Next, CheckStep, CheckArrives, CheckGetSite, CheckIsBlacklisted, CheckGetSession,
   CheckCreateFails, CheckDecide, JobStep, SubmitBehavior, TriggerAnalysis, Prefilter,
   DeepFilter, ConfirmSession, BanAddress, CleanerStep, CleanupTick, CleanupInspect,
   CleanupDelete, CleanupDone, SiteStep, SetSiteStatus, DeleteSite, ListAddress,
   UnlistAddress, Tick, Restart, vars, memory

\* A stored session changes only through requests for its own site and
\* analyses of itself.
THEOREM SitesAreApart == Spec => SitesDoNotInterfere
<1> DEFINE Own(s) == \/ \E r \in Reqs : /\ check'[r] # check[r]
                                        /\ check[r].sid = s
                                        /\ check[r].site = sess[s].site
                     \/ \E j \in Jobs : job'[j] # job[j] /\ job[j].sid = s
           A == \A s \in stored : sess'[s] # sess[s] => Own(s)
<1>1. TypeOK /\ Inv /\ [Next]_vars => [A]_vars
  <2> SUFFICES ASSUME TypeOK, Inv, [Next]_vars, NEW s \in stored, sess'[s] # sess[s]
               PROVE  Own(s)
    OBVIOUS
  <2>1. CASE UNCHANGED sess
    BY <2>1
  <2>2. ASSUME NEW r \in Reqs, CheckCreateSession(r)
        PROVE  sess'[s] = sess[s]
    BY <2>2, CreateEffect DEF Inv, SessionsHaveHomes, TypeOK
  <2>3. ASSUME NEW r \in Reqs, CheckUpdateActivity(r) \/ CheckCaptchaPassed(r)
        PROVE  Own(s)
    <3>1. check[r].sid = s
      BY <2>3 DEF CheckUpdateActivity, CheckCaptchaPassed, TypeOK
    <3>2. check[r].site = sess[s].site
      BY <2>3, <3>1 DEF CheckUpdateActivity, CheckCaptchaPassed, Inv, RequestsHoldTheirSession
    <3>3. check'[r].pc # check[r].pc
      <4>1. CASE Goto(r, "decide") /\ check[r].pc = "activity"
        <5>1. check'[r] = [check[r] EXCEPT !.pc = "decide"] /\ check[r] \in Check
          BY <4>1 DEF Goto, TypeOK
        <5> QED
          BY <4>1, <5>1 DEF Check
      <4>2. CASE Answer(r, "allow") /\ check[r].pc = "decide"
        BY <4>2 DEF Answer, NoCheck, TypeOK
      <4>3. CASE Refuse(r, "no reset") /\ check[r].pc = "decide"
        BY <4>3 DEF Refuse, NoCheck, TypeOK
      <4> QED
        BY <2>3, <4>1, <4>2, <4>3 DEF CheckUpdateActivity, CheckCaptchaPassed
    <3> QED
      BY <3>1, <3>2, <3>3
  <2>4. ASSUME NEW j \in Jobs, SubmitMetrics(j) \/ UpdateRiskScore(j) \/ BlockSession(j)
        PROVE  Own(s)
    <3>1. job[j].sid = s
      BY <2>4 DEF SubmitMetrics, UpdateRiskScore, BlockSession, TypeOK
    <3>2. job'[j].pc # job[j].pc
      BY <2>4 DEF SubmitMetrics, UpdateRiskScore, BlockSession, JobGoto, JobEnds, NoJob,
         TypeOK, Job
    <3> QED
      BY <3>1, <3>2
  <2> QED
    BY <2>1, <2>2, <2>3, <2>4, SessionWrites
<1> QED
  BY <1>1, TypeCorrect, InvHolds, PTL DEF Spec, SitesDoNotInterfere

-----------------------------------------------------------------------------
(* The gate implements the ledger.                                          *)

LEMMA LedgerInit == Init => Ledger!Init
BY DEF Init, NoSession, NoRow, Ledger!Init, Ledger!Pairs, LedgerLife, LedgerHome,
   LedgerScore, LedgerUntil, LedgerClosed

\* CreateSession opens a session of the ledger.
LEMMA CreateOpens ==
  ASSUME TypeOK, Inv, NEW r \in Reqs, CheckCreateSession(r)
  PROVE  \E s \in Sids : Ledger!Open(s)
<1> PICK s \in Sids \ used :
      /\ used' = used \cup {s}
      /\ stored' = stored \cup {s}
      /\ sess'[s].site \in Sites /\ sess'[s].ip \in Ips
      /\ sess'[s].risk = 0
      /\ \A t \in Sids \ {s} : sess'[t] = sess[t]
  BY CreateEffect
<1>1. LedgerLife[s] = "new"
  BY DEF LedgerLife, Inv, SessionsHaveHomes
<1>2. LedgerLife' = [LedgerLife EXCEPT ![s] = "live"]
  BY DEF LedgerLife
<1>3. LedgerHome' = [LedgerHome EXCEPT ![s] = LedgerHome'[s]]
  BY DEF LedgerHome
<1>4. LedgerHome'[s] \in Sites \X Ips
  BY DEF LedgerHome
<1>5. LedgerScore' = LedgerScore
  BY DEF LedgerScore, Inv, SessionsHaveHomes, NoSession
<1>6. LedgerUntil' = LedgerUntil /\ LedgerClosed' = LedgerClosed
  BY DEF CheckCreateSession, tables, LedgerUntil, LedgerClosed
<1> QED
  BY <1>1, <1>2, <1>3, <1>4, <1>5, <1>6 DEF Ledger!Open

\* The steps that may change what the ledger calls scores.
LEMMA ScoreSteps ==
  ASSUME TypeOK, Inv, [Next]_vars, QuietStep, LedgerScore' # LedgerScore
  PROVE  \E s \in Sids : Ledger!Score(s)
<1>1. PICK x \in stored, n \in 0..MaxRisk :
        /\ sess' = [sess EXCEPT ![x].risk = n]
        /\ UNCHANGED <<used, stored, tables>>
  <2>1. ASSUME NEW r \in Reqs, CheckCaptchaPassed(r), ~ UNCHANGED sess
        PROVE  /\ check[r].sid \in stored
               /\ sess' = [sess EXCEPT ![check[r].sid].risk = 0]
               /\ UNCHANGED <<used, stored, tables>>
    BY <2>1 DEF CheckCaptchaPassed
  <2>2. ASSUME NEW j \in Jobs, UpdateRiskScore(j), ~ UNCHANGED sess
        PROVE  /\ job[j].sid \in stored
               /\ sess' = [sess EXCEPT ![job[j].sid].risk = job[j].risk]
               /\ job[j].risk \in 0..MaxRisk
               /\ UNCHANGED <<used, stored, tables>>
    <3>1. job[j].risk \in Nat
      BY DEF TypeOK, Job
    <3>2. job[j].risk <= MaxRisk
      BY <2>2 DEF UpdateRiskScore, Inv, AnalysesHoldASession
    <3>3. job[j].risk \in 0..MaxRisk
      BY <3>1, <3>2 DEF MaxRisk
    <3> QED
      BY <2>2, <3>3 DEF UpdateRiskScore
  <2>3. ASSUME NEW r \in Reqs, CheckUpdateActivity(r)
        PROVE  LedgerScore' = LedgerScore
    <3>1. CASE check[r].sid \in stored
      <4>1. now + Ttl \in Nat
        BY TimesAreNatural DEF TypeOK
      <4> QED
        BY <2>3, <3>1, <4>1, OtherWrite DEF CheckUpdateActivity, LedgerScore, TypeOK
    <3>2. CASE check[r].sid \notin stored
      BY <2>3, <3>2 DEF CheckUpdateActivity, LedgerScore
    <3> QED
      BY <3>1, <3>2
  <2>4. ASSUME NEW j \in Jobs, SubmitMetrics(j) \/ BlockSession(j)
        PROVE  LedgerScore' = LedgerScore
    <3>1. CASE UNCHANGED sess
      BY <3>1 DEF LedgerScore
    <3>2. CASE SubmitMetrics(j) /\ ~ UNCHANGED sess
      <4>1. job[j].sid \in Sids
            /\ \E n \in Nat : sess' = [sess EXCEPT ![job[j].sid].metrics = n]
        BY <3>2, ScoresAreNatural DEF SubmitMetrics, TypeOK
      <4> QED
        BY <4>1, OtherWrite DEF LedgerScore
    <3>3. CASE BlockSession(j) /\ ~ UNCHANGED sess
      <4>1. job[j].sid \in Sids
            /\ sess' = [sess EXCEPT ![job[j].sid].blocked = TRUE, ![job[j].sid].active = FALSE]
        BY <3>3 DEF BlockSession, TypeOK
      <4>2. \A s \in Sids : sess'[s].risk = sess[s].risk
        BY <4>1, OtherWrite
      <4> QED
        BY <4>2 DEF LedgerScore
    <3> QED
      BY <2>4, <3>1, <3>2, <3>3
  <2>5. ~ \E r \in Reqs : CheckCreateSession(r)
    BY CreateEffect DEF QuietStep
  <2>6. ~ UNCHANGED sess
    BY DEF LedgerScore
  <2>7. 0 \in 0..MaxRisk
    BY DEF MaxRisk
  <2> QED
    BY <2>1, <2>2, <2>3, <2>4, <2>5, <2>6, <2>7, SessionWrites
<1>2. x \in Sids
  BY DEF TypeOK
<1>3. LedgerLife[x] = "live" /\ LedgerLife' = LedgerLife
  BY <1>1, <1>2 DEF LedgerLife
<1>4. \A s \in Sids : SameHome(s) /\ (s # x => sess'[s] = sess[s])
                      /\ sess'[s].risk \in {sess[s].risk, n}
  BY <1>1, <1>2, RiskWrite
<1>5. LedgerHome' = LedgerHome
  BY <1>4 DEF LedgerHome, SameHome
<1>6. LedgerScore' = [LedgerScore EXCEPT ![x] = LedgerScore'[x]]
  BY <1>4 DEF LedgerScore
<1>7. LedgerScore'[x] \in 0..MaxRisk
  <2>1. sess'[x].risk = n
    BY <1>1, <1>2 DEF TypeOK, Session
  <2> QED
    BY <1>2, <2>1 DEF LedgerScore
<1>8. LedgerUntil' = LedgerUntil /\ LedgerClosed' = LedgerClosed
  BY <1>1 DEF tables, LedgerUntil, LedgerClosed
<1> QED
  BY <1>2, <1>3, <1>5, <1>6, <1>7, <1>8 DEF Ledger!Score, Ledger!MaxRisk, MaxRisk

\* An upsert into the blacklist, seen in the ledger.
LEMMA UpsertSetsUntil ==
  ASSUME TypeOK, NEW w \in Sites, NEW i \in Ips \cup {NoIp}, NEW row \in Row,
         site[w] # "deleted", AddToBlacklist(w, i, row)
  PROVE  /\ LedgerUntil' = [LedgerUntil EXCEPT ![<<w, i>>] = row.until]
         /\ LedgerUntil'[<<w, i>>] = row.until
         /\ w \notin LedgerClosed
<1>1. ban' = [ban EXCEPT ![<<w, i>>] = row]
  BY DEF AddToBlacklist
<1> QED
  BY <1>1 DEF TypeOK, LedgerUntil, LedgerClosed

LEMMA BanBars ==
  ASSUME TypeOK, Inv, NEW j \in Jobs, BanAddress(j), ~ UNCHANGED ban
  PROVE  \E s \in Sids : Ledger!Bar(s)
<1> DEFINE s == job[j].sid
           row == [until |-> Forever, by |-> "detector"]
<1>1. s \in used /\ s \in Sids /\ sess[s].site \in Sites /\ sess[s].ip \in Ips
  BY DEF BanAddress, Inv, AnalysesHoldASession, SessionsHaveHomes, TypeOK
<1>2. AddToBlacklist(sess[s].site, sess[s].ip, row) /\ site[sess[s].site] # "deleted"
  BY DEF BanAddress, AddToBlacklist
<1>3. row \in Row /\ row.until = Forever
  BY DEF Row
<1>4. /\ LedgerUntil' = [LedgerUntil EXCEPT ![<<sess[s].site, sess[s].ip>>] = Forever]
      /\ sess[s].site \notin LedgerClosed
  BY <1>1, <1>2, <1>3, UpsertSetsUntil
<1>5. LedgerLife[s] # "new" /\ LedgerHome[s] = <<sess[s].site, sess[s].ip>>
  BY <1>1 DEF LedgerLife, LedgerHome
<1>6. UNCHANGED <<LedgerLife, LedgerHome, LedgerScore, LedgerClosed>>
  BY DEF BanAddress, memory, LedgerLife, LedgerHome, LedgerScore, LedgerClosed
<1>7. LedgerHome[s][1] \notin LedgerClosed
  BY <1>4, <1>5
<1>8. LedgerUntil' = [LedgerUntil EXCEPT ![LedgerHome[s]] = Forever]
  BY <1>4, <1>5
<1>9. Ledger!Bar(s)
  BY <1>5, <1>6, <1>7, <1>8 DEF Ledger!Bar
<1> QED
  BY <1>1, <1>9

LEMMA SiteStepActs ==
  ASSUME TypeOK, SiteStep
  PROVE  [Ledger!Next]_(Ledger!vars)
<1>1. UNCHANGED <<LedgerLife, LedgerHome, LedgerScore>>
  BY DEF SiteStep, SetSiteStatus, DeleteSite, ListAddress, UnlistAddress, memory, LedgerLife,
     LedgerHome, LedgerScore
<1>2. ASSUME NEW w \in Sites, SetSiteStatus(w)
      PROVE  UNCHANGED <<LedgerUntil, LedgerClosed>>
  BY <1>2 DEF SetSiteStatus, LedgerUntil, LedgerClosed, TypeOK
<1>3. ASSUME NEW w \in Sites, DeleteSite(w)
      PROVE  Ledger!CloseSite(w)
  <2>1. w \notin LedgerClosed /\ LedgerClosed' = LedgerClosed \cup {w}
    BY <1>3 DEF DeleteSite, LedgerClosed, TypeOK
  <2>2. LedgerUntil' = [p \in Ledger!Pairs |-> IF p[1] = w THEN NoBan ELSE LedgerUntil[p]]
    BY <1>3 DEF DeleteSite, LedgerUntil, Ledger!Pairs, NoRow, TypeOK
  <2> QED
    BY <1>1, <2>1, <2>2 DEF Ledger!CloseSite
<1>4. ASSUME NEW w \in Sites, NEW i \in Ips, ListAddress(w, i) \/ UnlistAddress(w, i)
      PROVE  Ledger!Relist(<<w, i>>)
  <2>1. PICK row \in Row : AddToBlacklist(w, i, row) /\ site[w] # "deleted"
    <3>1. CASE ListAddress(w, i)
      <4> PICK until \in {Forever} \cup {now + d : d \in BanTimes} :
            AddToBlacklist(w, i, [until |-> until, by |-> "handler"])
        BY <3>1 DEF ListAddress
      <4>1. until \in {Forever} \cup Nat
        BY TimesAreNatural DEF TypeOK
      <4>2. [until |-> until, by |-> "handler"] \in Row
        BY <4>1 DEF Row
      <4> QED
        BY <3>1, <4>2 DEF ListAddress
    <3>2. CASE UnlistAddress(w, i)
      <4>1. NoRow \in Row
        BY DEF NoRow, Row
      <4> QED
        BY <3>2, <4>1 DEF UnlistAddress, AddToBlacklist
    <3> QED
      BY <1>4, <3>1, <3>2
  <2>2. /\ LedgerUntil' = [LedgerUntil EXCEPT ![<<w, i>>] = LedgerUntil'[<<w, i>>]]
        /\ LedgerUntil'[<<w, i>>] \in {NoBan, Forever} \cup Nat
        /\ w \notin LedgerClosed
    BY <2>1, UpsertSetsUntil DEF Row
  <2>3. LedgerClosed' = LedgerClosed
    BY <1>4 DEF ListAddress, UnlistAddress, LedgerClosed
  <2> QED
    BY <1>1, <2>2, <2>3 DEF Ledger!Relist
<1> QED
  BY <1>1, <1>2, <1>3, <1>4 DEF SiteStep, Ledger!Next, Ledger!vars

LEMMA LedgerStep ==
  ASSUME TypeOK, Inv, [Next]_vars
  PROVE  [Ledger!Next]_(Ledger!vars)
<1>1. CASE \E r \in Reqs : CheckCreateSession(r)
  BY <1>1, CreateOpens DEF Ledger!Next
<1>2. CASE SiteStep
  BY <1>2, SiteStepActs
<1>3. CASE (\E j \in Jobs : BanAddress(j)) /\ ~ UNCHANGED ban
  BY <1>3, BanBars DEF Ledger!Next
<1>4. CASE QuietStep /\ LedgerScore' # LedgerScore
  BY <1>4, ScoreSteps DEF Ledger!Next
<1>5. CASE QuietStep /\ UNCHANGED <<LedgerScore, tables>>
  <2>1. LedgerHome' = LedgerHome
    BY <1>5 DEF QuietStep, SameHome, LedgerHome
  <2>2. UNCHANGED <<LedgerUntil, LedgerClosed>>
    BY <1>5 DEF tables, LedgerUntil, LedgerClosed
  <2>3. /\ LedgerLife' \in [Sids -> {"new", "live", "gone"}]
        /\ \A s \in Sids : \/ LedgerLife'[s] = LedgerLife[s]
                           \/ LedgerLife[s] = "live" /\ LedgerLife'[s] = "gone"
    BY <1>5 DEF QuietStep, LedgerLife, Inv, SessionsHaveHomes
  <2> QED
    BY <1>5, <2>1, <2>2, <2>3 DEF Ledger!Close, Ledger!Next
<1>6. \/ UNCHANGED tables
      \/ SiteStep
      \/ (\E j \in Jobs : BanAddress(j)) /\ ~ UNCHANGED ban
  BY DEF Next, CheckStep, CheckArrives, CheckGetSite, CheckIsBlacklisted, CheckGetSession,
     CheckCreateSession, CheckCreateFails, CheckUpdateActivity, CheckDecide,
     CheckCaptchaPassed, JobStep, SubmitBehavior, TriggerAnalysis, SubmitMetrics, Prefilter,
     DeepFilter, UpdateRiskScore, ConfirmSession, BlockSession, BanAddress, CleanerStep,
     CleanupTick, CleanupInspect, CleanupDelete, CleanupDone, Tick, Restart, vars, tables
<1> QED
  BY <1>1, <1>2, <1>3, <1>4, <1>5, <1>6, SessionSteps

\* Every behaviour of the gate is a behaviour of the ledger.
THEOREM GateImplementsLedger == Spec => ImplementsLedger
BY LedgerInit, LedgerStep, TypeCorrect, InvHolds, PTL
   DEF Spec, ImplementsLedger, Ledger!Spec
=============================================================================
