---------------------------- MODULE VisitorGate ----------------------------
(***************************************************************************)
(* The visitor side of the backend: what POST /api/check answers, the      *)
(* behaviour batches and the analyses they start in the background, the    *)
(* in-memory session store with its cleanup loop, the blacklist table, the *)
(* handlers that operators call for sites and bars, and a restart of the   *)
(* process.  Who calls those handlers is not part of the model: see there. *)
(*                                                                         *)
(* Every access to the store or the database that another goroutine can    *)
(* come in between of is a step of its own; "pc" says which access a       *)
(* handler makes next.  The store keeps POINTERS: a handler that looked a  *)
(* session up goes on reading the object after the key has been deleted,   *)
(* so the objects (sess) are kept apart from the keys (stored).            *)
(***************************************************************************)
EXTENDS RiskScoring, FiniteSets

CONSTANTS
  Sites,       \* ids of sites
  Ips,         \* addresses visitors come from
  Sids,        \* session ids, the uuids CreateSession may draw
  Reqs,        \* check requests that can be in flight together
  Jobs,        \* behaviour requests and analyses in flight together
  NoSite, NoIp, NoSid,  \* the empty strings
  NoBan, Forever,       \* no blacklist row; a row whose expires_at is NULL
  Bodies,      \* bodies of check requests: "plain", "captcha", "bad"
  AgentScores, \* headless scores of the visitors' user agents
  BatchScores, \* what the deep rules may add up to for the metrics stored, of one
               \* batch or mixed of several (Tracker)
  BanTimes,    \* durations an operator may give a blacklist entry
  Acts,        \* what may happen: "status", "delete", "ban", "unban" by an
               \* operator, "restart" of the process
  Ttl,         \* lifetime of an idle session
  MaxTime,     \* bound on the clock
  MaxFaults    \* bound on failing database calls

ASSUME NullsAreDistinct ==
  /\ NoSite \notin Sites
  /\ NoIp \notin Ips
  /\ NoSid \notin Sids
  /\ NoBan # Forever
  /\ NoBan \notin Nat
  /\ Forever \notin Nat

ASSUME BodiesAreKnown == Bodies \subseteq {"plain", "captcha", "bad"}

ASSUME ScoresAreNatural ==
  /\ AgentScores \subseteq 0..MaxRisk
  /\ BatchScores \subseteq Nat

ASSUME TimesAreNatural ==
  /\ Ttl \in Nat
  /\ MaxTime \in Nat
  /\ BanTimes \subseteq Nat
  /\ MaxFaults \in Nat

VARIABLES
  now,      \* the clock
  faults,   \* database calls that may still fail
  site,     \* sites table: the status of each site
  ban,      \* blacklist table: until when <<site, ip>> is barred, and by whom
  used,     \* session ids ever drawn
  stored,   \* keys of MemorySessionStore.sessions
  sess,     \* the ActiveSession objects
  check,    \* the check requests
  job,      \* the behaviour requests and analyses
  cleaner   \* cleanupLoop

tables   == <<site, ban>>
memory   == <<used, stored, sess>>
vars     == <<now, faults, site, ban, used, stored, sess, check, job, cleaner>>

-----------------------------------------------------------------------------
(* Records.                                                                *)

\* "inactive" stands for every status but "active"; a deleted site has no row.
SiteStatus == {"active", "inactive", "deleted"}

Row == [until : {NoBan, Forever} \cup Nat, by : {"handler", "detector", "nobody"}]
NoRow == [until |-> NoBan, by |-> "nobody"]

Session == [site : Sites \cup {NoSite}, ip : Ips \cup {NoIp},
            agent : 0..MaxRisk, risk : Nat, metrics : Nat,
            expires : Nat, blocked : BOOLEAN, active : BOOLEAN]
NoSession == [site |-> NoSite, ip |-> NoIp, agent |-> 0, risk |-> 0, metrics |-> 0,
              expires |-> 0, blocked |-> FALSE, active |-> FALSE]

CheckPc == {"idle", "site", "blacklist", "session", "create", "activity", "decide"}
Answers == {"none", "allow", "captcha", "block",        \* 200
            "no site", "inactive", "barred", "bad body", "other site", "no session",
            "no reset"}
Check == [pc : CheckPc, site : Sites \cup {NoSite}, ip : Ips \cup {NoIp},
          sid : Sids \cup {NoSid}, body : {"plain", "captcha", "bad"},
          answer : Answers]
NoCheck == [pc |-> "idle", site |-> NoSite, ip |-> NoIp, sid |-> NoSid,
            body |-> "plain", answer |-> "none"]

JobPc == {"idle", "metrics", "prefilter", "deep", "risk", "confirm", "block", "ban"}
Job == [pc : JobPc, sid : Sids \cup {NoSid}, ip : Ips \cup {NoIp},
        agent : 0..MaxRisk, risk : Nat]
NoJob == [pc |-> "idle", sid |-> NoSid, ip |-> NoIp, agent |-> 0, risk |-> 0]

Cleaner == [pc : {"wait", "range", "delete"}, at : Nat, todo : SUBSET Sids,
            key : Sids \cup {NoSid}]
CleanerWaiting == [pc |-> "wait", at |-> 0, todo |-> {}, key |-> NoSid]

TypeOK ==
  /\ now \in Nat
  /\ faults \in Nat
  /\ site \in [Sites -> SiteStatus]
  /\ ban \in [Sites \X (Ips \cup {NoIp}) -> Row]
  /\ used \in SUBSET Sids
  /\ stored \in SUBSET Sids
  /\ sess \in [Sids -> Session]
  /\ check \in [Reqs -> Check]
  /\ job \in [Jobs -> Job]
  /\ cleaner \in Cleaner

Init ==
  /\ now = 0
  /\ faults = MaxFaults
  /\ site = [w \in Sites |-> "active"]
  /\ ban = [p \in Sites \X (Ips \cup {NoIp}) |-> NoRow]
  /\ used = {}
  /\ stored = {}
  /\ sess = [s \in Sids |-> NoSession]
  /\ check = [r \in Reqs |-> NoCheck]
  /\ job = [j \in Jobs |-> NoJob]
  /\ cleaner = CleanerWaiting

-----------------------------------------------------------------------------
(* Helpers.                                                                *)

\* A database call fails.
DbFails == faults > 0 /\ faults' = faults - 1
DbWorks == UNCHANGED faults

\* IsBlacklisted: expires_at IS NULL OR expires_at > NOW().
IsBlacklisted(w, i) ==
  \/ ban[<<w, i>>].until = Forever
  \/ ban[<<w, i>>].until \notin {NoBan, Forever} /\ ban[<<w, i>>].until > now

\* The upsert of AddToBlacklist: reason and expires_at are overwritten.  The
\* foreign key makes it fail for a site that is gone.
AddToBlacklist(w, i, row) ==
  ban' = IF site[w] # "deleted" THEN [ban EXCEPT ![<<w, i>>] = row] ELSE ban

\* now.After(session.ExpiresAt)
Expired(s, t) == t > sess[s].expires

\* What the cleanup loop removes.
Stale(s, t) == Expired(s, t) \/ ~sess[s].active

-----------------------------------------------------------------------------
(* POST /api/check: VisitorSessionHandler.CheckRequest.  A request without  *)
(* X-Site-ID (400) and a preflight touch nothing and are left out.  The     *)
(* session id a client presents is any id ever handed out, or none.         *)

CheckArrives(r) ==
  /\ check[r].pc = "idle"
  /\ \E w \in Sites, i \in Ips, s \in used \cup {NoSid}, b \in Bodies :
       check' = [check EXCEPT ![r] =
                  [pc |-> "site", site |-> w, ip |-> i, sid |-> s,
                   body |-> b, answer |-> "none"]]
  /\ UNCHANGED <<now, faults, tables, memory, job, cleaner>>

\* The request is over: refused, or answered with an action and a session id.
\* What it was answered stays readable until the slot is used again.
Refuse(r, a) == check' = [check EXCEPT ![r] = [NoCheck EXCEPT !.answer = a]]
Answer(r, a) ==
  check' = [check EXCEPT ![r] = [NoCheck EXCEPT !.answer = a, !.sid = check[r].sid,
                                                !.site = check[r].site]]
Goto(r, next) == check' = [check EXCEPT ![r].pc = next]
GotoWith(r, next, s) == check' = [check EXCEPT ![r].pc = next, ![r].sid = s]

CheckGetSite(r) ==
  /\ check[r].pc = "site"
  /\ LET status == site[check[r].site] IN
     \/ DbFails /\ Refuse(r, "no site")
     \/ DbWorks /\ status = "deleted"  /\ Refuse(r, "no site")
     \/ DbWorks /\ status = "inactive" /\ Refuse(r, "inactive")
     \/ DbWorks /\ status = "active"   /\ Goto(r, "blacklist")
  /\ UNCHANGED <<now, tables, memory, job, cleaner>>

\* A failing lookup counts as "not listed".  The body is read right after it.
AfterBlacklist(r) ==
  IF check[r].body = "bad" THEN Refuse(r, "bad body") ELSE Goto(r, "session")

\* (Mutation: the result of the lookup is not looked at.)
CheckSkipsBlacklist(r) ==
  /\ check[r].pc = "blacklist"
  /\ DbWorks /\ AfterBlacklist(r)
  /\ UNCHANGED <<now, tables, memory, job, cleaner>>
CheckIsBlacklisted(r) ==
  /\ check[r].pc = "blacklist"
  /\ LET listed == IsBlacklisted(check[r].site, check[r].ip) IN
     \/ DbWorks /\ listed  /\ Refuse(r, "barred")
     \/ DbWorks /\ ~listed /\ AfterBlacklist(r)
     \/ DbFails /\ AfterBlacklist(r)
  /\ UNCHANGED <<now, tables, memory, job, cleaner>>

\* GetSession knows nothing of expiry: whatever is still stored is found.
\* (Mutation: the session's site is not compared with the request's.)
CheckAnySession(r) ==
  /\ check[r].pc = "session"
  /\ LET s == check[r].sid IN
     \/ s \in stored    /\ Goto(r, "activity")
     \/ s \notin stored /\ GotoWith(r, "create", NoSid)
  /\ UNCHANGED <<now, faults, tables, memory, job, cleaner>>
CheckGetSession(r) ==
  /\ check[r].pc = "session"
  /\ LET s == check[r].sid IN
     \/ s \in stored /\ sess[s].site = check[r].site /\ Goto(r, "activity")
     \/ s \in stored /\ sess[s].site # check[r].site /\ Refuse(r, "other site")
     \/ s \notin stored /\ GotoWith(r, "create", NoSid)
  /\ UNCHANGED <<now, faults, tables, memory, job, cleaner>>

\* Range may or may not reach a key that is stored while it runs.
Stored(s) ==
  /\ stored' = stored \cup {s}
  /\ \/ UNCHANGED cleaner
     \/ /\ cleaner.pc # "wait"
        /\ cleaner' = [cleaner EXCEPT !.todo = @ \cup {s}]

NewSession(r, agent) ==
  [site |-> check[r].site, ip |-> check[r].ip, agent |-> agent, risk |-> 0,
   metrics |-> 0, expires |-> now + Ttl, blocked |-> FALSE, active |-> TRUE]

\* The ids a new session may get: uuid.New() never repeats itself.
\* (Mutation: ids of sessions that are gone are handed out again.)
RecycledSids == Sids \ stored
FreshSids == Sids \ used

CheckCreateSession(r) ==
  /\ check[r].pc = "create"
  /\ \E s \in FreshSids, agent \in AgentScores :
       /\ used' = used \cup {s}
       /\ Stored(s)
       /\ sess' = [sess EXCEPT ![s] = NewSession(r, agent)]
       /\ GotoWith(r, "activity", s)
  /\ UNCHANGED <<now, faults, tables, job>>

\* The bound on session ids: once all of them are used the request ends with
\* the answer of a failing CreateSession (500).  The memory store never fails.
CheckCreateFails(r) ==
  /\ check[r].pc = "create"
  /\ FreshSids = {}
  /\ Refuse(r, "no session")
  /\ UNCHANGED <<now, faults, tables, memory, job, cleaner>>

\* UpdateSessionActivity; its error is logged and the request goes on.
CheckUpdateActivity(r) ==
  /\ check[r].pc = "activity"
  /\ sess' = IF check[r].sid \in stored
               THEN [sess EXCEPT ![check[r].sid].expires = now + Ttl] ELSE sess
  /\ Goto(r, "decide")
  /\ UNCHANGED <<now, faults, tables, used, stored, job, cleaner>>

\* The answer goes by the score in the object the request holds a pointer to.
CheckDecide(r) ==
  /\ check[r].pc = "decide"
  /\ check[r].body # "captcha"
  /\ Answer(r, ActionFor(sess[check[r].sid].risk))
  /\ UNCHANGED <<now, faults, tables, memory, job, cleaner>>

\* A passed captcha: UpdateRiskScore(0), an error when the key is gone.
CheckCaptchaPassed(r) ==
  /\ check[r].pc = "decide"
  /\ check[r].body = "captcha"
  /\ \/ /\ check[r].sid \in stored
        /\ sess' = [sess EXCEPT ![check[r].sid].risk = 0]
        /\ Answer(r, "allow")
     \/ /\ check[r].sid \notin stored
        /\ UNCHANGED sess
        /\ Refuse(r, "no reset")
  /\ UNCHANGED <<now, faults, tables, used, stored, job, cleaner>>

CheckStep(r) ==
  \/ CheckGetSite(r)
  \/ CheckIsBlacklisted(r)
  \/ CheckGetSession(r)
  \/ CheckCreateSession(r)
  \/ CheckCreateFails(r)
  \/ CheckUpdateActivity(r)
  \/ CheckDecide(r)
  \/ CheckCaptchaPassed(r)

-----------------------------------------------------------------------------
(* POST /api/behavior/{id} and POST /api/sessions/{id}/analyze.             *)

\* SubmitBehavior up to the accepted batch.  Requests for a key that is not
\* stored (404), with another X-Site-ID (403) or with a bad body (400) end
\* here without an effect.
SubmitBehavior(j) ==
  /\ job[j].pc = "idle"
  /\ \E s \in stored :
       job' = [job EXCEPT ![j] = [pc |-> "metrics", sid |-> s, ip |-> sess[s].ip,
                                  agent |-> sess[s].agent, risk |-> 0]]
  /\ UNCHANGED <<now, faults, tables, memory, check, cleaner>>

\* The batch is merged into the session's map (an empty one is not), and the
\* analysis starts; when the key is gone the request fails and nothing starts.
SubmitMetrics(j) ==
  /\ job[j].pc = "metrics"
  /\ \/ /\ UNCHANGED sess
        /\ job' = [job EXCEPT ![j].pc = "prefilter"]
     \/ /\ job[j].sid \in stored
        /\ \E m \in BatchScores : sess' = [sess EXCEPT ![job[j].sid].metrics = m]
        /\ job' = [job EXCEPT ![j].pc = "prefilter"]
     \/ /\ job[j].sid \notin stored
        /\ UNCHANGED sess
        /\ job' = [job EXCEPT ![j] = NoJob]
  /\ UNCHANGED <<now, faults, tables, used, stored, check, cleaner>>

\* TriggerAnalysis passes an empty address and an empty user agent.
TriggerAnalysis(j) ==
  /\ job[j].pc = "idle"
  /\ \E s \in used :
       job' = [job EXCEPT ![j] = [pc |-> "prefilter", sid |-> s, ip |-> NoIp,
                                  agent |-> HeadlessScore(EmptyAgent), risk |-> 0]]
  /\ UNCHANGED <<now, faults, tables, memory, check, cleaner>>

-----------------------------------------------------------------------------
(* Detector.AnalyzeAndUpdate.                                               *)

JobGoto(j, next, risk) == job' = [job EXCEPT ![j].pc = next, ![j].risk = risk]
JobEnds(j) == job' = [job EXCEPT ![j] = NoJob]

\* The site's settings say whether the headless test runs; they may be changed
\* at any time, so both outcomes are possible.
Prefilter(j) ==
  /\ job[j].pc = "prefilter"
  /\ LET s == job[j].sid
         listed == job[j].ip # NoIp /\ IsBlacklisted(sess[s].site, job[j].ip)
         Score == \E risk \in {0, job[j].agent} :
                    JobGoto(j, IF NeedDeep(risk) THEN "deep" ELSE "risk", risk)
     IN \/ s \notin stored /\ DbWorks /\ JobEnds(j)
        \/ s \in stored /\ listed  /\ DbWorks /\ JobGoto(j, "risk", MaxRisk)
        \/ s \in stored /\ ~listed /\ DbWorks /\ Score
        \/ s \in stored /\ DbFails /\ Score
  /\ UNCHANGED <<now, tables, memory, check, cleaner>>

\* Without metrics, or when the key is gone, the score stays what it was.
DeepFilter(j) ==
  /\ job[j].pc = "deep"
  /\ JobGoto(j, "risk", IF job[j].sid \in stored
                          THEN DeepRisk(sess[job[j].sid].metrics, job[j].risk)
                          ELSE job[j].risk)
  /\ UNCHANGED <<now, faults, tables, memory, check, cleaner>>

UpdateRiskScore(j) ==
  /\ job[j].pc = "risk"
  /\ \/ /\ job[j].sid \in stored
        /\ sess' = [sess EXCEPT ![job[j].sid].risk = job[j].risk]
        /\ IF job[j].risk >= BlockRisk THEN JobGoto(j, "confirm", job[j].risk)
                                       ELSE JobEnds(j)
     \/ job[j].sid \notin stored /\ UNCHANGED sess /\ JobEnds(j)
  /\ UNCHANGED <<now, faults, tables, used, stored, check, cleaner>>

\* GetSession again, before the session is blocked.
ConfirmSession(j) ==
  /\ job[j].pc = "confirm"
  /\ IF job[j].sid \in stored THEN JobGoto(j, "block", job[j].risk) ELSE JobEnds(j)
  /\ UNCHANGED <<now, faults, tables, memory, check, cleaner>>

\* BlockSession; its error is logged.
\* (Mutation: the analysis gives up when the session is gone.)
BlockSessionOrGiveUp(j) ==
  /\ job[j].pc = "block"
  /\ \/ /\ job[j].sid \in stored
        /\ sess' = [sess EXCEPT ![job[j].sid].blocked = TRUE,
                                ![job[j].sid].active = FALSE]
        /\ JobGoto(j, "ban", job[j].risk)
     \/ job[j].sid \notin stored /\ UNCHANGED sess /\ JobEnds(j)
  /\ UNCHANGED <<now, faults, tables, used, stored, check, cleaner>>
\* (Mutation: the flags of some other session are set.)
BlockAnySession(j) ==
  /\ job[j].pc = "block"
  /\ \E s \in stored : sess' = [sess EXCEPT ![s].blocked = TRUE, ![s].active = FALSE]
  /\ JobGoto(j, "ban", job[j].risk)
  /\ UNCHANGED <<now, faults, tables, used, stored, check, cleaner>>
BlockSession(j) ==
  /\ job[j].pc = "block"
  /\ sess' = IF job[j].sid \in stored
               THEN [sess EXCEPT ![job[j].sid].blocked = TRUE,
                                 ![job[j].sid].active = FALSE]
               ELSE sess
  /\ JobGoto(j, "ban", job[j].risk)
  /\ UNCHANGED <<now, faults, tables, used, stored, check, cleaner>>

\* The address of the session, read through the pointer, is barred for good.
\* (Mutation: the address the analysis was called with is barred instead.)
BanCaller(j) ==
  /\ job[j].pc = "ban"
  /\ DbWorks
  /\ AddToBlacklist(sess[job[j].sid].site, job[j].ip,
                    [until |-> Forever, by |-> "detector"])
  /\ JobEnds(j)
  /\ UNCHANGED <<now, site, memory, check, cleaner>>
BanAddress(j) ==
  /\ job[j].pc = "ban"
  /\ \/ DbFails /\ UNCHANGED ban
     \/ /\ DbWorks
        /\ AddToBlacklist(sess[job[j].sid].site, sess[job[j].sid].ip,
                          [until |-> Forever, by |-> "detector"])
  /\ JobEnds(j)
  /\ UNCHANGED <<now, site, memory, check, cleaner>>

JobStep(j) ==
  \/ SubmitMetrics(j)
  \/ Prefilter(j)
  \/ DeepFilter(j)
  \/ UpdateRiskScore(j)
  \/ ConfirmSession(j)
  \/ BlockSession(j)
  \/ BanAddress(j)

-----------------------------------------------------------------------------
(* MemorySessionStore.cleanupLoop.  The time is read once per tick; a key   *)
(* is inspected and deleted in two steps, with nothing held in between.     *)

CleanupTick ==
  /\ cleaner.pc = "wait"
  /\ cleaner' = [cleaner EXCEPT !.pc = "range", !.at = now, !.todo = stored]
  /\ UNCHANGED <<now, faults, tables, memory, check, job>>

\* (Mutation: only the expiry is looked at.)
CleanupInspectExpiry(s) ==
  /\ cleaner.pc = "range"
  /\ s \in cleaner.todo
  /\ IF s \in stored /\ Expired(s, cleaner.at)
       THEN cleaner' = [cleaner EXCEPT !.pc = "delete", !.key = s]
       ELSE cleaner' = [cleaner EXCEPT !.todo = @ \ {s}]
  /\ UNCHANGED <<now, faults, tables, memory, check, job>>
CleanupInspect(s) ==
  /\ cleaner.pc = "range"
  /\ s \in cleaner.todo
  /\ IF s \in stored /\ Stale(s, cleaner.at)
       THEN cleaner' = [cleaner EXCEPT !.pc = "delete", !.key = s]
       ELSE cleaner' = [cleaner EXCEPT !.todo = @ \ {s}]
  /\ UNCHANGED <<now, faults, tables, memory, check, job>>

CleanupDelete ==
  /\ cleaner.pc = "delete"
  /\ stored' = stored \ {cleaner.key}
  /\ cleaner' = [cleaner EXCEPT !.pc = "range", !.todo = @ \ {cleaner.key},
                                !.key = NoSid]
  /\ UNCHANGED <<now, faults, tables, used, sess, check, job>>

CleanupDone ==
  /\ cleaner.pc = "range"
  /\ cleaner.todo = {}
  /\ cleaner' = CleanerWaiting
  /\ UNCHANGED <<now, faults, tables, memory, check, job>>

CleanerStep ==
  \/ CleanupTick
  \/ \E s \in Sids : CleanupInspect(s)
  \/ CleanupDelete
  \/ CleanupDone

-----------------------------------------------------------------------------
(* SiteHandler.  Its callers are operators who are logged in.  The handlers *)
(* of the blacklist also ask for the site's owner or an administrator; those *)
(* that edit or delete a site ask nothing more.  The model has no caller: it *)
(* says what these handlers do to sites and bars, and never who may.        *)

\* ActivateSite, SuspendSite and the status UpdateSite writes.
SetSiteStatus(w) ==
  /\ "status" \in Acts
  /\ site[w] # "deleted"
  /\ \E status \in {"active", "inactive"} : site' = [site EXCEPT ![w] = status]
  /\ UNCHANGED <<now, faults, ban, memory, check, job, cleaner>>

\* DeleteSite: the blacklist rows go with the site (ON DELETE CASCADE), so that
\* it lifts bars too; the sessions in memory are not touched.
DeleteSite(w) ==
  /\ "delete" \in Acts
  /\ site[w] # "deleted"
  /\ site' = [site EXCEPT ![w] = "deleted"]
  /\ ban' = [p \in DOMAIN ban |-> IF p[1] = w THEN NoRow ELSE ban[p]]
  /\ UNCHANGED <<now, faults, memory, check, job, cleaner>>

\* POST /api/sites/{id}/blacklist, with or without expires_in_minutes.
ListAddress(w, i) ==
  /\ "ban" \in Acts
  /\ site[w] # "deleted"
  /\ \E until \in {Forever} \cup {now + d : d \in BanTimes} :
       AddToBlacklist(w, i, [until |-> until, by |-> "handler"])
  /\ UNCHANGED <<now, faults, site, memory, check, job, cleaner>>

\* DELETE /api/sites/{id}/blacklist/{ip}; without a row it is an error.
UnlistAddress(w, i) ==
  /\ "unban" \in Acts
  /\ site[w] # "deleted"
  /\ ban[<<w, i>>] # NoRow
  /\ ban' = [ban EXCEPT ![<<w, i>>] = NoRow]
  /\ UNCHANGED <<now, faults, site, memory, check, job, cleaner>>

SiteStep ==
  \/ \E w \in Sites : SetSiteStatus(w) \/ DeleteSite(w)
  \/ \E w \in Sites, i \in Ips : ListAddress(w, i) \/ UnlistAddress(w, i)

-----------------------------------------------------------------------------
(* The environment.                                                         *)

\* Time passes, up to the bound MaxTime.
Tick ==
  /\ now < MaxTime
  /\ now' = now + 1
  /\ UNCHANGED <<faults, tables, memory, check, job, cleaner>>

\* The process ends, by a deployment or because the runtime stopped it on a
\* concurrent write to a session's metrics map, and starts anew: memory is
\* gone, the tables are not.
Restart ==
  /\ "restart" \in Acts
  /\ stored' = {}
  /\ check' = [r \in Reqs |-> NoCheck]
  /\ job' = [j \in Jobs |-> NoJob]
  /\ cleaner' = CleanerWaiting
  /\ UNCHANGED <<now, faults, tables, used, sess>>

Next ==
  \/ \E r \in Reqs : CheckArrives(r) \/ CheckStep(r)
  \/ \E j \in Jobs : SubmitBehavior(j) \/ TriggerAnalysis(j) \/ JobStep(j)
  \/ CleanerStep
  \/ SiteStep
  \/ Tick
  \/ Restart

\* Goroutines run: every request and analysis that can go on does, and the
\* ticker of the cleanup loop fires.  Nobody has to send a request, operators
\* have to do nothing, and the process need not restart.
Fairness ==
  /\ \A r \in Reqs : WF_vars(CheckStep(r))
  /\ \A j \in Jobs : WF_vars(JobStep(j))
  /\ WF_vars(CleanerStep)

Spec == Init /\ [][Next]_vars
FairSpec == Spec /\ Fairness

-----------------------------------------------------------------------------
(* Safety.                                                                  *)

\* Every score the store holds is a percentage (README.md:29), whichever of
\* the analyses and captcha resets in flight wrote it last.
RiskIsPercent == \A s \in Sids : sess[s].risk <= MaxRisk

\* A check that is answered with a session id was made for the site that the
\* session belongs to, although ids come from the client and sessions appear
\* and disappear while the request runs (README.md:395).
AnswersNameOwnSite ==
  \A r \in Reqs :
    check[r].answer \in {"allow", "captcha", "block"} =>
      /\ check[r].sid \in used
      /\ sess[check[r].sid].site = check[r].site

\* The detector bars an address for a site only if that address has visited
\* that site - also when the analysis was triggered without an address, and
\* when the session is long gone by the time the row is written.
AutoBanNamesVisitor ==
  \A w \in Sites, i \in Ips \cup {NoIp} :
    ban[<<w, i>>].by = "detector" =>
      \E s \in used : sess[s].site = w /\ sess[s].ip = i

\* A session changes only through requests for its own site and analyses of
\* itself.
SitesDoNotInterfere ==
  [][\A s \in stored : sess'[s] # sess[s] =>
       \/ \E r \in Reqs : /\ check'[r] # check[r]
                          /\ check[r].sid = s
                          /\ check[r].site = sess[s].site
       \/ \E j \in Jobs : job'[j] # job[j] /\ job[j].sid = s]_vars

\* What every step keeps, so that the above holds: the inductive invariant.
\* It ties the four places a session id lives in - the store, the object, the
\* requests and the analyses - to each other; each part needs the others.
SessionsHaveHomes ==
  /\ stored \subseteq used
  /\ \A s \in used : sess[s].site \in Sites /\ sess[s].ip \in Ips
  /\ \A s \in Sids \ used : sess[s] = NoSession

RequestsAreForSites ==
  \A r \in Reqs : check[r].pc # "idle" =>
    /\ check[r].site \in Sites
    /\ check[r].ip \in Ips
    /\ check[r].answer = "none"

RequestsHoldTheirSession ==
  \A r \in Reqs : check[r].pc \in {"activity", "decide"} =>
    /\ check[r].sid \in used
    /\ sess[check[r].sid].site = check[r].site

AnalysesHoldASession ==
  \A j \in Jobs : job[j].pc # "idle" => job[j].sid \in used /\ job[j].risk <= MaxRisk

Inv ==
  /\ TypeOK
  /\ SessionsHaveHomes
  /\ RequestsAreForSites
  /\ RequestsHoldTheirSession
  /\ AnalysesHoldASession
  /\ RiskIsPercent
  /\ AnswersNameOwnSite
  /\ AutoBanNamesVisitor

\* The gate implements the ledger of SessionLedger: a key in the store is a
\* live session, and the blacklist counts without the record of who wrote it.
LedgerLife == [s \in Sids |-> IF s \in stored THEN "live"
                              ELSE IF s \in used THEN "gone" ELSE "new"]
LedgerHome == [s \in Sids |-> <<sess[s].site, sess[s].ip>>]
LedgerScore == [s \in Sids |-> sess[s].risk]
LedgerUntil == [p \in DOMAIN ban |-> ban[p].until]
LedgerClosed == {w \in Sites : site[w] = "deleted"}

Ledger == INSTANCE SessionLedger WITH
  life <- LedgerLife, home <- LedgerHome, score <- LedgerScore,
  until <- LedgerUntil, closed <- LedgerClosed

ImplementsLedger == Ledger!Spec

-----------------------------------------------------------------------------
(* Liveness.                                                                *)

\* A session that is stale leaves memory, unless a request revives it: sessions
\* of visitors who left and blocked sessions do not pile up.
StaleIsReaped ==
  \A s \in Sids :
    (s \in stored /\ Stale(s, now)) ~> (s \notin stored \/ ~Stale(s, now))

\* A verdict is carried out: once the analysis has confirmed the session it is
\* about to block, the address ends up barred, even if the session disappears
\* in between - unless the site does, or a database call failed on the way.
\* (A restart forgets the analysis: the runs of this property have none.)
VerdictIsCarriedOut ==
  \A s \in Sids :
    (\E j \in Jobs : job[j].pc = "block" /\ job[j].sid = s)
      ~> (\/ faults < MaxFaults
          \/ sess[s].site \in {w \in Sites : site[w] = "deleted"}
          \/ sess[s].site \in Sites /\ ban[<<sess[s].site, sess[s].ip>>].until = Forever)

\* An address that stays listed is shut out: from some time on none of its
\* requests gets past the blacklist, those already inside included.  A lookup
\* that fails lets a request pass, but lookups fail only so often.
ListingShutsOut ==
  \A w \in Sites, i \in Ips :
    <>[]IsBlacklisted(w, i) =>
      <>[](\A r \in Reqs : (check[r].site = w /\ check[r].ip = i)
                              => check[r].pc \in {"idle", "site", "blacklist"})

-----------------------------------------------------------------------------
(* What the documentation says and the code does not do.                    *)

\* docs/1_SRS.md:292 and 299: visitor sessions live for 30 minutes (after the
\* last request, which prolongs them); only stale ones are cleaned up.
LiveSessionIsKept == [][\A s \in stored \ stored' : Stale(s, now)]_vars
=============================================================================
