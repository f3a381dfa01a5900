----------------------------- MODULE FrontDoor -----------------------------
(***************************************************************************)
(* What a state-changing request of the dashboard goes through before its  *)
(* handler: the client's token, the limiter, the comparison of the token   *)
(* with the cookie.  The tabs of one browser share the cookie; each page   *)
(* remembers the token that it was given, until it is reloaded.            *)
(*                                                                         *)
(* A tab asks for a token once at a time and its requests wait for it      *)
(* together, so that one request at a time stands for all.                 *)
(***************************************************************************)
EXTENDS RateLimiter

CONSTANTS
  CSRF,      \* the browser's key for GET /api/csrf
  Tokens,
  NoToken,
  MaxFaults  \* bound on expired cookies and lost fetches

ASSUME FrontDoorIds == NoToken \notin Tokens /\ CSRF \in Keys
ASSUME FrontDoorBounds == MaxFaults \in Nat

Tabs == Reqs

VARIABLES
  jar,     \* the browser's csrf_token cookie
  tab,     \* the pages
  trouble, \* history: tabs whose token may not be the cookie's
  faults

browserVars == <<jar, tab, trouble, faults>>
frontVars == <<limiterVars, browserVars>>

MaybeToken == Tokens \cup {NoToken}

\* csrfToken: kept by the page.  cookie: sent with the request.  token: in the
\* answer, set with a new cookie or not.  outcome: of the last request; slowed:
\* the limiter refused it or its fetch; bare: its fetch failed.
Page == [pc : {"idle", "fetch", "reply", "ready", "post"}, csrfToken : MaybeToken,
         cookie : MaybeToken, token : MaybeToken, set : BOOLEAN,
         outcome : {"none", "accepted", "forbidden", "limited"},
         slowed : BOOLEAN, bare : BOOLEAN]
NewPage == [pc |-> "idle", csrfToken |-> NoToken, cookie |-> NoToken, token |-> NoToken,
            set |-> FALSE, outcome |-> "none", slowed |-> FALSE, bare |-> FALSE]

BrowserTypeOK ==
  /\ jar \in MaybeToken
  /\ tab \in [Tabs -> Page]
  /\ trouble \in SUBSET Tabs
  /\ faults \in 0 .. MaxFaults

FrontInit ==
  /\ LimiterInit
  /\ jar = NoToken
  /\ tab = [t \in Tabs |-> NewPage]
  /\ trouble = {}
  /\ faults = 0

Fault == faults < MaxFaults /\ faults' = faults + 1

\* generateCSRFToken: 32 random bytes, new ones.
InUse(s) ==
  \/ jar = s
  \/ \E t \in Tabs : s \in {tab[t].csrfToken, tab[t].cookie, tab[t].token}
FreshToken(s) == s \in Tokens /\ s = CHOOSE n \in Tokens : ~InUse(n)

-----------------------------------------------------------------------------
(* getCSRFToken.                                                           *)

\* Two fetches without a cookie at the same time get two.
Asking == {t \in Tabs : tab[t].pc \in {"fetch", "reply"} /\ tab[t].cookie = NoToken}

\* The page has a token.
Act(t) ==
  /\ tab[t].pc = "idle" /\ tab[t].csrfToken # NoToken
  /\ tab' = [tab EXCEPT ![t].pc = "ready", ![t].outcome = "none",
                        ![t].slowed = FALSE, ![t].bare = FALSE]
  /\ UNCHANGED <<limiterVars, jar, trouble, faults>>

StartFetch(t) ==
  /\ tab[t].pc = "idle" /\ tab[t].csrfToken = NoToken
  /\ Enter(t, CSRF)
  /\ tab' = [tab EXCEPT ![t].pc = "fetch", ![t].cookie = jar, ![t].outcome = "none",
                        ![t].slowed = FALSE, ![t].bare = FALSE]
  /\ trouble' = IF Asking = {} THEN trouble ELSE trouble \cup Asking \cup {t}
  /\ UNCHANGED <<jar, faults>>

\* CSRFTokenHandler, EnsureCSRFCookie: the cookie is the token, without one a new
\* one is made.
\* (Mutation: always a new one.)
AlwaysNewCookie(t, s) ==
  /\ FreshToken(s)
  /\ tab' = [tab EXCEPT ![t].pc = "reply", ![t].token = s, ![t].set = TRUE]
EnsureCSRFCookie(t, s) ==
  /\ IF tab[t].cookie # NoToken THEN s = tab[t].cookie ELSE FreshToken(s)
  /\ tab' = [tab EXCEPT ![t].pc = "reply", ![t].token = s,
                        ![t].set = (tab[t].cookie = NoToken)]

CSRFTokenHandler(t, s) ==
  /\ tab[t].pc = "fetch" /\ Admit(t)
  /\ EnsureCSRFCookie(t, s)
  /\ UNCHANGED <<jar, trouble, faults>>

\* The browser keeps the cookie, the page the token.
ReceiveToken(t) ==
  LET p == tab[t]
  IN
  /\ p.pc = "reply"
  /\ jar' = IF p.set THEN p.token ELSE jar
  /\ tab' = [tab EXCEPT ![t] = [p EXCEPT !.pc = "ready", !.csrfToken = p.token,
                                         !.cookie = NoToken, !.token = NoToken, !.set = FALSE]]
  /\ UNCHANGED <<limiterVars, trouble, faults>>

\* .catch(() => null): the request goes out without a token.
Bare(t, slow) ==
  tab' = [tab EXCEPT ![t] = [@ EXCEPT !.pc = "ready", !.cookie = NoToken, !.token = NoToken,
                                      !.set = FALSE, !.slowed = slow, !.bare = TRUE]]

FetchRefused(t) ==
  /\ tab[t].pc = "fetch" /\ Refuse(t)
  /\ Bare(t, TRUE)
  /\ UNCHANGED <<jar, trouble, faults>>

\* The answer is lost, or its body is: then the cookie is set all the same.
FetchLost(t) ==
  /\ tab[t].pc = "reply" /\ Fault
  /\ \/ jar' = jar
     \/ tab[t].set /\ jar' = tab[t].token
  /\ Bare(t, FALSE)
  /\ UNCHANGED <<limiterVars, trouble>>

-----------------------------------------------------------------------------
(* The request.                                                            *)

\* It carries the cookie of the moment.
Send(t) ==
  /\ tab[t].pc = "ready"
  /\ tab' = [tab EXCEPT ![t].pc = "post", ![t].cookie = jar]
  /\ UNCHANGED <<limiterVars, jar, trouble, faults>>

Answered(p, outcome) ==
  [p EXCEPT !.pc = "idle", !.cookie = NoToken, !.outcome = outcome,
            !.slowed = @ \/ outcome = "limited"]
Answer(t, outcome) == tab' = [tab EXCEPT ![t] = Answered(tab[t], outcome)]

\* Only a token that is the cookie's passes.
Matches(t) == tab[t].cookie # NoToken /\ tab[t].cookie = tab[t].csrfToken

CSRFMiddleware(t) ==
  /\ tab[t].pc = "post"
  /\ \/ Matches(t) /\ Answer(t, "accepted")
     \/ ~Matches(t) /\ Answer(t, "forbidden")
  /\ UNCHANGED <<limiterVars, jar, trouble, faults>>

\* The bucket of its own path may be empty at any time.
RequestRefused(t) ==
  /\ tab[t].pc = "post"
  /\ Answer(t, "limited")
  /\ UNCHANGED <<limiterVars, jar, trouble, faults>>

-----------------------------------------------------------------------------
(* The browser.                                                            *)

\* After 24 hours.
Expire ==
  /\ jar # NoToken /\ Fault
  /\ jar' = NoToken
  /\ trouble' = Tabs
  /\ UNCHANGED <<limiterVars, tab>>

\* Only a page that is loaded again forgets its token.
\* (Mutation: the token outlives the page.)
ReloadWithToken(t) ==
  /\ tab[t].pc = "idle" /\ tab[t].outcome = "forbidden"
  /\ tab' = [tab EXCEPT ![t] = [NewPage EXCEPT !.csrfToken = tab[t].csrfToken]]
  /\ trouble' = trouble \ {t}
  /\ UNCHANGED <<limiterVars, jar, faults>>
Reload(t) ==
  /\ tab[t].pc = "idle" /\ tab[t].outcome = "forbidden"
  /\ tab' = [tab EXCEPT ![t] = NewPage]
  /\ trouble' = trouble \ {t}
  /\ UNCHANGED <<limiterVars, jar, faults>>

Limiter(t) == Step(t) /\ UNCHANGED browserVars

FrontNext ==
  \/ \E t \in Tabs :
       \/ Act(t)
       \/ StartFetch(t)
       \/ \E s \in Tokens : CSRFTokenHandler(t, s)
       \/ ReceiveToken(t)
       \/ FetchRefused(t)
       \/ FetchLost(t)
       \/ Send(t)
       \/ CSRFMiddleware(t)
       \/ RequestRefused(t)
       \/ Reload(t)
       \/ Limiter(t)
  \/ Expire
  \/ (Tick \/ Cleanup) /\ UNCHANGED browserVars

Fairness ==
  \A t \in Tabs :
    /\ WF_frontVars(\/ Act(t) \/ StartFetch(t) \/ ReceiveToken(t) \/ Send(t)
                    \/ (\E s \in Tokens : CSRFTokenHandler(t, s)) \/ FetchRefused(t)
                    \/ CSRFMiddleware(t) \/ RequestRefused(t) \/ Limiter(t))
    /\ SF_frontVars(Reload(t))

FrontSpec == FrontInit /\ [][FrontNext]_frontVars
FairFrontSpec == FrontSpec /\ Fairness

-----------------------------------------------------------------------------
(* Properties.                                                             *)

\* client.ts:5, csrf.go:14.  A page is refused for its token only if the cookie
\* expired or two fetches without a cookie overlapped since the page was loaded,
\* or the fetch of this very request failed.
RefusedOnlyAfterTrouble ==
  \A t \in Tabs : tab[t].outcome = "forbidden" => t \in trouble \/ tab[t].bare

\* The inductive invariant: outside of trouble a tab's token is the cookie, in the
\* page, in the fetch and in the request.
Fetching(t) == tab[t].pc \in {"fetch", "reply"}

TokenIsCookie(t) ==
  t \notin trouble =>
    /\ tab[t].csrfToken # NoToken => tab[t].csrfToken = jar
    /\ Fetching(t) /\ tab[t].cookie # NoToken => tab[t].cookie = jar
    /\ tab[t].pc = "post" /\ tab[t].csrfToken # NoToken => Matches(t)

PageIsConsistent(t) ==
  /\ tab[t].pc \in {"ready", "post"} => tab[t].csrfToken # NoToken \/ tab[t].bare
  /\ Fetching(t) => tab[t].csrfToken = NoToken
  /\ tab[t].pc = "reply" =>
       /\ tab[t].token # NoToken
       /\ tab[t].set <=> tab[t].cookie = NoToken
       /\ tab[t].set \/ tab[t].token = tab[t].cookie

\* While a new cookie is under way nobody else outside of trouble counts on one.
OneAsks ==
  \A t, u \in Tabs :
    u \in Asking /\ t # u /\ t \notin trouble => tab[t].csrfToken = NoToken /\ ~Fetching(t)

FrontInv ==
  /\ BrowserTypeOK
  /\ \A t \in Tabs : TokenIsCookie(t) /\ PageIsConsistent(t)
  /\ OneAsks
  /\ RefusedOnlyAfterTrouble

\* client.ts:5.  A tab whose user reloads it after a refusal gets through again and
\* again, unless the limiter keeps refusing it.
GetsThrough ==
  \A t \in Tabs :
    ([]<>(tab[t].outcome = "accepted")) \/ ([]<>(tab[t].slowed))
=============================================================================
