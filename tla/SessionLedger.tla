--------------------------- MODULE SessionLedger ---------------------------
(***************************************************************************)
(* What the visitor gate promises, without its handlers, its clock and its *)
(* pointers: session ids live once, belong to one site and one address,    *)
(* carry a score only while they live, and the detector bars - for good -  *)
(* only addresses that visited the site in question.  Other bars come and  *)
(* go through the handlers of the dashboard, and with their site.          *)
(***************************************************************************)
EXTENDS RiskScoring

CONSTANTS Sids, Sites, Ips, NoSite, NoIp, NoBan, Forever

VARIABLES
  life,    \* "new", "live" or "gone", for each session id
  home,    \* the site and the address each id was given to
  score,   \* the risk score of each session
  until,   \* until when each <<site, address>> is barred
  closed   \* the sites that were deleted

vars == <<life, home, score, until, closed>>

Pairs == Sites \X (Ips \cup {NoIp})

Init ==
  /\ life = [s \in Sids |-> "new"]
  /\ home = [s \in Sids |-> <<NoSite, NoIp>>]
  /\ score = [s \in Sids |-> 0]
  /\ until = [p \in Pairs |-> NoBan]
  /\ closed = {}

\* A visitor of some site, at some address, gets a session.
Open(s) ==
  /\ life[s] = "new"
  /\ life' = [life EXCEPT ![s] = "live"]
  /\ home' = [home EXCEPT ![s] = home'[s]]
  /\ home'[s] \in Sites \X Ips
  /\ UNCHANGED <<score, until, closed>>

\* A live session gets a new score, from an analysis or a passed captcha.
Score(s) ==
  /\ life[s] = "live"
  /\ score' = [score EXCEPT ![s] = score'[s]]
  /\ score'[s] \in 0..MaxRisk
  /\ UNCHANGED <<life, home, until, closed>>

\* Sessions end: one by one in the cleanup loop, all of them in a restart.
Close ==
  /\ life' \in [Sids -> {"new", "live", "gone"}]
  /\ \A s \in Sids : \/ life'[s] = life[s]
                     \/ life[s] = "live" /\ life'[s] = "gone"
  /\ UNCHANGED <<home, score, until, closed>>

\* The detector bars the address of a session, living or gone.
Bar(s) ==
  /\ life[s] # "new"
  /\ home[s][1] \notin closed
  /\ until' = [until EXCEPT ![home[s]] = Forever]
  /\ UNCHANGED <<life, home, score, closed>>

\* A handler of the blacklist sets or lifts a bar of an existing site: p's row
\* changes, to whatever was asked for.
Relist(p) ==
  /\ p[1] \notin closed
  /\ until' = [until EXCEPT ![p] = until'[p]]
  /\ until'[p] \in {NoBan, Forever} \cup Nat
  /\ UNCHANGED <<life, home, score, closed>>

\* A site is deleted, its bars with it; it never comes back.
CloseSite(w) ==
  /\ w \notin closed
  /\ closed' = closed \cup {w}
  /\ until' = [p \in Pairs |-> IF p[1] = w THEN NoBan ELSE until[p]]
  /\ UNCHANGED <<life, home, score>>

Next ==
  \/ \E s \in Sids : Open(s) \/ Score(s) \/ Bar(s)
  \/ Close
  \/ \E p \in Sites \X Ips : Relist(p)
  \/ \E w \in Sites : CloseSite(w)

Spec == Init /\ [][Next]_vars
=============================================================================
