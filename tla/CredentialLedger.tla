-------------------------- MODULE CredentialLedger --------------------------
(***************************************************************************)
(* What operators' access promises, without a clock, a cleanup loop, and   *)
(* the look-ups between which anything may happen: a request is let in at  *)
(* one instant, with a credential that is good at that instant; what it    *)
(* writes later goes by who it was let in as, under the conditions that    *)
(* the handlers test.  It says what these are, not what they should be:    *)
(* setting a role has none.                                                *)
(***************************************************************************)
EXTENDS Naturals

CONSTANTS Users, Sids, Keys, Reqs, NoUser

VARIABLES
  account, \* the role of each account, or "gone"
  bearer,  \* the person each session is good for
  drawn,   \* sessions ever opened
  right,   \* what each API key is good for
  issued,  \* API keys ever issued
  guest    \* the requests, and as whom they were let in

vars == <<account, bearer, drawn, right, issued, guest>>

Roles == {"user", "admin"}
Nobody == [user |-> NoUser, role |-> "user"]

\* Keys that are not lasting may end without anybody's doing.
NoRight == [user |-> NoUser, lasting |-> FALSE]

\* by: the credential.  "login": not let in, but about to open a session;
\* "owner": an API key was good and names its owner, whose role is not known yet.
Outside == [by |-> "none", user |-> NoUser, role |-> "user"]
As(by, user, role) == [by |-> by, user |-> user, role |-> role]

Init ==
  /\ account \in [Users -> Roles]
  /\ bearer = [s \in Sids |-> Nobody]
  /\ drawn = {}
  /\ right = [k \in Keys |-> NoRight]
  /\ issued = {}
  /\ guest = [r \in Reqs |-> Outside]

Inside(r) == guest[r].by \in {"session", "key"}
Exists(u) == u \in Users /\ account[u] \in Roles

Becomes(r, as) == guest' = [guest EXCEPT ![r] = as]
Leave(r) ==
  /\ Becomes(r, Outside)
  /\ UNCHANGED <<account, bearer, drawn, right, issued>>

-----------------------------------------------------------------------------
(* Sessions.                                                               *)

Identify(r, u) ==
  /\ guest[r] = Outside /\ Exists(u)
  /\ Becomes(r, As("login", u, account[u]))
  /\ UNCHANGED <<account, bearer, drawn, right, issued>>

\* As the person who was identified, whatever became of the account since.
Open(r, s) ==
  /\ s \notin drawn /\ drawn' = drawn \cup {s}
  /\ guest[r].by = "login"
  /\ bearer' = [bearer EXCEPT ![s] = [user |-> guest[r].user, role |-> guest[r].role]]
  /\ Becomes(r, Outside)
  /\ UNCHANGED <<account, right, issued>>

EnterBySession(r, s) ==
  /\ guest[r] = Outside /\ bearer[s] # Nobody
  /\ Becomes(r, As("session", bearer[s].user, bearer[s].role))
  /\ UNCHANGED <<account, bearer, drawn, right, issued>>

\* Sessions end in many ways, and for good.
EndSession(s) ==
  /\ bearer' = [bearer EXCEPT ![s] = Nobody]
  /\ UNCHANGED <<account, drawn, right, issued, guest>>

Restart ==
  /\ bearer' = [s \in Sids |-> Nobody]
  /\ guest' = [r \in Reqs |-> Outside]
  /\ UNCHANGED <<account, drawn, right, issued>>

-----------------------------------------------------------------------------
(* API keys.                                                               *)

Recognise(r, k) ==
  /\ guest[r] = Outside /\ right[k] # NoRight
  /\ Becomes(r, As("owner", right[k].user, "user"))
  /\ UNCHANGED <<account, bearer, drawn, right, issued>>

EnterByKey(r) ==
  /\ guest[r].by = "owner" /\ Exists(guest[r].user)
  /\ Becomes(r, As("key", guest[r].user, account[guest[r].user]))
  /\ UNCHANGED <<account, bearer, drawn, right, issued>>

\* For oneself, while one has an account.
MakeKey(r, k, lasting) ==
  /\ k \notin issued /\ issued' = issued \cup {k}
  /\ guest[r].by = "session" /\ Exists(guest[r].user)
  /\ right' = [right EXCEPT ![k] = [user |-> guest[r].user, lasting |-> lasting]]
  /\ Becomes(r, Outside)
  /\ UNCHANGED <<account, bearer, drawn>>

\* One's own, or an administrator's doing.
EndKey(r, k) ==
  /\ guest[r].by = "session"
  /\ guest[r].role = "admin" \/ guest[r].user = right[k].user
  /\ right' = [right EXCEPT ![k] = NoRight]
  /\ Becomes(r, Outside)
  /\ UNCHANGED <<account, bearer, drawn, issued>>

Expire(K) ==
  /\ \A k \in K : ~right[k].lasting
  /\ right' = [k \in Keys |-> IF k \in K THEN NoRight ELSE right[k]]
  /\ UNCHANGED <<account, bearer, drawn, issued, guest>>

-----------------------------------------------------------------------------
(* Accounts.                                                               *)

\* Anybody's role, by anybody who is in, by session or by key: UpdateUser has no
\* other test (the documentation leaves it to administrators).
SetRole(r, u, role) ==
  /\ Exists(u) /\ account' = [account EXCEPT ![u] = role]
  /\ Inside(r)
  /\ Becomes(r, Outside)
  /\ UNCHANGED <<bearer, drawn, right, issued>>

\* The keys go with their owner; sessions do not.
Close(r, u) ==
  /\ Exists(u) /\ account' = [account EXCEPT ![u] = "gone"]
  /\ Inside(r) /\ guest[r].role = "admin"
  /\ right' = [k \in Keys |-> IF right[k].user = u THEN NoRight ELSE right[k]]
  /\ Becomes(r, Outside)
  /\ UNCHANGED <<bearer, drawn, issued>>

Next ==
  \/ \E r \in Reqs :
       \/ Leave(r)
       \/ EnterByKey(r)
       \/ \E s \in Sids : Open(r, s) \/ EnterBySession(r, s)
       \/ \E k \in Keys : \/ Recognise(r, k)
                          \/ \E lasting \in BOOLEAN : MakeKey(r, k, lasting)
                          \/ EndKey(r, k)
       \/ \E u \in Users : \/ Identify(r, u)
                           \/ \E role \in Roles : SetRole(r, u, role)
                           \/ Close(r, u)
  \/ \E s \in Sids : EndSession(s)
  \/ \E K \in SUBSET Keys : Expire(K)
  \/ Restart

Spec == Init /\ [][Next]_vars
=============================================================================
