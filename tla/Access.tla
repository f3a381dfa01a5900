------------------------------- MODULE Access -------------------------------
(***************************************************************************)
(* Who gets in: the operators' sessions in memory (UserSessionManager with *)
(* its cleanup loop), the tokens that name them, the table of API keys,    *)
(* AuthMiddleware, and the handlers behind it that end sessions or change  *)
(* keys, roles and accounts.                                               *)
(*                                                                         *)
(* A request is a goroutine; every access to the session map or the        *)
(* database is a step.  Which route it asks for matters only once it is    *)
(* authenticated ("run"): there it becomes one of the handlers.            *)
(***************************************************************************)
EXTENDS Naturals, FiniteSets

CONSTANTS
  Users,       \* ids of accounts
  Sids,        \* session ids, the uuids a login may draw
  Keys,        \* ids of API keys; each stands for its secret too
  Reqs,        \* requests in flight together
  NoUser, NoSid, NoKey,  \* the empty strings
  Forever,     \* the expiry of a key without one
  KeyTimes,    \* lifetimes that may be asked for a key
  Ttl,         \* lifetime of a token, and of a session since its last use
  MaxTime      \* bound on the clock

ASSUME AccessNulls ==
  /\ NoUser \notin Users
  /\ NoSid \notin Sids
  /\ NoKey \notin Keys
  /\ Forever \notin Nat

ASSUME AccessTimes == Ttl \in Nat /\ MaxTime \in Nat /\ KeyTimes \subseteq Nat

VARIABLES
  now,     \* the clock
  users,   \* users table: the role of each account
  keys,    \* api_keys table
  issued,  \* API keys ever issued
  used,    \* session ids ever drawn
  stored,  \* keys of UserSessionManager.sessions
  sess,    \* the UserSession objects
  token,   \* the token each login handed out, by its session id
  req,     \* the requests
  cleaner  \* cleanupLoop

tables == <<users, keys, issued>>
memory == <<used, stored, sess, token>>
vars   == <<now, tables, memory, req, cleaner>>

-----------------------------------------------------------------------------
(* Records.                                                                *)

Roles == {"user", "admin"}

\* owner = NoUser: no row.
KeyRow == [owner : Users \cup {NoUser}, until : {Forever} \cup Nat, revoked : BOOLEAN]
NoRow == [owner |-> NoUser, until |-> Forever, revoked |-> FALSE]

Session == [user : Users \cup {NoUser}, expires : Nat]
Token == [user : Users \cup {NoUser}, role : Roles, ends : Nat]

\* Before the handler: "login" (password and code accepted); "get" and "touch"
\* (by token); "hash" and "user" (by API key).  "run": authenticated.  After
\* that, what a handler that looked first is about to write.
Pc == {"idle", "login", "get", "touch", "hash", "user", "run",
       "delete", "revoke", "erase", "update"}

\* "late" is no state of the program: it remembers whether the credential was
\* dead already when the request arrived.
Request == [pc : Pc, sid : Sids \cup {NoSid}, key : Keys \cup {NoKey}, late : BOOLEAN,
            user : Users \cup {NoUser}, role : Roles,
            onSid : Sids \cup {NoSid}, onKey : Keys \cup {NoKey},
            onUser : Users \cup {NoUser}, grant : Roles]
NoRequest == [pc |-> "idle", sid |-> NoSid, key |-> NoKey, late |-> FALSE,
              user |-> NoUser, role |-> "user",
              onSid |-> NoSid, onKey |-> NoKey, onUser |-> NoUser, grant |-> "user"]

Cleaner == [pc : {"wait", "range", "delete"}, at : Nat, todo : SUBSET Sids,
            key : Sids \cup {NoSid}]
CleanerWaiting == [pc |-> "wait", at |-> 0, todo |-> {}, key |-> NoSid]

\* An account that was deleted has no row and never comes back.
TypeOK ==
  /\ now \in Nat
  /\ users \in [Users -> Roles \cup {"gone"}]
  /\ keys \in [Keys -> KeyRow]
  /\ issued \in SUBSET Keys
  /\ used \in SUBSET Sids
  /\ stored \in SUBSET Sids
  /\ sess \in [Sids -> Session]
  /\ token \in [Sids -> Token]
  /\ req \in [Reqs -> Request]
  /\ cleaner \in Cleaner

Init ==
  /\ now = 0
  /\ users \in [Users -> Roles]
  /\ keys = [k \in Keys |-> NoRow]
  /\ issued = {}
  /\ used = {}
  /\ stored = {}
  /\ sess = [s \in Sids |-> [user |-> NoUser, expires |-> 0]]
  /\ token = [s \in Sids |-> [user |-> NoUser, role |-> "user", ends |-> 0]]
  /\ req = [r \in Reqs |-> NoRequest]
  /\ cleaner = CleanerWaiting

-----------------------------------------------------------------------------
(* Helpers.                                                                *)

\* now.After(sess.ExpiresAt)
Expired(s, t) == t > sess[s].expires

HasRow(k) == keys[k].owner # NoUser

\* The tests of validateAPIKey on the row.
KeyIsGood(k) ==
  /\ HasRow(k)
  /\ ~keys[k].revoked
  /\ keys[k].until = Forever \/ (keys[k].until \in Nat /\ now <= keys[k].until)

Ends(r) == req' = [req EXCEPT ![r] = NoRequest]
Goto(r, next) == req' = [req EXCEPT ![r].pc = next]
GoDelete(r, s) == req' = [req EXCEPT ![r].pc = "delete", ![r].onSid = s]

-----------------------------------------------------------------------------
(* Login and the OAuth callbacks.                                          *)

\* The account is found, password and code are right (or the provider vouches
\* for the visitor); the row that was read is used from here on.
LoginAccepted(r) ==
  /\ req[r].pc = "idle"
  /\ \E u \in Users :
       /\ users[u] # "gone"
       /\ req' = [req EXCEPT ![r] = [NoRequest EXCEPT !.pc = "login", !.user = u,
                                                      !.role = users[u]]]
  /\ UNCHANGED <<now, tables, memory, cleaner>>

\* Range may or may not reach a key that is stored while it runs.
Stored(s) ==
  /\ stored' = stored \cup {s}
  /\ \/ UNCHANGED cleaner
     \/ /\ cleaner.pc # "wait"
        /\ cleaner' = [cleaner EXCEPT !.todo = @ \cup {s}]

\* The ids a login may draw: uuid.New() never repeats itself.
FreshSids == Sids \ used

\* UserSessionManager.Create and GenerateTokenWithSessionID.
OpenSession(r) ==
  /\ req[r].pc = "login"
  /\ \E s \in FreshSids :
       /\ used' = used \cup {s}
       /\ Stored(s)
       /\ sess' = [sess EXCEPT ![s] = [user |-> req[r].user, expires |-> now + Ttl]]
       /\ token' = [token EXCEPT ![s] = [user |-> req[r].user, role |-> req[r].role,
                                         ends |-> now + Ttl]]
  /\ Ends(r)
  /\ UNCHANGED <<now, tables>>

\* The bound on session ids, not code: once all of them are used a login comes
\* to nothing.
LoginFails(r) ==
  /\ req[r].pc = "login"
  /\ FreshSids = {}
  /\ Ends(r)
  /\ UNCHANGED <<now, tables, memory, cleaner>>

-----------------------------------------------------------------------------
(* AuthMiddleware.                                                         *)

\* A bearer token, which ValidateToken accepts: jwt wants now < exp.
TokenArrives(r) ==
  /\ req[r].pc = "idle"
  /\ \E s \in used :
       /\ now < token[s].ends
       /\ req' = [req EXCEPT ![r] = [NoRequest EXCEPT
                    !.pc = "get", !.sid = s, !.late = s \notin stored,
                    !.user = token[s].user, !.role = token[s].role]]
  /\ UNCHANGED <<now, tables, memory, cleaner>>

\* UserSessionManager.Get; an expired session is deleted by its id, in a
\* second step.
GetSession(r) ==
  /\ req[r].pc = "get"
  /\ LET s == req[r].sid IN
     \/ s \notin stored /\ Ends(r)
     \/ s \in stored /\ Expired(s, now)  /\ GoDelete(r, s)
     \/ s \in stored /\ ~Expired(s, now) /\ Goto(r, "touch")
  /\ UNCHANGED <<now, tables, memory, cleaner>>

\* UpdateLastSeen: the object is prolonged if the key is still there; either
\* way the request goes on.
\* (Mutation: the session is stored again instead of being changed in place.)
StoreLastSeen(r) ==
  /\ req[r].pc = "touch"
  /\ sess' = [sess EXCEPT ![req[r].sid].expires = now + Ttl]
  /\ stored' = stored \cup {req[r].sid}
  /\ Goto(r, "run")
  /\ UNCHANGED <<now, tables, used, token, cleaner>>
UpdateLastSeen(r) ==
  /\ req[r].pc = "touch"
  /\ sess' = IF req[r].sid \in stored
               THEN [sess EXCEPT ![req[r].sid].expires = now + Ttl] ELSE sess
  /\ Goto(r, "run")
  /\ UNCHANGED <<now, tables, used, stored, token, cleaner>>

KeyArrives(r) ==
  /\ req[r].pc = "idle"
  /\ \E k \in issued :
       req' = [req EXCEPT ![r] = [NoRequest EXCEPT !.pc = "hash", !.key = k,
                                                   !.late = ~KeyIsGood(k)]]
  /\ UNCHANGED <<now, tables, memory, cleaner>>

\* validateAPIKey: the row, then its owner's.  (last_used_at, written by a
\* goroutine of its own, is read by nobody here.)
\* (Mutation: the owner is looked up first and the row's tests are forgotten.)
TakeAPIKey(r) ==
  /\ req[r].pc = "hash"
  /\ IF HasRow(req[r].key)
       THEN req' = [req EXCEPT ![r].pc = "user", ![r].user = keys[req[r].key].owner]
       ELSE Ends(r)
  /\ UNCHANGED <<now, tables, memory, cleaner>>
GetAPIKeyByHash(r) ==
  /\ req[r].pc = "hash"
  /\ IF KeyIsGood(req[r].key)
       THEN req' = [req EXCEPT ![r].pc = "user", ![r].user = keys[req[r].key].owner]
       ELSE Ends(r)
  /\ UNCHANGED <<now, tables, memory, cleaner>>

\* (Mutation: the error of a lookup that finds no row is overlooked.)
TakeUser(r) ==
  /\ req[r].pc = "user"
  /\ req' = [req EXCEPT ![r].pc = "run", ![r].role = users[req[r].user]]
  /\ UNCHANGED <<now, tables, memory, cleaner>>
GetUserByID(r) ==
  /\ req[r].pc = "user"
  /\ LET role == users[req[r].user] IN
     IF role \in Roles THEN req' = [req EXCEPT ![r].pc = "run", ![r].role = role]
                       ELSE Ends(r)
  /\ UNCHANGED <<now, tables, memory, cleaner>>

-----------------------------------------------------------------------------
(* The handlers.                                                           *)

ByToken(r) == req[r].sid # NoSid
IsAdmin(r) == req[r].role = "admin"

\* Every handler that changes nothing in this module, a Logout with an API
\* key and every early return of the others.
OtherHandler(r) ==
  /\ req[r].pc = "run"
  /\ Ends(r)
  /\ UNCHANGED <<now, tables, memory, cleaner>>

\* Logout and ForceRevokeSession: Get, then Delete.  A session that Get finds
\* expired is deleted as well.
Logout(r) ==
  /\ req[r].pc = "run"
  /\ ByToken(r)
  /\ req[r].sid \in stored
  /\ GoDelete(r, req[r].sid)
  /\ UNCHANGED <<now, tables, memory, cleaner>>

ForceRevokeSession(r) ==
  /\ req[r].pc = "run"
  /\ IsAdmin(r)
  /\ \E s \in stored : GoDelete(r, s)
  /\ UNCHANGED <<now, tables, memory, cleaner>>

DeleteSession(r) ==
  /\ req[r].pc = "delete"
  /\ stored' = stored \ {req[r].onSid}
  /\ Ends(r)
  /\ UNCHANGED <<now, tables, used, sess, token, cleaner>>

\* The foreign key refuses a row for an account that is gone (500).
\* (Mutation: no foreign key.)
InsertAnyKey(r) ==
  /\ req[r].pc = "run"
  /\ ByToken(r)
  /\ \E k \in Keys \ issued, t \in {Forever} \cup {now + d : d \in KeyTimes} :
       /\ issued' = issued \cup {k}
       /\ keys' = [keys EXCEPT ![k] = [owner |-> req[r].user, until |-> t,
                                       revoked |-> FALSE]]
  /\ Ends(r)
  /\ UNCHANGED <<now, users, memory, cleaner>>
CreateAPIKey(r) ==
  /\ req[r].pc = "run"
  /\ ByToken(r)
  /\ users[req[r].user] # "gone"
  /\ \E k \in Keys \ issued, t \in {Forever} \cup {now + d : d \in KeyTimes} :
       /\ issued' = issued \cup {k}
       /\ keys' = [keys EXCEPT ![k] = [owner |-> req[r].user, until |-> t,
                                       revoked |-> FALSE]]
  /\ Ends(r)
  /\ UNCHANGED <<now, users, memory, cleaner>>

\* RevokeAPIKey and DeleteAPIKey read the row and test who owns it; the second
\* is for administrators only.
\* (Mutation: requests by API key are not turned away.)
RevokeWithAnyCredential(r) ==
  /\ req[r].pc = "run"
  /\ \E k \in Keys :
       /\ HasRow(k)
       /\ keys[k].owner = req[r].user \/ IsAdmin(r)
       /\ \E next \in {"revoke"} \cup (IF IsAdmin(r) THEN {"erase"} ELSE {}) :
            req' = [req EXCEPT ![r].pc = next, ![r].onKey = k]
  /\ UNCHANGED <<now, tables, memory, cleaner>>
RevokeAPIKey(r) ==
  /\ req[r].pc = "run"
  /\ ByToken(r)
  /\ \E k \in Keys :
       /\ HasRow(k)
       /\ keys[k].owner = req[r].user \/ IsAdmin(r)
       /\ \E next \in {"revoke"} \cup (IF IsAdmin(r) THEN {"erase"} ELSE {}) :
            req' = [req EXCEPT ![r].pc = next, ![r].onKey = k]
  /\ UNCHANGED <<now, tables, memory, cleaner>>

SetRevoked(r) ==
  /\ req[r].pc = "revoke"
  /\ keys' = IF HasRow(req[r].onKey)
               THEN [keys EXCEPT ![req[r].onKey].revoked = TRUE] ELSE keys
  /\ Ends(r)
  /\ UNCHANGED <<now, users, issued, memory, cleaner>>

EraseKey(r) ==
  /\ req[r].pc = "erase"
  /\ keys' = [keys EXCEPT ![req[r].onKey] = NoRow]
  /\ Ends(r)
  /\ UNCHANGED <<now, users, issued, memory, cleaner>>

\* UpdateUser reads the row, replaces the role if one was sent, and writes
\* everything back.  It tests neither who asks nor whose row it is: everybody
\* who was let in, by session or by key, may write any account's role.
UpdateUser(r) ==
  /\ req[r].pc = "run"
  /\ \E u \in Users :
       /\ users[u] # "gone"
       /\ \E role \in Roles :
            req' = [req EXCEPT ![r].pc = "update", ![r].onUser = u, ![r].grant = role]
  /\ UNCHANGED <<now, tables, memory, cleaner>>

WriteUser(r) ==
  /\ req[r].pc = "update"
  /\ users' = IF users[req[r].onUser] # "gone"
                THEN [users EXCEPT ![req[r].onUser] = req[r].grant] ELSE users
  /\ Ends(r)
  /\ UNCHANGED <<now, keys, issued, memory, cleaner>>

\* DeleteUser, one transaction: the account's keys go with it (ON DELETE
\* CASCADE); the sessions in memory are not touched.
DeleteUser(r) ==
  /\ req[r].pc = "run"
  /\ IsAdmin(r)
  /\ \E u \in Users :
       /\ users[u] # "gone"
       /\ users' = [users EXCEPT ![u] = "gone"]
       /\ keys' = [k \in Keys |-> IF keys[k].owner = u THEN NoRow ELSE keys[k]]
  /\ Ends(r)
  /\ UNCHANGED <<now, issued, memory, cleaner>>

\* What a request does once it has arrived.
RequestStep(r) ==
  \/ OpenSession(r)
  \/ LoginFails(r)
  \/ GetSession(r)
  \/ UpdateLastSeen(r)
  \/ GetAPIKeyByHash(r)
  \/ GetUserByID(r)
  \/ OtherHandler(r)
  \/ Logout(r)
  \/ ForceRevokeSession(r)
  \/ DeleteSession(r)
  \/ CreateAPIKey(r)
  \/ RevokeAPIKey(r)
  \/ SetRevoked(r)
  \/ EraseKey(r)
  \/ UpdateUser(r)
  \/ WriteUser(r)
  \/ DeleteUser(r)

-----------------------------------------------------------------------------
(* UserSessionManager.cleanupLoop.                                         *)

CleanupTick ==
  /\ cleaner.pc = "wait"
  /\ cleaner' = [cleaner EXCEPT !.pc = "range", !.at = now, !.todo = stored]
  /\ UNCHANGED <<now, tables, memory, req>>

CleanupInspect(s) ==
  /\ cleaner.pc = "range"
  /\ s \in cleaner.todo
  /\ IF s \in stored /\ Expired(s, cleaner.at)
       THEN cleaner' = [cleaner EXCEPT !.pc = "delete", !.key = s]
       ELSE cleaner' = [cleaner EXCEPT !.todo = @ \ {s}]
  /\ UNCHANGED <<now, tables, memory, req>>

CleanupDelete ==
  /\ cleaner.pc = "delete"
  /\ stored' = stored \ {cleaner.key}
  /\ cleaner' = [cleaner EXCEPT !.pc = "range", !.todo = @ \ {cleaner.key},
                                !.key = NoSid]
  /\ UNCHANGED <<now, tables, used, sess, token, req>>

\* (Mutation: the loop waits on a timer that fires once, not on a ticker.)
CleanupStops ==
  /\ cleaner.pc = "range"
  /\ cleaner.todo = {}
  /\ UNCHANGED vars
CleanupDone ==
  /\ cleaner.pc = "range"
  /\ cleaner.todo = {}
  /\ cleaner' = CleanerWaiting
  /\ UNCHANGED <<now, tables, memory, req>>

CleanerStep ==
  \/ CleanupTick
  \/ \E s \in Sids : CleanupInspect(s)
  \/ CleanupDelete
  \/ CleanupDone

-----------------------------------------------------------------------------
\* Time passes, up to the bound MaxTime.
Tick ==
  /\ now < MaxTime
  /\ now' = now + 1
  /\ UNCHANGED <<tables, memory, req, cleaner>>

\* The process ends and starts anew: the sessions are gone, the tables and the
\* tokens in the clients' hands are not.
Restart ==
  /\ stored' = {}
  /\ req' = [r \in Reqs |-> NoRequest]
  /\ cleaner' = CleanerWaiting
  /\ UNCHANGED <<now, tables, used, sess, token>>

Next ==
  \/ \E r \in Reqs :
       LoginAccepted(r) \/ TokenArrives(r) \/ KeyArrives(r) \/ RequestStep(r)
  \/ CleanerStep
  \/ Tick
  \/ Restart

\* The ticker fires and the loop goes on; nothing is owed by requests, which may
\* stop anywhere.
Fairness == WF_vars(CleanerStep)

Spec == Init /\ [][Next]_vars
FairSpec == Spec /\ Fairness

-----------------------------------------------------------------------------
(* Properties.                                                             *)

\* The middleware let the request in.
Inside(r) == req[r].pc \in {"touch", "user", "run", "revoke", "erase", "update"}

\* docs/1_SRS.md:50 and 92: who was logged out or revoked has to log in again.
\* A request that arrives after its session left memory is not let in, though
\* other requests that looked the session up before go on prolonging it.
LoggedOutIsRefused == \A r \in Reqs : Inside(r) /\ ByToken(r) => ~req[r].late

\* docs/5_SECURITY.md:17: the same for a key that was revoked, deleted or had
\* run out when the request arrived, also while it is edited by two
\* administrators at once.
RevokedKeyIsRefused == \A r \in Reqs : Inside(r) /\ ~ByToken(r) => ~req[r].late

\* No key outlives its owner, although an account may be deleted between the
\* authentication of a request and the key it inserts.
KeysHaveOwners == \A k \in Keys : HasRow(k) => users[keys[k].owner] # "gone"

\* docs/5_SECURITY.md:16: keys are made, revoked and deleted by people, with a
\* session: their owner or an administrator.  The ownership is tested on a row
\* read earlier.  (Deleting an account deletes its keys.)
PeopleChangeKeys ==
  [][\A k \in Keys : keys'[k] # keys[k] =>
       \/ users' # users
       \/ \E r \in Reqs :
            /\ req'[r] # req[r]
            /\ ByToken(r)
            /\ IsAdmin(r) \/ req[r].user \in {keys[k].owner, keys'[k].owner}]_vars

\* Sessions nobody uses any more leave memory, unless they are used again.
AbandonedIsReaped ==
  \A s \in Sids :
    (s \in stored /\ Expired(s, now)) ~> (s \notin stored \/ ~Expired(s, now))

\* CredentialLedger: a request is let in at the instant of the look-up that finds
\* its credential good - of GetSession, or of validateAPIKey's two - and what it
\* writes, however much later and whatever was revoked, demoted or deleted since,
\* goes by who it was let in as: keys are made by a session and for its person,
\* ended by a session of their owner or of an administrator, accounts closed by
\* administrators - and roles set by anybody who is in, for that is what the
\* handlers test (docs/1_SRS.md:32 leaves roles to administrators).
LedgerBearer == [s \in Sids |-> IF s \in stored
                  THEN [user |-> token[s].user, role |-> token[s].role]
                  ELSE [user |-> NoUser, role |-> "user"]]
LedgerRight == [k \in Keys |-> IF KeyIsGood(k)
                  THEN [user |-> keys[k].owner, lasting |-> keys[k].until = Forever]
                  ELSE [user |-> NoUser, lasting |-> FALSE]]
LedgerGuest ==
  [r \in Reqs |->
    LET as(by, role) == [by |-> by, user |-> req[r].user, role |-> role]
    IN CASE req[r].pc = "login" -> as("login", req[r].role)
         [] req[r].pc = "user" -> as("owner", "user")
         [] req[r].pc \in {"touch", "run", "revoke", "erase", "update"} ->
              as(IF ByToken(r) THEN "session" ELSE "key", req[r].role)
         [] OTHER -> [by |-> "none", user |-> NoUser, role |-> "user"]]

Ledger == INSTANCE CredentialLedger WITH
  account <- users, bearer <- LedgerBearer, drawn <- used,
  right <- LedgerRight, issued <- issued, guest <- LedgerGuest

ImplementsLedger == Ledger!Spec

\* The inductive invariant: a dead credential stays dead, and of the key it is
\* about to write a handler tested the owner, or its caller's role.
DeadStaysDead(r) ==
  /\ req[r].pc = "get" => req[r].sid \in used
  /\ req[r].pc = "get" /\ req[r].late => req[r].sid \notin stored
  /\ req[r].pc = "hash" => req[r].key \in issued /\ req[r].sid = NoSid
  /\ req[r].pc = "hash" /\ req[r].late => ~KeyIsGood(req[r].key)

WriterWasTested(r) ==
  /\ req[r].pc = "revoke" => ByToken(r) /\ req[r].onKey \in issued
  /\ req[r].pc = "revoke" /\ ~IsAdmin(r) /\ HasRow(req[r].onKey) =>
       keys[req[r].onKey].owner = req[r].user
  /\ req[r].pc = "erase" => ByToken(r) /\ IsAdmin(r)

\* A request goes by what its session's token says, and knows whom, and what, it
\* is about.
RequestIsSomebodys(r) ==
  /\ req[r].pc \notin {"idle", "hash"} => req[r].user \in Users
  /\ req[r].pc = "get" => /\ req[r].user = token[req[r].sid].user
                          /\ req[r].role = token[req[r].sid].role
  /\ req[r].pc = "user" => ~ByToken(r)
  /\ req[r].pc \in {"revoke", "erase"} => req[r].onKey \in Keys
  /\ req[r].pc = "update" => req[r].onUser \in Users

AllIsSomebodys ==
  /\ \A s \in used : token[s].user \in Users
  /\ \A r \in Reqs : RequestIsSomebodys(r)

Inv ==
  /\ stored \subseteq used
  /\ \A k \in Keys \ issued : ~HasRow(k)
  /\ \A r \in Reqs : DeadStaysDead(r) /\ WriterWasTested(r)
  /\ AllIsSomebodys
  /\ LoggedOutIsRefused
  /\ RevokedKeyIsRefused
  /\ KeysHaveOwners
=============================================================================
