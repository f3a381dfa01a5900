---------------------------- MODULE AccessProofs ----------------------------
(***************************************************************************)
(* Theorems about Access, for any sets of accounts, sessions, keys and     *)
(* requests, and any lifetimes.                                            *)
(***************************************************************************)
EXTENDS Access, TLAPS

-----------------------------------------------------------------------------
(* Types.                                                                  *)

LEMMA NoRequestType == NoRequest \in Request
BY DEF NoRequest, Request, Pc, Roles

LEMMA EndsType ==
  ASSUME TypeOK, NEW r \in Reqs, Ends(r)
  PROVE  req' \in [Reqs -> Request]
BY NoRequestType DEF TypeOK, Ends

LEMMA GotoType ==
  ASSUME TypeOK, NEW r \in Reqs, NEW p \in Pc, Goto(r, p)
  PROVE  req' \in [Reqs -> Request]
<1>1. [req[r] EXCEPT !.pc = p] \in Request
  BY DEF TypeOK, Request
<1> QED
  BY <1>1 DEF TypeOK, Goto

LEMMA GoDeleteType ==
  ASSUME TypeOK, NEW r \in Reqs, NEW s \in Sids \cup {NoSid}, GoDelete(r, s)
  PROVE  req' \in [Reqs -> Request]
<1>1. [req[r] EXCEPT !.pc = "delete", !.onSid = s] \in Request
  BY DEF TypeOK, Request, Pc
<1> QED
  BY <1>1 DEF TypeOK, GoDelete

LEMMA StoredType ==
  ASSUME TypeOK, NEW s \in Sids, Stored(s)
  PROVE  stored' \in SUBSET Sids /\ cleaner' \in Cleaner
BY DEF TypeOK, Stored, Cleaner

LEMMA InitType == Init => TypeOK
<1> SUFFICES ASSUME Init PROVE TypeOK
  OBVIOUS
<1>1. req \in [Reqs -> Request]
  BY NoRequestType DEF Init
<1>2. keys \in [Keys -> KeyRow]
  BY DEF Init, NoRow, KeyRow
<1>3. users \in [Users -> Roles \cup {"gone"}]
  BY DEF Init, Roles
<1>4. sess \in [Sids -> Session] /\ token \in [Sids -> Token]
  BY DEF Init, Session, Token, Roles
<1>5. cleaner \in Cleaner
  BY DEF Init, Cleaner, CleanerWaiting
<1> QED
  BY <1>1, <1>2, <1>3, <1>4, <1>5 DEF Init, TypeOK

\* Requests before they are let in.
LEMMA GateType ==
  ASSUME TypeOK, Inv, NEW r \in Reqs,
         \/ LoginAccepted(r) \/ TokenArrives(r) \/ KeyArrives(r)
         \/ OpenSession(r) \/ LoginFails(r) \/ GetSession(r) \/ UpdateLastSeen(r)
         \/ GetAPIKeyByHash(r) \/ GetUserByID(r)
  PROVE  TypeOK'
<1>1. CASE LoginAccepted(r)
  <2> PICK u \in Users :
        /\ users[u] # "gone"
        /\ req' = [req EXCEPT ![r] = [NoRequest EXCEPT !.pc = "login", !.user = u,
                                                       !.role = users[u]]]
    BY <1>1 DEF LoginAccepted
  <2>1. users[u] \in Roles
    BY DEF TypeOK
  <2>2. [NoRequest EXCEPT !.pc = "login", !.user = u, !.role = users[u]] \in Request
    BY <2>1, NoRequestType DEF Request, Pc
  <2>3. req' \in [Reqs -> Request]
    BY <2>2 DEF TypeOK
  <2> QED
    BY <1>1, <2>3 DEF LoginAccepted, TypeOK, tables, memory
<1>2. CASE TokenArrives(r)
  <2> PICK s \in used :
        req' = [req EXCEPT ![r] = [NoRequest EXCEPT
                  !.pc = "get", !.sid = s, !.late = s \notin stored,
                  !.user = token[s].user, !.role = token[s].role]]
    BY <1>2 DEF TokenArrives
  <2>1. token[s] \in Token /\ s \in Sids
    BY DEF TypeOK
  <2>2. (s \notin stored) \in BOOLEAN
    OBVIOUS
  <2>3. [NoRequest EXCEPT !.pc = "get", !.sid = s, !.late = s \notin stored,
                          !.user = token[s].user, !.role = token[s].role] \in Request
    BY <2>1, <2>2, NoRequestType DEF Request, Token, Pc
  <2>4. req' \in [Reqs -> Request]
    BY <2>3 DEF TypeOK
  <2> QED
    BY <1>2, <2>4 DEF TokenArrives, TypeOK, tables, memory
<1>3. CASE KeyArrives(r)
  <2> PICK k \in issued :
        req' = [req EXCEPT ![r] = [NoRequest EXCEPT !.pc = "hash", !.key = k,
                                                    !.late = ~KeyIsGood(k)]]
    BY <1>3 DEF KeyArrives
  <2>1. (~KeyIsGood(k)) \in BOOLEAN
    OBVIOUS
  <2>2. [NoRequest EXCEPT !.pc = "hash", !.key = k, !.late = ~KeyIsGood(k)] \in Request
    BY <2>1, NoRequestType DEF Request, Pc, TypeOK
  <2>3. req' \in [Reqs -> Request]
    BY <2>2 DEF TypeOK
  <2> QED
    BY <1>3, <2>3 DEF KeyArrives, TypeOK, tables, memory
<1>4. CASE OpenSession(r)
  <2> PICK s \in FreshSids :
        /\ used' = used \cup {s}
        /\ Stored(s)
        /\ sess' = [sess EXCEPT ![s] = [user |-> req[r].user, expires |-> now + Ttl]]
        /\ token' = [token EXCEPT ![s] = [user |-> req[r].user, role |-> req[r].role,
                                          ends |-> now + Ttl]]
    BY <1>4 DEF OpenSession
  <2>1. s \in Sids /\ now + Ttl \in Nat
    BY AccessTimes DEF FreshSids, TypeOK
  <2>2. req[r].user \in Users \cup {NoUser} /\ req[r].role \in Roles
    BY DEF TypeOK, Request
  <2>3. sess' \in [Sids -> Session]
    BY <2>1, <2>2 DEF TypeOK, Session
  <2>4. token' \in [Sids -> Token]
    BY <2>1, <2>2 DEF TypeOK, Token
  <2>5. used' \in SUBSET Sids
    BY <2>1 DEF TypeOK
  <2> QED
    BY <1>4, <2>1, <2>3, <2>4, <2>5, StoredType, EndsType
       DEF OpenSession, TypeOK, tables
<1>5. CASE LoginFails(r)
  BY <1>5, EndsType DEF LoginFails, TypeOK, tables, memory
<1>6. CASE GetSession(r)
  <2>1. req[r].sid \in Sids \cup {NoSid}
    BY DEF TypeOK, Request
  <2>2. req' \in [Reqs -> Request]
    BY <1>6, <2>1, EndsType, GotoType, GoDeleteType DEF GetSession, Pc
  <2> QED
    BY <1>6, <2>2 DEF GetSession, TypeOK, tables, memory
<1>7. CASE UpdateLastSeen(r)
  <2>1. now + Ttl \in Nat
    BY AccessTimes DEF TypeOK
  <2>2. \A x \in Session : [x EXCEPT !.expires = now + Ttl] \in Session
    BY <2>1 DEF Session
  <2>3. sess' \in [Sids -> Session]
    BY <1>7, <2>2 DEF UpdateLastSeen, TypeOK
  <2> QED
    BY <1>7, <2>3, GotoType DEF UpdateLastSeen, Pc, TypeOK, tables
<1>8. CASE GetAPIKeyByHash(r)
  <2>1. req' \in [Reqs -> Request]
    <3>1. CASE KeyIsGood(req[r].key)
      <4>1. req' = [req EXCEPT ![r].pc = "user", ![r].user = keys[req[r].key].owner]
        BY <1>8, <3>1 DEF GetAPIKeyByHash
      <4>2. req[r].key \in Keys
        BY <1>8 DEF GetAPIKeyByHash, Inv, DeadStaysDead, TypeOK
      <4>3. keys[req[r].key].owner \in Users \cup {NoUser}
        BY <4>2 DEF TypeOK, KeyRow
      <4>4. \A x \in Request, u \in Users \cup {NoUser} :
              [x EXCEPT !.pc = "user", !.user = u] \in Request
        BY DEF Request, Pc
      <4> QED
        BY <4>1, <4>3, <4>4 DEF TypeOK
    <3>2. CASE ~KeyIsGood(req[r].key)
      BY <1>8, <3>2, EndsType DEF GetAPIKeyByHash
    <3> QED
      BY <3>1, <3>2
  <2> QED
    BY <1>8, <2>1 DEF GetAPIKeyByHash, TypeOK, tables, memory
<1>9. CASE GetUserByID(r)
  <2>1. req' \in [Reqs -> Request]
    <3>1. CASE users[req[r].user] \in Roles
      <4>1. [req[r] EXCEPT !.pc = "run", !.role = users[req[r].user]] \in Request
        BY <3>1 DEF TypeOK, Request, Pc
      <4> QED
        BY <1>9, <3>1, <4>1 DEF GetUserByID, TypeOK
    <3>2. CASE users[req[r].user] \notin Roles
      BY <1>9, <3>2, EndsType DEF GetUserByID
    <3> QED
      BY <3>1, <3>2
  <2> QED
    BY <1>9, <2>1 DEF GetUserByID, TypeOK, tables, memory
<1> QED
  BY <1>1, <1>2, <1>3, <1>4, <1>5, <1>6, <1>7, <1>8, <1>9

\* Requests behind the middleware.
LEMMA HandlerType ==
  ASSUME TypeOK, NEW r \in Reqs,
         \/ OtherHandler(r) \/ Logout(r) \/ ForceRevokeSession(r) \/ DeleteSession(r)
         \/ CreateAPIKey(r) \/ RevokeAPIKey(r) \/ SetRevoked(r) \/ EraseKey(r)
         \/ UpdateUser(r) \/ WriteUser(r) \/ DeleteUser(r)
  PROVE  TypeOK'
<1>1. CASE OtherHandler(r)
  BY <1>1, EndsType DEF OtherHandler, TypeOK, tables, memory
<1>2. CASE Logout(r)
  <2>1. req' \in [Reqs -> Request]
    BY <1>2, GoDeleteType DEF Logout, TypeOK
  <2> QED
    BY <1>2, <2>1 DEF Logout, TypeOK, tables, memory
<1>3. CASE ForceRevokeSession(r)
  <2>1. req' \in [Reqs -> Request]
    BY <1>3, GoDeleteType DEF ForceRevokeSession, TypeOK
  <2> QED
    BY <1>3, <2>1 DEF ForceRevokeSession, TypeOK, tables, memory
<1>4. CASE DeleteSession(r)
  BY <1>4, EndsType DEF DeleteSession, TypeOK, tables
<1>5. CASE CreateAPIKey(r)
  <2> PICK k \in Keys \ issued, t \in {Forever} \cup {now + d : d \in KeyTimes} :
        /\ issued' = issued \cup {k}
        /\ keys' = [keys EXCEPT ![k] = [owner |-> req[r].user, until |-> t,
                                        revoked |-> FALSE]]
    BY <1>5 DEF CreateAPIKey
  <2>1. t \in {Forever} \cup Nat
    BY AccessTimes DEF TypeOK
  <2>2. req[r].user \in Users \cup {NoUser}
    BY DEF TypeOK, Request
  <2>3. keys' \in [Keys -> KeyRow]
    BY <2>1, <2>2 DEF TypeOK, KeyRow
  <2>4. issued' \in SUBSET Keys
    BY DEF TypeOK
  <2> QED
    BY <1>5, <2>3, <2>4, EndsType DEF CreateAPIKey, TypeOK, memory
<1>6. CASE RevokeAPIKey(r)
  <2> PICK k \in Keys, next \in {"revoke", "erase"} :
        req' = [req EXCEPT ![r].pc = next, ![r].onKey = k]
    BY <1>6 DEF RevokeAPIKey
  <2>1. [req[r] EXCEPT !.pc = next, !.onKey = k] \in Request
    BY DEF TypeOK, Request, Pc
  <2>2. req' \in [Reqs -> Request]
    BY <2>1 DEF TypeOK
  <2> QED
    BY <1>6, <2>2 DEF RevokeAPIKey, TypeOK, tables, memory
<1>7. CASE SetRevoked(r)
  <2>1. \A x \in KeyRow : [x EXCEPT !.revoked = TRUE] \in KeyRow
    BY DEF KeyRow
  <2>2. keys' \in [Keys -> KeyRow]
    BY <1>7, <2>1 DEF SetRevoked, TypeOK
  <2> QED
    BY <1>7, <2>2, EndsType DEF SetRevoked, TypeOK, memory
<1>8. CASE EraseKey(r)
  <2>1. keys' \in [Keys -> KeyRow]
    BY <1>8 DEF EraseKey, TypeOK, NoRow, KeyRow
  <2> QED
    BY <1>8, <2>1, EndsType DEF EraseKey, TypeOK, memory
<1>9. CASE UpdateUser(r)
  <2> PICK u \in Users, role \in Roles :
        req' = [req EXCEPT ![r].pc = "update", ![r].onUser = u, ![r].grant = role]
    BY <1>9 DEF UpdateUser
  <2>1. [req[r] EXCEPT !.pc = "update", !.onUser = u, !.grant = role] \in Request
    BY DEF TypeOK, Request, Pc
  <2>2. req' \in [Reqs -> Request]
    BY <2>1 DEF TypeOK
  <2> QED
    BY <1>9, <2>2 DEF UpdateUser, TypeOK, tables, memory
<1>10. CASE WriteUser(r)
  <2>1. req[r].grant \in Roles
    BY DEF TypeOK, Request
  <2>2. users' \in [Users -> Roles \cup {"gone"}]
    BY <1>10, <2>1 DEF WriteUser, TypeOK
  <2> QED
    BY <1>10, <2>2, EndsType DEF WriteUser, TypeOK, memory
<1>11. CASE DeleteUser(r)
  <2> PICK u \in Users :
        /\ users' = [users EXCEPT ![u] = "gone"]
        /\ keys' = [k \in Keys |-> IF keys[k].owner = u THEN NoRow ELSE keys[k]]
    BY <1>11 DEF DeleteUser
  <2>1. users' \in [Users -> Roles \cup {"gone"}]
    BY DEF TypeOK
  <2>2. keys' \in [Keys -> KeyRow]
    BY DEF TypeOK, NoRow, KeyRow
  <2> QED
    BY <1>11, <2>1, <2>2, EndsType DEF DeleteUser, TypeOK, memory
<1> QED
  BY <1>1, <1>2, <1>3, <1>4, <1>5, <1>6, <1>7, <1>8, <1>9, <1>10, <1>11

LEMMA CleanerType ==
  ASSUME TypeOK, CleanerStep
  PROVE  TypeOK'
<1>1. CASE CleanupTick
  BY <1>1 DEF CleanupTick, Cleaner, TypeOK, tables, memory
<1>2. ASSUME NEW s \in Sids, CleanupInspect(s)
      PROVE  TypeOK'
  <2>1. cleaner' \in Cleaner
    <3>1. CASE cleaner' = [cleaner EXCEPT !.pc = "delete", !.key = s]
      BY <3>1 DEF Cleaner, TypeOK
    <3>2. CASE cleaner' = [cleaner EXCEPT !.todo = @ \ {s}]
      BY <3>2 DEF Cleaner, TypeOK
    <3> QED
      BY <1>2, <3>1, <3>2 DEF CleanupInspect
  <2> QED
    BY <1>2, <2>1 DEF CleanupInspect, TypeOK, tables, memory
<1>3. CASE CleanupDelete
  BY <1>3 DEF CleanupDelete, Cleaner, TypeOK, tables
<1>4. CASE CleanupDone
  BY <1>4 DEF CleanupDone, CleanerWaiting, Cleaner, TypeOK, tables, memory
<1> QED
  BY <1>1, <1>2, <1>3, <1>4 DEF CleanerStep

LEMMA StepType ==
  ASSUME TypeOK, Inv, [Next]_vars
  PROVE  TypeOK'
<1>1. ASSUME NEW r \in Reqs,
             LoginAccepted(r) \/ TokenArrives(r) \/ KeyArrives(r) \/ RequestStep(r)
      PROVE  TypeOK'
  BY <1>1, GateType, HandlerType DEF RequestStep
<1>2. CASE CleanerStep
  BY <1>2, CleanerType
<1>3. CASE Tick
  BY <1>3 DEF Tick, TypeOK, tables, memory
<1>4. CASE Restart
  <2>1. req' \in [Reqs -> Request] /\ cleaner' \in Cleaner
    BY <1>4, NoRequestType DEF Restart, Cleaner, CleanerWaiting
  <2> QED
    BY <1>4, <2>1 DEF Restart, TypeOK, tables
<1>5. CASE UNCHANGED vars
  BY <1>5 DEF TypeOK, vars, tables, memory
<1> QED
  BY <1>1, <1>2, <1>3, <1>4, <1>5 DEF Next

-----------------------------------------------------------------------------
(* How the shared state may change.                                        *)

\* Only ids never drawn before enter the store; a key is inserted once, and
\* from then on it can only be revoked or lose its row; time does not run back.
Evolves ==
  /\ used \subseteq used' /\ issued \subseteq issued' /\ now <= now'
  /\ stored' \cap used \subseteq stored
  /\ \A k \in issued :
       \/ keys'[k] = keys[k]
       \/ keys'[k] = NoRow
       \/ HasRow(k) /\ keys'[k] = [keys[k] EXCEPT !.revoked = TRUE]

LEMMA RequestEvolves ==
  ASSUME TypeOK, NEW r \in Reqs,
         LoginAccepted(r) \/ TokenArrives(r) \/ KeyArrives(r) \/ RequestStep(r)
  PROVE  Evolves
<1> USE DEF Evolves
<1>0. now <= now
  BY DEF TypeOK
<1>1. CASE LoginAccepted(r) \/ TokenArrives(r) \/ KeyArrives(r)
  BY <1>0, <1>1 DEF LoginAccepted, TokenArrives, KeyArrives, tables, memory
<1>2. CASE OpenSession(r)
  BY <1>0, <1>2 DEF OpenSession, Stored, FreshSids, tables
<1>3. CASE LoginFails(r) \/ GetSession(r) \/ GetAPIKeyByHash(r) \/ GetUserByID(r)
  BY <1>0, <1>3 DEF LoginFails, GetSession, GetAPIKeyByHash, GetUserByID, tables, memory
<1>4. CASE UpdateLastSeen(r) \/ DeleteSession(r)
  BY <1>0, <1>4 DEF UpdateLastSeen, DeleteSession, tables
<1>5. CASE \/ OtherHandler(r) \/ Logout(r) \/ ForceRevokeSession(r)
           \/ RevokeAPIKey(r) \/ UpdateUser(r)
  BY <1>0, <1>5 DEF OtherHandler, Logout, ForceRevokeSession, RevokeAPIKey, UpdateUser,
                    tables, memory
<1>6. CASE CreateAPIKey(r)
  <2>1. \A k \in issued : keys'[k] = keys[k]
    BY <1>6 DEF CreateAPIKey, TypeOK
  <2> QED
    BY <1>0, <1>6, <2>1 DEF CreateAPIKey, memory
<1>7. CASE SetRevoked(r)
  <2>1. \A k \in issued :
          \/ keys'[k] = keys[k]
          \/ HasRow(k) /\ keys'[k] = [keys[k] EXCEPT !.revoked = TRUE]
    <3> DEFINE o == req[r].onKey
    <3>1. CASE HasRow(o)
      <4>1. keys' = [keys EXCEPT ![o] = [keys[o] EXCEPT !.revoked = TRUE]]
        BY <1>7, <3>1 DEF SetRevoked
      <4>2. \A k \in issued : k \in DOMAIN keys
        BY DEF TypeOK
      <4>3. \A k \in issued : k # o => keys'[k] = keys[k]
        BY <4>1, <4>2
      <4>4. o \in issued => keys'[o] = [keys[o] EXCEPT !.revoked = TRUE]
        BY <4>1, <4>2
      <4> QED
        BY <3>1, <4>3, <4>4 DEF HasRow
    <3>2. CASE ~HasRow(o)
      BY <1>7, <3>2 DEF SetRevoked, HasRow
    <3> QED
      BY <3>1, <3>2
  <2> QED
    BY <1>0, <1>7, <2>1 DEF SetRevoked, memory
<1>8. CASE EraseKey(r)
  <2>1. \A k \in issued : keys'[k] = keys[k] \/ keys'[k] = NoRow
    BY <1>8 DEF EraseKey, TypeOK
  <2> QED
    BY <1>0, <1>8, <2>1 DEF EraseKey, memory
<1>9. CASE WriteUser(r)
  BY <1>0, <1>9 DEF WriteUser, memory
<1>10. CASE DeleteUser(r)
  <2>1. \A k \in issued : keys'[k] = keys[k] \/ keys'[k] = NoRow
    BY <1>10 DEF DeleteUser, TypeOK
  <2> QED
    BY <1>0, <1>10, <2>1 DEF DeleteUser, memory
<1> QED
  BY <1>1, <1>2, <1>3, <1>4, <1>5, <1>6, <1>7, <1>8, <1>9, <1>10 DEF RequestStep

\* What does not concern a request leaves its part of the invariant alone.
RequestInv(r) ==
  /\ DeadStaysDead(r)
  /\ WriterWasTested(r)
  /\ Inside(r) => ~req[r].late

LEMMA InvByRequest ==
  Inv <=> /\ stored \subseteq used
          /\ \A k \in Keys \ issued : ~HasRow(k)
          /\ \A r \in Reqs : RequestInv(r)
          /\ AllIsSomebodys
          /\ KeysHaveOwners
BY DEF Inv, RequestInv, LoggedOutIsRefused, RevokedKeyIsRefused

LEMMA DeadKeysStayDead ==
  ASSUME TypeOK, Evolves, TypeOK', NEW k \in issued, ~KeyIsGood(k)
  PROVE  ~KeyIsGood(k)'
<1>1. k \in Keys /\ keys[k] \in KeyRow /\ now \in Nat /\ now' \in Nat /\ now <= now'
  BY DEF TypeOK, Evolves
<1>2. CASE keys'[k] = NoRow
  BY <1>2 DEF KeyIsGood, HasRow, NoRow
<1>3. CASE keys'[k] = [keys[k] EXCEPT !.revoked = TRUE]
  BY <1>1, <1>3 DEF KeyIsGood, KeyRow
<1>4. CASE keys'[k] = keys[k]
  <2>1. keys[k].until \in {Forever} \cup Nat
    BY <1>1 DEF KeyRow
  <2> QED
    BY <1>1, <1>4, <2>1, AccessNulls DEF KeyIsGood, HasRow
<1> QED
  BY <1>2, <1>3, <1>4 DEF Evolves

LEMMA OtherRequests ==
  ASSUME TypeOK, TypeOK', Evolves, NEW q \in Reqs, RequestInv(q), req'[q] = req[q]
  PROVE  RequestInv(q)'
<1>1. DeadStaysDead(q)'
  <2>1. req[q].pc = "get" => req[q].sid \in used'
    BY DEF RequestInv, DeadStaysDead, Evolves
  <2>2. req[q].pc = "get" /\ req[q].late => req[q].sid \notin stored'
    BY DEF RequestInv, DeadStaysDead, Evolves
  <2>3. req[q].pc = "hash" => req[q].key \in issued' /\ req[q].sid = NoSid
    BY DEF RequestInv, DeadStaysDead, Evolves
  <2>4. req[q].pc = "hash" /\ req[q].late => ~KeyIsGood(req[q].key)'
    BY DeadKeysStayDead DEF RequestInv, DeadStaysDead
  <2> QED
    BY <2>1, <2>2, <2>3, <2>4 DEF DeadStaysDead, KeyIsGood, HasRow
<1>2. WriterWasTested(q)'
  <2>1. ByToken(q)' = ByToken(q) /\ IsAdmin(q)' = IsAdmin(q)
    BY DEF ByToken, IsAdmin
  <2>2. ASSUME req[q].pc = "revoke"
        PROVE  /\ req[q].onKey \in issued'
               /\ ~IsAdmin(q) /\ keys'[req[q].onKey].owner # NoUser
                    => keys'[req[q].onKey].owner = req[q].user
    <3> DEFINE k == req[q].onKey
    <3>1. k \in issued
      BY <2>2 DEF RequestInv, WriterWasTested
    <3>2. keys'[k].owner \in {keys[k].owner, NoUser}
      <4>1. keys[k] \in KeyRow
        BY <3>1 DEF TypeOK
      <4>2. CASE keys'[k] = [keys[k] EXCEPT !.revoked = TRUE]
        BY <4>1, <4>2 DEF KeyRow
      <4> QED
        BY <3>1, <4>2 DEF Evolves, NoRow
    <3> QED
      BY <2>2, <3>1, <3>2 DEF RequestInv, WriterWasTested, HasRow, Evolves
  <2> QED
    BY <2>1, <2>2 DEF RequestInv, WriterWasTested, HasRow, ByToken, IsAdmin
<1>3. (Inside(q) => ~req[q].late)'
  BY DEF RequestInv, Inside
<1> QED
  BY <1>1, <1>2, <1>3 DEF RequestInv

-----------------------------------------------------------------------------
(* The inductive invariant.                                                *)

SharedInv ==
  /\ stored \subseteq used
  /\ \A k \in Keys \ issued : ~HasRow(k)
  /\ KeysHaveOwners

\* The tables and the store, over the steps of requests.
LEMMA RequestKeepsShared ==
  ASSUME TypeOK, Inv, NEW r \in Reqs,
         LoginAccepted(r) \/ TokenArrives(r) \/ KeyArrives(r) \/ RequestStep(r)
  PROVE  SharedInv'
<1> USE DEF SharedInv, Inv
<1>1. CASE UNCHANGED <<tables, used, stored>>
  BY <1>1 DEF tables, HasRow, KeysHaveOwners
<1>2. CASE OpenSession(r)
  BY <1>2 DEF OpenSession, Stored, tables, HasRow, KeysHaveOwners
<1>3. CASE DeleteSession(r)
  BY <1>3 DEF DeleteSession, tables, HasRow, KeysHaveOwners
<1>4. CASE CreateAPIKey(r)
  <2> PICK k \in Keys \ issued, t \in {Forever} \cup {now + d : d \in KeyTimes} :
        /\ issued' = issued \cup {k}
        /\ keys' = [keys EXCEPT ![k] = [owner |-> req[r].user, until |-> t,
                                        revoked |-> FALSE]]
    BY <1>4 DEF CreateAPIKey
  <2>1. users[req[r].user] # "gone" /\ UNCHANGED <<users, stored, used>>
    BY <1>4 DEF CreateAPIKey, memory
  <2>2. keys'[k].owner = req[r].user /\ \A j \in Keys : j # k => keys'[j] = keys[j]
    BY DEF TypeOK
  <2>3. KeysHaveOwners'
    BY <2>1, <2>2 DEF KeysHaveOwners, HasRow
  <2>4. \A j \in Keys \ issued' : ~HasRow(j)'
    BY <2>2 DEF HasRow
  <2> QED
    BY <2>1, <2>3, <2>4
<1>5. CASE SetRevoked(r)
  <2>1. \A j \in Keys : keys'[j].owner = keys[j].owner
    <3>1. \A x \in KeyRow : [x EXCEPT !.revoked = TRUE].owner = x.owner
      BY DEF KeyRow
    <3>2. CASE HasRow(req[r].onKey)
      BY <1>5, <3>1, <3>2 DEF SetRevoked, TypeOK
    <3>3. CASE ~HasRow(req[r].onKey)
      BY <1>5, <3>3 DEF SetRevoked
    <3> QED
      BY <3>2, <3>3
  <2> QED
    BY <1>5, <2>1 DEF SetRevoked, memory, HasRow, KeysHaveOwners
<1>6. CASE EraseKey(r)
  <2>1. \A j \in Keys : keys'[j] = keys[j] \/ keys'[j] = NoRow
    BY <1>6 DEF EraseKey, TypeOK
  <2>2. \A j \in Keys : HasRow(j)' => HasRow(j) /\ keys'[j] = keys[j]
    BY <2>1 DEF HasRow, NoRow
  <2> QED
    BY <1>6, <2>2 DEF EraseKey, memory, KeysHaveOwners, HasRow
<1>7. CASE WriteUser(r)
  <2>1. \A u \in Users : users[u] # "gone" => users'[u] # "gone"
    BY <1>7 DEF WriteUser, TypeOK, Request, Roles
  <2>2. \A j \in Keys : HasRow(j) => keys[j].owner \in Users
    BY DEF TypeOK, KeyRow, HasRow
  <2>3. UNCHANGED <<keys, issued, stored, used>>
    BY <1>7 DEF WriteUser, memory
  <2> QED
    BY <2>1, <2>2, <2>3 DEF KeysHaveOwners, HasRow
<1>8. CASE DeleteUser(r)
  <2> PICK u \in Users :
        /\ users' = [users EXCEPT ![u] = "gone"]
        /\ keys' = [k \in Keys |-> IF keys[k].owner = u THEN NoRow ELSE keys[k]]
    BY <1>8 DEF DeleteUser
  <2>1. \A j \in Keys : HasRow(j)' => keys[j].owner # u /\ HasRow(j) /\ keys'[j] = keys[j]
    BY DEF HasRow, NoRow
  <2>2. \A v \in Users : v # u => users'[v] = users[v]
    BY DEF TypeOK
  <2>3. \A j \in Keys : HasRow(j) => keys[j].owner \in Users
    BY DEF TypeOK, KeyRow, HasRow
  <2>4. KeysHaveOwners'
    BY <2>1, <2>2, <2>3 DEF KeysHaveOwners, HasRow
  <2> QED
    BY <1>8, <2>1, <2>4 DEF DeleteUser, memory, HasRow
<1> QED
  BY <1>1, <1>2, <1>3, <1>4, <1>5, <1>6, <1>7, <1>8
     DEF RequestStep, LoginAccepted, TokenArrives, KeyArrives, LoginFails, GetSession,
         UpdateLastSeen, GetAPIKeyByHash, GetUserByID, OtherHandler, Logout,
         ForceRevokeSession, RevokeAPIKey, UpdateUser, tables, memory

LEMMA EndedRequest ==
  ASSUME NEW r \in Reqs, req'[r].pc \in {"idle", "login", "delete"}
  PROVE  RequestInv(r)'
BY DEF RequestInv, DeadStaysDead, WriterWasTested, Inside

\* The request that makes the step.
LEMMA RequestKeepsItsInv ==
  ASSUME TypeOK, Inv, NEW r \in Reqs,
         LoginAccepted(r) \/ TokenArrives(r) \/ KeyArrives(r) \/ RequestStep(r)
  PROVE  RequestInv(r)'
<1>0. RequestInv(r) /\ req \in [Reqs -> Request] /\ req[r] \in Request
  BY InvByRequest DEF TypeOK
<1>1. CASE Ends(r)
  BY <1>0, <1>1, EndedRequest DEF Ends, NoRequest
<1>2. CASE LoginAccepted(r)
  BY <1>0, <1>2, EndedRequest DEF LoginAccepted, NoRequest
<1>3. CASE \E s \in Sids : GoDelete(r, s)
  <2> PICK s \in Sids : GoDelete(r, s)
    BY <1>3
  <2>1. req'[r].pc = "delete"
    BY <1>0 DEF GoDelete, Request
  <2> QED
    BY <2>1, EndedRequest
<1>4. CASE TokenArrives(r)
  <2> PICK s \in used :
        req' = [req EXCEPT ![r] = [NoRequest EXCEPT
                  !.pc = "get", !.sid = s, !.late = s \notin stored,
                  !.user = token[s].user, !.role = token[s].role]]
    BY <1>4 DEF TokenArrives
  <2>1. /\ req'[r].pc = "get"
        /\ req'[r].sid = s
        /\ req'[r].late <=> s \notin stored
    BY <1>0 DEF NoRequest
  <2>2. UNCHANGED <<used, stored>>
    BY <1>4 DEF TokenArrives, memory
  <2> QED
    BY <2>1, <2>2 DEF RequestInv, DeadStaysDead, WriterWasTested, Inside
<1>5. CASE GetSession(r) /\ Goto(r, "touch")
  <2>1. req[r].pc = "get" /\ req[r].sid \in stored
    BY <1>0, <1>5 DEF GetSession, Ends, GoDelete, Goto, Request, NoRequest
  <2>2. ~req[r].late
    BY <1>0, <2>1 DEF RequestInv, DeadStaysDead
  <2>3. req'[r].pc = "touch" /\ req'[r].late = req[r].late
    BY <1>0, <1>5 DEF Goto, Request
  <2> QED
    BY <2>2, <2>3 DEF RequestInv, DeadStaysDead, WriterWasTested, Inside
<1>6. CASE UpdateLastSeen(r)
  <2>1. req'[r].pc = "run" /\ req'[r].late = req[r].late /\ Inside(r)
    BY <1>0, <1>6 DEF UpdateLastSeen, Goto, Request, Inside
  <2> QED
    BY <1>0, <2>1 DEF RequestInv, DeadStaysDead, WriterWasTested, Inside
<1>7. CASE KeyArrives(r)
  <2> PICK k \in issued :
        req' = [req EXCEPT ![r] = [NoRequest EXCEPT !.pc = "hash", !.key = k,
                                                    !.late = ~KeyIsGood(k)]]
    BY <1>7 DEF KeyArrives
  <2>1. /\ req'[r].pc = "hash"
        /\ req'[r].key = k
        /\ req'[r].sid = NoSid
        /\ req'[r].late <=> ~KeyIsGood(k)
    BY <1>0 DEF NoRequest
  <2>2. UNCHANGED <<now, issued, keys>>
    BY <1>7 DEF KeyArrives, tables
  <2>3. KeyIsGood(k)' <=> KeyIsGood(k)
    BY <2>2 DEF KeyIsGood, HasRow
  <2> QED
    BY <2>1, <2>2, <2>3 DEF RequestInv, DeadStaysDead, WriterWasTested, Inside
<1>8. CASE GetAPIKeyByHash(r) /\ KeyIsGood(req[r].key)
  <2>1. req'[r].pc = "user" /\ req'[r].late = req[r].late
    BY <1>0, <1>8 DEF GetAPIKeyByHash, Request
  <2>2. ~req[r].late
    BY <1>0, <1>8 DEF GetAPIKeyByHash, RequestInv, DeadStaysDead
  <2> QED
    BY <2>1, <2>2 DEF RequestInv, DeadStaysDead, WriterWasTested, Inside
<1>9. CASE GetUserByID(r) /\ users[req[r].user] \in Roles
  <2>1. req'[r].pc = "run" /\ req'[r].late = req[r].late /\ Inside(r)
    BY <1>0, <1>9 DEF GetUserByID, Request, Inside
  <2> QED
    BY <1>0, <2>1 DEF RequestInv, DeadStaysDead, WriterWasTested, Inside
<1>10. CASE RevokeAPIKey(r)
  <2> PICK k \in Keys :
        /\ HasRow(k)
        /\ keys[k].owner = req[r].user \/ IsAdmin(r)
        /\ \E next \in {"revoke"} \cup (IF IsAdmin(r) THEN {"erase"} ELSE {}) :
             req' = [req EXCEPT ![r].pc = next, ![r].onKey = k]
    BY <1>10 DEF RevokeAPIKey
  <2> PICK next \in {"revoke"} \cup (IF IsAdmin(r) THEN {"erase"} ELSE {}) :
        req' = [req EXCEPT ![r].pc = next, ![r].onKey = k]
    OBVIOUS
  <2>1. /\ req'[r].pc = next /\ req'[r].onKey = k /\ req'[r].sid = req[r].sid
        /\ req'[r].late = req[r].late /\ req'[r].user = req[r].user
        /\ req'[r].role = req[r].role
    BY <1>0 DEF Request
  <2>2. ByToken(r) /\ Inside(r) /\ UNCHANGED <<keys, issued>>
    BY <1>10 DEF RevokeAPIKey, Inside, tables
  <2>3. k \in issued
    BY DEF Inv
  <2>4. next = "revoke" \/ (next = "erase" /\ IsAdmin(r))
    OBVIOUS
  <2>5. ~req[r].late
    BY <1>0, <2>2 DEF RequestInv
  <2> QED
    BY <2>1, <2>2, <2>3, <2>4, <2>5
       DEF RequestInv, DeadStaysDead, WriterWasTested, Inside, ByToken, IsAdmin, HasRow
<1>11. CASE UpdateUser(r)
  <2> PICK u \in Users, role \in Roles :
        req' = [req EXCEPT ![r].pc = "update", ![r].onUser = u, ![r].grant = role]
    BY <1>11 DEF UpdateUser
  <2>1. req'[r].pc = "update" /\ req'[r].late = req[r].late /\ Inside(r)
    BY <1>0, <1>11 DEF UpdateUser, Request, Inside
  <2> QED
    BY <1>0, <2>1 DEF RequestInv, DeadStaysDead, WriterWasTested, Inside
<1>12. CASE GetSession(r)
  <2>1. Ends(r) \/ Goto(r, "touch") \/ (req[r].sid \in Sids /\ GoDelete(r, req[r].sid))
    BY <1>12 DEF GetSession, TypeOK
  <2> QED
    BY <1>1, <1>3, <1>5, <1>12, <2>1
<1>13. CASE Logout(r) \/ ForceRevokeSession(r)
  BY <1>3, <1>13 DEF Logout, ForceRevokeSession, TypeOK
<1>14. CASE GetAPIKeyByHash(r)
  BY <1>1, <1>8, <1>14 DEF GetAPIKeyByHash
<1>15. CASE GetUserByID(r)
  BY <1>1, <1>9, <1>15 DEF GetUserByID
<1>16. CASE \/ OpenSession(r) \/ LoginFails(r) \/ OtherHandler(r) \/ DeleteSession(r)
            \/ CreateAPIKey(r) \/ SetRevoked(r) \/ EraseKey(r) \/ WriteUser(r)
            \/ DeleteUser(r)
  BY <1>1, <1>16 DEF OpenSession, LoginFails, OtherHandler, DeleteSession, CreateAPIKey,
                     SetRevoked, EraseKey, WriteUser, DeleteUser
<1> QED
  BY <1>2, <1>4, <1>6, <1>7, <1>10, <1>11, <1>12, <1>13, <1>14, <1>15, <1>16
     DEF RequestStep

\* The tokens that were handed out stay as they are, and each is somebody's.
LEMMA TokensStay ==
  ASSUME TypeOK, Inv, NEW r \in Reqs,
         LoginAccepted(r) \/ TokenArrives(r) \/ KeyArrives(r) \/ RequestStep(r)
  PROVE  /\ \A s \in used : token'[s] = token[s]
         /\ \A s \in used' : token'[s].user \in Users
<1>0. \A s \in used : token[s].user \in Users
  BY DEF Inv, AllIsSomebodys
<1>1. CASE OpenSession(r)
  <2> PICK s \in FreshSids :
        /\ used' = used \cup {s}
        /\ token' = [token EXCEPT ![s] = [user |-> req[r].user, role |-> req[r].role,
                                          ends |-> now + Ttl]]
    BY <1>1 DEF OpenSession
  <2>1. req[r].user \in Users
    BY <1>1 DEF OpenSession, Inv, AllIsSomebodys, RequestIsSomebodys
  <2> QED
    BY <1>0, <2>1 DEF FreshSids, TypeOK
<1>2. CASE UNCHANGED <<used, token>>
  BY <1>0, <1>2
<1> QED
  BY <1>1, <1>2
     DEF RequestStep, LoginAccepted, TokenArrives, KeyArrives, LoginFails, GetSession,
         UpdateLastSeen, GetAPIKeyByHash, GetUserByID, OtherHandler, Logout,
         ForceRevokeSession, DeleteSession, CreateAPIKey, RevokeAPIKey, SetRevoked,
         EraseKey, UpdateUser, WriteUser, DeleteUser, memory

LEMMA UnnamedRequest ==
  ASSUME NEW r \in Reqs, req'[r].pc \in {"idle", "hash"}
  PROVE  RequestIsSomebodys(r)'
BY DEF RequestIsSomebodys

LEMMA SameSomebody ==
  ASSUME NEW r \in Reqs, req[r].pc \notin {"idle", "hash"}, RequestIsSomebodys(r),
         req'[r].user = req[r].user,
         req'[r].pc \in {"login", "touch", "run", "delete"}
  PROVE  RequestIsSomebodys(r)'
BY DEF RequestIsSomebodys

\* The request that makes the step.
LEMMA RequestKeepsItsBody ==
  ASSUME TypeOK, Inv, NEW r \in Reqs,
         LoginAccepted(r) \/ TokenArrives(r) \/ KeyArrives(r) \/ RequestStep(r)
  PROVE  RequestIsSomebodys(r)'
<1>0. RequestIsSomebodys(r) /\ req \in [Reqs -> Request] /\ req[r] \in Request
  BY DEF Inv, AllIsSomebodys, TypeOK
<1>1. CASE Ends(r)
  BY <1>0, <1>1, UnnamedRequest DEF Ends, NoRequest
<1>2. CASE LoginAccepted(r)
  <2> PICK u \in Users :
        req' = [req EXCEPT ![r] = [NoRequest EXCEPT !.pc = "login", !.user = u,
                                                    !.role = users[u]]]
    BY <1>2 DEF LoginAccepted
  <2>1. req'[r].pc = "login" /\ req'[r].user = u
    BY <1>0 DEF NoRequest
  <2> QED
    BY <2>1 DEF RequestIsSomebodys
<1>3. CASE TokenArrives(r)
  <2> PICK s \in used :
        req' = [req EXCEPT ![r] = [NoRequest EXCEPT
                  !.pc = "get", !.sid = s, !.late = s \notin stored,
                  !.user = token[s].user, !.role = token[s].role]]
    BY <1>3 DEF TokenArrives
  <2>1. /\ req'[r].pc = "get" /\ req'[r].sid = s
        /\ req'[r].user = token[s].user /\ req'[r].role = token[s].role
    BY <1>0 DEF NoRequest
  <2>2. token' = token /\ token[s].user \in Users
    BY <1>3 DEF TokenArrives, memory, Inv, AllIsSomebodys
  <2> QED
    BY <2>1, <2>2 DEF RequestIsSomebodys
<1>4. CASE KeyArrives(r)
  <2>1. req'[r].pc = "hash"
    BY <1>0, <1>4 DEF KeyArrives, NoRequest
  <2> QED
    BY <2>1, UnnamedRequest
<1>5. CASE /\ req[r].pc \in {"get", "run", "touch"}
           /\ \/ \E s \in Sids : GoDelete(r, s)
              \/ Goto(r, "touch")
              \/ Goto(r, "run")
  <2>1. req'[r].user = req[r].user /\ req'[r].pc \in {"touch", "run", "delete"}
    BY <1>0, <1>5 DEF GoDelete, Goto, Request
  <2> QED
    BY <1>0, <1>5, <2>1, SameSomebody
<1>6. CASE GetSession(r)
  <2>1. Ends(r) \/ Goto(r, "touch") \/ (req[r].sid \in Sids /\ GoDelete(r, req[r].sid))
    BY <1>6 DEF GetSession, TypeOK
  <2> QED
    BY <1>1, <1>5, <1>6, <2>1 DEF GetSession
<1>7. CASE UpdateLastSeen(r) \/ Logout(r) \/ ForceRevokeSession(r)
  BY <1>5, <1>7 DEF UpdateLastSeen, Logout, ForceRevokeSession, TypeOK
<1>8. CASE GetAPIKeyByHash(r) /\ KeyIsGood(req[r].key)
  <2>1. req[r].key \in Keys /\ req[r].sid = NoSid
    BY <1>8 DEF GetAPIKeyByHash, Inv, DeadStaysDead, TypeOK
  <2>2. keys[req[r].key].owner \in Users
    BY <1>8, <2>1 DEF KeyIsGood, HasRow, TypeOK, KeyRow
  <2>3. /\ req'[r].pc = "user" /\ req'[r].user = keys[req[r].key].owner
        /\ req'[r].sid = NoSid
    BY <1>0, <1>8, <2>1 DEF GetAPIKeyByHash, Request
  <2> QED
    BY <2>2, <2>3 DEF RequestIsSomebodys, ByToken
<1>9. CASE GetUserByID(r) /\ users[req[r].user] \in Roles
  <2>1. req'[r].pc = "run" /\ req'[r].user = req[r].user /\ req[r].pc = "user"
    BY <1>0, <1>9 DEF GetUserByID, Request
  <2> QED
    BY <1>0, <2>1, SameSomebody
<1>10. CASE RevokeAPIKey(r)
  <2> PICK k \in Keys, next \in {"revoke", "erase"} :
        req' = [req EXCEPT ![r].pc = next, ![r].onKey = k]
    BY <1>10 DEF RevokeAPIKey
  <2>1. req'[r].pc = next /\ req'[r].onKey = k /\ req'[r].user = req[r].user
    BY <1>0 DEF Request
  <2> QED
    BY <1>0, <1>10, <2>1 DEF RevokeAPIKey, RequestIsSomebodys
<1>11. CASE UpdateUser(r)
  <2> PICK u \in Users, role \in Roles :
        req' = [req EXCEPT ![r].pc = "update", ![r].onUser = u, ![r].grant = role]
    BY <1>11 DEF UpdateUser
  <2>1. req'[r].pc = "update" /\ req'[r].onUser = u /\ req'[r].user = req[r].user
    BY <1>0 DEF Request
  <2> QED
    BY <1>0, <1>11, <2>1 DEF UpdateUser, RequestIsSomebodys
<1>12. CASE GetAPIKeyByHash(r) \/ GetUserByID(r)
  BY <1>1, <1>8, <1>9, <1>12 DEF GetAPIKeyByHash, GetUserByID
<1>13. CASE \/ OpenSession(r) \/ LoginFails(r) \/ OtherHandler(r) \/ DeleteSession(r)
            \/ CreateAPIKey(r) \/ SetRevoked(r) \/ EraseKey(r) \/ WriteUser(r)
            \/ DeleteUser(r)
  BY <1>1, <1>13 DEF OpenSession, LoginFails, OtherHandler, DeleteSession, CreateAPIKey,
                     SetRevoked, EraseKey, WriteUser, DeleteUser
<1> QED
  BY <1>2, <1>3, <1>4, <1>6, <1>7, <1>10, <1>11, <1>12, <1>13 DEF RequestStep

\* A step of a request leaves the other requests as they are.
LEMMA RequestMovesAlone ==
  ASSUME TypeOK, NEW r \in Reqs, NEW q \in Reqs \ {r},
         LoginAccepted(r) \/ TokenArrives(r) \/ KeyArrives(r) \/ RequestStep(r)
  PROVE  req'[q] = req[q]
<1>1. CASE Ends(r) \/ (\E p \in Pc : Goto(r, p)) \/ (\E s : GoDelete(r, s))
  BY <1>1 DEF Ends, Goto, GoDelete, TypeOK
<1>2. CASE LoginAccepted(r) \/ TokenArrives(r) \/ KeyArrives(r)
  BY <1>2 DEF LoginAccepted, TokenArrives, KeyArrives, TypeOK
<1>3. CASE GetAPIKeyByHash(r) \/ GetUserByID(r) \/ RevokeAPIKey(r) \/ UpdateUser(r)
  BY <1>3, <1>1 DEF GetAPIKeyByHash, GetUserByID, RevokeAPIKey, UpdateUser, TypeOK
<1>4. CASE \/ OpenSession(r) \/ LoginFails(r) \/ GetSession(r) \/ UpdateLastSeen(r)
          \/ OtherHandler(r) \/ Logout(r) \/ ForceRevokeSession(r) \/ DeleteSession(r)
          \/ CreateAPIKey(r) \/ SetRevoked(r) \/ EraseKey(r) \/ WriteUser(r)
          \/ DeleteUser(r)
  BY <1>1, <1>4
     DEF OpenSession, LoginFails, GetSession, UpdateLastSeen, OtherHandler, Logout,
         ForceRevokeSession, DeleteSession, CreateAPIKey, SetRevoked, EraseKey, WriteUser,
         DeleteUser, Pc
<1> QED
  BY <1>2, <1>3, <1>4 DEF RequestStep

LEMMA RequestStaysSomebodys ==
  ASSUME TypeOK, Inv, NEW r \in Reqs,
         LoginAccepted(r) \/ TokenArrives(r) \/ KeyArrives(r) \/ RequestStep(r)
  PROVE  AllIsSomebodys'
<1>1. RequestIsSomebodys(r)'
  BY RequestKeepsItsBody
<1>2. ASSUME NEW q \in Reqs \ {r}
      PROVE  RequestIsSomebodys(q)'
  <2>1. req'[q] = req[q]
    BY RequestMovesAlone
  <2>2. req[q].pc = "get" => token'[req[q].sid] = token[req[q].sid]
    BY TokensStay DEF Inv, DeadStaysDead
  <2> QED
    BY <2>1, <2>2 DEF Inv, AllIsSomebodys, RequestIsSomebodys, ByToken
<1>3. \A s \in used' : token'[s].user \in Users
  BY TokensStay
<1> QED
  BY <1>1, <1>2, <1>3 DEF AllIsSomebodys

LEMMA InitInv == Init => Inv
BY DEF Init, Inv, NoRow, HasRow, NoRequest, DeadStaysDead, WriterWasTested, Inside,
       LoggedOutIsRefused, RevokedKeyIsRefused, KeysHaveOwners, AllIsSomebodys,
       RequestIsSomebodys

LEMMA StepInv ==
  ASSUME TypeOK, Inv, [Next]_vars
  PROVE  Inv'
<1>1. TypeOK'
  BY StepType
<1>2. \A q \in Reqs : RequestInv(q)
  BY InvByRequest
<1>3. ASSUME NEW r \in Reqs,
             LoginAccepted(r) \/ TokenArrives(r) \/ KeyArrives(r) \/ RequestStep(r)
      PROVE  Inv'
  <2>1. Evolves
    BY <1>3, RequestEvolves
  <2>2. ASSUME NEW q \in Reqs PROVE RequestInv(q)'
    <3>1. CASE q = r
      BY <1>3, <3>1, RequestKeepsItsInv
    <3>2. CASE q # r
      BY <1>1, <1>2, <1>3, <2>1, <3>2, RequestMovesAlone, OtherRequests
    <3> QED
      BY <3>1, <3>2
  <2>3. SharedInv'
    BY <1>3, RequestKeepsShared
  <2>4. AllIsSomebodys'
    BY <1>3, RequestStaysSomebodys
  <2> QED
    BY <2>2, <2>3, <2>4
       DEF SharedInv, Inv, RequestInv, LoggedOutIsRefused, RevokedKeyIsRefused
<1>4. ASSUME UNCHANGED <<tables, used, token, req>>, stored' \subseteq stored, now <= now'
      PROVE  Inv'
  <2>1. Evolves
    BY <1>4 DEF Evolves, tables
  <2>2. \A q \in Reqs : RequestInv(q)'
    BY <1>1, <1>2, <1>4, <2>1, OtherRequests
  <2>3. SharedInv'
    BY <1>4 DEF SharedInv, Inv, KeysHaveOwners, HasRow, tables
  <2>4. AllIsSomebodys'
    BY <1>4 DEF Inv, AllIsSomebodys, RequestIsSomebodys, ByToken
  <2> QED
    BY <2>2, <2>3, <2>4
       DEF SharedInv, Inv, RequestInv, LoggedOutIsRefused, RevokedKeyIsRefused
<1>5. CASE CleanerStep
  <2>1. now <= now
    BY DEF TypeOK
  <2> QED
    BY <1>4, <1>5, <2>1
       DEF CleanerStep, CleanupTick, CleanupInspect, CleanupDelete, CleanupDone,
           tables, memory
<1>6. CASE Tick
  <2>1. now <= now'
    BY <1>6 DEF Tick, TypeOK
  <2> QED
    BY <1>4, <1>6, <2>1 DEF Tick, memory, tables
<1>7. CASE Restart
  <2>1. \A q \in Reqs : RequestInv(q)'
    BY <1>7, EndedRequest DEF Restart, NoRequest
  <2>2. SharedInv'
    BY <1>7 DEF Restart, SharedInv, Inv, KeysHaveOwners, HasRow, tables
  <2>3. AllIsSomebodys'
    BY <1>7 DEF Restart, NoRequest, Inv, AllIsSomebodys, RequestIsSomebodys
  <2> QED
    BY <2>1, <2>2, <2>3
       DEF SharedInv, Inv, RequestInv, LoggedOutIsRefused, RevokedKeyIsRefused
<1>8. CASE UNCHANGED vars
  <2>1. now <= now
    BY DEF TypeOK
  <2> QED
    BY <1>4, <1>8, <2>1 DEF vars, memory, tables
<1> QED
  BY <1>3, <1>5, <1>6, <1>7, <1>8 DEF Next

-----------------------------------------------------------------------------
(* Theorems.                                                               *)

\* Every variable keeps its type, and the inductive invariant holds.
THEOREM AccessInvariant == Spec => [](TypeOK /\ Inv)
<1>1. Init => TypeOK /\ Inv
  BY InitType, InitInv
<1>2. TypeOK /\ Inv /\ [Next]_vars => (TypeOK /\ Inv)'
  BY StepType, StepInv
<1> QED
  BY <1>1, <1>2, PTL DEF Spec

\* Logging out and revoking a session take effect for every later request.
THEOREM LoggedOutStaysOut == Spec => []LoggedOutIsRefused
<1>1. Inv => LoggedOutIsRefused
  BY DEF Inv
<1> QED
  BY <1>1, AccessInvariant, PTL

\* Revoking, deleting and running out end an API key for every later request.
THEOREM RevokedStaysOut == Spec => []RevokedKeyIsRefused
<1>1. Inv => RevokedKeyIsRefused
  BY DEF Inv
<1> QED
  BY <1>1, AccessInvariant, PTL

\* No API key outlives its owner.
THEOREM KeysAreOwned == Spec => []KeysHaveOwners
<1>1. Inv => KeysHaveOwners
  BY DEF Inv
<1> QED
  BY <1>1, AccessInvariant, PTL

\* Only owners and administrators, and only with a session, change keys.
THEOREM OnlyPeopleChangeKeys == Spec => PeopleChangeKeys
<1> DEFINE Changed ==
      \A k \in Keys : keys'[k] # keys[k] =>
        \/ users' # users
        \/ \E r \in Reqs :
             /\ req'[r] # req[r]
             /\ ByToken(r)
             /\ IsAdmin(r) \/ req[r].user \in {keys[k].owner, keys'[k].owner}
<1>1. ASSUME TypeOK, Inv, [Next]_vars
      PROVE  [Changed]_vars
  <2>1. CASE UNCHANGED keys
    BY <2>1
  <2>2. ASSUME NEW r \in Reqs, Ends(r), req[r].pc # "idle"
        PROVE  req'[r] # req[r]
    BY <1>1, <2>2 DEF Ends, NoRequest, TypeOK
  <2>3. ASSUME NEW r \in Reqs, CreateAPIKey(r)
        PROVE  Changed
    <3> PICK j \in Keys \ issued, t \in {Forever} \cup {now + d : d \in KeyTimes} :
          keys' = [keys EXCEPT ![j] = [owner |-> req[r].user, until |-> t,
                                       revoked |-> FALSE]]
      BY <2>3 DEF CreateAPIKey
    <3>1. \A k \in Keys : keys'[k] # keys[k] => keys'[k].owner = req[r].user
      BY <1>1 DEF TypeOK
    <3>2. ByToken(r) /\ req'[r] # req[r]
      BY <2>2, <2>3 DEF CreateAPIKey
    <3> QED
      BY <3>1, <3>2
  <2>4. ASSUME NEW r \in Reqs, SetRevoked(r)
        PROVE  Changed
    <3>1. \A k \in Keys : keys'[k] # keys[k] => k = req[r].onKey /\ HasRow(k)
      BY <1>1, <2>4 DEF SetRevoked, TypeOK, HasRow
    <3>2. req'[r] # req[r] /\ req[r].pc = "revoke"
      BY <2>2, <2>4 DEF SetRevoked
    <3>3. ByToken(r) /\ (IsAdmin(r) \/ (HasRow(req[r].onKey) =>
                                          keys[req[r].onKey].owner = req[r].user))
      BY <1>1, <3>2 DEF Inv, WriterWasTested
    <3> QED
      BY <3>1, <3>2, <3>3
  <2>5. ASSUME NEW r \in Reqs, EraseKey(r)
        PROVE  Changed
    <3>1. req'[r] # req[r] /\ ByToken(r) /\ IsAdmin(r)
      BY <1>1, <2>2, <2>5 DEF EraseKey, Inv, WriterWasTested
    <3> QED
      BY <3>1
  <2>6. ASSUME NEW r \in Reqs, DeleteUser(r)
        PROVE  Changed
    <3>1. users' # users
      BY <1>1, <2>6 DEF DeleteUser, TypeOK
    <3> QED
      BY <3>1
  <2> QED
    BY <1>1, <2>1, <2>3, <2>4, <2>5, <2>6
       DEF Next, RequestStep, LoginAccepted, TokenArrives, KeyArrives, OpenSession,
           LoginFails, GetSession, UpdateLastSeen, GetAPIKeyByHash, GetUserByID,
           OtherHandler, Logout, ForceRevokeSession, DeleteSession, RevokeAPIKey,
           UpdateUser, WriteUser, CleanerStep, CleanupTick, CleanupInspect,
           CleanupDelete, CleanupDone, Tick, Restart, tables, vars
<1> QED
  BY <1>1, AccessInvariant, PTL DEF Spec, PeopleChangeKeys

-----------------------------------------------------------------------------
(* Access implements CredentialLedger.                                     *)

LEMMA LedgerInit == Init => Ledger!Init
BY DEF Init, NoRequest, NoRow, KeyIsGood, HasRow, LedgerBearer, LedgerRight, LedgerGuest,
       Ledger!Init, Ledger!Roles, Roles, Ledger!Nobody, Ledger!NoRight, Ledger!Outside

\* Who a request is to the ledger, by where it is.
LEMMA GuestByPc ==
  ASSUME NEW r \in Reqs
  PROVE  /\ req[r].pc \in {"idle", "get", "hash", "delete"} =>
              LedgerGuest[r] = Ledger!Outside
         /\ req[r].pc = "login" =>
              LedgerGuest[r] = Ledger!As("login", req[r].user, req[r].role)
         /\ req[r].pc = "user" =>
              LedgerGuest[r] = Ledger!As("owner", req[r].user, "user")
         /\ req[r].pc \in {"touch", "run", "revoke", "erase", "update"} =>
              LedgerGuest[r] = Ledger!As(IF ByToken(r) THEN "session" ELSE "key",
                                         req[r].user, req[r].role)
BY DEF LedgerGuest, Ledger!Outside, Ledger!As

LEMMA GuestByPcNext ==
  ASSUME NEW r \in Reqs
  PROVE  /\ req'[r].pc \in {"idle", "get", "hash", "delete"} =>
              LedgerGuest'[r] = Ledger!Outside
         /\ req'[r].pc = "login" =>
              LedgerGuest'[r] = Ledger!As("login", req'[r].user, req'[r].role)
         /\ req'[r].pc = "user" =>
              LedgerGuest'[r] = Ledger!As("owner", req'[r].user, "user")
         /\ req'[r].pc \in {"touch", "run", "revoke", "erase", "update"} =>
              LedgerGuest'[r] = Ledger!As(IF req'[r].sid # NoSid THEN "session" ELSE "key",
                                          req'[r].user, req'[r].role)
BY DEF LedgerGuest, Ledger!Outside, Ledger!As, ByToken

LEMMA GuestMovesAlone ==
  ASSUME NEW r \in Reqs, \A q \in Reqs \ {r} : req'[q] = req[q]
  PROVE  LedgerGuest' = [LedgerGuest EXCEPT ![r] = LedgerGuest'[r]]
<1>1. \A q \in Reqs \ {r} : LedgerGuest'[q] = LedgerGuest[q]
  BY DEF LedgerGuest, ByToken
<1>2. LedgerGuest = [q \in Reqs |-> LedgerGuest[q]]
      /\ LedgerGuest' = [q \in Reqs |-> LedgerGuest'[q]]
  BY DEF LedgerGuest
<1> QED
  BY <1>1, <1>2

LEMMA GuestLeaves ==
  ASSUME TypeOK, NEW r \in Reqs, Ends(r)
  PROVE  LedgerGuest' = [LedgerGuest EXCEPT ![r] = Ledger!Outside]
<1>1. req'[r].pc = "idle" /\ \A q \in Reqs \ {r} : req'[q] = req[q]
  BY DEF Ends, NoRequest, TypeOK
<1> QED
  BY <1>1, GuestMovesAlone, GuestByPcNext

\* A request that was outside and still is.
LEMMA GuestStaysOut ==
  ASSUME NEW r \in Reqs, \A q \in Reqs \ {r} : req'[q] = req[q],
         req[r].pc \in {"idle", "get", "hash", "delete"},
         req'[r].pc \in {"idle", "get", "hash", "delete"}
  PROVE  LedgerGuest' = LedgerGuest
<1>1. LedgerGuest'[r] = LedgerGuest[r]
  BY GuestByPc, GuestByPcNext
<1>2. LedgerGuest = [q \in Reqs |-> LedgerGuest[q]]
  BY DEF LedgerGuest
<1> QED
  BY <1>1, <1>2, GuestMovesAlone

\* A request that was let in and goes on as the same person.
LEMMA GuestStaysIn ==
  ASSUME NEW r \in Reqs, \A q \in Reqs \ {r} : req'[q] = req[q],
         req[r].pc \in {"touch", "run"},
         req'[r].pc \in {"touch", "run", "revoke", "erase", "update"},
         req'[r].sid = req[r].sid, req'[r].user = req[r].user, req'[r].role = req[r].role
  PROVE  LedgerGuest' = LedgerGuest
<1>1. LedgerGuest'[r] = LedgerGuest[r]
  BY GuestByPc, GuestByPcNext DEF ByToken
<1>2. LedgerGuest = [q \in Reqs |-> LedgerGuest[q]]
  BY DEF LedgerGuest
<1> QED
  BY <1>1, <1>2, GuestMovesAlone

LEMMA BearersStay ==
  ASSUME stored' = stored, \A s \in stored : token'[s] = token[s]
  PROVE  LedgerBearer' = LedgerBearer
BY DEF LedgerBearer

LEMMA RightsStay ==
  ASSUME UNCHANGED <<now, keys>>
  PROVE  LedgerRight' = LedgerRight
BY DEF LedgerRight, KeyIsGood, HasRow

\* What requests outside the handlers are to the ledger.
LEMMA GateIsLedger ==
  ASSUME TypeOK, Inv, TypeOK', NEW r \in Reqs,
         \/ LoginAccepted(r) \/ TokenArrives(r) \/ KeyArrives(r)
         \/ OpenSession(r) \/ LoginFails(r) \/ GetSession(r) \/ UpdateLastSeen(r)
         \/ GetAPIKeyByHash(r) \/ GetUserByID(r)
  PROVE  [Ledger!Next]_(Ledger!vars)
<1>0. /\ req \in [Reqs -> Request] /\ req[r] \in Request
      /\ \A q \in Reqs \ {r} : req'[q] = req[q]
      /\ RequestIsSomebodys(r) /\ DeadStaysDead(r)
  BY RequestMovesAlone DEF TypeOK, Inv, AllIsSomebodys, RequestStep
<1>1. ASSUME LoginAccepted(r)
      PROVE  \E u \in Users : Ledger!Identify(r, u)
  <2> PICK u \in Users :
        /\ users[u] # "gone"
        /\ req' = [req EXCEPT ![r] = [NoRequest EXCEPT !.pc = "login", !.user = u,
                                                       !.role = users[u]]]
    BY <1>1 DEF LoginAccepted
  <2>1. req'[r].pc = "login" /\ req'[r].user = u /\ req'[r].role = users[u]
    BY <1>0 DEF NoRequest
  <2>2. LedgerGuest' = [LedgerGuest EXCEPT ![r] = Ledger!As("login", u, users[u])]
    BY <1>0, <2>1, GuestMovesAlone, GuestByPcNext
  <2>3. LedgerGuest[r] = Ledger!Outside
    BY <1>1, GuestByPc DEF LoginAccepted
  <2>4. Ledger!Exists(u)
    BY DEF Ledger!Exists, Ledger!Roles, TypeOK, Roles
  <2>5. UNCHANGED <<users, LedgerBearer, used, LedgerRight, issued>>
    BY <1>1, BearersStay, RightsStay DEF LoginAccepted, tables, memory
  <2> QED
    BY <2>2, <2>3, <2>4, <2>5 DEF Ledger!Identify, Ledger!Becomes
<1>2. ASSUME TokenArrives(r) \/ KeyArrives(r)
      PROVE  UNCHANGED Ledger!vars
  <2>1. req[r].pc = "idle" /\ req'[r].pc \in {"get", "hash"}
    BY <1>0, <1>2 DEF TokenArrives, KeyArrives, NoRequest
  <2>2. LedgerGuest' = LedgerGuest
    BY <1>0, <2>1, GuestStaysOut
  <2>3. UNCHANGED <<users, LedgerBearer, used, LedgerRight, issued>>
    BY <1>2, BearersStay, RightsStay DEF TokenArrives, KeyArrives, tables, memory
  <2> QED
    BY <2>2, <2>3 DEF Ledger!vars
<1>3. ASSUME OpenSession(r)
      PROVE  \E s \in Sids : Ledger!Open(r, s)
  <2> PICK s \in FreshSids :
        /\ used' = used \cup {s}
        /\ Stored(s)
        /\ token' = [token EXCEPT ![s] = [user |-> req[r].user, role |-> req[r].role,
                                          ends |-> now + Ttl]]
    BY <1>3 DEF OpenSession
  <2>1. s \in Sids /\ s \notin used
    BY DEF FreshSids
  <2>2. LedgerGuest[r] = Ledger!As("login", req[r].user, req[r].role)
    BY <1>3, GuestByPc DEF OpenSession
  <2>3. LedgerBearer' = [LedgerBearer EXCEPT ![s] =
                           [user |-> req[r].user, role |-> req[r].role]]
    BY <2>1 DEF LedgerBearer, Stored, TypeOK
  <2>4. LedgerGuest' = [LedgerGuest EXCEPT ![r] = Ledger!Outside]
    BY <1>3, GuestLeaves DEF OpenSession
  <2>5. UNCHANGED <<users, LedgerRight, issued>>
    BY <1>3, RightsStay DEF OpenSession, tables
  <2>6. /\ LedgerGuest[r].by = "login"
        /\ LedgerGuest[r].user = req[r].user /\ LedgerGuest[r].role = req[r].role
    BY <2>2 DEF Ledger!As
  <2>7. Ledger!Open(r, s)
    BY <2>1, <2>3, <2>4, <2>5, <2>6 DEF Ledger!Open, Ledger!Becomes
  <2> QED
    BY <2>1, <2>7
<1>4. ASSUME LoginFails(r)
      PROVE  Ledger!Leave(r)
  <2>1. UNCHANGED <<users, LedgerBearer, used, LedgerRight, issued>>
    BY <1>4, BearersStay, RightsStay DEF LoginFails, tables, memory
  <2> QED
    BY <1>4, <2>1, GuestLeaves DEF LoginFails, Ledger!Leave, Ledger!Becomes
<1>5. ASSUME GetSession(r)
      PROVE  (\E s \in Sids : Ledger!EnterBySession(r, s)) \/ UNCHANGED Ledger!vars
  <2> DEFINE s == req[r].sid
  <2>1. UNCHANGED <<users, LedgerBearer, used, LedgerRight, issued>>
    BY <1>5, BearersStay, RightsStay DEF GetSession, tables, memory
  <2>2. req[r].pc = "get" /\ s \in used /\ s \in Sids
    BY <1>0, <1>5 DEF GetSession, DeadStaysDead, TypeOK
  <2>3. CASE Ends(r) \/ GoDelete(r, s)
    <3>1. req'[r].pc \in {"idle", "delete"}
      BY <1>0, <2>3 DEF Ends, NoRequest, GoDelete, Request
    <3>2. LedgerGuest' = LedgerGuest
      BY <1>0, <2>2, <3>1, GuestStaysOut
    <3> QED
      BY <2>1, <3>2 DEF Ledger!vars
  <2>4. CASE s \in stored /\ Goto(r, "touch")
    <3>1. /\ req'[r].pc = "touch" /\ req'[r].sid = s
          /\ req'[r].user = token[s].user /\ req'[r].role = token[s].role
      BY <1>0, <2>2, <2>4 DEF Goto, Request, RequestIsSomebodys
    <3>2. s # NoSid /\ token[s].user # NoUser
      BY <2>2, AccessNulls DEF Inv, AllIsSomebodys
    <3>3. LedgerBearer[s] = [user |-> token[s].user, role |-> token[s].role]
      BY <2>2, <2>4 DEF LedgerBearer
    <3>4. LedgerGuest' = [LedgerGuest EXCEPT ![r] =
                            Ledger!As("session", token[s].user, token[s].role)]
      BY <1>0, <3>1, <3>2, GuestMovesAlone, GuestByPcNext
    <3>5. LedgerGuest[r] = Ledger!Outside
      BY <2>2, GuestByPc
    <3>6. LedgerBearer[s] # Ledger!Nobody
      BY <3>2, <3>3 DEF Ledger!Nobody
    <3>7. Ledger!EnterBySession(r, s)
      BY <2>1, <3>3, <3>4, <3>5, <3>6 DEF Ledger!EnterBySession, Ledger!Becomes
    <3> QED
      BY <2>2, <3>7
  <2> QED
    BY <1>5, <2>3, <2>4 DEF GetSession
<1>6. ASSUME UpdateLastSeen(r)
      PROVE  UNCHANGED Ledger!vars
  <2>1. /\ req[r].pc = "touch" /\ req'[r].pc = "run" /\ req'[r].sid = req[r].sid
        /\ req'[r].user = req[r].user /\ req'[r].role = req[r].role
    BY <1>0, <1>6 DEF UpdateLastSeen, Goto, Request
  <2>2. LedgerGuest' = LedgerGuest
    BY <1>0, <2>1, GuestStaysIn
  <2>3. UNCHANGED <<users, LedgerBearer, used, LedgerRight, issued>>
    BY <1>6, BearersStay, RightsStay DEF UpdateLastSeen, tables
  <2> QED
    BY <2>2, <2>3 DEF Ledger!vars
<1>7. ASSUME GetAPIKeyByHash(r)
      PROVE  (\E k \in Keys : Ledger!Recognise(r, k)) \/ UNCHANGED Ledger!vars
  <2> DEFINE k == req[r].key
  <2>1. UNCHANGED <<users, LedgerBearer, used, LedgerRight, issued>>
    BY <1>7, BearersStay, RightsStay DEF GetAPIKeyByHash, tables, memory
  <2>2. req[r].pc = "hash" /\ k \in Keys
    BY <1>0, <1>7 DEF GetAPIKeyByHash, DeadStaysDead, TypeOK
  <2>3. LedgerGuest[r] = Ledger!Outside
    BY <2>2, GuestByPc
  <2>4. CASE KeyIsGood(k)
    <3>1. req'[r].pc = "user" /\ req'[r].user = keys[k].owner
      BY <1>0, <1>7, <2>4 DEF GetAPIKeyByHash, Request
    <3>2. LedgerRight[k].user = keys[k].owner /\ keys[k].owner # NoUser
      BY <2>2, <2>4 DEF LedgerRight, KeyIsGood, HasRow
    <3>3. LedgerGuest' = [LedgerGuest EXCEPT ![r] =
                            Ledger!As("owner", LedgerRight[k].user, "user")]
      BY <1>0, <3>1, <3>2, GuestMovesAlone, GuestByPcNext
    <3>4. LedgerRight[k] # Ledger!NoRight
      BY <3>2 DEF Ledger!NoRight
    <3>5. Ledger!Recognise(r, k)
      BY <2>1, <2>3, <3>3, <3>4 DEF Ledger!Recognise, Ledger!Becomes
    <3> QED
      BY <2>2, <3>5
  <2>5. CASE ~KeyIsGood(k)
    <3>1. req'[r].pc = "idle"
      BY <1>0, <1>7, <2>5 DEF GetAPIKeyByHash, Ends, NoRequest
    <3> QED
      BY <1>0, <2>1, <2>2, <3>1, GuestStaysOut DEF Ledger!vars
  <2> QED
    BY <2>4, <2>5
<1>8. ASSUME GetUserByID(r)
      PROVE  Ledger!EnterByKey(r) \/ Ledger!Leave(r)
  <2> DEFINE u == req[r].user
  <2>1. UNCHANGED <<users, LedgerBearer, used, LedgerRight, issued>>
    BY <1>8, BearersStay, RightsStay DEF GetUserByID, tables, memory
  <2>2. req[r].pc = "user" /\ u \in Users /\ req[r].sid = NoSid
    BY <1>0, <1>8 DEF GetUserByID, RequestIsSomebodys, ByToken
  <2>3. LedgerGuest[r] = Ledger!As("owner", u, "user")
    BY <2>2, GuestByPc
  <2>4. CASE users[u] \in Roles
    <3>1. /\ req'[r].pc = "run" /\ req'[r].user = u /\ req'[r].role = users[u]
          /\ req'[r].sid = NoSid
      BY <1>0, <1>8, <2>2, <2>4 DEF GetUserByID, Request
    <3>2. LedgerGuest' = [LedgerGuest EXCEPT ![r] = Ledger!As("key", u, users[u])]
      BY <1>0, <3>1, GuestMovesAlone, GuestByPcNext
    <3>3. Ledger!Exists(u)
      BY <2>2, <2>4 DEF Ledger!Exists, Ledger!Roles, Roles
    <3> QED
      BY <2>1, <2>3, <3>2, <3>3 DEF Ledger!EnterByKey, Ledger!Becomes, Ledger!As
  <2>5. CASE users[u] \notin Roles
    BY <1>8, <2>1, <2>5, GuestLeaves DEF GetUserByID, Ledger!Leave, Ledger!Becomes
  <2> QED
    BY <2>4, <2>5
<1> QED
  BY <1>1, <1>2, <1>3, <1>4, <1>5, <1>6, <1>7, <1>8 DEF Ledger!Next

\* What a key is good for, before and after a step.
LEMMA RightByKey ==
  ASSUME NEW k \in Keys
  PROVE  /\ ~KeyIsGood(k) => LedgerRight[k] = Ledger!NoRight
         /\ ~KeyIsGood(k)' => LedgerRight'[k] = Ledger!NoRight
         /\ KeyIsGood(k) => LedgerRight[k] = [user |-> keys[k].owner,
                                              lasting |-> keys[k].until = Forever]
         /\ KeyIsGood(k)' => LedgerRight'[k] = [user |-> keys'[k].owner,
                                                lasting |-> keys'[k].until = Forever]
BY DEF LedgerRight, Ledger!NoRight, KeyIsGood, HasRow

LEMMA RightFields ==
  ASSUME NEW k \in Keys
  PROVE  /\ KeyIsGood(k) => LedgerRight[k].user = keys[k].owner
         /\ ~KeyIsGood(k) => LedgerRight[k].user = NoUser
         /\ KeyIsGood(k) /\ keys[k].until # Forever => ~LedgerRight[k].lasting
<1>1. CASE KeyIsGood(k)
  <2>1. LedgerRight[k] = [user |-> keys[k].owner, lasting |-> keys[k].until = Forever]
    BY <1>1, RightByKey
  <2>2. LedgerRight[k].user = keys[k].owner
    BY <2>1
  <2>3. LedgerRight[k].lasting = (keys[k].until = Forever)
    BY <2>1
  <2> QED
    BY <1>1, <2>2, <2>3
<1>2. CASE ~KeyIsGood(k)
  <2>1. LedgerRight[k] = [user |-> NoUser, lasting |-> FALSE]
    BY <1>2, RightByKey DEF Ledger!NoRight
  <2>2. LedgerRight[k].user = NoUser
    BY <2>1
  <2> QED
    BY <1>2, <2>2
<1> QED
  BY <1>1, <1>2

LEMMA GuestInside ==
  ASSUME NEW r \in Reqs, req[r].pc \in {"touch", "run", "revoke", "erase", "update"}
  PROVE  /\ LedgerGuest[r].by = IF ByToken(r) THEN "session" ELSE "key"
         /\ LedgerGuest[r].user = req[r].user
         /\ LedgerGuest[r].role = req[r].role
<1>1. LedgerGuest[r] = [by |-> IF ByToken(r) THEN "session" ELSE "key",
                        user |-> req[r].user, role |-> req[r].role]
  BY GuestByPc DEF Ledger!As
<1> QED
  BY <1>1

LEMMA SameRowSameRight ==
  ASSUME NEW k \in Keys, now' = now, keys'[k] = keys[k]
  PROVE  LedgerRight'[k] = LedgerRight[k]
<1>1. KeyIsGood(k)' <=> KeyIsGood(k)
  BY DEF KeyIsGood, HasRow
<1> QED
  BY <1>1, RightByKey

\* A step that changes one row and leaves it good for nothing.
LEMMA RightEnds ==
  ASSUME TypeOK, NEW k \in Keys, now' = now, ~KeyIsGood(k)',
         \A j \in Keys \ {k} : keys'[j] = keys[j]
  PROVE  LedgerRight' = [LedgerRight EXCEPT ![k] = Ledger!NoRight]
<1>1. \A j \in Keys \ {k} : LedgerRight'[j] = LedgerRight[j]
  BY SameRowSameRight
<1>2. LedgerRight'[k] = Ledger!NoRight
  BY RightByKey
<1>3. LedgerRight = [j \in Keys |-> LedgerRight[j]]
      /\ LedgerRight' = [j \in Keys |-> LedgerRight'[j]]
  BY DEF LedgerRight
<1> QED
  BY <1>1, <1>2, <1>3

\* What the handlers behind the middleware are to the ledger.
LEMMA HandlerIsLedger ==
  ASSUME TypeOK, Inv, TypeOK', NEW r \in Reqs,
         \/ OtherHandler(r) \/ Logout(r) \/ ForceRevokeSession(r) \/ DeleteSession(r)
         \/ CreateAPIKey(r) \/ RevokeAPIKey(r) \/ SetRevoked(r) \/ EraseKey(r)
         \/ UpdateUser(r) \/ WriteUser(r) \/ DeleteUser(r)
  PROVE  [Ledger!Next]_(Ledger!vars)
<1>0. /\ req \in [Reqs -> Request] /\ req[r] \in Request
      /\ \A q \in Reqs \ {r} : req'[q] = req[q]
      /\ RequestIsSomebodys(r) /\ WriterWasTested(r)
  BY RequestMovesAlone DEF TypeOK, Inv, AllIsSomebodys, RequestStep
<1>1. ASSUME OtherHandler(r)
      PROVE  Ledger!Leave(r)
  <2>1. UNCHANGED <<users, LedgerBearer, used, LedgerRight, issued>>
    BY <1>1, BearersStay, RightsStay DEF OtherHandler, tables, memory
  <2> QED
    BY <1>1, <2>1, GuestLeaves DEF OtherHandler, Ledger!Leave, Ledger!Becomes
<1>2. ASSUME Logout(r) \/ ForceRevokeSession(r)
      PROVE  Ledger!Leave(r)
  <2>1. UNCHANGED <<users, LedgerBearer, used, LedgerRight, issued>>
    BY <1>2, BearersStay, RightsStay DEF Logout, ForceRevokeSession, tables, memory
  <2>2. req'[r].pc = "delete"
    BY <1>0, <1>2 DEF Logout, ForceRevokeSession, GoDelete, Request
  <2>3. LedgerGuest' = [LedgerGuest EXCEPT ![r] = Ledger!Outside]
    BY <1>0, <2>2, GuestMovesAlone, GuestByPcNext
  <2> QED
    BY <2>1, <2>3 DEF Ledger!Leave, Ledger!Becomes
<1>3. ASSUME DeleteSession(r)
      PROVE  (\E s \in Sids : Ledger!EndSession(s)) \/ UNCHANGED Ledger!vars
  <2> DEFINE s == req[r].onSid
  <2>1. UNCHANGED <<users, used, LedgerRight, issued>>
    BY <1>3, RightsStay DEF DeleteSession, tables
  <2>2. req[r].pc = "delete" /\ req'[r].pc = "idle"
    BY <1>0, <1>3 DEF DeleteSession, Ends, NoRequest
  <2>3. LedgerGuest' = LedgerGuest
    BY <1>0, <2>2, GuestStaysOut
  <2>4. stored' = stored \ {s} /\ token' = token
    BY <1>3 DEF DeleteSession
  <2>5. CASE s \in Sids
    <3>1. LedgerBearer' = [LedgerBearer EXCEPT ![s] = Ledger!Nobody]
      BY <2>4 DEF LedgerBearer, Ledger!Nobody
    <3>2. Ledger!EndSession(s)
      BY <2>1, <2>3, <3>1 DEF Ledger!EndSession
    <3> QED
      BY <2>5, <3>2
  <2>6. CASE s \notin Sids
    <3>1. stored' = stored
      BY <2>4, <2>6 DEF TypeOK
    <3> QED
      BY <2>1, <2>3, <2>4, <3>1, BearersStay DEF Ledger!vars
  <2> QED
    BY <2>5, <2>6
<1>4. ASSUME CreateAPIKey(r)
      PROVE  \E k \in Keys, lasting \in BOOLEAN : Ledger!MakeKey(r, k, lasting)
  <2> DEFINE u == req[r].user
  <2> PICK k \in Keys \ issued, t \in {Forever} \cup {now + d : d \in KeyTimes} :
        /\ issued' = issued \cup {k}
        /\ keys' = [keys EXCEPT ![k] = [owner |-> u, until |-> t, revoked |-> FALSE]]
    BY <1>4 DEF CreateAPIKey
  <2>1. /\ req[r].pc = "run" /\ req[r].sid # NoSid /\ users[u] # "gone" /\ now' = now
        /\ UNCHANGED <<users, stored, token, used>> /\ Ends(r)
    BY <1>4 DEF CreateAPIKey, ByToken, memory
  <2>2. u \in Users
    BY <1>0, <2>1 DEF RequestIsSomebodys
  <2>3. LedgerGuest[r].by = "session" /\ LedgerGuest[r].user = u
    BY <2>1, GuestInside DEF ByToken
  <2>4. Ledger!Exists(u)
    BY <2>1, <2>2 DEF Ledger!Exists, Ledger!Roles, Roles, TypeOK
  <2>5. keys'[k] = [owner |-> u, until |-> t, revoked |-> FALSE]
        /\ \A j \in Keys \ {k} : keys'[j] = keys[j]
    BY DEF TypeOK
  <2>6. KeyIsGood(k)'
    <3>1. now \in Nat /\ (t = Forever \/ (t \in Nat /\ now <= t))
      BY AccessTimes DEF TypeOK
    <3> QED
      BY <2>1, <2>2, <2>5, <3>1, AccessNulls DEF KeyIsGood, HasRow
  <2>7. LedgerRight'[k] = [user |-> u, lasting |-> t = Forever]
    <3>1. LedgerRight'[k] = [user |-> keys'[k].owner, lasting |-> keys'[k].until = Forever]
      BY <2>6, RightByKey
    <3>2. keys'[k].owner = u /\ keys'[k].until = t
      BY <2>5
    <3> QED
      BY <3>1, <3>2
  <2>8. \A j \in Keys \ {k} : LedgerRight'[j] = LedgerRight[j]
    BY <2>1, <2>5, SameRowSameRight
  <2>9. LedgerRight' = [LedgerRight EXCEPT ![k] = [user |-> u, lasting |-> t = Forever]]
    <3>1. LedgerRight = [j \in Keys |-> LedgerRight[j]]
          /\ LedgerRight' = [j \in Keys |-> LedgerRight'[j]]
      BY DEF LedgerRight
    <3> QED
      BY <2>7, <2>8, <3>1
  <2>10. LedgerBearer' = LedgerBearer
    BY <2>1, BearersStay
  <2>11. LedgerGuest' = [LedgerGuest EXCEPT ![r] = Ledger!Outside]
    BY <2>1, GuestLeaves
  <2>12. Ledger!MakeKey(r, k, t = Forever)
    BY <2>1, <2>3, <2>4, <2>9, <2>10, <2>11 DEF Ledger!MakeKey, Ledger!Becomes
  <2>13. (t = Forever) \in BOOLEAN
    OBVIOUS
  <2> QED
    BY <2>12, <2>13
<1>5. ASSUME RevokeAPIKey(r) \/ UpdateUser(r)
      PROVE  UNCHANGED Ledger!vars
  <2>1. /\ req[r].pc = "run" /\ req'[r].pc \in {"revoke", "erase", "update"}
        /\ req'[r].sid = req[r].sid /\ req'[r].user = req[r].user
        /\ req'[r].role = req[r].role
    <3>1. CASE RevokeAPIKey(r)
      <4> PICK k \in Keys, next \in {"revoke", "erase"} :
            req' = [req EXCEPT ![r].pc = next, ![r].onKey = k]
        BY <3>1 DEF RevokeAPIKey
      <4> QED
        BY <1>0, <3>1 DEF RevokeAPIKey, Request
    <3>2. CASE UpdateUser(r)
      <4> PICK u \in Users, role \in Roles :
            req' = [req EXCEPT ![r].pc = "update", ![r].onUser = u, ![r].grant = role]
        BY <3>2 DEF UpdateUser
      <4> QED
        BY <1>0, <3>2 DEF UpdateUser, Request
    <3> QED
      BY <1>5, <3>1, <3>2
  <2>2. UNCHANGED <<users, LedgerBearer, used, LedgerRight, issued>>
    BY <1>5, BearersStay, RightsStay DEF RevokeAPIKey, UpdateUser, tables, memory
  <2> QED
    BY <1>0, <2>1, <2>2, GuestStaysIn DEF Ledger!vars
<1>6. ASSUME SetRevoked(r) \/ EraseKey(r)
      PROVE  (\E k \in Keys : Ledger!EndKey(r, k)) \/ Ledger!Leave(r)
  <2> PICK k \in Keys : k = req[r].onKey
    BY <1>0, <1>6 DEF SetRevoked, EraseKey, RequestIsSomebodys
  <2>1. /\ req[r].pc \in {"revoke", "erase"} /\ now' = now /\ Ends(r)
        /\ UNCHANGED <<users, issued, stored, token, used>>
    BY <1>6 DEF SetRevoked, EraseKey, memory
  <2>2. ByToken(r)
    BY <1>0, <2>1 DEF WriterWasTested
  <2>3. ~KeyIsGood(k)' /\ \A j \in Keys \ {k} : keys'[j] = keys[j]
    <3>1. CASE SetRevoked(r) /\ HasRow(k)
      <4>1. keys' = [keys EXCEPT ![k] = [keys[k] EXCEPT !.revoked = TRUE]]
        BY <3>1 DEF SetRevoked
      <4>2. keys'[k].revoked = TRUE
        BY <2>2, <4>1 DEF TypeOK, KeyRow
      <4> QED
        BY <4>1, <4>2 DEF KeyIsGood, TypeOK
    <3>2. CASE SetRevoked(r) /\ ~HasRow(k)
      BY <3>2 DEF SetRevoked, KeyIsGood, HasRow
    <3>3. CASE EraseKey(r)
      BY <2>2, <3>3 DEF EraseKey, KeyIsGood, HasRow, NoRow, TypeOK
    <3> QED
      BY <1>6, <3>1, <3>2, <3>3
  <2>4. LedgerRight' = [LedgerRight EXCEPT ![k] = Ledger!NoRight]
    BY <2>1, <2>2, <2>3, RightEnds
  <2>5. LedgerBearer' = LedgerBearer
    BY <2>1, BearersStay
  <2>6. LedgerGuest' = [LedgerGuest EXCEPT ![r] = Ledger!Outside]
    BY <2>1, GuestLeaves
  <2>7. /\ LedgerGuest[r].by = "session" /\ LedgerGuest[r].user = req[r].user
        /\ LedgerGuest[r].role = req[r].role
    BY <2>1, <2>2, GuestInside
  <2>8. CASE KeyIsGood(k)
    <3>1. LedgerRight[k].user = keys[k].owner /\ HasRow(k)
      BY <2>2, <2>8, RightFields DEF KeyIsGood
    <3>2. req[r].role = "admin" \/ req[r].user = LedgerRight[k].user
      BY <1>0, <2>1, <3>1 DEF WriterWasTested, IsAdmin
    <3>3. Ledger!EndKey(r, k)
      BY <2>1, <2>4, <2>5, <2>6, <2>7, <3>2 DEF Ledger!EndKey, Ledger!Becomes
    <3> QED
      BY <2>2, <3>3
  <2>9. CASE ~KeyIsGood(k)
    <3>1. LedgerRight' = LedgerRight
      BY <2>2, <2>4, <2>9, RightByKey DEF LedgerRight
    <3> QED
      BY <2>1, <2>5, <2>6, <3>1 DEF Ledger!Leave, Ledger!Becomes
  <2> QED
    BY <2>8, <2>9
<1>7. ASSUME WriteUser(r)
      PROVE  \/ \E u \in Users, role \in Roles : Ledger!SetRole(r, u, role)
             \/ Ledger!Leave(r)
  <2> DEFINE u == req[r].onUser
  <2>1. /\ req[r].pc = "update" /\ Ends(r) /\ u \in Users
        /\ UNCHANGED <<LedgerBearer, used, LedgerRight, issued>>
    BY <1>0, <1>7, BearersStay, RightsStay
       DEF WriteUser, RequestIsSomebodys, memory
  <2>2. LedgerGuest' = [LedgerGuest EXCEPT ![r] = Ledger!Outside]
    BY <2>1, GuestLeaves
  <2>3. LedgerGuest[r].by \in {"session", "key"}
    BY <2>1, GuestInside
  <2>4. CASE users[u] = "gone"
    BY <1>7, <2>1, <2>2, <2>4 DEF WriteUser, Ledger!Leave, Ledger!Becomes
  <2>5. CASE users[u] # "gone"
    <3>1. users' = [users EXCEPT ![u] = req[r].grant] /\ req[r].grant \in Roles
      BY <1>0, <1>7, <2>5 DEF WriteUser, Request
    <3>2. Ledger!Exists(u)
      BY <2>1, <2>5 DEF Ledger!Exists, Ledger!Roles, Roles, TypeOK
    <3>3. Ledger!SetRole(r, u, req[r].grant)
      BY <2>1, <2>2, <2>3, <3>1, <3>2 DEF Ledger!SetRole, Ledger!Inside, Ledger!Becomes
    <3> QED
      BY <2>1, <3>1, <3>3
  <2> QED
    BY <2>4, <2>5
<1>8. ASSUME DeleteUser(r)
      PROVE  \E u \in Users : Ledger!Close(r, u)
  <2> PICK u \in Users :
        /\ users[u] # "gone"
        /\ users' = [users EXCEPT ![u] = "gone"]
        /\ keys' = [k \in Keys |-> IF keys[k].owner = u THEN NoRow ELSE keys[k]]
    BY <1>8 DEF DeleteUser
  <2>1. /\ req[r].pc = "run" /\ req[r].role = "admin" /\ Ends(r) /\ now' = now
        /\ UNCHANGED <<LedgerBearer, used, issued>>
    BY <1>8, BearersStay DEF DeleteUser, IsAdmin, memory
  <2>2. LedgerGuest' = [LedgerGuest EXCEPT ![r] = Ledger!Outside]
    BY <2>1, GuestLeaves
  <2>3. LedgerGuest[r].by \in {"session", "key"} /\ LedgerGuest[r].role = "admin"
    BY <2>1, GuestInside
  <2>4. Ledger!Exists(u)
    BY DEF Ledger!Exists, Ledger!Roles, Roles, TypeOK
  <2>5. ASSUME NEW k \in Keys
        PROVE  LedgerRight'[k] = IF LedgerRight[k].user = u THEN Ledger!NoRight
                                                          ELSE LedgerRight[k]
    <3>1. CASE keys[k].owner = u
      <4>1. ~KeyIsGood(k)'
        BY <3>1 DEF KeyIsGood, HasRow, NoRow
      <4>2. KeyIsGood(k) => LedgerRight[k].user = u
        BY <3>1, RightFields
      <4> QED
        BY <4>1, <4>2, RightByKey
    <3>2. CASE keys[k].owner # u
      <4>1. LedgerRight'[k] = LedgerRight[k]
        BY <2>1, <3>2, SameRowSameRight
      <4>2. LedgerRight[k].user # u
        BY <3>2, RightFields, AccessNulls
      <4> QED
        BY <4>1, <4>2
    <3> QED
      BY <3>1, <3>2
  <2>6. LedgerRight' = [k \in Keys |-> IF LedgerRight[k].user = u THEN Ledger!NoRight
                                                                 ELSE LedgerRight[k]]
    <3>1. LedgerRight' = [k \in Keys |-> LedgerRight'[k]]
      BY DEF LedgerRight
    <3> QED
      BY <2>5, <3>1
  <2>7. Ledger!Close(r, u)
    BY <2>1, <2>2, <2>3, <2>4, <2>6 DEF Ledger!Close, Ledger!Inside, Ledger!Becomes
  <2> QED
    BY <2>7
<1> QED
  BY <1>1, <1>2, <1>3, <1>4, <1>5, <1>6, <1>7, <1>8
     DEF Ledger!Next, Ledger!Roles, Roles

LEMMA CleanerIsLedger ==
  ASSUME TypeOK, CleanerStep
  PROVE  [Ledger!Next]_(Ledger!vars)
<1>1. UNCHANGED <<users, used, LedgerRight, issued, LedgerGuest>>
  BY RightsStay
     DEF CleanerStep, CleanupTick, CleanupInspect, CleanupDelete, CleanupDone, tables,
         memory, LedgerGuest, ByToken
<1>2. CASE stored' = stored
  <2>1. token' = token
    BY DEF CleanerStep, CleanupTick, CleanupInspect, CleanupDelete, CleanupDone, memory
  <2> QED
    BY <1>1, <1>2, <2>1, BearersStay DEF Ledger!vars
<1>3. CASE CleanupDelete /\ stored' # stored
  <2> DEFINE s == cleaner.key
  <2>1. stored' = stored \ {s} /\ token' = token /\ s \in Sids
    BY <1>3 DEF CleanupDelete, TypeOK
  <2>2. LedgerBearer' = [LedgerBearer EXCEPT ![s] = Ledger!Nobody]
    BY <2>1 DEF LedgerBearer, Ledger!Nobody
  <2>3. Ledger!EndSession(s)
    BY <1>1, <2>2 DEF Ledger!EndSession
  <2> QED
    BY <2>1, <2>3 DEF Ledger!Next
<1> QED
  BY <1>2, <1>3 DEF CleanerStep, CleanupTick, CleanupInspect, CleanupDone, memory

\* The clock ends the rights of the keys whose time it is.
LEMMA TickIsLedger ==
  ASSUME TypeOK, TypeOK', Tick
  PROVE  \E K \in SUBSET Keys : Ledger!Expire(K)
<1> DEFINE K == {k \in Keys : KeyIsGood(k) /\ ~KeyIsGood(k)'}
<1>1. UNCHANGED <<users, keys, LedgerBearer, used, issued, LedgerGuest>>
  BY BearersStay DEF Tick, tables, memory, LedgerGuest, ByToken
<1>2. now \in Nat /\ now' = now + 1
  BY DEF Tick, TypeOK
<1>3. ASSUME NEW k \in Keys, KeyIsGood(k)'
      PROVE  KeyIsGood(k)
  BY <1>1, <1>2, <1>3 DEF KeyIsGood, HasRow
<1>4. ASSUME NEW k \in K
      PROVE  ~LedgerRight[k].lasting
  <2>1. keys[k].until # Forever
    BY <1>1 DEF KeyIsGood, HasRow
  <2> QED
    BY <2>1, RightFields
<1>5. ASSUME NEW k \in Keys
      PROVE  LedgerRight'[k] = IF k \in K THEN Ledger!NoRight ELSE LedgerRight[k]
  <2>1. CASE KeyIsGood(k)'
    BY <1>1, <1>3, <2>1, RightByKey
  <2>2. CASE ~KeyIsGood(k)'
    BY <2>2, RightByKey
  <2> QED
    BY <2>1, <2>2
<1>6. LedgerRight' = [k \in Keys |-> IF k \in K THEN Ledger!NoRight ELSE LedgerRight[k]]
  <2>1. LedgerRight' = [k \in Keys |-> LedgerRight'[k]]
    BY DEF LedgerRight
  <2> QED
    BY <1>5, <2>1
<1>7. Ledger!Expire(K)
  BY <1>1, <1>4, <1>6 DEF Ledger!Expire
<1> QED
  BY <1>7

LEMMA RestartIsLedger ==
  ASSUME Restart
  PROVE  Ledger!Restart
<1>1. LedgerBearer' = [s \in Sids |-> Ledger!Nobody]
  BY DEF Restart, LedgerBearer, Ledger!Nobody
<1>2. LedgerGuest' = [r \in Reqs |-> Ledger!Outside]
  BY DEF Restart, NoRequest, LedgerGuest, Ledger!Outside
<1>3. UNCHANGED <<users, used, LedgerRight, issued>>
  BY RightsStay DEF Restart, tables
<1> QED
  BY <1>1, <1>2, <1>3 DEF Ledger!Restart

LEMMA LedgerStep ==
  ASSUME TypeOK, Inv, [Next]_vars
  PROVE  [Ledger!Next]_(Ledger!vars)
<1>1. TypeOK'
  BY StepType
<1>2. ASSUME NEW r \in Reqs,
             LoginAccepted(r) \/ TokenArrives(r) \/ KeyArrives(r) \/ RequestStep(r)
      PROVE  [Ledger!Next]_(Ledger!vars)
  BY <1>1, <1>2, GateIsLedger, HandlerIsLedger DEF RequestStep
<1>3. CASE Tick
  BY <1>1, <1>3, TickIsLedger DEF Ledger!Next
<1>4. CASE Restart
  BY <1>4, RestartIsLedger DEF Ledger!Next
<1>5. CASE UNCHANGED vars
  <2>1. UNCHANGED <<users, used, LedgerRight, issued, LedgerBearer, LedgerGuest>>
    BY <1>5, RightsStay, BearersStay DEF vars, tables, memory, LedgerGuest, ByToken
  <2> QED
    BY <2>1 DEF Ledger!vars
<1> QED
  BY <1>2, <1>3, <1>4, <1>5, CleanerIsLedger DEF Next

\* However look-ups, revocations, demotions, deletions and restarts interleave, a
\* request is let in at one instant, with a credential that is good at that
\* instant; it makes keys for its own person, ends keys with a session of their
\* owner or of an administrator, closes accounts as an administrator; roles it
\* sets without a further condition, as UpdateUser does.
THEOREM AccessImplementsLedger == Spec => ImplementsLedger
BY LedgerInit, LedgerStep, AccessInvariant, PTL DEF Spec, ImplementsLedger, Ledger!Spec
=============================================================================
