--------------------------- MODULE AccountsProofs ---------------------------
(***************************************************************************)
(* Accounts: the addresses, the links and the logins stay together, for    *)
(* any number of users, identities and requests.                           *)
(***************************************************************************)
EXTENDS Accounts, TLAPS

\* Arrivals.
LEMMA NewRequests ==
  /\ \A e \in Addresses :
       LET q == [NoRequest EXCEPT !.pc = "exists", !.email = e]
       IN q \in Request /\ q.pc = "exists" /\ q.email = e
  /\ \A i \in Identities :
       LET q == [NoRequest EXCEPT !.pc = "identity", !.who = i, !.email = MailOf(i)]
       IN q \in Request /\ q.pc = "identity" /\ q.who = i /\ q.email = MailOf(i)
  BY AccountsAddresses DEF Request, NoRequest

\* What a look-up by address finds belongs to the identity.
LEMMA FoundHasMail ==
  ASSUME TypeOK, NEW i \in Identities, NEW u \in Found(MailOf(i))
  PROVE  u \in Users /\ HasRow(u) /\ FollowsMail(i, u)
  BY DEF Found, Live, FollowsMail, Spellings

\* A step that leaves the rows alone keeps Inv if what it writes does.
LEMMA QuietKeeps ==
  ASSUME Inv, UNCHANGED <<rows, drawn>>,
         up' \in BOOLEAN, faults' \in 0 .. MaxFaults,
         links' \in [Identities -> Users \cup {NoUser}],
         \A i \in Identities : \/ links'[i] = links[i]
                               \/ HasRow(links'[i]) /\ FollowsMail(i, links'[i]),
         entered' \in [Identities -> SUBSET Users],
         \A i \in Identities : \A u \in entered'[i] :
           u \in entered[i] \/ (u \in drawn /\ FollowsMail(i, u)),
         req' \in [Reqs -> Request],
         \A r \in Reqs : req'[r] = req[r] \/ RequestKeepsMail(req'[r])
  PROVE  Inv'
<1>1. TypeOK'
  BY DEF Inv, TypeOK
<1>2. IdsAreNotReused'
  <2>1. Live' = Live
    BY DEF Live, HasRow
  <2>2. \A i \in Identities : entered'[i] \subseteq drawn
    BY DEF Inv, IdsAreNotReused
  <2> QED BY <2>1, <2>2 DEF Inv, IdsAreNotReused
<1>3. AddressesAreUnique'
  BY DEF Inv, AddressesAreUnique, Live, HasRow
<1>4. /\ \A i, u : FollowsMail(i, u)' <=> FollowsMail(i, u)
      /\ \A u : HasRow(u)' <=> HasRow(u)
  BY DEF FollowsMail, HasRow
<1>5. LinksFollowMail'
  BY <1>4 DEF Inv, LinksFollowMail
<1>6. EnteredFollowsMail'
  BY <1>4 DEF Inv, EnteredFollowsMail
<1>7. \A r \in Reqs : RequestKeepsMail(req[r])'
  <2> SUFFICES ASSUME NEW r \in Reqs PROVE RequestKeepsMail(req[r])'
    OBVIOUS
  <2>1. RequestKeepsMail(req'[r])
    BY DEF Inv
  <2> QED BY <2>1 DEF RequestKeepsMail, FollowsMail, HasRow
<1> QED BY <1>1, <1>2, <1>3, <1>5, <1>6, <1>7 DEF Inv

\* A step of one request that writes nothing else.
LEMMA RequestKeeps ==
  ASSUME Inv, UNCHANGED <<up, rows, drawn, links, entered>>, faults' \in 0 .. MaxFaults,
         NEW r \in Reqs, NEW q \in Request, req' = [req EXCEPT ![r] = q],
         RequestKeepsMail(q)
  PROVE  Inv'
<1>1. /\ req' \in [Reqs -> Request]
      /\ \A s \in Reqs : req'[s] = req[s] \/ RequestKeepsMail(req'[s])
  BY DEF Inv, TypeOK
<1>2. /\ up' \in BOOLEAN
      /\ links' \in [Identities -> Users \cup {NoUser}]
      /\ entered' \in [Identities -> SUBSET Users]
  BY DEF Inv, TypeOK
<1> QED BY <1>1, <1>2, QuietKeeps

\* An insertion writes the row of a new id.
LEMMA InsertWrites ==
  ASSUME Inv, NEW e \in Addresses, NEW pw \in BOOLEAN, NEW u \in Users, Insert(e, pw, u)
  PROVE  /\ rows' \in [Users -> UserRow]
         /\ drawn' \in SUBSET Users
         /\ u \in drawn' /\ rows'[u].email = e /\ drawn \subseteq drawn'
         /\ u \notin drawn
         /\ \A v \in Users : v # u => rows'[v] = rows[v]
         /\ Live' = Live \cup {u}
         /\ AddressesAreUnique'
<1>1. rows' = [rows EXCEPT ![u] = [email |-> e, password |-> pw]] /\ drawn' = drawn \cup {u}
      /\ u \in Users \ drawn /\ Untaken(e)
  BY DEF Insert
<1>2. [email |-> e, password |-> pw] \in UserRow
  BY DEF UserRow
<1>3. /\ rows' \in [Users -> UserRow] /\ drawn' \in SUBSET Users
      /\ rows'[u].email = e /\ \A v \in Users : v # u => rows'[v] = rows[v]
  BY <1>1, <1>2 DEF Inv, TypeOK
<1>4. e # NoEmail
  BY AccountsNulls
<1>6. Live' = Live \cup {u}
  BY <1>3, <1>4 DEF Live, HasRow
<1>7. AddressesAreUnique'
  <2> SUFFICES ASSUME NEW v \in Live', NEW w \in Live', rows'[v].email = rows'[w].email
               PROVE  v = w
    BY DEF AddressesAreUnique
  <2>1. CASE v # u /\ w # u
    <3>1. v \in Live /\ w \in Live /\ rows[v].email = rows[w].email
      BY <2>1, <1>3, <1>6 DEF Live
    <3> QED BY <3>1 DEF Inv, AddressesAreUnique
  <2>2. CASE v = u /\ w # u
    BY <2>2, <1>1, <1>3, <1>6 DEF Untaken, Live
  <2>3. CASE v # u /\ w = u
    BY <2>3, <1>1, <1>3, <1>6 DEF Untaken, Live
  <2> QED BY <2>1, <2>2, <2>3
<1> QED BY <1>1, <1>3, <1>6, <1>7

\* An insertion keeps Inv if the requests do.
LEMMA InsertKeeps ==
  ASSUME Inv, NEW e \in Addresses, NEW pw \in BOOLEAN, NEW u \in Users, Insert(e, pw, u),
         UNCHANGED <<links, entered>>,
         up' \in BOOLEAN, faults' \in 0 .. MaxFaults,
         req' \in [Reqs -> Request],
         \A r \in Reqs : req'[r] = req[r] \/ RequestKeepsMail(req[r])'
  PROVE  Inv'
<1>1. /\ rows' \in [Users -> UserRow] /\ drawn' \in SUBSET Users
      /\ u \in drawn' /\ drawn \subseteq drawn' /\ u \notin drawn
      /\ \A v \in Users : v # u => rows'[v] = rows[v]
      /\ Live' = Live \cup {u}
      /\ AddressesAreUnique'
  BY InsertWrites
<1>2. TypeOK'
  BY <1>1 DEF Inv, TypeOK
<1>3. IdsAreNotReused'
  BY <1>1 DEF Inv, IdsAreNotReused
<1>4. \A v \in drawn : v \in Users /\ rows'[v] = rows[v]
  BY <1>1 DEF Inv, TypeOK
<1>5. \A i, v : v \in drawn => (FollowsMail(i, v)' <=> FollowsMail(i, v)) /\ (HasRow(v)' <=> HasRow(v))
  BY <1>4 DEF FollowsMail, HasRow
<1>6. LinksFollowMail'
  <2>1. \A i \in Identities : links[i] # NoUser => links[i] \in drawn
    BY DEF Inv, TypeOK, LinksFollowMail, IdsAreNotReused, Live
  <2> QED BY <2>1, <1>5 DEF Inv, LinksFollowMail
<1>7. EnteredFollowsMail'
  BY <1>5 DEF Inv, EnteredFollowsMail, IdsAreNotReused
<1>9. \A r \in Reqs : RequestKeepsMail(req[r])'
  <2> SUFFICES ASSUME NEW r \in Reqs, req'[r] = req[r] PROVE RequestKeepsMail(req[r])'
    OBVIOUS
  <2>1. RequestKeepsMail(req[r])
    BY DEF Inv
  <2> QED BY <2>1, <1>1, <1>5 DEF RequestKeepsMail, FollowsMail, HasRow
<1> QED BY <1>1, <1>2, <1>3, <1>6, <1>7, <1>9 DEF Inv
-----------------------------------------------------------------------------
LEMMA InitInv == Init => Inv
<1> SUFFICES ASSUME Init PROVE Inv
  OBVIOUS
<1>1. NoRow \in UserRow /\ NoRequest \in Request
  BY DEF NoRow, UserRow, NoRequest, Request
<1>2. TypeOK
  <2>1. faults \in 0 .. MaxFaults
    BY AccountsBounds DEF Init
  <2> QED BY <1>1, <2>1 DEF Init, TypeOK
<1>3. Live = {}
  BY DEF Init, Live, HasRow, NoRow
<1>4. \A r \in Reqs : RequestKeepsMail(req[r])
  BY DEF Init, NoRequest, RequestKeepsMail
<1> QED
  BY <1>2, <1>3, <1>4 DEF Init, Inv, IdsAreNotReused, AddressesAreUnique, LinksFollowMail,
                          EnteredFollowsMail

\* Failures are counted within their bound.
LEMMA FaultsKept ==
  ASSUME Inv, Fault \/ UNCHANGED faults
  PROVE  faults' \in 0 .. MaxFaults
  BY AccountsBounds DEF Inv, TypeOK, Fault

LEMMA AdminKeeps == ASSUME Inv, EnsureDefaultAdmin PROVE Inv'
<1>1. faults' \in 0 .. MaxFaults /\ up' \in BOOLEAN
  BY FaultsKept DEF EnsureDefaultAdmin
<1>2. UNCHANGED <<links, req, entered>>
  BY DEF EnsureDefaultAdmin
<1>3. CASE NoInsert
  BY <1>1, <1>2, <1>3, QuietKeeps DEF NoInsert, Inv, TypeOK
<1>4. CASE \E u \in Users : Insert(AdminEmail, TRUE, u)
  <2>1. PICK u \in Users : Insert(AdminEmail, TRUE, u)
    BY <1>4
  <2>2. AdminEmail \in Addresses /\ TRUE \in BOOLEAN
    BY AccountsAddresses
  <2>3. req' \in [Reqs -> Request] /\ \A r \in Reqs : req'[r] = req[r]
    BY <1>2 DEF Inv, TypeOK
  <2> QED BY <1>1, <1>2, <2>1, <2>2, <2>3, InsertKeeps
<1> QED BY <1>3, <1>4 DEF EnsureDefaultAdmin

LEMMA ArrivalsKeep ==
  ASSUME Inv, NEW r \in Reqs,
         \/ \E e \in Addresses : RegisterArrives(r, e)
         \/ \E i \in Identities : OAuthArrives(r, i)
  PROVE  Inv'
<1>1. CASE \E e \in Addresses : RegisterArrives(r, e)
  <2>1. PICK e \in Addresses : RegisterArrives(r, e)
    BY <1>1
  <2> DEFINE q == [NoRequest EXCEPT !.pc = "exists", !.email = e]
  <2>2. q \in Request /\ q.pc = "exists" /\ q.email = e
    BY NewRequests
  <2>3. RequestKeepsMail(q)
    BY <2>2 DEF RequestKeepsMail
  <2> QED BY <2>1, <2>2, <2>3, RequestKeeps DEF RegisterArrives, Inv, TypeOK
<1>2. CASE \E i \in Identities : OAuthArrives(r, i)
  <2>1. PICK i \in Identities : OAuthArrives(r, i)
    BY <1>2
  <2> DEFINE q == [NoRequest EXCEPT !.pc = "identity", !.who = i, !.email = MailOf(i)]
  <2>2. q \in Request /\ q.pc = "identity" /\ q.who = i /\ q.email = MailOf(i)
    BY NewRequests
  <2>3. RequestKeepsMail(q)
    BY <2>2 DEF RequestKeepsMail
  <2> QED BY <2>1, <2>2, <2>3, RequestKeeps DEF OAuthArrives, Inv, TypeOK
<1> QED BY <1>1, <1>2

\* An answered request has nothing to keep.
LEMMA AnsweredKeeps == NoRequest \in Request /\ NoRequest.pc = "idle" /\ RequestKeepsMail(NoRequest)
  BY DEF NoRequest, Request, RequestKeepsMail

\* A request on its way: the fields that do not change.
LEMMA RequestMoves ==
  ASSUME Inv, NEW r \in Reqs,
         NEW pc \in {"idle", "identity", "email", "create", "link", "session",
                     "exists", "insert"}
  PROVE  LET q == [req[r] EXCEPT !.pc = pc]
         IN /\ q \in Request /\ q.pc = pc /\ q.user = req[r].user
            /\ q.who = req[r].who /\ q.email = req[r].email
<1>1. req[r] \in Request
  BY DEF Inv, TypeOK
<1> QED BY <1>1 DEF Request

LEMMA RequestMovesWith ==
  ASSUME Inv, NEW r \in Reqs, NEW u \in Users, NEW pc \in {"link", "session"}
  PROVE  LET q == [req[r] EXCEPT !.pc = pc, !.user = u]
         IN /\ q \in Request /\ q.pc = pc /\ q.user = u
            /\ q.who = req[r].who /\ q.email = req[r].email
<1>1. req[r] \in Request
  BY DEF Inv, TypeOK
<1> QED BY <1>1 DEF Request

LEMMA RequestOf == ASSUME Inv, NEW r \in Reqs PROVE RequestKeepsMail(req[r])
  BY DEF Inv

\* The steps of a request that write nothing but the request.
LEMMA LookupsKeep ==
  ASSUME Inv, NEW r \in Reqs, CheckEmailExists(r) \/ GetUserByOAuth(r) \/ GetUserByEmail(r)
  PROVE  Inv'
<1>0. /\ UNCHANGED <<up, rows, drawn, links, entered>>
      /\ faults' \in 0 .. MaxFaults
  BY FaultsKept DEF CheckEmailExists, GetUserByOAuth, GetUserByEmail
<1>1. PICK q \in Request : req' = [req EXCEPT ![r] = q] /\ RequestKeepsMail(q)
  <2>1. CASE CheckEmailExists(r)
    <3>1. CASE Answered(r)
      BY <3>1, AnsweredKeeps DEF Answered
    <3>2. CASE Goto(r, "insert")
      <4> DEFINE q == [req[r] EXCEPT !.pc = "insert"]
      <4>1. q \in Request /\ q.pc = "insert" /\ q.email = req[r].email
        BY RequestMoves
      <4>2. RequestKeepsMail(q)
        BY <2>1, <4>1, RequestOf DEF CheckEmailExists, RequestKeepsMail
      <4> QED BY <3>2, <4>1, <4>2 DEF Goto
    <3> QED BY <2>1, <3>1, <3>2 DEF CheckEmailExists
  <2>2. CASE GetUserByOAuth(r)
    <3> DEFINE i == req[r].who
    <3>0. i \in Identities /\ req[r].email = MailOf(i)
      BY <2>2, RequestOf DEF GetUserByOAuth, RequestKeepsMail
    <3>1. ASSUME NEW u, u = links[i], u # NoUser, HasRow(u), GotoWith(r, "session", u)
          PROVE  \E q \in Request : req' = [req EXCEPT ![r] = q] /\ RequestKeepsMail(q)
      <4> DEFINE q == [req[r] EXCEPT !.pc = "session", !.user = u]
      <4>1. u \in Users /\ u \in drawn /\ FollowsMail(i, u)
        BY <3>0, <3>1 DEF Inv, TypeOK, LinksFollowMail, IdsAreNotReused, Live
      <4>2. q \in Request /\ q.pc = "session" /\ q.user = u /\ q.who = i /\ q.email = req[r].email
        BY <4>1, RequestMovesWith
      <4>3. RequestKeepsMail(q)
        BY <3>0, <4>1, <4>2 DEF RequestKeepsMail
      <4> QED BY <3>1, <4>2, <4>3 DEF GotoWith
    <3>2. CASE Goto(r, "email")
      <4> DEFINE q == [req[r] EXCEPT !.pc = "email"]
      <4>1. q \in Request /\ q.pc = "email" /\ q.who = i /\ q.email = req[r].email
        BY RequestMoves
      <4>2. RequestKeepsMail(q)
        BY <3>0, <4>1 DEF RequestKeepsMail
      <4> QED BY <3>2, <4>1, <4>2 DEF Goto
    <3> QED BY <2>2, <3>1, <3>2 DEF GetUserByOAuth
  <2>3. CASE GetUserByEmail(r)
    <3> DEFINE i == req[r].who
    <3>0. i \in Identities /\ req[r].email = MailOf(i)
      BY <2>3, RequestOf DEF GetUserByEmail, RequestKeepsMail
    <3>1. CASE \E u \in Found(req[r].email) : GotoWith(r, "link", u)
      <4>0. PICK u \in Found(req[r].email) : GotoWith(r, "link", u)
        BY <3>1
      <4> DEFINE q == [req[r] EXCEPT !.pc = "link", !.user = u]
      <4>1. u \in Users /\ u \in drawn /\ FollowsMail(i, u)
        BY <3>0, <4>0, FoundHasMail DEF Inv, IdsAreNotReused, Live
      <4>2. q \in Request /\ q.pc = "link" /\ q.user = u /\ q.who = i /\ q.email = req[r].email
        BY <4>1, RequestMovesWith
      <4>3. RequestKeepsMail(q)
        BY <3>0, <4>1, <4>2 DEF RequestKeepsMail
      <4> QED BY <4>0, <4>2, <4>3 DEF GotoWith
    <3>2. CASE Goto(r, "create")
      <4> DEFINE q == [req[r] EXCEPT !.pc = "create"]
      <4>1. q \in Request /\ q.pc = "create" /\ q.who = i /\ q.email = req[r].email
        BY RequestMoves
      <4>2. RequestKeepsMail(q)
        BY <3>0, <4>1 DEF RequestKeepsMail
      <4> QED BY <3>2, <4>1, <4>2 DEF Goto
    <3> QED BY <2>3, <3>1, <3>2 DEF GetUserByEmail
  <2> QED BY <2>1, <2>2, <2>3
<1> QED BY <1>0, <1>1, RequestKeeps
\* A request that ended, and an account that was made.
LEMMA InsertionsKeep ==
  ASSUME Inv, NEW r \in Reqs, RegisterUser(r) \/ CreateUser(r)
  PROVE  Inv'
<1>0. /\ UNCHANGED <<up, links, entered>>
      /\ faults' \in 0 .. MaxFaults
      /\ up' \in BOOLEAN
  BY FaultsKept DEF RegisterUser, CreateUser, Inv, TypeOK
<1>1. CASE NoInsert /\ Answered(r)
  BY <1>0, <1>1, AnsweredKeeps, RequestKeeps DEF NoInsert, Answered
<1>2. ASSUME Answered(r)
      PROVE  /\ req' \in [Reqs -> Request]
             /\ \A s \in Reqs : req'[s] = req[s] \/ RequestKeepsMail(req[s])'
  <2>1. req' \in [Reqs -> Request] /\ \A s \in Reqs : req'[s] = req[s] \/ req'[s].pc = "idle"
    BY <1>2, AnsweredKeeps DEF Answered, Inv, TypeOK
  <2> QED BY <2>1 DEF RequestKeepsMail
<1>3. CASE RegisterUser(r) /\ ~NoInsert
  <2>1. Answered(r) /\ req[r].email \in Addresses
    BY <1>3, RequestOf DEF RegisterUser, RequestKeepsMail
  <2>2. PICK u \in Users : Insert(req[r].email, TRUE, u)
    BY <1>3 DEF RegisterUser
  <2> QED BY <1>0, <1>2, <2>1, <2>2, InsertKeeps
<1>4. CASE CreateUser(r)
  <2> DEFINE i == req[r].who
  <2>0. i \in Identities /\ req[r].email = MailOf(i) /\ req[r].email \in Addresses
    BY <1>4, RequestOf, AccountsAddresses DEF CreateUser, RequestKeepsMail
  <2>1. CASE NoInsert /\ Answered(r)
    BY <1>1, <2>1
  <2>2. CASE Answered(r) /\ \E u \in Users : Insert(req[r].email, FALSE, u)
    <3>1. PICK u \in Users : Insert(req[r].email, FALSE, u)
      BY <2>2
    <3> QED BY <1>0, <1>2, <2>0, <2>2, <3>1, InsertKeeps
  <2>3. CASE \E u \in Users : Insert(req[r].email, FALSE, u) /\ GotoWith(r, "link", u)
    <3>1. PICK u \in Users : Insert(req[r].email, FALSE, u) /\ GotoWith(r, "link", u)
      BY <2>3
    <3> DEFINE q == [req[r] EXCEPT !.pc = "link", !.user = u]
    <3>2. q \in Request /\ q.pc = "link" /\ q.user = u /\ q.who = i /\ q.email = req[r].email
      BY RequestMovesWith
    <3>3. u \in drawn' /\ rows'[u].email = req[r].email
      BY <2>0, <3>1, InsertWrites
    <3>4. req' \in [Reqs -> Request] /\ req'[r] = q /\ \A s \in Reqs : s # r => req'[s] = req[s]
      BY <3>1, <3>2 DEF GotoWith, Inv, TypeOK
    <3>5. RequestKeepsMail(req[r])'
      BY <2>0, <3>2, <3>3, <3>4 DEF RequestKeepsMail, FollowsMail, Spellings
    <3> QED BY <1>0, <2>0, <3>1, <3>4, <3>5, InsertKeeps
  <2> QED BY <1>4, <2>1, <2>2, <2>3 DEF CreateUser
<1> QED BY <1>1, <1>3, <1>4 DEF RegisterUser

LEMMA LinkKeeps == ASSUME Inv, NEW r \in Reqs, AddUserOAuth(r) PROVE Inv'
<1> DEFINE i == req[r].who
           u == req[r].user
           q == [req[r] EXCEPT !.pc = "session"]
<1>1. /\ i \in Identities /\ req[r].email = MailOf(i) /\ u \in drawn /\ FollowsMail(i, u)
      /\ u \in Users
  BY RequestOf DEF AddUserOAuth, RequestKeepsMail, Inv, TypeOK
<1>2. q \in Request /\ q.pc = "session" /\ q.user = u /\ q.who = i /\ q.email = req[r].email
  BY RequestMoves
<1>3. RequestKeepsMail(q)
  BY <1>1, <1>2 DEF RequestKeepsMail
<1>4. /\ req' \in [Reqs -> Request]
      /\ \A s \in Reqs : req'[s] = req[s] \/ RequestKeepsMail(req'[s])
  BY <1>2, <1>3 DEF AddUserOAuth, Goto, Inv, TypeOK
<1>5. /\ links' \in [Identities -> Users \cup {NoUser}]
      /\ \A j \in Identities : \/ links'[j] = links[j]
                               \/ HasRow(links'[j]) /\ FollowsMail(j, links'[j])
  <2>1. CASE links' = links
    BY <2>1 DEF Inv, TypeOK
  <2>2. CASE HasRow(u) /\ links' = [links EXCEPT ![i] = u]
    BY <1>1, <2>2 DEF Inv, TypeOK
  <2> QED BY <2>1, <2>2 DEF AddUserOAuth
<1>6. /\ UNCHANGED <<up, rows, drawn, entered>>
      /\ faults' \in 0 .. MaxFaults
      /\ up' \in BOOLEAN /\ entered' \in [Identities -> SUBSET Users]
  BY FaultsKept DEF AddUserOAuth, Inv, TypeOK
<1> QED BY <1>4, <1>5, <1>6, QuietKeeps

LEMMA SessionKeeps == ASSUME Inv, NEW r \in Reqs, OpenSession(r) PROVE Inv'
<1> DEFINE i == req[r].who
           u == req[r].user
<1>1. i \in Identities /\ u \in drawn /\ FollowsMail(i, u) /\ u \in Users
  BY RequestOf DEF OpenSession, RequestKeepsMail, Inv, TypeOK
<1>2. /\ req' \in [Reqs -> Request]
      /\ \A s \in Reqs : req'[s] = req[s] \/ RequestKeepsMail(req'[s])
  BY AnsweredKeeps DEF OpenSession, Answered, Inv, TypeOK
<1>3. /\ entered' \in [Identities -> SUBSET Users]
      /\ \A j \in Identities : \A v \in entered'[j] :
           v \in entered[j] \/ (v \in drawn /\ FollowsMail(j, v))
  BY <1>1 DEF OpenSession, Inv, TypeOK
<1>4. /\ UNCHANGED <<up, rows, drawn, links, faults>>
      /\ faults' \in 0 .. MaxFaults
      /\ up' \in BOOLEAN /\ links' \in [Identities -> Users \cup {NoUser}]
  BY DEF OpenSession, Inv, TypeOK
<1> QED BY <1>2, <1>3, <1>4, QuietKeeps

LEMMA DeletionKeeps == ASSUME Inv, NEW u \in Users, DeleteUser(u) PROVE Inv'
<1>1. NoRow \in UserRow /\ NoRow.email = NoEmail
  BY DEF NoRow, UserRow
<1>2. /\ rows' \in [Users -> UserRow] /\ ~HasRow(u)'
      /\ \A v \in Users : v # u => rows'[v] = rows[v]
  BY <1>1 DEF DeleteUser, HasRow, Inv, TypeOK
<1>3. TypeOK'
  BY <1>2 DEF DeleteUser, Inv, TypeOK
<1>4. Live' = Live \ {u}
  BY <1>2 DEF Live, HasRow
<1>5. \A v \in Users : HasRow(v)' => v # u /\ HasRow(v) /\ rows'[v] = rows[v]
  BY <1>2 DEF HasRow
<1>6. \A i : \A v \in Users : FollowsMail(i, v) => FollowsMail(i, v)'
  BY <1>5 DEF FollowsMail
<1>7. IdsAreNotReused'
  BY <1>4 DEF DeleteUser, Inv, IdsAreNotReused
<1>8. AddressesAreUnique'
  BY <1>2, <1>4 DEF Inv, AddressesAreUnique, Live
<1>9. LinksFollowMail'
  <2> SUFFICES ASSUME NEW i \in Identities, links'[i] # NoUser
               PROVE  HasRow(links[i])' /\ FollowsMail(i, links[i])'
    BY DEF LinksFollowMail
  <2>1. links'[i] = links[i] /\ links[i] # u /\ links[i] \in Users
    BY DEF DeleteUser, Inv, TypeOK
  <2>2. HasRow(links[i]) /\ FollowsMail(i, links[i])
    BY <2>1 DEF Inv, LinksFollowMail
  <2> QED BY <1>2, <2>1, <2>2 DEF HasRow, FollowsMail
<1>10. EnteredFollowsMail'
  BY <1>6 DEF DeleteUser, Inv, TypeOK, EnteredFollowsMail
<1>11. \A r \in Reqs : RequestKeepsMail(req[r])'
  <2> SUFFICES ASSUME NEW r \in Reqs PROVE RequestKeepsMail(req[r])'
    OBVIOUS
  <2>1. RequestKeepsMail(req[r]) /\ req'[r] = req[r] /\ drawn' = drawn /\ drawn \subseteq Users
    BY DEF DeleteUser, Inv, TypeOK
  <2> QED BY <1>6, <1>2, <2>1 DEF RequestKeepsMail, FollowsMail, HasRow
<1> QED BY <1>3, <1>7, <1>8, <1>9, <1>10, <1>11 DEF Inv

LEMMA StopKeeps == ASSUME Inv, Stop PROVE Inv'
<1>1. /\ req' \in [Reqs -> Request]
      /\ \A s \in Reqs : RequestKeepsMail(req'[s])
  BY AnsweredKeeps DEF Stop
<1>2. /\ UNCHANGED <<rows, drawn, links, entered>>
      /\ faults' \in 0 .. MaxFaults
      /\ up' \in BOOLEAN /\ links' \in [Identities -> Users \cup {NoUser}]
      /\ entered' \in [Identities -> SUBSET Users]
  BY FaultsKept DEF Stop, Inv, TypeOK
<1> QED BY <1>1, <1>2, QuietKeeps

LEMMA NextInv == ASSUME Inv, [Next]_vars PROVE Inv'
<1>1. CASE UNCHANGED vars
  BY <1>1, QuietKeeps DEF vars, Inv, TypeOK
<1>2. CASE EnsureDefaultAdmin
  BY <1>2, AdminKeeps
<1>3. ASSUME NEW r \in Reqs,
             \/ \E e \in Addresses : RegisterArrives(r, e)
             \/ \E i \in Identities : OAuthArrives(r, i)
      PROVE  Inv'
  BY <1>3, ArrivalsKeep
<1>4. ASSUME NEW r \in Reqs, RequestStep(r)
      PROVE  Inv'
  BY <1>4, LookupsKeep, InsertionsKeep, LinkKeeps, SessionKeeps DEF RequestStep
<1>5. ASSUME NEW u \in Users, DeleteUser(u)
      PROVE  Inv'
  BY <1>5, DeletionKeeps
<1>6. CASE Stop
  BY <1>6, StopKeeps
<1> QED BY <1>1, <1>2, <1>3, <1>4, <1>5, <1>6 DEF Next

-----------------------------------------------------------------------------
\* An id belongs to one account, an address to one account at a time, and links,
\* logins under way and logins that were have the address of their identity,
\* for any number of accounts, identities and requests (storage/user.go:383).
THEOREM AccountsInvariant == Spec => []Inv
<1>1. Init => Inv
  BY InitInv
<1>2. Inv /\ [Next]_vars => Inv'
  BY NextInv
<1> QED BY <1>1, <1>2, PTL DEF Spec

\* Of the accounts that an identity was ever let in to, one exists at most:
\* they have its address, which one account has.
THEOREM OneAccountPerIdentity == Spec => []SameAccountAgain
<1>1. Inv => SameAccountAgain
  <2> SUFFICES ASSUME Inv, NEW i \in Plain, NEW u \in entered[i], NEW v \in entered[i],
                      HasRow(u), HasRow(v)
               PROVE  u = v
    BY DEF SameAccountAgain
  <2>1. i \in Identities /\ MailOf(i) = ToLower(MailOf(i))
    BY DEF Plain
  <2>2. u \in Live /\ v \in Live
    BY <2>1 DEF Inv, TypeOK, Live
  <2>3. rows[u].email = MailOf(i) /\ rows[v].email = MailOf(i)
    BY <2>1 DEF Inv, EnteredFollowsMail, FollowsMail, Spellings
  <2> QED BY <2>2, <2>3 DEF Inv, AddressesAreUnique
<1> QED BY <1>1, AccountsInvariant, PTL

-----------------------------------------------------------------------------
(* Accounts implements Directory.                                          *)

\* Whom a request was recognised as.
GuestOf(q) == IF q.pc \in {"link", "session"} THEN Book!Recognised(q.who, q.user)
                                             ELSE Book!Outside

LEMMA GuestsAre == Guests = [r \in Reqs |-> GuestOf(req[r])]
  BY DEF Guests, GuestOf, Book!Recognised, Book!Outside

LEMMA GuestMoves ==
  ASSUME Inv, NEW r \in Reqs, NEW q, req' = [req EXCEPT ![r] = q]
  PROVE  /\ Guests[r] = GuestOf(req[r])
         /\ Guests' = [Guests EXCEPT ![r] = GuestOf(q)]
<1>1. Guests' = [s \in Reqs |-> GuestOf(req'[s])]
  BY DEF Guests, GuestOf, Book!Recognised, Book!Outside
<1>2. req'[r] = q /\ \A s \in Reqs : s # r => req'[s] = req[s]
  BY DEF Inv, TypeOK
<1> QED BY <1>1, <1>2, GuestsAre

LEMMA GuestStays ==
  ASSUME Inv, NEW r \in Reqs, NEW q, req' = [req EXCEPT ![r] = q],
         GuestOf(q) = GuestOf(req[r])
  PROVE  Guests' = Guests
  BY GuestMoves, GuestsAre

\* A recognised guest is not outside: the account has an id.
LEMMA RecognisedIsInside ==
  ASSUME NEW i, NEW u \in Users
  PROVE  /\ Book!Recognised(i, u) # Book!Outside
         /\ Book!Recognised(i, u).who = i
         /\ Book!Recognised(i, u).user = u
<1>1. Book!Recognised(i, u).user = u /\ Book!Outside.user = NoUser
  BY DEF Book!Recognised, Book!Outside
<1> QED BY <1>1, AccountsNulls DEF Book!Recognised

\* A step that leaves the rows alone shows in the guests only.
LEMMA HoldersStay == ASSUME UNCHANGED rows PROVE Holders' = Holders
  BY DEF Holders, Live, HasRow

LEMMA BookStutters ==
  ASSUME UNCHANGED <<rows, drawn, entered>>, Guests' = Guests
  PROVE  UNCHANGED Book!vars
  BY HoldersStay DEF Book!vars

LEMMA InsertIsBook ==
  ASSUME Inv, NEW e \in Addresses, NEW pw \in BOOLEAN, NEW u \in Users, Insert(e, pw, u)
  PROVE  Book!Enrols(e, u)
<1>1. u \notin drawn /\ drawn' = drawn \cup {u} /\ Untaken(e)
  BY DEF Insert
<1>2. /\ rows'[u].email = e
      /\ \A v \in Users : v # u => rows'[v] = rows[v]
      /\ Live' = Live \cup {u} /\ u \notin Live
  BY InsertWrites DEF Inv, IdsAreNotReused
<1>3. Holders[e] = {}
  BY <1>1 DEF Holders, Untaken
<1>4. Holders' = [Holders EXCEPT ![e] = {u}]
  <2>1. \A f \in Addresses :
          {v \in Live' : rows'[v].email = f} =
            IF f = e THEN {u} ELSE {v \in Live : rows[v].email = f}
    <3> SUFFICES ASSUME NEW f \in Addresses
                 PROVE  {v \in Live' : rows'[v].email = f} =
                          IF f = e THEN {u} ELSE {v \in Live : rows[v].email = f}
      OBVIOUS
    <3>1. \A v \in Live : v \in Users /\ v # u /\ rows'[v] = rows[v]
      BY <1>2 DEF Live
    <3>2. CASE f = e
      <4>1. \A v \in Live : rows'[v].email # e
        BY <1>1, <3>1 DEF Untaken
      <4> QED BY <1>2, <3>2, <4>1
    <3>3. CASE f # e
      BY <1>2, <3>1, <3>3
    <3> QED BY <3>2, <3>3
  <2> QED BY <2>1 DEF Holders
<1> QED BY <1>1, <1>3, <1>4 DEF Book!Enrols

LEMMA InsertIsEnrol ==
  ASSUME Inv, NEW e \in Addresses, NEW pw \in BOOLEAN, NEW u \in Users, Insert(e, pw, u),
         Guests' = Guests, UNCHANGED entered
  PROVE  Book!Next
<1>1. Book!Enrol(e, u)
  BY InsertIsBook DEF Book!Enrol
<1> QED BY <1>1 DEF Book!Next

LEMMA BookInit == Init => Book!Init
<1> SUFFICES ASSUME Init PROVE Book!Init
  OBVIOUS
<1>1. Live = {}
  BY DEF Init, Live, HasRow, NoRow
<1>2. Holders = [e \in Addresses |-> {}]
  BY <1>1 DEF Holders
<1>3. Guests = [r \in Reqs |-> Book!Outside]
  BY DEF Init, NoRequest, Guests, Book!Outside
<1> QED BY <1>2, <1>3 DEF Init, Book!Init

LEMMA AdminIsBook == ASSUME Inv, EnsureDefaultAdmin PROVE [Book!Next]_(Book!vars)
<1>1. UNCHANGED <<req, entered>> /\ Guests' = Guests
  BY DEF EnsureDefaultAdmin, Guests
<1>2. CASE NoInsert
  BY <1>1, <1>2, BookStutters DEF NoInsert
<1>3. CASE \E u \in Users : Insert(AdminEmail, TRUE, u)
  BY <1>1, <1>3, AccountsAddresses, InsertIsEnrol
<1> QED BY <1>2, <1>3 DEF EnsureDefaultAdmin

LEMMA ArrivalsAreBook ==
  ASSUME Inv, NEW r \in Reqs,
         \/ \E e \in Addresses : RegisterArrives(r, e)
         \/ \E i \in Identities : OAuthArrives(r, i)
  PROVE  UNCHANGED Book!vars
<1>1. PICK q : req' = [req EXCEPT ![r] = q] /\ q.pc \in {"exists", "identity"}
  <2>1. ASSUME NEW e \in Addresses, RegisterArrives(r, e)
        PROVE  \E q : req' = [req EXCEPT ![r] = q] /\ q.pc = "exists"
    <3> DEFINE q == [NoRequest EXCEPT !.pc = "exists", !.email = e]
    <3>1. q.pc = "exists"
      BY NewRequests
    <3>2. req' = [req EXCEPT ![r] = q]
      BY <2>1 DEF RegisterArrives
    <3> QED BY <3>1, <3>2
  <2>2. ASSUME NEW i \in Identities, OAuthArrives(r, i)
        PROVE  \E q : req' = [req EXCEPT ![r] = q] /\ q.pc = "identity"
    <3> DEFINE q == [NoRequest EXCEPT !.pc = "identity", !.who = i, !.email = MailOf(i)]
    <3>1. q.pc = "identity"
      BY NewRequests
    <3>2. req' = [req EXCEPT ![r] = q]
      BY <2>2 DEF OAuthArrives
    <3> QED BY <3>1, <3>2
  <2> QED BY <2>1, <2>2
<1>2. req[r].pc = "idle" /\ UNCHANGED <<rows, drawn, entered>>
  BY DEF RegisterArrives, OAuthArrives
<1>3. Guests' = Guests
  BY <1>1, <1>2, GuestStays DEF GuestOf
<1> QED BY <1>2, <1>3, BookStutters

\* A look-up that found an account: the guest goes in by its address.
LEMMA FoundIsEnter ==
  ASSUME Inv, NEW r \in Reqs, NEW u \in Users, NEW pc \in {"link", "session"},
         req[r].pc \in {"identity", "email"}, req[r].who \in Identities,
         HasRow(u), FollowsMail(req[r].who, u), GotoWith(r, pc, u),
         UNCHANGED <<rows, drawn, entered>>
  PROVE  Book!Next
<1> DEFINE i == req[r].who
           q == [req[r] EXCEPT !.pc = pc, !.user = u]
<1>1. q.pc = pc /\ q.user = u /\ q.who = i
  <2>1. req[r] \in Request
    BY DEF Inv, TypeOK
  <2> QED BY <2>1 DEF Request
<1>2. Guests[r] = Book!Outside
  BY GuestsAre DEF GuestOf
<1>3. Guests' = [Guests EXCEPT ![r] = Book!Recognised(i, u)]
  <2>1. req' = [req EXCEPT ![r] = q]
    BY DEF GotoWith
  <2>2. GuestOf(q) = Book!Recognised(i, u)
    BY <1>1 DEF GuestOf
  <2> HIDE DEF q
  <2> QED BY <2>1, <2>2, GuestMoves
<1>4. \E e \in SpellingsOf[i] : u \in Holders[e]
  <2>1. rows[u].email \in Spellings(i) /\ u \in Live
    BY DEF FollowsMail, Live
  <2>2. Spellings(i) \subseteq Addresses
    BY AccountsAddresses DEF Spellings
  <2>3. u \in Holders[rows[u].email]
    BY <2>1, <2>2 DEF Holders
  <2> QED BY <2>1, <2>3 DEF SpellingsOf
<1>5. Book!Enter(r, i, u)
  BY <1>2, <1>3, <1>4, HoldersStay DEF Book!Enter
<1> QED BY <1>5 DEF Book!Next

LEMMA LookupsAreBook ==
  ASSUME Inv, NEW r \in Reqs, CheckEmailExists(r) \/ GetUserByOAuth(r) \/ GetUserByEmail(r)
  PROVE  [Book!Next]_(Book!vars)
<1>1. /\ UNCHANGED <<rows, drawn, entered>>
      /\ req[r].pc \in {"exists", "identity", "email"}
  BY DEF CheckEmailExists, GetUserByOAuth, GetUserByEmail
<1>2. CASE Answered(r)
  <2>1. Guests' = Guests
    BY <1>1, <1>2, AnsweredKeeps, GuestStays DEF Answered, GuestOf
  <2> QED BY <1>1, <2>1, BookStutters
<1>3. ASSUME NEW pc \in {"insert", "email", "create"}, Goto(r, pc)
      PROVE  UNCHANGED Book!vars
  <2> DEFINE q == [req[r] EXCEPT !.pc = pc]
  <2>1. q.pc = pc
    BY RequestMoves
  <2>2. Guests' = Guests
    BY <1>1, <1>3, <2>1, GuestStays DEF Goto, GuestOf
  <2> QED BY <1>1, <2>2, BookStutters
<1>4. CASE CheckEmailExists(r)
  BY <1>2, <1>3, <1>4 DEF CheckEmailExists
<1>5. CASE GetUserByOAuth(r)
  <2> DEFINE u == links[req[r].who]
  <2>1. req[r].who \in Identities
    BY <1>5, RequestOf DEF GetUserByOAuth, RequestKeepsMail
  <2>2. CASE u # NoUser /\ HasRow(u) /\ GotoWith(r, "session", u)
    <3>1. u \in Users /\ FollowsMail(req[r].who, u)
      BY <2>1, <2>2 DEF Inv, TypeOK, LinksFollowMail
    <3>2. req[r].pc \in {"identity", "email"}
      BY <1>5 DEF GetUserByOAuth
    <3> QED BY <1>1, <2>1, <2>2, <3>1, <3>2, FoundIsEnter
  <2>3. CASE Goto(r, "email")
    BY <1>3, <2>3
  <2> QED BY <1>5, <2>2, <2>3 DEF GetUserByOAuth
<1>6. CASE GetUserByEmail(r)
  <2>1. req[r].who \in Identities /\ req[r].email = MailOf(req[r].who)
    BY <1>6, RequestOf DEF GetUserByEmail, RequestKeepsMail
  <2>2. CASE \E u \in Found(req[r].email) : GotoWith(r, "link", u)
    <3>1. PICK u \in Found(req[r].email) : GotoWith(r, "link", u)
      BY <2>2
    <3>2. u \in Users /\ HasRow(u) /\ FollowsMail(req[r].who, u)
      BY <2>1, <3>1, FoundHasMail DEF Inv
    <3>3. req[r].pc \in {"identity", "email"}
      BY <1>6 DEF GetUserByEmail
    <3> QED BY <1>1, <2>1, <3>1, <3>2, <3>3, FoundIsEnter
  <2>3. CASE Goto(r, "create")
    BY <1>3, <2>3
  <2> QED BY <1>6, <2>2, <2>3 DEF GetUserByEmail
<1> QED BY <1>4, <1>5, <1>6

LEMMA InsertionsAreBook ==
  ASSUME Inv, NEW r \in Reqs, RegisterUser(r) \/ CreateUser(r)
  PROVE  [Book!Next]_(Book!vars)
<1>1. UNCHANGED entered /\ req[r].pc \in {"insert", "create"}
  BY DEF RegisterUser, CreateUser
<1>2. req[r].email \in Addresses
  BY RequestOf, AccountsAddresses DEF RegisterUser, CreateUser, RequestKeepsMail
<1>3. ASSUME Answered(r) PROVE Guests' = Guests
  BY <1>1, <1>3, AnsweredKeeps, GuestStays DEF Answered, GuestOf
<1>4. CASE Answered(r) /\ NoInsert
  BY <1>1, <1>3, <1>4, BookStutters DEF NoInsert
<1>5. CASE Answered(r) /\ \E u \in Users, pw \in BOOLEAN : Insert(req[r].email, pw, u)
  BY <1>1, <1>2, <1>3, <1>5, InsertIsEnrol
<1>6. CASE /\ CreateUser(r)
           /\ \E u \in Users : Insert(req[r].email, FALSE, u) /\ GotoWith(r, "link", u)
  <2>1. PICK u \in Users : Insert(req[r].email, FALSE, u) /\ GotoWith(r, "link", u)
    BY <1>6
  <2> DEFINE i == req[r].who
             q == [req[r] EXCEPT !.pc = "link", !.user = u]
  <2>2. i \in Identities /\ req[r].email = MailOf(i)
    BY <1>6, RequestOf DEF CreateUser, RequestKeepsMail
  <2>3. q.pc = "link" /\ q.user = u /\ q.who = i
    BY RequestMovesWith
  <2>4. Guests[r] = Book!Outside
    BY <1>1, GuestsAre DEF GuestOf
  <2>5. Guests' = [Guests EXCEPT ![r] = Book!Recognised(i, u)]
    <3>1. req' = [req EXCEPT ![r] = q]
      BY <2>1 DEF GotoWith
    <3>2. GuestOf(q) = Book!Recognised(i, u)
      BY <2>3 DEF GuestOf
    <3> HIDE DEF q
    <3> QED BY <3>1, <3>2, GuestMoves
  <2>6. Book!Enrols(req[r].email, u)
    BY <1>2, <2>1, InsertIsBook
  <2>7. req[r].email \in SpellingsOf[i]
    BY <2>2 DEF SpellingsOf, Spellings
  <2>8. Book!EnrolAndEnter(r, i, u)
    BY <1>1, <2>4, <2>5, <2>6, <2>7 DEF Book!EnrolAndEnter
  <2> QED BY <2>2, <2>8 DEF Book!Next
<1>7. CASE RegisterUser(r)
  BY <1>4, <1>5, <1>7 DEF RegisterUser
<1>8. CASE CreateUser(r)
  BY <1>4, <1>5, <1>6, <1>8 DEF CreateUser
<1> QED BY <1>7, <1>8

LEMMA LinkIsBook == ASSUME Inv, NEW r \in Reqs, AddUserOAuth(r) PROVE UNCHANGED Book!vars
<1> DEFINE q == [req[r] EXCEPT !.pc = "session"]
<1>1. q.pc = "session" /\ q.who = req[r].who /\ q.user = req[r].user
  BY RequestMoves
<1>2. req[r].pc = "link" /\ req' = [req EXCEPT ![r] = q] /\ UNCHANGED <<rows, drawn, entered>>
  BY DEF AddUserOAuth, Goto
<1>3. Guests' = Guests
  <2>1. GuestOf(q) = GuestOf(req[r])
    BY <1>1, <1>2 DEF GuestOf
  <2> HIDE DEF q
  <2> QED BY <1>2, <2>1, GuestStays
<1> QED BY <1>2, <1>3, BookStutters

LEMMA SessionIsBook == ASSUME Inv, NEW r \in Reqs, OpenSession(r) PROVE Book!Next
<1>1. req[r].who \in Identities /\ req[r].user \in Users
  BY RequestOf DEF OpenSession, RequestKeepsMail, Inv, TypeOK
<1>2. Guests[r] = Book!Recognised(req[r].who, req[r].user)
  BY GuestsAre DEF OpenSession, GuestOf
<1>3. Guests' = [Guests EXCEPT ![r] = Book!Outside]
  BY AnsweredKeeps, GuestMoves DEF OpenSession, Answered, GuestOf
<1>4. /\ Guests[r] # Book!Outside
      /\ entered' = [entered EXCEPT ![Guests[r].who] = @ \cup {Guests[r].user}]
  <2>1. /\ Guests[r] # Book!Outside
        /\ Guests[r].who = req[r].who /\ Guests[r].user = req[r].user
    BY <1>1, <1>2, RecognisedIsInside
  <2> QED BY <2>1 DEF OpenSession
<1>5. Book!Admit(r)
  BY <1>3, <1>4, HoldersStay DEF OpenSession, Book!Admit
<1> QED BY <1>5 DEF Book!Next

LEMMA DeletionIsBook == ASSUME Inv, NEW u \in Users, DeleteUser(u) PROVE Book!Next
<1>1. NoRow.email = NoEmail
  BY DEF NoRow
<1>2. rows'[u].email = NoEmail /\ \A v \in Users : v # u => rows'[v] = rows[v]
  BY <1>1 DEF DeleteUser, Inv, TypeOK
<1>3. Live' = Live \ {u}
  BY <1>2 DEF Live, HasRow
<1>4. \A e \in Addresses :
        {v \in Live' : rows'[v].email = e} = {v \in Live : rows[v].email = e} \ {u}
  BY <1>2, <1>3 DEF Live
<1>5. Holders' = [e \in Addresses |-> Holders[e] \ {u}]
  BY <1>4 DEF Holders
<1>6. Guests' = Guests
  BY DEF DeleteUser, Guests
<1>7. Book!Close(u)
  BY <1>5, <1>6 DEF DeleteUser, Book!Close
<1> QED BY <1>7 DEF Book!Next

LEMMA StopIsBook == ASSUME Inv, Stop PROVE Book!Next
<1>1. Guests' = [r \in Reqs |-> Book!Outside]
  BY DEF Stop, NoRequest, Guests, Book!Outside
<1>2. Book!Stop
  BY <1>1, HoldersStay DEF Stop, Book!Stop
<1> QED BY <1>2 DEF Book!Next

LEMMA BookStep == ASSUME Inv, [Next]_vars PROVE [Book!Next]_(Book!vars)
<1>1. CASE UNCHANGED vars
  BY <1>1, BookStutters DEF vars, Guests
<1>2. CASE EnsureDefaultAdmin
  BY <1>2, AdminIsBook
<1>3. ASSUME NEW r \in Reqs,
             \/ \E e \in Addresses : RegisterArrives(r, e)
             \/ \E i \in Identities : OAuthArrives(r, i)
      PROVE  UNCHANGED Book!vars
  BY <1>3, ArrivalsAreBook
<1>4. ASSUME NEW r \in Reqs, RequestStep(r)
      PROVE  [Book!Next]_(Book!vars)
  BY <1>4, LookupsAreBook, InsertionsAreBook, LinkIsBook, SessionIsBook DEF RequestStep
<1>5. ASSUME NEW u \in Users, DeleteUser(u)
      PROVE  Book!Next
  BY <1>5, DeletionIsBook
<1>6. CASE Stop
  BY <1>6, StopIsBook
<1> QED BY <1>1, <1>2, <1>3, <1>4, <1>5, <1>6 DEF Next

\* Whatever links say or fail to say, and however first logins, registrations,
\* deletions and restarts meet, an identity is let in to the one account that had
\* its address when it was recognised, or that it was enrolled with
\* (storage/user.go:383), for any number of accounts, identities and requests.
THEOREM AccountsImplementDirectory == Spec => ImplementsDirectory
<1>1. Init => Book!Init
  BY BookInit
<1>2. Inv /\ [Next]_vars => [Book!Next]_(Book!vars)
  BY BookStep
<1> QED BY <1>1, <1>2, AccountsInvariant, PTL DEF Spec, ImplementsDirectory, Book!Spec
=============================================================================
