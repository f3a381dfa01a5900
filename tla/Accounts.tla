------------------------------ MODULE Accounts ------------------------------
(***************************************************************************)
(* Accounts and the ways into them: registration with an address and a     *)
(* password, first and later logins through the providers, the             *)
(* administrator made at the start of the server.  Sessions are the matter *)
(* of Access.                                                              *)
(*                                                                         *)
(* An address is a mailbox and the way its owner spells it.  What a        *)
(* provider says of an identity stays the same; the empty id, which a      *)
(* reply without a person decodes to, is an identity as any other.         *)
(***************************************************************************)
EXTENDS Naturals, FiniteSets, Sequences

CONSTANTS
  Users,      \* ids of accounts
  Identities, \* ids that a provider's reply may decode to
  Addresses,  \* records of Address that people use
  Profile,    \* what its provider says of an identity
  AdminEmail, \* DEFAULT_ADMIN_EMAIL, or Empty
  Empty,      \* the empty address
  Reqs,       \* requests in flight together
  NoUser, NoIdentity, NoEmail,
  MaxDeletes, \* bound on accounts deleted: with one of Users for each of them
              \* and for each of Addresses there is always an id left
  MaxFaults   \* bound on failures of the database and the process

Address(Boxes) == [box : Boxes, lower : BOOLEAN]
ToLower(e) == [e EXCEPT !.lower = TRUE]

\* GitHub keeps the address of many accounts to itself, and answers a second
\* question with the list of them all.
Listed(list) ==
  LET proved == SelectSeq(list, LAMBDA m : m.primary /\ m.verified)
  IN IF proved # <<>> THEN Head(proved).email
     ELSE IF list # <<>> THEN Head(list).email ELSE Empty
MailOf(i) ==
  IF Profile[i].provider = "github" /\ Profile[i].email = Empty
    THEN Listed(Profile[i].list) ELSE Profile[i].email

ASSUME AccountsNulls == /\ NoUser \notin Users
                        /\ NoIdentity \notin Identities
                        /\ NoEmail \notin Addresses
ASSUME AccountsAddresses == /\ \A e \in Addresses : ToLower(e) \in Addresses
                            /\ \A e \in Addresses : ToLower(ToLower(e)) = ToLower(e)
                            /\ Empty \in Addresses /\ ToLower(Empty) = Empty
                            /\ AdminEmail \in Addresses
                            /\ \A i \in Identities : MailOf(i) \in Addresses
ASSUME AccountsBounds == MaxDeletes \in Nat /\ MaxFaults \in Nat

VARIABLES
  up,      \* the server takes requests
  rows,    \* users table
  links,   \* user_oauth table, unique for an identity
  drawn,   \* ids that have had a row
  req,     \* requests in progress
  entered, \* history: the accounts an identity was let in to
  faults

vars == <<up, rows, links, drawn, req, entered, faults>>

-----------------------------------------------------------------------------
(* Records.                                                                *)

\* email = NoEmail: no row.  password: the row has one, from a registration or
\* from the environment.
UserRow == [email : Addresses \cup {NoEmail}, password : BOOLEAN]
NoRow == [email |-> NoEmail, password |-> FALSE]

\* Where a callback is: before GetUserByOAuth, GetUserByEmail, CreateUser,
\* AddUserOAuth or the session; and a registration: before CheckEmailExists or
\* CreateUser.
Request == [pc : {"idle", "identity", "email", "create", "link", "session",
                  "exists", "insert"},
            who : Identities \cup {NoIdentity}, email : Addresses \cup {NoEmail},
            user : Users \cup {NoUser}]
NoRequest == [pc |-> "idle", who |-> NoIdentity, email |-> NoEmail, user |-> NoUser]

TypeOK ==
  /\ up \in BOOLEAN
  /\ rows \in [Users -> UserRow]
  /\ links \in [Identities -> Users \cup {NoUser}]
  /\ drawn \in SUBSET Users
  /\ req \in [Reqs -> Request]
  /\ entered \in [Identities -> SUBSET Users]
  /\ faults \in 0 .. MaxFaults

Init ==
  /\ up = FALSE
  /\ rows = [u \in Users |-> NoRow]
  /\ links = [i \in Identities |-> NoUser]
  /\ drawn = {}
  /\ req = [r \in Reqs |-> NoRequest]
  /\ entered = [i \in Identities |-> {}]
  /\ faults = 0

-----------------------------------------------------------------------------
(* Helpers.                                                                *)

HasRow(u) == rows[u].email # NoEmail
Live == {u \in Users : HasRow(u)}

Fault == faults < MaxFaults /\ faults' = faults + 1

\* GetUserByEmail and CheckEmailExists look for the lower case of what they are
\* given, among the addresses as they were stored.
Found(e) == {u \in Live : rows[u].email = ToLower(e)}

\* CreateUser stores the address as it was given, and the index is on what is
\* stored.  The id is random: which of the new ones makes no difference.
\* (Mutation: the index leaves out the accounts without a password.)
UntakenByPassword(e) == \A u \in Live : rows[u].password => rows[u].email # e
Untaken(e) == \A u \in Live : rows[u].email # e
Insert(e, password, u) ==
  /\ Untaken(e)
  /\ u \in Users \ drawn /\ u = CHOOSE v \in Users \ drawn : TRUE
  /\ rows' = [rows EXCEPT ![u] = [email |-> e, password |-> password]]
  /\ drawn' = drawn \cup {u}
NoInsert == UNCHANGED <<rows, drawn>>

Goto(r, next) == req' = [req EXCEPT ![r].pc = next]
GotoWith(r, next, u) == req' = [req EXCEPT ![r].pc = next, ![r].user = u]
Answered(r) == req' = [req EXCEPT ![r] = NoRequest]

-----------------------------------------------------------------------------
(* The start of the server: ensureDefaultAdmin, before it listens.         *)

\* A failing look-up counts as none, and a failing insertion is logged.
EnsureDefaultAdmin ==
  LET insert == \E u \in Users : Insert(AdminEmail, TRUE, u)
      absent == AdminEmail # Empty /\ Found(AdminEmail) = {}
  IN
  /\ ~up /\ up' = TRUE
  /\ \/ absent /\ insert /\ UNCHANGED faults
     \/ ~(absent /\ Untaken(AdminEmail)) /\ NoInsert /\ UNCHANGED faults
     \/ AdminEmail # Empty /\ Fault /\ (insert \/ NoInsert)
  /\ UNCHANGED <<links, req, entered>>

-----------------------------------------------------------------------------
(* UserHandler.CreateUser.                                                 *)

RegisterArrives(r, e) ==
  /\ up /\ req[r].pc = "idle" /\ e # Empty
  /\ req' = [req EXCEPT ![r] = [NoRequest EXCEPT !.pc = "exists", !.email = e]]
  /\ UNCHANGED <<up, rows, links, drawn, entered, faults>>

\* 409; an error counts as no.
CheckEmailExists(r) ==
  /\ req[r].pc = "exists"
  /\ \/ Found(req[r].email) # {} /\ Answered(r) /\ UNCHANGED faults
     \/ Found(req[r].email) = {} /\ Goto(r, "insert") /\ UNCHANGED faults
     \/ Fault /\ Goto(r, "insert")
  /\ UNCHANGED <<up, rows, links, drawn, entered>>

\* 201, or 500 for an address that is taken by now or a failure.
RegisterUser(r) ==
  LET insert == \E u \in Users : Insert(req[r].email, TRUE, u)
  IN
  /\ req[r].pc = "insert"
  /\ \/ insert /\ UNCHANGED faults
     \/ ~Untaken(req[r].email) /\ NoInsert /\ UNCHANGED faults
     \/ Fault /\ (insert \/ NoInsert)
  /\ Answered(r)
  /\ UNCHANGED <<up, links, entered>>

-----------------------------------------------------------------------------
(* The callbacks of the providers with GetOrCreateUserByOAuth.             *)

\* The provider takes the code and its reply decodes to an identity; when one
\* of the two fails, the request ends with an error.  Nobody looks at the status
\* of the reply: an error written as a JSON object is the identity with the empty
\* id and address, and logs in.  Only of GitHub an address is required.
OAuthArrives(r, i) ==
  /\ up /\ req[r].pc = "idle"
  /\ Profile[i].provider = "github" => MailOf(i) # Empty
  /\ req' = [req EXCEPT ![r] = [NoRequest EXCEPT !.pc = "identity", !.who = i,
                                                 !.email = MailOf(i)]]
  /\ UNCHANGED <<up, rows, links, drawn, entered, faults>>

\* The account joined with its links.
GetUserByOAuth(r) ==
  LET u == links[req[r].who]
      found == u # NoUser /\ HasRow(u)
  IN
  /\ req[r].pc = "identity"
  /\ \/ found /\ GotoWith(r, "session", u) /\ UNCHANGED faults
     \/ ~found /\ Goto(r, "email") /\ UNCHANGED faults
     \/ Fault /\ Goto(r, "email")
  /\ UNCHANGED <<up, rows, links, drawn, entered>>

\* (Mutation: an account that is known by its address only is not taken.)
SkipUserByEmail(r) ==
  /\ req[r].pc = "email"
  /\ Goto(r, "create")
  /\ UNCHANGED <<up, rows, links, drawn, entered, faults>>
GetUserByEmail(r) ==
  /\ req[r].pc = "email"
  /\ \/ /\ \E u \in Found(req[r].email) : GotoWith(r, "link", u)
        /\ UNCHANGED faults
     \/ Found(req[r].email) = {} /\ Goto(r, "create") /\ UNCHANGED faults
     \/ Fault /\ Goto(r, "create")
  /\ UNCHANGED <<up, rows, links, drawn, entered>>

\* Somebody else may have taken the address since: 500.
CreateUser(r) ==
  /\ req[r].pc = "create"
  /\ \/ /\ \E u \in Users : /\ Insert(req[r].email, FALSE, u)
                            /\ GotoWith(r, "link", u)
        /\ UNCHANGED faults
     \/ ~Untaken(req[r].email) /\ NoInsert /\ Answered(r) /\ UNCHANGED faults
     \/ /\ Fault
        /\ \/ \E u \in Users : Insert(req[r].email, FALSE, u)
           \/ NoInsert
        /\ Answered(r)
  /\ UNCHANGED <<up, links, entered>>

\* ON CONFLICT DO NOTHING; an account that was deleted meanwhile is refused by
\* the foreign key.  Whatever comes of it, the login goes on.
AddUserOAuth(r) ==
  LET i == req[r].who
      linked == links' = IF links[i] = NoUser /\ HasRow(req[r].user)
                           THEN [links EXCEPT ![i] = req[r].user] ELSE links
  IN
  /\ req[r].pc = "link"
  /\ \/ linked /\ UNCHANGED faults
     \/ Fault /\ (linked \/ UNCHANGED links)
  /\ Goto(r, "session")
  /\ UNCHANGED <<up, rows, drawn, entered>>

OpenSession(r) ==
  /\ req[r].pc = "session"
  /\ entered' = [entered EXCEPT ![req[r].who] = @ \cup {req[r].user}]
  /\ Answered(r)
  /\ UNCHANGED <<up, rows, links, drawn, faults>>

RequestStep(r) ==
  \/ CheckEmailExists(r)
  \/ RegisterUser(r)
  \/ GetUserByOAuth(r)
  \/ GetUserByEmail(r)
  \/ CreateUser(r)
  \/ AddUserOAuth(r)
  \/ OpenSession(r)

-----------------------------------------------------------------------------
\* An administrator deletes an account: its links and its row go together.
\* (Mutation: the links stay.)
DeleteRowOnly(u) ==
  /\ up /\ HasRow(u) /\ Cardinality(drawn \ Live) < MaxDeletes
  /\ rows' = [rows EXCEPT ![u] = NoRow]
  /\ UNCHANGED <<up, links, drawn, req, entered, faults>>
DeleteUser(u) ==
  /\ up /\ HasRow(u) /\ Cardinality(drawn \ Live) < MaxDeletes
  /\ links' = [i \in Identities |-> IF links[i] = u THEN NoUser ELSE links[i]]
  /\ rows' = [rows EXCEPT ![u] = NoRow]
  /\ UNCHANGED <<up, drawn, req, entered, faults>>

\* The process ends; it starts anew with EnsureDefaultAdmin.
Stop ==
  /\ up /\ Fault
  /\ up' = FALSE
  /\ req' = [r \in Reqs |-> NoRequest]
  /\ UNCHANGED <<rows, links, drawn, entered>>

Next ==
  \/ EnsureDefaultAdmin
  \/ \E r \in Reqs :
       \/ \E e \in Addresses : RegisterArrives(r, e)
       \/ \E i \in Identities : OAuthArrives(r, i)
       \/ RequestStep(r)
  \/ \E u \in Users : DeleteUser(u)
  \/ Stop

\* The server is started again, requests run to their end, and every identity
\* logs in again and again: strong fairness, as a slot of Reqs may be taken by
\* others at times, which the server has no bound for.  (The instance has no
\* empty identity, which nobody would log in with by intent.)
Fairness ==
  /\ WF_vars(EnsureDefaultAdmin)
  /\ \A r \in Reqs : WF_vars(RequestStep(r))
  /\ \A i \in Identities : SF_vars(\E r \in Reqs : OAuthArrives(r, i))

Spec == Init /\ [][Next]_vars
FairSpec == Spec /\ Fairness

-----------------------------------------------------------------------------
(* Properties.                                                             *)

\* The addresses of an account that an identity may be linked to.
Spellings(i) == {MailOf(i), ToLower(MailOf(i))}

\* The identities whose provider writes their address in lower case, as the
\* look-up does.  The others may be parted from their account when its link
\* could not be written: the address they come with is not found again.
Plain == {i \in Identities : MailOf(i) = ToLower(MailOf(i))}

\* docs/1_SRS.md:64-67: a login finds the account or makes it.  Of the accounts
\* an identity was ever let in to, one exists at most: two first logins at once,
\* a registration in between, a link that could not be written or looked up do
\* not part a person from the account.
SameAccountAgain ==
  \A i \in Plain : \A u, v \in entered[i] : HasRow(u) /\ HasRow(v) => u = v

\* ... and as long as the identity comes back it gets in to an account that
\* exists, whatever failed before.
GetsIn(i) == \E r \in Reqs : /\ req[r].pc = "session" /\ req[r].who = i
                             /\ HasRow(req[r].user)
KeepsGettingIn == \A i \in Plain : []<>GetsIn(i)

\* Directory: whatever the links say or fail to say, and however first logins,
\* registrations and deletions meet, an identity is let in to the one account
\* that has its address at the instant of a look-up, or of the insertion.
Holders == [e \in Addresses |-> {u \in Live : rows[u].email = e}]
Guests == [r \in Reqs |-> IF req[r].pc \in {"link", "session"}
                            THEN [who |-> req[r].who, user |-> req[r].user]
                            ELSE [who |-> NoIdentity, user |-> NoUser]]
SpellingsOf == [i \in Identities |-> Spellings(i)]

Book == INSTANCE Directory WITH
  holders <- Holders, enrolled <- drawn, guest <- Guests, admitted <- entered

ImplementsDirectory == Book!Spec

\* The inductive invariant.
IdsAreNotReused ==
  /\ Live \subseteq drawn
  /\ \A i \in Identities : entered[i] \subseteq drawn

AddressesAreUnique ==
  \A u, v \in Live : rows[u].email = rows[v].email => u = v

\* If account u exists, it has the address of identity i.
FollowsMail(i, u) == HasRow(u) => rows[u].email \in Spellings(i)

LinksFollowMail ==
  \A i \in Identities : links[i] # NoUser => HasRow(links[i]) /\ FollowsMail(i, links[i])

EnteredFollowsMail == \A i \in Identities : \A u \in entered[i] : FollowsMail(i, u)

RequestKeepsMail(q) ==
  /\ q.pc \in {"exists", "insert"} => q.email \in Addresses
  /\ q.pc \in {"identity", "email", "create", "link", "session"} =>
       q.who \in Identities /\ q.email = MailOf(q.who)
  /\ q.pc \in {"link", "session"} => q.user \in drawn /\ FollowsMail(q.who, q.user)

\* An id belongs to one account for ever, an address to one account at a time,
\* and whatever an identity is linked with, about to be let in to or was let in
\* to has the address its provider reports, however first logins, registrations
\* and deletions interleave.
Inv ==
  /\ TypeOK
  /\ IdsAreNotReused
  /\ AddressesAreUnique
  /\ LinksFollowMail
  /\ EnteredFollowsMail
  /\ \A r \in Reqs : RequestKeepsMail(req[r])
=============================================================================
