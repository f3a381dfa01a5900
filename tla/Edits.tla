-------------------------------- MODULE Edits --------------------------------
(***************************************************************************)
(* The rows of accounts and sites while several requests edit them.  Three *)
(* handlers read a row, change the columns they were asked to change and   *)
(* write more of them back; the others write one column at once.           *)
(*                                                                         *)
(* A column holds the number of the edit that wrote it, 0 from the         *)
(* insertion: what the texts, roles, settings and hashes are makes no      *)
(* difference here.                                                        *)
(***************************************************************************)
EXTENDS Naturals, FiniteSets

CONSTANTS
  Users,    \* ids of accounts
  Sites,    \* ids of sites
  Domains,
  Reqs,     \* requests in flight together
  NoRow, NoId,
  MaxEdits  \* bound on edits

ASSUME EditsIds == /\ Users \cap Sites = {}
                   /\ NoId \notin Users \cup Sites \cup Domains
ASSUME EditsBounds == MaxEdits \in Nat

UserColumns == {"name", "role", "avatar", "login", "password"}
SiteColumns == {"title", "origin", "status", "settings"}
Columns == UserColumns \cup SiteColumns
Ids == Users \cup Sites

Edit == 0 .. MaxEdits

\* The edits and the columns their requests may name.  A request for a profile
\* or a site names any of them, even none.
Kinds == {"profile", "avatar", "login", "password", "site", "status", "settings"}
Nameable(kind) ==
  CASE kind = "profile"  -> SUBSET {"name", "role", "avatar"}
    [] kind = "avatar"   -> {{"avatar"}}
    [] kind = "login"    -> {{"login"}}
    [] kind = "password" -> {{"password"}}
    [] kind = "site"     -> SUBSET {"title", "origin", "status"}
    [] kind = "status"   -> {{"status"}}
    [] kind = "settings" -> {{"settings"}}
OfUsers == {"profile", "avatar", "login", "password"}
Reading == {"profile", "password", "site"}

\* The columns of the UPDATE statement that, unless they are asked for, come from
\* the row as it was read.
\* (Mutation: an account is saved with its password.)
CarriedWithPassword(kind) ==
  CASE kind = "profile" -> UserColumns
    [] kind = "site"    -> SiteColumns
    [] OTHER            -> {}
Carried(kind) ==
  CASE kind = "profile" -> {"name", "role", "avatar", "login"}
    [] kind = "site"    -> {"title", "origin", "status", "settings"}
    [] OTHER            -> {}

VARIABLES
  rows,   \* tables users and sites
  owner,  \* sites.user_id
  domain, \* sites.domain
  drawn,  \* ids of sites that have had a row
  edits,  \* edits begun
  req     \* requests in progress

vars == <<rows, owner, domain, drawn, edits, req>>

Row == [Columns -> Edit]
ASSUME EditsNoRow == NoRow \notin Row
FreshRow == [c \in Columns |-> 0]

\* copy: the row as it was read.  knew: the password that the request names.
\* missed: history, the columns written by others since the row was read.
Request == [pc : {"idle", "read", "write"}, kind : Kinds, id : Ids \cup {NoId},
            asked : SUBSET Columns, edit : Edit, copy : Row,
            admin : BOOLEAN, knew : Edit, missed : SUBSET Columns]
NoRequest == [pc |-> "idle", kind |-> "login", id |-> NoId, asked |-> {}, edit |-> 0,
              copy |-> FreshRow, admin |-> FALSE, knew |-> 0, missed |-> {}]

TypeOK ==
  /\ rows \in [Ids -> Row \cup {NoRow}]
  /\ owner \in [Sites -> Users \cup {NoId}]
  /\ domain \in [Sites -> Domains \cup {NoId}]
  /\ drawn \in SUBSET Sites
  /\ edits \in Edit
  /\ req \in [Reqs -> Request]

Init ==
  /\ rows = [x \in Ids |-> IF x \in Users THEN FreshRow ELSE NoRow]
  /\ owner = [s \in Sites |-> NoId]
  /\ domain = [s \in Sites |-> NoId]
  /\ drawn = {}
  /\ edits = 0
  /\ req = [r \in Reqs |-> NoRequest]

HasRow(x) == rows[x] # NoRow
Tables == <<owner, domain, drawn>>

Answered(r) == req' = [req EXCEPT ![r] = NoRequest]

-----------------------------------------------------------------------------
(* An edit: UpdateUser, UpdateAvatar, UpdateLastLogin, ChangePassword,     *)
(* UpdateSite, ActivateSite, SuspendSite, UpdateSiteSettings.              *)

NewRequest(kind, x, asked, edit, admin, knew) ==
  [NoRequest EXCEPT !.pc = IF kind \in Reading THEN "read" ELSE "write",
                    !.kind = kind, !.id = x, !.asked = asked, !.edit = edit,
                    !.admin = admin, !.knew = knew]

Arrive(r, kind, x, asked, admin, knew) ==
  /\ req[r].pc = "idle" /\ edits < MaxEdits
  /\ x \in (IF kind \in OfUsers THEN Users ELSE Sites)
  /\ kind # "password" => ~admin /\ knew = 0
  /\ edits' = edits + 1
  /\ req' = [req EXCEPT ![r] = NewRequest(kind, x, asked, edits + 1, admin, knew)]
  /\ UNCHANGED <<rows, Tables>>

\* GetUserByID and GetSite; 404 when the row is gone, 401 when the password is
\* not the one that was named, unless an administrator changes another's.
MayRead(r) ==
  /\ HasRow(req[r].id)
  /\ req[r].kind = "password" =>
       req[r].admin \/ rows[req[r].id]["password"] = req[r].knew
ReadRow(r) ==
  /\ req[r].pc = "read"
  /\ \/ /\ MayRead(r)
        /\ req' = [req EXCEPT ![r].pc = "write", ![r].copy = rows[req[r].id]]
     \/ ~MayRead(r) /\ Answered(r)
  /\ UNCHANGED <<rows, Tables, edits>>

\* The row an edit writes.
\* (Mutation: what the request leaves out gets its value of the insertion.)
Blanked(q, row) ==
  [c \in Columns |-> IF c \in q.asked THEN q.edit
                     ELSE IF c \in Carried(q.kind) THEN 0 ELSE row[c]]
Edited(q, row) ==
  [c \in Columns |-> IF c \in q.asked THEN q.edit
                     ELSE IF c \in Carried(q.kind) THEN q.copy[c] ELSE row[c]]

\* The others under way at the same row miss what is written.
Miss(r, x, cols) ==
  [q \in Reqs |->
     IF q = r THEN NoRequest
     ELSE IF req[q].id = x /\ req[q].pc = "write"
       THEN [req[q] EXCEPT !.missed = @ \cup cols] ELSE req[q]]

\* The statement names the row by its id: none is written when it is gone
\* (404 or 500, but 200 for settings).
\* (Mutation: the row is made when it is gone.)
UpsertRow(r) ==
  LET q == req[r]
      row == IF HasRow(q.id) THEN rows[q.id] ELSE FreshRow
  IN
  /\ q.pc = "write"
  /\ rows' = [rows EXCEPT ![q.id] = Edited(q, row)]
  /\ req' = Miss(r, q.id, q.asked \cup Carried(q.kind))
  /\ UNCHANGED <<Tables, edits>>
WriteRow(r) ==
  LET q == req[r]
  IN
  /\ q.pc = "write" /\ HasRow(q.id)
  /\ rows' = [rows EXCEPT ![q.id] = Edited(q, rows[q.id])]
  /\ req' = Miss(r, q.id, q.asked \cup Carried(q.kind))
  /\ UNCHANGED <<Tables, edits>>

\* Nothing is written: the row is gone, the database fails, the client leaves.
GiveUp(r) ==
  /\ req[r].pc # "idle"
  /\ Answered(r)
  /\ UNCHANGED <<rows, Tables, edits>>

-----------------------------------------------------------------------------
(* Insertions and deletions, one statement or one transaction each.        *)

\* CreateSite: the id is random, which of the new ones makes no difference; the
\* domain is unique (409) and the owner must have a row (500).
\* (Mutation: no foreign key.)
InsertAnySite(s, u, d) ==
  /\ s \in Sites \ drawn /\ s = CHOOSE t \in Sites \ drawn : TRUE
  /\ \A t \in Sites : HasRow(t) => domain[t] # d
  /\ rows' = [rows EXCEPT ![s] = FreshRow]
  /\ owner' = [owner EXCEPT ![s] = u]
  /\ domain' = [domain EXCEPT ![s] = d]
  /\ drawn' = drawn \cup {s}
  /\ UNCHANGED <<edits, req>>
CreateSite(s, u, d) ==
  /\ s \in Sites \ drawn /\ s = CHOOSE t \in Sites \ drawn : TRUE
  /\ HasRow(u)
  /\ \A t \in Sites : HasRow(t) => domain[t] # d
  /\ rows' = [rows EXCEPT ![s] = FreshRow]
  /\ owner' = [owner EXCEPT ![s] = u]
  /\ domain' = [domain EXCEPT ![s] = d]
  /\ drawn' = drawn \cup {s}
  /\ UNCHANGED <<edits, req>>

DeleteSite(s) ==
  /\ HasRow(s)
  /\ rows' = [rows EXCEPT ![s] = NoRow]
  /\ UNCHANGED <<Tables, edits, req>>

\* The sites of the account go with it.
DeleteUser(u) ==
  /\ HasRow(u)
  /\ rows' = [x \in Ids |-> IF x = u \/ (x \in Sites /\ owner[x] = u) THEN NoRow ELSE rows[x]]
  /\ UNCHANGED <<Tables, edits, req>>

\* Requests name the ids that exist, existed or will, and passwords of then and
\* now.
Next ==
  \/ \E r \in Reqs :
       \/ \E kind \in Kinds, x \in Ids, admin \in BOOLEAN, knew \in 0 .. edits :
            \E asked \in Nameable(kind) : Arrive(r, kind, x, asked, admin, knew)
       \/ ReadRow(r)
       \/ WriteRow(r)
       \/ GiveUp(r)
  \/ \E s \in Sites : DeleteSite(s) \/ (\E u \in Users, d \in Domains : CreateSite(s, u, d))
  \/ \E u \in Users : DeleteUser(u)

Spec == Init /\ [][Next]_vars

-----------------------------------------------------------------------------
(* Properties.                                                             *)

\* The request whose row is being written.
Writes(r, x) == req[r].pc = "write" /\ req[r].id = x /\ req'[r] = NoRequest

\* handlers/site.go:113, handlers/user.go:390.  An edit that was not asked to
\* change a column changes it only if somebody wrote it since the edit read the
\* row: edits one after the other lose nothing, and edits of columns that no
\* statement carries along (password, and for an account all but its profile)
\* lose nothing at all.
LostOnlyToOverlap ==
  [][\A x \in Ids : \A c \in Columns :
       (HasRow(x) /\ HasRow(x)' /\ rows'[x][c] # rows[x][c]) =>
         \E r \in Reqs : /\ Writes(r, x)
                         /\ \/ c \in req[r].asked
                            \/ c \in Carried(req[r].kind) \cap req[r].missed]_vars

\* handlers/user.go:463.  A password is changed by an administrator or by somebody
\* who names the password in force; somebody else may have replaced it only
\* while the request was under way.  No other edit touches it.
PasswordsChangeByHolders ==
  [][\A u \in Users :
       (HasRow(u) /\ HasRow(u)' /\ rows'[u]["password"] # rows[u]["password"]) =>
         \E r \in Reqs : /\ Writes(r, u) /\ req[r].kind = "password"
                         /\ \/ req[r].admin
                            \/ rows[u]["password"] = req[r].knew
                            \/ "password" \in req[r].missed]_vars

\* No edit under way when a row was deleted brings it back.
DeletedStaysGone ==
  [][\A x \in Users \cup drawn : ~HasRow(x) => ~HasRow(x)']_vars

\* Sites have owners, and a domain one site, also when the owner is deleted
\* while a site is made.
SitesHaveOwners ==
  \A s \in Sites : HasRow(s) =>
    /\ owner[s] \in Users /\ HasRow(owner[s])
    /\ \A t \in Sites : HasRow(t) /\ domain[t] = domain[s] => t = s

\* The inductive invariant: a row that was read existed, its copy is the row except
\* for what was missed, and the password named was in the copy.
Existed(x) == x \in Users \cup drawn

CopyIsCurrent(q) ==
  q.pc = "write" /\ q.kind \in Reading =>
    /\ q.id \in Ids /\ Existed(q.id)
    /\ HasRow(q.id) => \A c \in Columns \ q.missed : q.copy[c] = rows[q.id][c]

AskedIsNameable(q) == q.pc # "idle" => q.id \in Ids /\ q.asked \in Nameable(q.kind)

HolderIsChecked(q) ==
  q.pc = "write" /\ q.kind = "password" => q.admin \/ q.copy["password"] = q.knew

Inv ==
  /\ TypeOK
  /\ \A x \in Ids : HasRow(x) => Existed(x)
  /\ \A r \in Reqs : /\ AskedIsNameable(req[r])
                     /\ CopyIsCurrent(req[r])
                     /\ HolderIsChecked(req[r])
  /\ SitesHaveOwners
=============================================================================
