----------------------------- MODULE EditsProofs -----------------------------
(***************************************************************************)
(* Edits: what concurrent edits may lose, for any number of rows, requests *)
(* and edits.                                                              *)
(***************************************************************************)
EXTENDS Edits, TLAPS

LEMMA ColumnsNamed ==
  /\ \A kind \in Kinds : \A asked \in Nameable(kind) : asked \subseteq Columns
  /\ \A kind \in Kinds : Carried(kind) \subseteq Columns
  /\ \A kind \in Kinds : kind \notin Reading => Carried(kind) = {}
  /\ "password" \in Columns
  /\ \A kind \in Kinds : "password" \notin Carried(kind)
<1>1. ASSUME NEW kind \in Kinds
      PROVE  /\ \A asked \in Nameable(kind) : asked \subseteq Columns
             /\ Carried(kind) \subseteq Columns
             /\ kind \notin Reading => Carried(kind) = {}
             /\ "password" \notin Carried(kind)
  <2>1. CASE kind = "profile"
    BY <2>1 DEF Nameable, Carried, Columns, UserColumns, SiteColumns, Reading
  <2>2. CASE kind = "site"
    BY <2>2 DEF Nameable, Carried, Columns, UserColumns, SiteColumns, Reading
  <2>3. CASE kind \in {"avatar", "login", "password"}
    BY <2>3 DEF Nameable, Carried, Columns, UserColumns, SiteColumns
  <2>4. CASE kind \in {"status", "settings"}
    BY <2>4 DEF Nameable, Carried, Columns, UserColumns, SiteColumns
  <2> QED BY <1>1, <2>1, <2>2, <2>3, <2>4 DEF Kinds
<1> QED BY <1>1 DEF Columns, UserColumns

\* The row an edit writes is a row, changed only where it was asked or carries.
LEMMA EditedRow ==
  ASSUME NEW q \in Request, NEW row \in Row
  PROVE  /\ Edited(q, row) \in Row
         /\ \A c \in Columns : c \notin q.asked \cup Carried(q.kind) => Edited(q, row)[c] = row[c]
         /\ \A c \in Columns : c \notin q.asked /\ c \in Carried(q.kind) =>
              Edited(q, row)[c] = q.copy[c]
  BY DEF Edited, Request, Row

\* What the others have noted after a row was written.
LEMMA MissNotes ==
  ASSUME TypeOK, NEW r \in Reqs, NEW x, NEW cols \in SUBSET Columns
  PROVE  LET m == Miss(r, x, cols)
         IN /\ m \in [Reqs -> Request]
            /\ m[r] = NoRequest
            /\ \A q \in Reqs : q # r =>
                 \/ /\ req[q].id # x \/ req[q].pc # "write"
                    /\ m[q] = req[q]
                 \/ /\ req[q].id = x
                    /\ m[q] = [req[q] EXCEPT !.missed = req[q].missed \cup cols]
<1>1. NoRequest \in Request
  BY EditsBounds DEF NoRequest, Request, FreshRow, Row, Edit, Kinds
<1>2. \A q \in Reqs : req[q] \in Request
  BY DEF TypeOK
<1>3. \A p \in Request : [p EXCEPT !.missed = p.missed \cup cols] \in Request
  BY DEF Request
<1> QED BY <1>1, <1>2, <1>3 DEF Miss

-----------------------------------------------------------------------------
LEMMA InitInv == Init => Inv
<1> SUFFICES ASSUME Init PROVE Inv
  OBVIOUS
<1>1. NoRequest \in Request /\ FreshRow \in Row
  BY EditsBounds DEF NoRequest, Request, FreshRow, Row, Edit, Kinds
<1>2. TypeOK
  BY <1>1, EditsBounds DEF Init, TypeOK, Edit
<1>3. \A x \in Ids : HasRow(x) => x \in Users
  BY DEF Init, HasRow
<1>4. \A r \in Reqs : req[r].pc = "idle"
  BY DEF Init, NoRequest
<1>5. SitesHaveOwners
  BY <1>3, EditsIds DEF SitesHaveOwners, Ids
<1> QED BY <1>2, <1>3, <1>4, <1>5 DEF Inv, Existed, CopyIsCurrent, HolderIsChecked, AskedIsNameable

\* A step that writes no row keeps Inv if the requests do.
LEMMA QuietKeeps ==
  ASSUME Inv, UNCHANGED <<rows, Tables>>, edits' \in Edit, req' \in [Reqs -> Request],
         \A r \in Reqs :
           \/ req'[r] = req[r]
           \/ /\ AskedIsNameable(req'[r])
              /\ CopyIsCurrent(req'[r])
              /\ HolderIsChecked(req'[r])
  PROVE  Inv'
<1>1. TypeOK'
  BY DEF Inv, TypeOK, Tables
<1>2. \A r \in Reqs : /\ AskedIsNameable(req'[r])
                      /\ CopyIsCurrent(req'[r])
                      /\ HolderIsChecked(req'[r])
  BY DEF Inv
<1>3. \A r \in Reqs : CopyIsCurrent(req[r])' /\ HolderIsChecked(req[r])'
  BY <1>2 DEF CopyIsCurrent, HolderIsChecked, Existed, HasRow, Tables
<1>4. SitesHaveOwners' /\ (\A x \in Ids : HasRow(x) => Existed(x))'
  BY DEF Inv, SitesHaveOwners, HasRow, Existed, Tables
<1> QED BY <1>1, <1>2, <1>3, <1>4 DEF Inv

LEMMA AnsweredKeeps ==
  ASSUME Inv, NEW r \in Reqs, Answered(r), UNCHANGED <<rows, Tables, edits>>
  PROVE  Inv'
<1>1. NoRequest \in Request /\ NoRequest.pc = "idle"
  BY EditsBounds DEF NoRequest, Request, FreshRow, Row, Edit, Kinds
<1>2. /\ req' \in [Reqs -> Request]
      /\ \A q \in Reqs : req'[q] = req[q] \/ req'[q].pc = "idle"
  BY <1>1 DEF Answered, Inv, TypeOK
<1>3. edits' \in Edit
  BY DEF Inv, TypeOK
<1> QED BY <1>2, <1>3, QuietKeeps DEF CopyIsCurrent, HolderIsChecked, AskedIsNameable

LEMMA NewRequestType ==
  ASSUME NEW kind \in Kinds, NEW x \in Ids, NEW asked \in SUBSET Columns, NEW e \in Edit,
         NEW admin \in BOOLEAN, NEW knew \in Edit
  PROVE  LET q == NewRequest(kind, x, asked, e, admin, knew)
         IN /\ q \in Request /\ q.id = x /\ q.kind = kind /\ q.asked = asked
            /\ kind \in Reading => q.pc = "read"
<1>1. FreshRow \in Row
  BY EditsBounds DEF FreshRow, Row, Edit
<1> QED BY <1>1 DEF NewRequest, NoRequest, Request

LEMMA ArriveKeeps ==
  ASSUME Inv, NEW r \in Reqs, NEW kind \in Kinds, NEW x \in Ids, NEW admin \in BOOLEAN,
         NEW knew \in 0 .. edits, NEW asked \in Nameable(kind),
         Arrive(r, kind, x, asked, admin, knew)
  PROVE  Inv'
<1> DEFINE q == NewRequest(kind, x, asked, edits + 1, admin, knew)
<1>1. /\ edits + 1 \in Edit /\ edits' = edits + 1 /\ knew \in Edit
      /\ asked \in SUBSET Columns
  BY ColumnsNamed, EditsBounds DEF Arrive, Edit, Inv, TypeOK
<1>2. /\ q \in Request /\ q.id = x /\ q.kind = kind /\ q.asked = asked
      /\ kind \in Reading => q.pc = "read"
  BY <1>1, NewRequestType
<1>3. req' \in [Reqs -> Request] /\ \A p \in Reqs : req'[p] = req[p] \/ req'[p] = q
  BY <1>2 DEF Arrive, Inv, TypeOK
<1>4. CopyIsCurrent(q) /\ HolderIsChecked(q) /\ AskedIsNameable(q)
  BY <1>2 DEF CopyIsCurrent, HolderIsChecked, AskedIsNameable, Reading
<1>5. UNCHANGED <<rows, Tables>>
  BY DEF Arrive
<1> HIDE DEF q
<1> QED BY <1>1, <1>2, <1>3, <1>4, <1>5, QuietKeeps

LEMMA ReadKeeps == ASSUME Inv, NEW r \in Reqs, ReadRow(r) PROVE Inv'
<1>1. CASE Answered(r)
  BY <1>1, AnsweredKeeps DEF ReadRow
<1>2. CASE MayRead(r) /\ req' = [req EXCEPT ![r].pc = "write", ![r].copy = rows[req[r].id]]
  <2> DEFINE x == req[r].id
             q == [req[r] EXCEPT !.pc = "write", !.copy = rows[x]]
  <2>0. req[r].pc = "read" /\ req[r] \in Request /\ AskedIsNameable(req[r]) /\ HasRow(x)
    BY <1>2 DEF ReadRow, MayRead, Inv, TypeOK
  <2>1. x \in Ids /\ req[r] \in Request /\ rows[x] \in Row /\ HasRow(x) /\ Existed(x)
    BY <2>0 DEF AskedIsNameable, Inv, TypeOK, HasRow
  <2>2. /\ q \in Request /\ q.pc = "write" /\ q.copy = rows[x] /\ q.id = x
        /\ q.kind = req[r].kind /\ q.admin = req[r].admin /\ q.knew = req[r].knew
        /\ q.asked = req[r].asked
    BY <2>1 DEF Request
  <2>3. CopyIsCurrent(q)
    BY <2>1, <2>2 DEF CopyIsCurrent
  <2>4. HolderIsChecked(q) /\ AskedIsNameable(q)
    BY <1>2, <2>0, <2>2 DEF HolderIsChecked, AskedIsNameable, MayRead
  <2>5. req' = [req EXCEPT ![r] = q] /\ req' \in [Reqs -> Request]
        /\ \A p \in Reqs : req'[p] = req[p] \/ req'[p] = q
    BY <1>2, <2>2 DEF Inv, TypeOK
  <2>6. UNCHANGED <<rows, Tables>> /\ edits' \in Edit
    BY DEF ReadRow, Inv, TypeOK
  <2> HIDE DEF q
  <2> QED BY <2>1, <2>2, <2>3, <2>4, <2>5, <2>6, QuietKeeps
<1> QED BY <1>1, <1>2 DEF ReadRow

\* What an UPDATE statement does to the rows.
LEMMA WriteFacts ==
  ASSUME Inv, NEW r \in Reqs, WriteRow(r)
  PROVE  LET q == req[r]
             cols == q.asked \cup Carried(q.kind)
         IN /\ q \in Request /\ q.pc = "write" /\ q.id \in Ids /\ HasRow(q.id)
            /\ rows[q.id] \in Row
            /\ cols \in SUBSET Columns
            /\ rows' \in [Ids -> Row \cup {NoRow}]
            /\ \A x \in Ids : HasRow(x)' <=> HasRow(x)
            /\ rows'[q.id] = Edited(q, rows[q.id])
            /\ \A x \in Ids : x # q.id => rows'[x] = rows[x]
<1> DEFINE q == req[r]
<1>1. q \in Request /\ q.pc = "write" /\ q.id \in Ids /\ HasRow(q.id) /\ rows[q.id] \in Row
  <2>1. q.pc = "write" /\ q \in Request /\ AskedIsNameable(q) /\ HasRow(q.id)
    BY DEF WriteRow, Inv, TypeOK
  <2> QED BY <2>1 DEF AskedIsNameable, Inv, TypeOK, HasRow
<1>2. q.kind \in Kinds /\ q.asked \in SUBSET Columns
  BY <1>1 DEF Request
<1>3. Edited(q, rows[q.id]) \in Row /\ Edited(q, rows[q.id]) # NoRow
  BY <1>1, EditedRow, EditsNoRow
<1>4. /\ rows' \in [Ids -> Row \cup {NoRow}]
      /\ rows'[q.id] = Edited(q, rows[q.id])
      /\ \A x \in Ids : x # q.id => rows'[x] = rows[x]
  BY <1>1, <1>3 DEF WriteRow, Inv, TypeOK
<1>5. \A x \in Ids : HasRow(x)' <=> HasRow(x)
  BY <1>1, <1>3, <1>4 DEF HasRow
<1> QED BY <1>1, <1>2, <1>4, <1>5, ColumnsNamed

LEMMA WriteKeeps == ASSUME Inv, NEW r \in Reqs, WriteRow(r) PROVE Inv'
<1> DEFINE q == req[r]
           cols == q.asked \cup Carried(q.kind)
<1>1. /\ q \in Request /\ q.id \in Ids /\ HasRow(q.id) /\ rows[q.id] \in Row
      /\ cols \in SUBSET Columns
      /\ rows' \in [Ids -> Row \cup {NoRow}]
      /\ \A x \in Ids : HasRow(x)' <=> HasRow(x)
      /\ rows'[q.id] = Edited(q, rows[q.id])
      /\ \A x \in Ids : x # q.id => rows'[x] = rows[x]
  BY WriteFacts
<1>2. UNCHANGED <<Tables, edits>> /\ req' = Miss(r, q.id, cols)
  BY DEF WriteRow
<1>3. /\ req' \in [Reqs -> Request] /\ req'[r] = NoRequest
      /\ \A p \in Reqs : p # r =>
           \/ /\ req[p].id # q.id \/ req[p].pc # "write"
              /\ req'[p] = req[p]
           \/ /\ req[p].id = q.id
              /\ req'[p] = [req[p] EXCEPT !.missed = req[p].missed \cup cols]
  <2>1. TypeOK
    BY DEF Inv
  <2> HIDE DEF q, cols
  <2> QED BY <1>1, <1>2, <2>1, MissNotes
<1>4. TypeOK'
  BY <1>1, <1>2, <1>3 DEF Inv, TypeOK, Tables
<1>5. SitesHaveOwners' /\ (\A x \in Ids : HasRow(x) => Existed(x))'
  BY <1>1, <1>2 DEF Inv, SitesHaveOwners, Existed, Tables, Ids, TypeOK
<1>6. ASSUME NEW p \in Reqs
      PROVE  /\ AskedIsNameable(req'[p])
             /\ CopyIsCurrent(req[p])'
             /\ HolderIsChecked(req[p])'
  <2>1. CASE p = r
    BY <1>3, <2>1 DEF NoRequest, CopyIsCurrent, HolderIsChecked, AskedIsNameable
  <2>2. CASE p # r /\ req'[p] = req[p] /\ (req[p].id # q.id \/ req[p].pc # "write")
    <3>1. /\ CopyIsCurrent(req[p]) /\ HolderIsChecked(req[p])
          /\ AskedIsNameable(req[p])
      BY DEF Inv
    <3>2. HolderIsChecked(req[p])'
      BY <2>2, <3>1 DEF HolderIsChecked
    <3>3. drawn' = drawn /\ (req[p].id \in Ids /\ req[p].pc = "write" => rows'[req[p].id] = rows[req[p].id])
      BY <1>1, <1>2, <2>2 DEF Tables
    <3>4. CopyIsCurrent(req[p])'
      BY <2>2, <3>1, <3>3 DEF CopyIsCurrent, Existed, HasRow
    <3> QED BY <2>2, <3>1, <3>2, <3>4
  <2>3. CASE /\ p # r /\ req[p].id = q.id
             /\ req'[p] = [req[p] EXCEPT !.missed = req[p].missed \cup cols]
    <3>1. /\ req[p] \in Request
          /\ CopyIsCurrent(req[p]) /\ HolderIsChecked(req[p])
          /\ AskedIsNameable(req[p])
      BY DEF Inv, TypeOK
    <3>2. /\ req'[p].pc = req[p].pc /\ req'[p].kind = req[p].kind /\ req'[p].id = q.id
          /\ req'[p].copy = req[p].copy /\ req'[p].missed = req[p].missed \cup cols
          /\ req'[p].admin = req[p].admin /\ req'[p].knew = req[p].knew
          /\ req'[p].asked = req[p].asked
      BY <2>3, <3>1 DEF Request
    <3>3. \A c \in Columns \ cols : rows'[q.id][c] = rows[q.id][c]
      BY <1>1, EditedRow
    <3>4. CopyIsCurrent(req[p])'
      <4>1. drawn' = drawn /\ (rows'[q.id] # NoRow <=> rows[q.id] # NoRow)
        BY <1>1, <1>2 DEF Tables, HasRow
      <4> HIDE DEF cols
      <4> QED BY <1>1, <2>3, <3>1, <3>2, <3>3, <4>1 DEF CopyIsCurrent, Existed, HasRow
    <3>5. HolderIsChecked(req[p])'
      BY <3>1, <3>2 DEF HolderIsChecked
    <3>6. AskedIsNameable(req'[p])
      BY <3>1, <3>2, <2>3 DEF AskedIsNameable
    <3> QED BY <3>4, <3>5, <3>6
  <2> QED BY <1>3, <2>1, <2>2, <2>3
<1> QED BY <1>4, <1>5, <1>6 DEF Inv
\* A step that writes or deletes rows of other ids than those of requests that
\* have read theirs.
LEMMA OthersKeep ==
  ASSUME Inv, UNCHANGED <<edits, req>>, drawn \subseteq drawn',
         NEW gone \in SUBSET Ids, NEW new \in SUBSET Ids,
         \A x \in new : ~Existed(x),
         \A x \in gone : rows'[x] = NoRow,
         \A x \in Ids \ (gone \cup new) : rows'[x] = rows[x]
  PROVE  \A r \in Reqs : /\ AskedIsNameable(req'[r])
                         /\ CopyIsCurrent(req[r])'
                         /\ HolderIsChecked(req[r])'
<1> SUFFICES ASSUME NEW r \in Reqs
             PROVE  /\ AskedIsNameable(req'[r])
                    /\ CopyIsCurrent(req[r])'
                    /\ HolderIsChecked(req[r])'
  OBVIOUS
<1>1. /\ CopyIsCurrent(req[r]) /\ HolderIsChecked(req[r])
      /\ AskedIsNameable(req[r])
      /\ req'[r] = req[r]
  BY DEF Inv
<1>2. HolderIsChecked(req[r])'
  BY <1>1 DEF HolderIsChecked
<1>3. CopyIsCurrent(req[r])'
  BY <1>1 DEF CopyIsCurrent, Existed, HasRow
<1> QED BY <1>1, <1>2, <1>3

LEMMA CreateFacts ==
  ASSUME Inv, NEW s \in Sites, NEW u \in Users, NEW d \in Domains, CreateSite(s, u, d)
  PROVE  /\ rows' \in [Ids -> Row \cup {NoRow}]
         /\ s \in Ids /\ ~Existed(s) /\ u \in Ids /\ HasRow(u)' /\ u # s
         /\ \A x \in Ids : x # s => rows'[x] = rows[x]
         /\ drawn' = drawn \cup {s}
         /\ owner'[s] = u /\ domain'[s] = d
         /\ \A t \in Sites : t # s => owner'[t] = owner[t] /\ domain'[t] = domain[t]
<1>1. FreshRow \in Row /\ s \in Ids /\ u \in Ids /\ u # s /\ s \notin Users
  BY EditsBounds, EditsIds DEF FreshRow, Row, Edit, Ids
<1>2. rows' = [rows EXCEPT ![s] = FreshRow] /\ HasRow(u) /\ s \notin drawn
  BY DEF CreateSite
<1>3. /\ rows' \in [Ids -> Row \cup {NoRow}]
      /\ \A x \in Ids : x # s => rows'[x] = rows[x]
  BY <1>1, <1>2 DEF Inv, TypeOK
<1>4. HasRow(u)' /\ ~Existed(s)
  BY <1>1, <1>2, <1>3 DEF HasRow, Existed
<1>5. /\ owner'[s] = u /\ domain'[s] = d /\ drawn' = drawn \cup {s}
      /\ \A t \in Sites : t # s => owner'[t] = owner[t] /\ domain'[t] = domain[t]
  BY DEF CreateSite, Inv, TypeOK
<1> QED BY <1>1, <1>3, <1>4, <1>5

LEMMA CreateKeeps ==
  ASSUME Inv, NEW s \in Sites, NEW u \in Users, NEW d \in Domains, CreateSite(s, u, d)
  PROVE  Inv'
<1>1. /\ rows' \in [Ids -> Row \cup {NoRow}]
      /\ s \in Ids /\ ~Existed(s) /\ u \in Ids /\ HasRow(u)' /\ u # s
      /\ \A x \in Ids : x # s => rows'[x] = rows[x]
      /\ drawn' = drawn \cup {s}
      /\ owner'[s] = u /\ domain'[s] = d
      /\ \A t \in Sites : t # s => owner'[t] = owner[t] /\ domain'[t] = domain[t]
  BY CreateFacts
<1>2. TypeOK'
  BY <1>1 DEF CreateSite, Inv, TypeOK
<1>3. \A x \in Ids : x # s => (HasRow(x)' <=> HasRow(x))
  BY <1>1 DEF HasRow
<1>4. \A x \in Ids : HasRow(x)' => Existed(x)'
  BY <1>1, <1>3 DEF Inv, Existed
<1>5. SitesHaveOwners'
  <2> SUFFICES ASSUME NEW t \in Sites, HasRow(t)'
               PROVE  /\ owner'[t] \in Users /\ HasRow(owner[t])'
                      /\ \A w \in Sites : HasRow(w)' /\ domain'[w] = domain'[t] => w = t
    BY DEF SitesHaveOwners
  <2>1. \A w \in Sites : w # s /\ HasRow(w)' =>
          HasRow(w) /\ domain'[w] # d /\ owner'[w] = owner[w] /\ owner[w] \in Users /\ HasRow(owner[w])
    BY <1>1, <1>3 DEF CreateSite, Inv, SitesHaveOwners, Ids
  <2>2. CASE t = s
    BY <1>1, <2>1, <2>2 DEF HasRow
  <2>3. CASE t # s
    <3>1. owner'[t] = owner[t] /\ owner[t] \in Users /\ HasRow(owner[t]) /\ owner[t] # s
      BY <2>1, <2>3, EditsIds
    <3>2. HasRow(owner[t])'
      BY <1>1, <3>1 DEF HasRow, Ids
    <3>3. ASSUME NEW w \in Sites, HasRow(w)', domain'[w] = domain'[t] PROVE w = t
      <4>1. w # s
        BY <1>1, <2>1, <2>3, <3>3
      <4> QED BY <1>1, <2>1, <2>3, <3>3, <4>1 DEF Inv, SitesHaveOwners
    <3> QED BY <3>1, <3>2, <3>3
  <2> QED BY <2>2, <2>3
<1>6. \A r \in Reqs : /\ AskedIsNameable(req'[r])
                      /\ CopyIsCurrent(req[r])'
                      /\ HolderIsChecked(req[r])'
  <2>1. UNCHANGED <<edits, req>> /\ drawn \subseteq drawn'
        /\ {} \in SUBSET Ids /\ {s} \in SUBSET Ids
    BY <1>1 DEF CreateSite
  <2>2. /\ \A x \in {s} : ~Existed(x)
        /\ \A x \in {} : rows'[x] = NoRow
        /\ \A x \in Ids \ ({} \cup {s}) : rows'[x] = rows[x]
    BY <1>1
  <2> QED BY <2>1, <2>2, OthersKeep
<1> QED BY <1>2, <1>4, <1>5, <1>6 DEF Inv

LEMMA DeletionsKeep ==
  ASSUME Inv, (\E s \in Sites : DeleteSite(s)) \/ (\E u \in Users : DeleteUser(u))
  PROVE  Inv'
<1>1. PICK gone \in SUBSET Ids :
        /\ rows' = [x \in Ids |-> IF x \in gone THEN NoRow ELSE rows[x]]
        /\ \A s \in Sites : HasRow(s) /\ owner[s] \in gone => s \in gone
  <2>1. ASSUME NEW s \in Sites, DeleteSite(s)
        PROVE  /\ rows' = [x \in Ids |-> IF x \in {s} THEN NoRow ELSE rows[x]]
               /\ \A t \in Sites : HasRow(t) /\ owner[t] \in {s} => t \in {s}
    BY <2>1, EditsIds DEF DeleteSite, Inv, TypeOK, SitesHaveOwners
  <2>2. ASSUME NEW u \in Users, DeleteUser(u)
        PROVE  LET gone == {x \in Ids : x = u \/ (x \in Sites /\ owner[x] = u)}
               IN /\ rows' = [x \in Ids |-> IF x \in gone THEN NoRow ELSE rows[x]]
                  /\ \A t \in Sites : HasRow(t) /\ owner[t] \in gone => t \in gone
    BY <2>2, EditsIds DEF DeleteUser, Inv, TypeOK, SitesHaveOwners, Ids
  <2>3. \A s \in Sites : {s} \in SUBSET Ids
    BY DEF Ids
  <2> QED BY <2>1, <2>2, <2>3
<1>2. UNCHANGED <<Tables, edits, req>>
  BY DEF DeleteSite, DeleteUser
<1>3. \A x \in Ids : /\ rows'[x] = IF x \in gone THEN NoRow ELSE rows[x]
                     /\ HasRow(x)' <=> x \notin gone /\ HasRow(x)
  BY <1>1 DEF HasRow
<1>4. TypeOK'
  BY <1>1, <1>2 DEF Inv, TypeOK, Tables
<1>5. \A x \in Ids : HasRow(x)' => Existed(x)'
  BY <1>2, <1>3 DEF Inv, Existed, Tables
<1>6. SitesHaveOwners'
  BY <1>1, <1>2, <1>3 DEF Inv, SitesHaveOwners, Tables, Ids
<1>7. \A r \in Reqs : /\ AskedIsNameable(req'[r])
                      /\ CopyIsCurrent(req[r])'
                      /\ HolderIsChecked(req[r])'
  <2>1. drawn \subseteq drawn' /\ UNCHANGED <<edits, req>> /\ {} \in SUBSET Ids
    BY <1>2 DEF Tables
  <2>2. /\ \A x \in gone : rows'[x] = NoRow
        /\ \A x \in Ids \ (gone \cup {}) : rows'[x] = rows[x]
    BY <1>3
  <2> QED BY <2>1, <2>2, OthersKeep
<1> QED BY <1>4, <1>5, <1>6, <1>7 DEF Inv

LEMMA NextInv == ASSUME Inv, [Next]_vars PROVE Inv'
<1>1. CASE UNCHANGED vars
  BY <1>1, QuietKeeps DEF vars, Tables, Inv, TypeOK
<1>2. ASSUME NEW r \in Reqs, NEW kind \in Kinds, NEW x \in Ids, NEW admin \in BOOLEAN,
             NEW knew \in 0 .. edits, NEW asked \in Nameable(kind),
             Arrive(r, kind, x, asked, admin, knew)
      PROVE  Inv'
  BY <1>2, ArriveKeeps
<1>3. ASSUME NEW r \in Reqs, ReadRow(r) \/ WriteRow(r) \/ GiveUp(r)
      PROVE  Inv'
  BY <1>3, ReadKeeps, WriteKeeps, AnsweredKeeps DEF GiveUp
<1>4. ASSUME NEW s \in Sites, NEW u \in Users, NEW d \in Domains, CreateSite(s, u, d)
      PROVE  Inv'
  BY <1>4, CreateKeeps
<1>5. CASE (\E s \in Sites : DeleteSite(s)) \/ (\E u \in Users : DeleteUser(u))
  BY <1>5, DeletionsKeep
<1> QED BY <1>1, <1>2, <1>3, <1>4, <1>5 DEF Next
-----------------------------------------------------------------------------
\* Sites have owners and domains one site, and what an edit has read is current
\* but for what others wrote meanwhile, for any number of rows and requests.
THEOREM EditsInvariant == Spec => []Inv
<1>1. Init => Inv
  BY InitInv
<1>2. Inv /\ [Next]_vars => Inv'
  BY NextInv
<1> QED BY <1>1, <1>2, PTL DEF Spec

THEOREM SitesAreOwned == Spec => []SitesHaveOwners
<1>1. Inv => SitesHaveOwners
  BY DEF Inv
<1> QED BY <1>1, EditsInvariant, PTL

\* The steps that change rows.
LEMMA RowsChange ==
  ASSUME Inv, Next, rows' # rows
  PROVE  \/ \E r \in Reqs : WriteRow(r)
         \/ \E s \in Sites : \E u \in Users : \E d \in Domains : CreateSite(s, u, d)
         \/ (\E s \in Sites : DeleteSite(s)) \/ (\E u \in Users : DeleteUser(u))
  BY DEF Next, Arrive, ReadRow, GiveUp

\* A column that is in a row before and after a step is changed by an edit that
\* was asked to change it, or carried along what it had missed.
LEMMA ChangedByEdit ==
  ASSUME Inv, [Next]_vars, NEW x \in Ids, NEW c \in Columns,
         HasRow(x), HasRow(x)', rows'[x][c] # rows[x][c]
  PROVE  \E r \in Reqs : /\ WriteRow(r) /\ Writes(r, x)
                         /\ \/ c \in req[r].asked
                            \/ c \in Carried(req[r].kind) \cap req[r].missed
<1>1. Next /\ rows' # rows
  BY DEF vars
<1>2. CASE \E r \in Reqs : WriteRow(r)
  <2>1. PICK r \in Reqs : WriteRow(r)
    BY <1>2
  <2> DEFINE q == req[r]
  <2>2. /\ q \in Request /\ q.pc = "write" /\ q.id \in Ids /\ HasRow(q.id)
        /\ rows[q.id] \in Row
        /\ rows'[q.id] = Edited(q, rows[q.id])
        /\ \A y \in Ids : y # q.id => rows'[y] = rows[y]
    BY <2>1, WriteFacts
  <2>3. x = q.id
    BY <2>2
  <2>4. req'[r] = NoRequest
    BY <2>1 DEF WriteRow, Miss
  <2>5. CASE c \in q.asked
    BY <2>1, <2>2, <2>3, <2>4, <2>5 DEF Writes
  <2>6. CASE c \notin q.asked
    <3>1. c \in Carried(q.kind) /\ rows'[x][c] = q.copy[c]
      BY <2>2, <2>3, <2>6, EditedRow
    <3>2. q.kind \in Reading
      BY <2>2, <3>1, ColumnsNamed DEF Request
    <3>3. \A b \in Columns \ q.missed : q.copy[b] = rows[x][b]
      BY <2>2, <2>3, <3>2 DEF Inv, CopyIsCurrent
    <3>4. c \in q.missed
      BY <3>1, <3>3
    <3> QED BY <2>1, <2>2, <2>3, <2>4, <3>1, <3>4 DEF Writes
  <2> QED BY <2>5, <2>6
<1>3. CASE \E s \in Sites : \E u \in Users : \E d \in Domains : CreateSite(s, u, d)
  <2>1. PICK s \in Sites : \E u \in Users : \E d \in Domains : CreateSite(s, u, d)
    BY <1>3
  <2>2. PICK u \in Users : \E d \in Domains : CreateSite(s, u, d)
    BY <2>1
  <2>3. PICK d \in Domains : CreateSite(s, u, d)
    BY <2>2
  <2>4. ~Existed(s) /\ \A y \in Ids : y # s => rows'[y] = rows[y]
    BY <2>3, CreateFacts
  <2> QED BY <2>4 DEF Inv
<1>4. CASE (\E s \in Sites : DeleteSite(s)) \/ (\E u \in Users : DeleteUser(u))
  <2>1. ASSUME NEW s \in Sites, DeleteSite(s) PROVE FALSE
    BY <2>1 DEF DeleteSite, HasRow, Inv, TypeOK
  <2>2. ASSUME NEW u \in Users, DeleteUser(u) PROVE FALSE
    BY <2>2 DEF DeleteUser, HasRow, Inv, TypeOK
  <2> QED BY <1>4, <2>1, <2>2
<1> QED BY <1>1, <1>2, <1>3, <1>4, RowsChange

\* Edits one after the other lose nothing, however many.
THEOREM EditsLoseOnlyToOverlap == Spec => LostOnlyToOverlap
<1>1. ASSUME Inv, [Next]_vars
      PROVE  \A x \in Ids : \A c \in Columns :
               (HasRow(x) /\ HasRow(x)' /\ rows'[x][c] # rows[x][c]) =>
                 \E r \in Reqs : /\ Writes(r, x)
                                 /\ \/ c \in req[r].asked
                                    \/ c \in Carried(req[r].kind) \cap req[r].missed
  BY <1>1, ChangedByEdit
<1> QED BY <1>1, EditsInvariant, PTL DEF Spec, LostOnlyToOverlap

\* Whoever changes a password is an administrator or named the one in force when
\* the change began.
THEOREM HoldersChangePasswords == Spec => PasswordsChangeByHolders
<1>1. ASSUME Inv, [Next]_vars
      PROVE  \A u \in Users :
               (HasRow(u) /\ HasRow(u)' /\ rows'[u]["password"] # rows[u]["password"]) =>
                 \E r \in Reqs : /\ Writes(r, u) /\ req[r].kind = "password"
                                 /\ \/ req[r].admin
                                    \/ rows[u]["password"] = req[r].knew
                                    \/ "password" \in req[r].missed
  <2> SUFFICES ASSUME NEW u \in Users, HasRow(u), HasRow(u)',
                      rows'[u]["password"] # rows[u]["password"]
               PROVE  \E r \in Reqs : /\ Writes(r, u) /\ req[r].kind = "password"
                                      /\ \/ req[r].admin
                                         \/ rows[u]["password"] = req[r].knew
                                         \/ "password" \in req[r].missed
    OBVIOUS
  <2>1. PICK r \in Reqs : /\ WriteRow(r) /\ Writes(r, u)
                          /\ \/ "password" \in req[r].asked
                             \/ "password" \in Carried(req[r].kind) \cap req[r].missed
    BY <1>1, ChangedByEdit, ColumnsNamed DEF Ids
  <2>2. req[r] \in Request /\ req[r].pc = "write" /\ req[r].id = u
    <3>1. TypeOK
      BY <1>1 DEF Inv
    <3> QED BY <2>1, <3>1 DEF Writes, TypeOK
  <2>3. "password" \in req[r].asked
    BY <2>1, <2>2, ColumnsNamed DEF Request
  <2>4. req[r].kind = "password"
    BY <1>1, <2>2, <2>3 DEF Inv, AskedIsNameable, Nameable, Kinds, Request
  <2>5. /\ CopyIsCurrent(req[r]) /\ HolderIsChecked(req[r])
    BY <1>1 DEF Inv
  <2> QED BY <2>1, <2>2, <2>4, <2>5, ColumnsNamed DEF CopyIsCurrent, HolderIsChecked, Reading
<1> QED BY <1>1, EditsInvariant, PTL DEF Spec, PasswordsChangeByHolders

\* What was deleted stays deleted.
THEOREM DeletedRowsStayGone == Spec => DeletedStaysGone
<1>1. ASSUME Inv, [Next]_vars
      PROVE  \A x \in Users \cup drawn : ~HasRow(x) => ~HasRow(x)'
  <2> SUFFICES ASSUME NEW x \in Users \cup drawn, rows[x] = NoRow, rows'[x] # NoRow
               PROVE  FALSE
    BY DEF HasRow
  <2>0. x \in Ids /\ Existed(x) /\ Next /\ rows' # rows
    BY <1>1 DEF Ids, Existed, vars, Inv, TypeOK
  <2>1. ASSUME NEW r \in Reqs, WriteRow(r) PROVE FALSE
    <3>1. HasRow(x)' <=> HasRow(x)
      BY <1>1, <2>0, <2>1, WriteFacts
    <3> QED BY <3>1 DEF HasRow
  <2>2. ASSUME NEW s \in Sites, NEW u \in Users, NEW d \in Domains, CreateSite(s, u, d)
        PROVE  FALSE
    BY <1>1, <2>0, <2>2, CreateFacts
  <2>3. ASSUME NEW s \in Sites, DeleteSite(s) PROVE FALSE
    BY <1>1, <2>0, <2>3 DEF DeleteSite, Inv, TypeOK
  <2>4. ASSUME NEW u \in Users, DeleteUser(u) PROVE FALSE
    BY <1>1, <2>0, <2>4 DEF DeleteUser, Inv, TypeOK
  <2> QED BY <1>1, <2>0, <2>1, <2>2, <2>3, <2>4, RowsChange
<1> QED BY <1>1, EditsInvariant, PTL DEF Spec, DeletedStaysGone
=============================================================================
